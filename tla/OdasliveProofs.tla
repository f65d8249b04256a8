--------------------------- MODULE OdasliveProofs ---------------------------
(***************************************************************************)
(* Theorems about Odaslive: for any set of configurations whose rates and  *)
(* hop sizes are positive, the single-threaded loop of odaslive never      *)
(* meets a message of the wrong time stamp nor a format without a case,    *)
(* and its sinks have had every frame, in order, when it ends; and in one  *)
(* thread or many, each destructor frees what its constructor allocated,   *)
(* but for the losses that KnownLeaks names.                               *)
(***************************************************************************)
EXTENDS Odaslive, TLAPS

(***************************************************************************)
(* The loop                                                                *)
(***************************************************************************)
\* Where the loop calls the process function of an object,
Place ==
    [src_hops_mics |-> 1, con_hops_mics_raw |-> 2, mod_mapping_mics |-> 3, con_hops_mics_map |-> 4,
     con_hops_mics_rs |-> 7, mod_stft_mics |-> 8, con_spectra_mics |-> 9, mod_noise_mics |-> 10,
     con_powers_mics |-> 11, mod_ssl |-> 12, con_pots_ssl |-> 13, snk_pots_ssl |-> 14,
     inj_targets_sst |-> 15, con_targets_sst |-> 16, mod_sst |-> 17, con_tracks_sst |-> 18,
     snk_tracks_sst |-> 19, mod_sss |-> 20, con_spectra_seps |-> 21, con_spectra_pfs |-> 22,
     mod_istft_seps |-> 23, mod_istft_pfs |-> 24, con_hops_seps |-> 25, con_hops_pfs |-> 26,
     con_hops_seps_rs |-> 30, mod_volume_seps |-> 31, con_hops_seps_vol |-> 32,
     snk_hops_seps_vol |-> 33, con_hops_pfs_rs |-> 35, mod_volume_pfs |-> 36,
     con_hops_pfs_vol |-> 37, snk_hops_pfs_vol |-> 38, mod_classify |-> 39,
     con_categories |-> 40, snk_categories |-> 41]

\* and those of a resampler.
PushPlace == [mod_resample_mics |-> 5, mod_resample_seps |-> 27, mod_resample_pfs |-> 28]
PopPlace  == [mod_resample_mics |-> 6, mod_resample_seps |-> 29, mod_resample_pfs |-> 34]

\* Where a connector is given its input,
FedAt ==
    [con_hops_mics_raw |-> 1, con_hops_mics_map |-> 3, con_hops_mics_rs |-> 6, con_spectra_mics |-> 8,
     con_powers_mics |-> 10, con_pots_ssl |-> 12, con_targets_sst |-> 15, con_tracks_sst |-> 17,
     con_spectra_seps |-> 20, con_spectra_pfs |-> 20, con_hops_seps |-> 23, con_hops_pfs |-> 24,
     con_hops_seps_rs |-> 29, con_hops_seps_vol |-> 31, con_hops_pfs_rs |-> 34,
     con_hops_pfs_vol |-> 36, con_categories |-> 39]

\* and whose time stamps its messages bear.
Clocks == Resamplers \cup {"src_hops_mics"}

Clock(con) ==
    CASE con \in {"con_hops_mics_raw", "con_hops_mics_map"} -> "src_hops_mics"
      [] con \in {"con_hops_seps_rs", "con_hops_seps_vol"}  -> "mod_resample_seps"
      [] con \in {"con_hops_pfs_rs", "con_hops_pfs_vol"}    -> "mod_resample_pfs"
      [] OTHER -> "mod_resample_mics"

\* The part of the loop that is repeated for each time stamp of a clock.
Loop == [src_hops_mics |-> 1 .. 5, mod_resample_mics |-> 6 .. 41,
         mod_resample_seps |-> 29 .. 33, mod_resample_pfs |-> 34 .. 38]

InLoop(x) == phase = "process" /\ at \in Loop[x]

\* The modules that must be enabled for the data of a connector to be real.
Tracking   == {"mod_ssl", "mod_sst"}
Separating == Tracking \cup {"mod_sss"}
Needs(con) ==
    CASE con = "con_powers_mics"   -> {"mod_noise_mics"}
      [] con = "con_pots_ssl"      -> {"mod_ssl"}
      [] con = "con_tracks_sst"    -> Tracking
      [] con = "con_spectra_seps"  -> Separating
      [] con = "con_spectra_pfs"   -> Separating \cup {"mod_noise_mics"}
      [] con \in {"con_hops_seps", "con_hops_seps_rs"} -> Separating \cup {"mod_istft_seps"}
      [] con \in {"con_hops_pfs", "con_hops_pfs_rs"} ->
             Separating \cup {"mod_noise_mics", "mod_istft_pfs"}
      [] con = "con_hops_seps_vol" -> Separating \cup {"mod_istft_seps", "mod_volume_seps"}
      [] con = "con_hops_pfs_vol"  ->
             Separating \cup {"mod_noise_mics", "mod_istft_pfs", "mod_volume_pfs"}
      [] con = "con_categories"    -> Separating \cup {"mod_istft_seps", "mod_classify"}
      [] OTHER -> {}

Wired == DOMAIN Connectors

\* In this round the connector has been given its input, and has passed it on.
Fed(con)    == InLoop(Clock(con)) /\ at > FedAt[con]
Passed(con) == InLoop(Clock(con)) /\ at > Place[con]

Current(msg, con) == /\ msg.ts = stamp[Clock(con)] /\ msg.ts # 0
                     /\ Needs(con) \subseteq Enabled(c) => msg.real

Bit(b) == IF b THEN 1 ELSE 0

-----------------------------------------------------------------------------
(* The invariant.                                                            *)
StampedMessage == [ts : Nat, real : BOOLEAN]
Filling == [n : Nat, real : BOOLEAN]

Types ==
    /\ c \in Configs
    /\ phase \in {"configure", "construct", "open", "process", "close", "destroy", "unconfigure",
                  "done", "exit"}
    /\ at \in Nat \ {0} /\ (phase = "process" => at <= 41) /\ (phase \in {"open", "close"} => at <= 6)
    /\ in \in [Wired -> StampedMessage] /\ out \in [Wired -> StampedMessage]
    /\ fill \in [Resamplers -> Filling]
    /\ stamp \in [Clocks -> Nat]
    /\ sent \in [Sinks -> Seq(StampedMessage)]
    /\ reads \in Nat /\ rtn \in {0, -1} /\ carried \in Seq(Int) /\ buffer \in Int

Serving == {"open", "process", "close"}

\* Endpoints have been accepted by their constructors before they are opened.
Accepted ==
    /\ phase = "configure" => at = 1
    /\ phase = "construct" =>
         /\ at <= Len(ConstructOrder)
         /\ configs_construct(c) /\ \A i \in 1 .. at - 1 : ~Refused(ConstructOrder[i], c)
    /\ phase \in Serving =>
         /\ configs_construct(c) /\ \A name \in Endpoints : ~Refused(name, c)

\* What the loop has computed so far in this round bears the stamp of its clock.
Flow == \A con \in Wired : /\ Fed(con) => Current(in[con], con)
                           /\ Passed(con) => Current(out[con], con)

RealFill == \A r \in Resamplers : Needs(In(r, 1)) \subseteq Enabled(c) => fill[r].real

\* A sink has written one message for each time stamp, except the one on its way.
SentInOrder ==
    \A s \in Sinks : \A i \in DOMAIN sent[s] : sent[s][i].ts = i /\ (Wants(s, c) => sent[s][i].real)

Pending(s) == LET x == Clock(In(s, 1)) IN InLoop(x) /\ at > PopPlace[x] /\ at <= Place[s]
AllSent ==
    phase # "exit" =>
        \A s \in Sinks : Len(sent[s]) + Bit(Pending(s)) = stamp[Clock(In(s, 1))]

\* Hops that a resampler has been given, and what is left of them.
Input == [mod_resample_mics |-> "src_hops_mics", mod_resample_seps |-> "mod_resample_mics",
          mod_resample_pfs |-> "mod_resample_mics"]
Given(r) == stamp[Input[r]]
Unpushed(r) == InLoop(Input[r]) /\ at > FedAt[Out(Input[r], 1)] /\ at <= PushPlace[r]
Draining(r) == phase = "process" /\ at \in PushPlace[r] + 1 .. LoopEnd[r]
Fresh == phase \in {"configure", "construct", "open"} =>
             /\ \A r \in Resamplers : fill[r].n = 0
             /\ \A x \in Clocks : stamp[x] = 0
SamplesKept ==
    phase \in Serving =>
        \A r \in Resamplers \cap Enabled(c) :
            /\ fill[r].n + stamp[r] * IntervalOut(Rates(r)) + Bit(Unpushed(r)) * IntervalIn(Rates(r))
                 = Given(r) * IntervalIn(Rates(r))
            /\ ~Draining(r) => fill[r].n < IntervalOut(Rates(r))

\* The reads and the hops that carry them.
ReadsInOrder ==
    /\ carried = [i \in 1 .. Len(carried) |-> i - 1]
    /\ phase # "exit" => /\ Len(carried) = stamp["src_hops_mics"]
                         /\ Len(carried) = reads + Bit(rtn = -1)
    /\ rtn = 0 => buffer = reads
    /\ phase = "process" /\ at = 1 => rtn = 0
    /\ phase = "close" => rtn = -1

IInv == /\ Types /\ Accepted /\ Flow /\ RealFill /\ Fresh /\ SentInOrder /\ AllSent /\ SamplesKept
        /\ ReadsInOrder /\ EndpointsServe

-----------------------------------------------------------------------------
(* The calls of the loop one by one.                                         *)
LEMMA LoopsAre ==
  /\ Len(HopCalls) = 5 /\ Len(FrameCalls) = 23 /\ Len(SepsLoop) = 5 /\ Len(PfsLoop) = 5
  /\ Len(Calls(<<"mod_classify", "con_categories", "snk_categories">>)) = 3
  BY DEF HopCalls, FrameCalls, SepsLoop, PfsLoop, Calls

LEMMA HopCallsAre ==
  /\ HopCalls[1] = Call("src_hops_mics") /\ HopCalls[2] = Call("con_hops_mics_raw")
  /\ HopCalls[3] = Call("mod_mapping_mics") /\ HopCalls[4] = Call("con_hops_mics_map")
  /\ HopCalls[5] = Push("mod_resample_mics")
  BY DEF HopCalls, Calls

LEMMA FrameCallsAre ==
  /\ FrameCalls[1] = Pop("mod_resample_mics") /\ FrameCalls[2] = Call("con_hops_mics_rs")
  /\ FrameCalls[3] = Call("mod_stft_mics") /\ FrameCalls[4] = Call("con_spectra_mics")
  /\ FrameCalls[5] = Call("mod_noise_mics") /\ FrameCalls[6] = Call("con_powers_mics")
  /\ FrameCalls[7] = Call("mod_ssl") /\ FrameCalls[8] = Call("con_pots_ssl")
  /\ FrameCalls[9] = Call("snk_pots_ssl") /\ FrameCalls[10] = Call("inj_targets_sst")
  /\ FrameCalls[11] = Call("con_targets_sst") /\ FrameCalls[12] = Call("mod_sst")
  /\ FrameCalls[13] = Call("con_tracks_sst") /\ FrameCalls[14] = Call("snk_tracks_sst")
  /\ FrameCalls[15] = Call("mod_sss") /\ FrameCalls[16] = Call("con_spectra_seps")
  /\ FrameCalls[17] = Call("con_spectra_pfs") /\ FrameCalls[18] = Call("mod_istft_seps")
  /\ FrameCalls[19] = Call("mod_istft_pfs") /\ FrameCalls[20] = Call("con_hops_seps")
  /\ FrameCalls[21] = Call("con_hops_pfs") /\ FrameCalls[22] = Push("mod_resample_seps")
  /\ FrameCalls[23] = Push("mod_resample_pfs")
  BY DEF FrameCalls, Calls

LEMMA SepsLoopIs ==
  /\ SepsLoop[1] = Pop("mod_resample_seps") /\ SepsLoop[2] = Call("con_hops_seps_rs")
  /\ SepsLoop[3] = Call("mod_volume_seps") /\ SepsLoop[4] = Call("con_hops_seps_vol")
  /\ SepsLoop[5] = Call("snk_hops_seps_vol")
  BY DEF SepsLoop, Calls

LEMMA PfsLoopIs ==
  /\ PfsLoop[1] = Pop("mod_resample_pfs") /\ PfsLoop[2] = Call("con_hops_pfs_rs")
  /\ PfsLoop[3] = Call("mod_volume_pfs") /\ PfsLoop[4] = Call("con_hops_pfs_vol")
  /\ PfsLoop[5] = Call("snk_hops_pfs_vol")
  BY DEF PfsLoop, Calls

Names  == DOMAIN Place \cup Resamplers
Pieces == {Call(n) : n \in Names} \cup {Push(n) : n \in Names} \cup {Pop(n) : n \in Names}

LEMMA CallsType ==
  ASSUME NEW names \in Seq(Names)
  PROVE  Calls(names) \in Seq(Pieces) /\ Len(Calls(names)) = Len(names)
  <1>1. \A i \in 1 .. Len(names) : Call(names[i]) \in Pieces
    BY DEF Pieces
  <1>2. Len(names) \in Nat
    OBVIOUS
  <1> HIDE DEF Pieces, Call
  <1> QED
    BY <1>1, <1>2 DEF Calls

LEMMA JoinedAt ==
  ASSUME NEW S, NEW s \in Seq(S), NEW t \in Seq(S)
  PROVE  /\ s \o t \in Seq(S) /\ Len(s \o t) = Len(s) + Len(t)
         /\ \A i \in 1 .. Len(s) : (s \o t)[i] = s[i]
         /\ \A i \in Len(s) + 1 .. Len(s) + Len(t) : (s \o t)[i] = t[i - Len(s)]
  OBVIOUS

LEMMA PiecesAre ==
  /\ HopCalls \in Seq(Pieces) /\ FrameCalls \in Seq(Pieces)
  /\ SepsLoop \in Seq(Pieces) /\ PfsLoop \in Seq(Pieces)
  <1>1. \A r \in Names : Pop(r) \in Pieces /\ Push(r) \in Pieces
    BY DEF Pieces
  <1>2. \A a, b \in Pieces : <<a>> \in Seq(Pieces) /\ <<a, b>> \in Seq(Pieces)
    OBVIOUS
  <1>3. /\ <<Pop("mod_resample_mics")>> \in Seq(Pieces) /\ <<Pop("mod_resample_seps")>> \in Seq(Pieces)
        /\ <<Pop("mod_resample_pfs")>> \in Seq(Pieces) /\ <<Push("mod_resample_mics")>> \in Seq(Pieces)
        /\ <<Push("mod_resample_seps"), Push("mod_resample_pfs")>> \in Seq(Pieces)
    <2>1. Resamplers \subseteq Names
      BY DEF Names
    <2> QED
      BY <1>1, <1>2, <2>1 DEF Resamplers
  <1>4. HopCalls \in Seq(Pieces)
    <2>1. <<"src_hops_mics", "con_hops_mics_raw", "mod_mapping_mics", "con_hops_mics_map">> \in Seq(Names)
      BY DEF Names, Place
    <2> QED
      BY <1>3, <2>1, CallsType, JoinedAt DEF HopCalls
  <1>5. FrameCalls \in Seq(Pieces)
    <2>1. <<"con_hops_mics_rs", "mod_stft_mics", "con_spectra_mics", "mod_noise_mics",
            "con_powers_mics", "mod_ssl", "con_pots_ssl", "snk_pots_ssl", "inj_targets_sst",
            "con_targets_sst", "mod_sst", "con_tracks_sst", "snk_tracks_sst", "mod_sss",
            "con_spectra_seps", "con_spectra_pfs", "mod_istft_seps", "mod_istft_pfs",
            "con_hops_seps", "con_hops_pfs">> \in Seq(Names)
      BY DEF Names, Place
    <2> QED
      BY <1>3, <2>1, CallsType, JoinedAt DEF FrameCalls
  <1>6. SepsLoop \in Seq(Pieces) /\ PfsLoop \in Seq(Pieces)
    <2>1. /\ <<"con_hops_seps_rs", "mod_volume_seps", "con_hops_seps_vol", "snk_hops_seps_vol">> \in Seq(Names)
          /\ <<"con_hops_pfs_rs", "mod_volume_pfs", "con_hops_pfs_vol", "snk_hops_pfs_vol">> \in Seq(Names)
      BY DEF Names, Place
    <2> QED
      BY <1>3, <2>1, CallsType, JoinedAt DEF SepsLoop, PfsLoop
  <1> QED
    BY <1>4, <1>5, <1>6

LEMMA BodyIs ==
  /\ Len(Body) = 41 /\ Len(HopCalls \o FrameCalls \o SepsLoop) = 33
  /\ Len(HopCalls \o FrameCalls \o SepsLoop \o PfsLoop) = 38
  /\ Body[1] = Call("src_hops_mics") /\ Body[2] = Call("con_hops_mics_raw")
  /\ Body[3] = Call("mod_mapping_mics") /\ Body[4] = Call("con_hops_mics_map")
  /\ Body[5] = Push("mod_resample_mics") /\ Body[6] = Pop("mod_resample_mics")
  /\ Body[7] = Call("con_hops_mics_rs") /\ Body[8] = Call("mod_stft_mics")
  /\ Body[9] = Call("con_spectra_mics") /\ Body[10] = Call("mod_noise_mics")
  /\ Body[11] = Call("con_powers_mics") /\ Body[12] = Call("mod_ssl")
  /\ Body[13] = Call("con_pots_ssl") /\ Body[14] = Call("snk_pots_ssl")
  /\ Body[15] = Call("inj_targets_sst") /\ Body[16] = Call("con_targets_sst")
  /\ Body[17] = Call("mod_sst") /\ Body[18] = Call("con_tracks_sst")
  /\ Body[19] = Call("snk_tracks_sst") /\ Body[20] = Call("mod_sss")
  /\ Body[21] = Call("con_spectra_seps") /\ Body[22] = Call("con_spectra_pfs")
  /\ Body[23] = Call("mod_istft_seps") /\ Body[24] = Call("mod_istft_pfs")
  /\ Body[25] = Call("con_hops_seps") /\ Body[26] = Call("con_hops_pfs")
  /\ Body[27] = Push("mod_resample_seps") /\ Body[28] = Push("mod_resample_pfs")
  /\ Body[29] = Pop("mod_resample_seps") /\ Body[30] = Call("con_hops_seps_rs")
  /\ Body[31] = Call("mod_volume_seps") /\ Body[32] = Call("con_hops_seps_vol")
  /\ Body[33] = Call("snk_hops_seps_vol") /\ Body[34] = Pop("mod_resample_pfs")
  /\ Body[35] = Call("con_hops_pfs_rs") /\ Body[36] = Call("mod_volume_pfs")
  /\ Body[37] = Call("con_hops_pfs_vol") /\ Body[38] = Call("snk_hops_pfs_vol")
  /\ Body[39] = Call("mod_classify") /\ Body[40] = Call("con_categories")
  /\ Body[41] = Call("snk_categories")
  <1> DEFINE Last == Calls(<<"mod_classify", "con_categories", "snk_categories">>)
             b2 == HopCalls \o FrameCalls
             b3 == b2 \o SepsLoop
             b4 == b3 \o PfsLoop
  <1>1. /\ Len(Last) = 3 /\ Last[1] = Call("mod_classify") /\ Last[2] = Call("con_categories")
        /\ Last[3] = Call("snk_categories")
    BY DEF Calls
  <1>2. Last \in Seq(Pieces)
    <2>1. <<"mod_classify", "con_categories", "snk_categories">> \in Seq(Names)
      BY DEF Names, Place
    <2> QED
      BY <2>1, CallsType
  <1>3. Body = b4 \o Last
    BY DEF Body
  <1> HIDE DEF Last
  <1>4. /\ b2 \in Seq(Pieces) /\ Len(b2) = 28
        /\ \A i \in 1 .. 5 : b2[i] = HopCalls[i]
        /\ \A i \in 6 .. 28 : b2[i] = FrameCalls[i - 5]
    <2>1. Len(HopCalls) = 5 /\ Len(FrameCalls) = 23
      BY LoopsAre
    <2>2. b2 \in Seq(Pieces)
      BY PiecesAre, JoinedAt
    <2>3. Len(b2) = Len(HopCalls) + Len(FrameCalls)
      BY PiecesAre, JoinedAt
    <2>4. \A i \in 1 .. Len(HopCalls) : b2[i] = HopCalls[i]
      BY PiecesAre, JoinedAt
    <2>5. \A i \in Len(HopCalls) + 1 .. Len(HopCalls) + Len(FrameCalls) :
              b2[i] = FrameCalls[i - Len(HopCalls)]
      BY PiecesAre, JoinedAt
    <2> HIDE DEF b2
    <2> QED
      BY <2>1, <2>2, <2>3, <2>4, <2>5
  <1> HIDE DEF b2
  <1>5. /\ b3 \in Seq(Pieces) /\ Len(b3) = 33
        /\ \A i \in 1 .. 28 : b3[i] = b2[i]
        /\ \A i \in 29 .. 33 : b3[i] = SepsLoop[i - 28]
    <2>0. b2 \in Seq(Pieces) /\ SepsLoop \in Seq(Pieces)
      BY <1>4, PiecesAre
    <2>1. Len(b2) = 28 /\ Len(SepsLoop) = 5
      BY <1>4, LoopsAre
    <2>2. b3 \in Seq(Pieces)
      BY <2>0, JoinedAt
    <2>3. Len(b3) = Len(b2) + Len(SepsLoop)
      BY <2>0, JoinedAt
    <2>4. \A i \in 1 .. Len(b2) : b3[i] = b2[i]
      BY <2>0, JoinedAt
    <2>5. \A i \in Len(b2) + 1 .. Len(b2) + Len(SepsLoop) :
              b3[i] = SepsLoop[i - Len(b2)]
      BY <2>0, JoinedAt
    <2> HIDE DEF b3
    <2> QED
      BY <2>1, <2>2, <2>3, <2>4, <2>5
  <1>6. b3 = HopCalls \o FrameCalls \o SepsLoop
    BY DEF b2
  <1> HIDE DEF b3
  <1>7. /\ b4 \in Seq(Pieces) /\ Len(b4) = 38
        /\ \A i \in 1 .. 33 : b4[i] = b3[i]
        /\ \A i \in 34 .. 38 : b4[i] = PfsLoop[i - 33]
    <2>0. b3 \in Seq(Pieces) /\ PfsLoop \in Seq(Pieces)
      BY <1>5, PiecesAre
    <2>1. Len(b3) = 33 /\ Len(PfsLoop) = 5
      BY <1>5, LoopsAre
    <2>2. b4 \in Seq(Pieces)
      BY <2>0, JoinedAt
    <2>3. Len(b4) = Len(b3) + Len(PfsLoop)
      BY <2>0, JoinedAt
    <2>4. \A i \in 1 .. Len(b3) : b4[i] = b3[i]
      BY <2>0, JoinedAt
    <2>5. \A i \in Len(b3) + 1 .. Len(b3) + Len(PfsLoop) :
              b4[i] = PfsLoop[i - Len(b3)]
      BY <2>0, JoinedAt
    <2> HIDE DEF b4
    <2> QED
      BY <2>1, <2>2, <2>3, <2>4, <2>5
  <1>8. b4 = HopCalls \o FrameCalls \o SepsLoop \o PfsLoop
    BY <1>6
  <1> HIDE DEF b4
  <1>9. /\ Len(Body) = 41
        /\ \A i \in 1 .. 38 : Body[i] = b4[i]
        /\ \A i \in 39 .. 41 : Body[i] = Last[i - 38]
    <2>0. b4 \in Seq(Pieces) /\ Last \in Seq(Pieces)
      BY <1>2, <1>7
    <2>1. Len(b4) = 38 /\ Len(Last) = 3
      BY <1>1, <1>7
    <2>3. Len(Body) = Len(b4) + Len(Last)
      BY <2>0, <1>3, JoinedAt
    <2>4. \A i \in 1 .. Len(b4) : Body[i] = b4[i]
      BY <2>0, <1>3, JoinedAt
    <2>5. \A i \in Len(b4) + 1 .. Len(b4) + Len(Last) :
              Body[i] = Last[i - Len(b4)]
      BY <2>0, <1>3, JoinedAt
    <2> QED
      BY <2>1, <2>3, <2>4, <2>5
  <1>10. /\ \A i \in 1 .. 5 : Body[i] = HopCalls[i]
         /\ \A i \in 6 .. 28 : Body[i] = FrameCalls[i - 5]
         /\ \A i \in 29 .. 33 : Body[i] = SepsLoop[i - 28]
         /\ \A i \in 34 .. 38 : Body[i] = PfsLoop[i - 33]
    BY <1>4, <1>5, <1>7, <1>9
  <1>11. Body[39] = Last[1] /\ Body[40] = Last[2] /\ Body[41] = Last[3]
    BY <1>9
  <1>12. /\ Body[1] = Call("src_hops_mics") /\ Body[2] = Call("con_hops_mics_raw")
         /\ Body[3] = Call("mod_mapping_mics") /\ Body[4] = Call("con_hops_mics_map")
         /\ Body[5] = Push("mod_resample_mics")
    BY <1>10, HopCallsAre
  <1>13. /\ Body[6] = Pop("mod_resample_mics") /\ Body[7] = Call("con_hops_mics_rs")
         /\ Body[8] = Call("mod_stft_mics") /\ Body[9] = Call("con_spectra_mics")
         /\ Body[10] = Call("mod_noise_mics") /\ Body[11] = Call("con_powers_mics")
         /\ Body[12] = Call("mod_ssl") /\ Body[13] = Call("con_pots_ssl")
         /\ Body[14] = Call("snk_pots_ssl") /\ Body[15] = Call("inj_targets_sst")
         /\ Body[16] = Call("con_targets_sst") /\ Body[17] = Call("mod_sst")
         /\ Body[18] = Call("con_tracks_sst") /\ Body[19] = Call("snk_tracks_sst")
         /\ Body[20] = Call("mod_sss") /\ Body[21] = Call("con_spectra_seps")
         /\ Body[22] = Call("con_spectra_pfs") /\ Body[23] = Call("mod_istft_seps")
         /\ Body[24] = Call("mod_istft_pfs") /\ Body[25] = Call("con_hops_seps")
         /\ Body[26] = Call("con_hops_pfs") /\ Body[27] = Push("mod_resample_seps")
         /\ Body[28] = Push("mod_resample_pfs")
    BY <1>10, FrameCallsAre
  <1>14. /\ Body[29] = Pop("mod_resample_seps") /\ Body[30] = Call("con_hops_seps_rs")
         /\ Body[31] = Call("mod_volume_seps") /\ Body[32] = Call("con_hops_seps_vol")
         /\ Body[33] = Call("snk_hops_seps_vol")
    BY <1>10, SepsLoopIs
  <1>15. /\ Body[34] = Pop("mod_resample_pfs") /\ Body[35] = Call("con_hops_pfs_rs")
         /\ Body[36] = Call("mod_volume_pfs") /\ Body[37] = Call("con_hops_pfs_vol")
         /\ Body[38] = Call("snk_hops_pfs_vol")
    BY <1>10, PfsLoopIs
  <1>16. /\ Body[39] = Call("mod_classify") /\ Body[40] = Call("con_categories")
         /\ Body[41] = Call("snk_categories")
    BY <1>1, <1>11
  <1>17. /\ Len(Body) = 41 /\ Len(HopCalls \o FrameCalls \o SepsLoop) = 33
         /\ Len(HopCalls \o FrameCalls \o SepsLoop \o PfsLoop) = 38
    BY <1>5, <1>6, <1>7, <1>8, <1>9
  <1> QED
    BY <1>12, <1>13, <1>14, <1>15, <1>16, <1>17

LEMMA LoopEnds == LoopEnd = [mod_resample_mics |-> 41, mod_resample_seps |-> 33, mod_resample_pfs |-> 38]
  BY BodyIs DEF LoopEnd

\* At each place of the loop stands the one call of Place, PushPlace and PopPlace.
Scheduled(i) ==
    \/ \E n \in DOMAIN Place : Body[i] = Call(n) /\ i = Place[n]
    \/ \E r \in Resamplers : Body[i] = Push(r) /\ i = PushPlace[r]
    \/ \E r \in Resamplers : Body[i] = Pop(r) /\ i = PopPlace[r]

LEMMA Schedule ==
  ASSUME NEW i \in 1 .. 41
  PROVE  Scheduled(i)
  <1>1. CASE i = 1
    BY <1>1, BodyIs DEF Scheduled, Place
  <1>2. CASE i = 2
    BY <1>2, BodyIs DEF Scheduled, Place
  <1>3. CASE i = 3
    BY <1>3, BodyIs DEF Scheduled, Place
  <1>4. CASE i = 4
    BY <1>4, BodyIs DEF Scheduled, Place
  <1>5. CASE i = 5
    BY <1>5, BodyIs DEF Scheduled, PushPlace, Resamplers
  <1>6. CASE i = 6
    BY <1>6, BodyIs DEF Scheduled, PopPlace, Resamplers
  <1>7. CASE i = 7
    BY <1>7, BodyIs DEF Scheduled, Place
  <1>8. CASE i = 8
    BY <1>8, BodyIs DEF Scheduled, Place
  <1>9. CASE i = 9
    BY <1>9, BodyIs DEF Scheduled, Place
  <1>10. CASE i = 10
    BY <1>10, BodyIs DEF Scheduled, Place
  <1>11. CASE i = 11
    BY <1>11, BodyIs DEF Scheduled, Place
  <1>12. CASE i = 12
    BY <1>12, BodyIs DEF Scheduled, Place
  <1>13. CASE i = 13
    BY <1>13, BodyIs DEF Scheduled, Place
  <1>14. CASE i = 14
    BY <1>14, BodyIs DEF Scheduled, Place
  <1>15. CASE i = 15
    BY <1>15, BodyIs DEF Scheduled, Place
  <1>16. CASE i = 16
    BY <1>16, BodyIs DEF Scheduled, Place
  <1>17. CASE i = 17
    BY <1>17, BodyIs DEF Scheduled, Place
  <1>18. CASE i = 18
    BY <1>18, BodyIs DEF Scheduled, Place
  <1>19. CASE i = 19
    BY <1>19, BodyIs DEF Scheduled, Place
  <1>20. CASE i = 20
    BY <1>20, BodyIs DEF Scheduled, Place
  <1>21. CASE i = 21
    BY <1>21, BodyIs DEF Scheduled, Place
  <1>22. CASE i = 22
    BY <1>22, BodyIs DEF Scheduled, Place
  <1>23. CASE i = 23
    BY <1>23, BodyIs DEF Scheduled, Place
  <1>24. CASE i = 24
    BY <1>24, BodyIs DEF Scheduled, Place
  <1>25. CASE i = 25
    BY <1>25, BodyIs DEF Scheduled, Place
  <1>26. CASE i = 26
    BY <1>26, BodyIs DEF Scheduled, Place
  <1>27. CASE i = 27
    BY <1>27, BodyIs DEF Scheduled, PushPlace, Resamplers
  <1>28. CASE i = 28
    BY <1>28, BodyIs DEF Scheduled, PushPlace, Resamplers
  <1>29. CASE i = 29
    BY <1>29, BodyIs DEF Scheduled, PopPlace, Resamplers
  <1>30. CASE i = 30
    BY <1>30, BodyIs DEF Scheduled, Place
  <1>31. CASE i = 31
    BY <1>31, BodyIs DEF Scheduled, Place
  <1>32. CASE i = 32
    BY <1>32, BodyIs DEF Scheduled, Place
  <1>33. CASE i = 33
    BY <1>33, BodyIs DEF Scheduled, Place
  <1>34. CASE i = 34
    BY <1>34, BodyIs DEF Scheduled, PopPlace, Resamplers
  <1>35. CASE i = 35
    BY <1>35, BodyIs DEF Scheduled, Place
  <1>36. CASE i = 36
    BY <1>36, BodyIs DEF Scheduled, Place
  <1>37. CASE i = 37
    BY <1>37, BodyIs DEF Scheduled, Place
  <1>38. CASE i = 38
    BY <1>38, BodyIs DEF Scheduled, Place
  <1>39. CASE i = 39
    BY <1>39, BodyIs DEF Scheduled, Place
  <1>40. CASE i = 40
    BY <1>40, BodyIs DEF Scheduled, Place
  <1>41. CASE i = 41
    BY <1>41, BodyIs DEF Scheduled, Place
  <1> QED
    BY <1>1, <1>2, <1>3, <1>4, <1>5, <1>6, <1>7, <1>8, <1>9, <1>10, <1>11, <1>12, <1>13, <1>14,
       <1>15, <1>16, <1>17, <1>18, <1>19, <1>20, <1>21, <1>22, <1>23, <1>24, <1>25, <1>26, <1>27, <1>28,
       <1>29, <1>30, <1>31, <1>32, <1>33, <1>34, <1>35, <1>36, <1>37, <1>38, <1>39, <1>40, <1>41

LEMMA CalledAt ==
  ASSUME NEW i \in 1 .. 41, NEW name, Body[i] = Call(name)
  PROVE  name \in DOMAIN Place /\ i = Place[name]
  <1>1. CASE \E n \in DOMAIN Place : Body[i] = Call(n) /\ i = Place[n]
    BY <1>1 DEF Call
  <1>2. CASE \E r \in Resamplers : Body[i] = Push(r) \/ Body[i] = Pop(r)
    BY <1>2 DEF Call, Push, Pop
  <1> QED
    BY <1>1, <1>2, Schedule DEF Scheduled

LEMMA PushedAt ==
  ASSUME NEW i \in 1 .. 41, NEW r, Body[i] = Push(r)
  PROVE  r \in Resamplers /\ i = PushPlace[r]
  <1>1. CASE \E n \in Resamplers : Body[i] = Push(n) /\ i = PushPlace[n]
    BY <1>1 DEF Push
  <1>2. CASE \/ \E n \in DOMAIN Place : Body[i] = Call(n)
             \/ \E n \in Resamplers : Body[i] = Pop(n)
    BY <1>2 DEF Call, Push, Pop
  <1> QED
    BY <1>1, <1>2, Schedule DEF Scheduled

LEMMA PoppedAt ==
  ASSUME NEW i \in 1 .. 41, NEW r, Body[i] = Pop(r)
  PROVE  r \in Resamplers /\ i = PopPlace[r]
  <1>1. CASE \E n \in Resamplers : Body[i] = Pop(n) /\ i = PopPlace[n]
    BY <1>1 DEF Pop
  <1>2. CASE \/ \E n \in DOMAIN Place : Body[i] = Call(n)
             \/ \E n \in Resamplers : Body[i] = Push(n)
    BY <1>2 DEF Call, Push, Pop
  <1> QED
    BY <1>1, <1>2, Schedule DEF Scheduled

LEMMA Heads ==
  ASSUME NEW r \in Resamplers
  PROVE  Head1(r) = PopPlace[r]
  <1>1. PopPlace[r] \in 1 .. 41 /\ Body[PopPlace[r]] = Pop(r)
    <2>1. /\ Body[6] = Pop("mod_resample_mics") /\ Body[29] = Pop("mod_resample_seps")
          /\ Body[34] = Pop("mod_resample_pfs")
      BY BodyIs
    <2> QED
      BY <2>1 DEF Resamplers, PopPlace
  <1>2. \A i \in 1 .. 41 : Body[i] = Pop(r) => i = PopPlace[r]
    BY PoppedAt
  <1> QED
    BY <1>1, <1>2, BodyIs DEF Head1

\* The call behind another.
After(i) == IF i = 41 THEN 6 ELSE IF i = 33 THEN 29 ELSE IF i = 38 THEN 34 ELSE i + 1

LEMMA Continues ==
  ASSUME Continue, at \in 1 .. 41
  PROVE  phase' = phase /\ at' = After(at) /\ at' \in 1 .. 41
  <1>1. ASSUME NEW r \in Resamplers, at = LoopEnd[r]
        PROVE  at' = PopPlace[r]
    <2>1. \A q \in Resamplers : at = LoopEnd[q] => q = r
      BY <1>1, LoopEnds DEF Resamplers
    <2>2. r = CHOOSE q \in Resamplers : at = LoopEnd[q]
      BY <1>1, <2>1
    <2> QED
      BY <1>1, <2>2, Heads DEF Continue
  <1>2. CASE \E r \in Resamplers : at = LoopEnd[r]
    BY <1>1, <1>2, LoopEnds DEF Continue, Resamplers, After, PopPlace
  <1>3. CASE ~\E r \in Resamplers : at = LoopEnd[r]
    BY <1>3, LoopEnds DEF Continue, Resamplers, After
  <1> QED
    BY <1>2, <1>3

\* In the next round nothing has been computed that was not in this one.
LEMMA Rounds ==
  ASSUME phase = "process", phase' = "process", at \in 1 .. 41,
         at' = After(at), NEW con \in Wired
  PROVE  /\ Fed(con)' => Fed(con) \/ at = FedAt[con]
         /\ Passed(con)' => Passed(con) \/ at = Place[con]
  BY DEF Fed, Passed, InLoop, Clock, Loop, After, FedAt, Place, Wired, Connectors

-----------------------------------------------------------------------------
(* The wiring of the network along the loop.                                 *)
LEMMA Wiring ==
  /\ Out("src_hops_mics", 1) = "con_hops_mics_raw"
  /\ In("mod_mapping_mics", 1) = "con_hops_mics_raw" /\ Out("mod_mapping_mics", 1) = "con_hops_mics_map"
  /\ In("mod_stft_mics", 1) = "con_hops_mics_rs" /\ Out("mod_stft_mics", 1) = "con_spectra_mics"
  /\ In("mod_noise_mics", 1) = "con_spectra_mics" /\ Out("mod_noise_mics", 1) = "con_powers_mics"
  /\ In("mod_ssl", 1) = "con_spectra_mics" /\ Out("mod_ssl", 1) = "con_pots_ssl"
  /\ In("mod_istft_seps", 1) = "con_spectra_seps" /\ Out("mod_istft_seps", 1) = "con_hops_seps"
  /\ In("mod_istft_pfs", 1) = "con_spectra_pfs" /\ Out("mod_istft_pfs", 1) = "con_hops_pfs"
  /\ In("mod_volume_seps", 1) = "con_hops_seps_rs" /\ Out("mod_volume_seps", 1) = "con_hops_seps_vol"
  /\ In("mod_volume_pfs", 1) = "con_hops_pfs_rs" /\ Out("mod_volume_pfs", 1) = "con_hops_pfs_vol"
  BY DEF In, Out, Links, Link

LEMMA ResamplerWiring ==
  /\ In("mod_resample_mics", 1) = "con_hops_mics_map" /\ Out("mod_resample_mics", 1) = "con_hops_mics_rs"
  /\ In("mod_resample_seps", 1) = "con_hops_seps" /\ Out("mod_resample_seps", 1) = "con_hops_seps_rs"
  /\ In("mod_resample_pfs", 1) = "con_hops_pfs" /\ Out("mod_resample_pfs", 1) = "con_hops_pfs_rs"
  BY DEF In, Out, Links, Link

LEMMA JoinWiring ==
  /\ Links["mod_sst"].ins = <<"con_pots_ssl", "con_targets_sst">>
  /\ In("mod_sst", 1) = "con_pots_ssl" /\ Out("mod_sst", 1) = "con_tracks_sst"
  /\ Links["mod_sss"].ins = <<"con_spectra_mics", "con_powers_mics", "con_tracks_sst">>
  /\ In("mod_sss", 1) = "con_spectra_mics"
  /\ Links["mod_classify"].ins = <<"con_hops_seps", "con_tracks_sst">>
  /\ In("mod_classify", 1) = "con_hops_seps" /\ Out("mod_classify", 1) = "con_categories"
  BY DEF In, Out, Links, Link

LEMMA SinkWiring ==
  /\ In("snk_pots_ssl", 1) = "con_pots_ssl" /\ In("snk_tracks_sst", 1) = "con_tracks_sst"
  /\ In("snk_hops_seps_vol", 1) = "con_hops_seps_vol" /\ In("snk_hops_pfs_vol", 1) = "con_hops_pfs_vol"
  /\ In("snk_categories", 1) = "con_categories"
  BY DEF In, Links, Link

LEMMA ClockType ==
  ASSUME NEW con
  PROVE  Clock(con) \in Clocks
  BY DEF Clock, Clocks, Resamplers

\* A module with one input reads what its connector passed on in this round.
LEMMA Transforming ==
  ASSUME NEW name \in Transforms, phase = "process", at = Place[name]
  PROVE  LET x == In(name, 1)
             y == Out(name, 1)
         IN /\ x \in Wired /\ y \in Wired /\ Passed(x) /\ Clock(x) = Clock(y)
            /\ \A con \in Wired : at # Place[con] /\ (at = FedAt[con] <=> con = y)
            /\ Needs(x) \subseteq Needs(y)
            /\ name \in Needs(y) \cup {"mod_mapping_mics", "mod_stft_mics"}
  <1>1. CASE name = "mod_mapping_mics"
    BY <1>1, Wiring DEF Place, FedAt, Passed, InLoop, Loop, Clock, Wired, Connectors, Needs
  <1>2. CASE name = "mod_stft_mics"
    BY <1>2, Wiring DEF Place, FedAt, Passed, InLoop, Loop, Clock, Wired, Connectors, Needs
  <1>3. CASE name = "mod_noise_mics"
    BY <1>3, Wiring DEF Place, FedAt, Passed, InLoop, Loop, Clock, Wired, Connectors, Needs
  <1>4. CASE name = "mod_ssl"
    BY <1>4, Wiring DEF Place, FedAt, Passed, InLoop, Loop, Clock, Wired, Connectors, Needs
  <1>5. CASE name = "mod_istft_seps"
    BY <1>5, Wiring DEF Place, FedAt, Passed, InLoop, Loop, Clock, Wired, Connectors, Needs, Separating, Tracking
  <1>6. CASE name = "mod_istft_pfs"
    BY <1>6, Wiring DEF Place, FedAt, Passed, InLoop, Loop, Clock, Wired, Connectors, Needs, Separating, Tracking
  <1>7. CASE name = "mod_volume_seps"
    BY <1>7, Wiring DEF Place, FedAt, Passed, InLoop, Loop, Clock, Wired, Connectors, Needs, Separating, Tracking
  <1>8. CASE name = "mod_volume_pfs"
    BY <1>8, Wiring DEF Place, FedAt, Passed, InLoop, Loop, Clock, Wired, Connectors, Needs, Separating, Tracking
  <1> QED
    BY <1>1, <1>2, <1>3, <1>4, <1>5, <1>6, <1>7, <1>8 DEF Transforms

\* So does a sink.
LEMMA Sinking ==
  ASSUME NEW s \in Sinks
  PROVE  /\ In(s, 1) \in Wired /\ Clock(In(s, 1)) \in Resamplers
         /\ phase = "process" /\ at = Place[s] => Passed(In(s, 1)) /\ Pending(s)
         /\ at = Place[s] => /\ \A con \in Wired : at # Place[con] /\ at # FedAt[con]
                             /\ \A t \in Sinks : at = Place[t] => t = s
         /\ Wants(s, c) => Needs(In(s, 1)) \subseteq Enabled(c)
  <1>1. CASE s = "snk_pots_ssl"
    BY <1>1, SinkWiring DEF Place, FedAt, Passed, Pending, InLoop, Loop, Clock, Wired, Connectors,
       Needs, PopPlace, Resamplers, Enabled, Sinks
  <1>2. CASE s = "snk_tracks_sst"
    BY <1>2, SinkWiring DEF Place, FedAt, Passed, Pending, InLoop, Loop, Clock, Wired, Connectors,
       Needs, PopPlace, Resamplers, Enabled, Sinks, Tracking
  <1>3. CASE s = "snk_hops_seps_vol"
    BY <1>3, SinkWiring DEF Place, FedAt, Passed, Pending, InLoop, Loop, Clock, Wired, Connectors,
       Needs, PopPlace, Resamplers, Enabled, Sinks, Tracking, Separating
  <1>4. CASE s = "snk_hops_pfs_vol"
    BY <1>4, SinkWiring DEF Place, FedAt, Passed, Pending, InLoop, Loop, Clock, Wired, Connectors,
       Needs, PopPlace, Resamplers, Enabled, Sinks, Tracking, Separating
  <1>5. CASE s = "snk_categories"
    BY <1>5, SinkWiring DEF Place, FedAt, Passed, Pending, InLoop, Loop, Clock, Wired, Connectors,
       Needs, PopPlace, Resamplers, Enabled, Sinks, Tracking, Separating
  <1> QED
    BY <1>1, <1>2, <1>3, <1>4, <1>5 DEF Sinks

\* A connector passes on what it was given in this round.
LEMMA Connecting ==
  ASSUME NEW con \in Wired, phase = "process", at = Place[con]
  PROVE  /\ Fed(con)
         /\ \A other \in Wired : at # FedAt[other] /\ (at = Place[other] => other = con)
  BY DEF Wired, Connectors, Place, FedAt, Fed, InLoop, Loop, Clock

LEMMA Pushing ==
  ASSUME NEW r \in Resamplers, phase = "process", at = PushPlace[r]
  PROVE  /\ In(r, 1) \in Wired /\ Passed(In(r, 1)) /\ Unpushed(r) /\ ~Draining(r)
         /\ \A con \in Wired : at # FedAt[con] /\ at # Place[con]
  <1>1. CASE r = "mod_resample_mics"
    <2>1. at = 5 /\ In(r, 1) = "con_hops_mics_map"
      BY <1>1, ResamplerWiring DEF PushPlace
    <2>2. In(r, 1) \in Wired /\ Passed(In(r, 1))
      BY <2>1 DEF Wired, Connectors, Passed, InLoop, Loop, Clock, Place
    <2>3. Unpushed(r) /\ ~Draining(r)
      BY <1>1, <2>1, Wiring, ResamplerWiring, LoopEnds DEF Unpushed, Draining, InLoop, Loop, Input, FedAt, PushPlace
    <2>4. \A con \in Wired : at # FedAt[con] /\ at # Place[con]
      BY <2>1 DEF Wired, Connectors, Place, FedAt
    <2> QED
      BY <2>2, <2>3, <2>4
  <1>2. CASE r = "mod_resample_seps"
    <2>1. at = 27 /\ In(r, 1) = "con_hops_seps"
      BY <1>2, ResamplerWiring DEF PushPlace
    <2>2. In(r, 1) \in Wired /\ Passed(In(r, 1))
      BY <2>1 DEF Wired, Connectors, Passed, InLoop, Loop, Clock, Place
    <2>3. Unpushed(r) /\ ~Draining(r)
      BY <1>2, <2>1, Wiring, ResamplerWiring, LoopEnds DEF Unpushed, Draining, InLoop, Loop, Input, FedAt, PushPlace
    <2>4. \A con \in Wired : at # FedAt[con] /\ at # Place[con]
      BY <2>1 DEF Wired, Connectors, Place, FedAt
    <2> QED
      BY <2>2, <2>3, <2>4
  <1>3. CASE r = "mod_resample_pfs"
    <2>1. at = 28 /\ In(r, 1) = "con_hops_pfs"
      BY <1>3, ResamplerWiring DEF PushPlace
    <2>2. In(r, 1) \in Wired /\ Passed(In(r, 1))
      BY <2>1 DEF Wired, Connectors, Passed, InLoop, Loop, Clock, Place
    <2>3. Unpushed(r) /\ ~Draining(r)
      BY <1>3, <2>1, Wiring, ResamplerWiring, LoopEnds DEF Unpushed, Draining, InLoop, Loop, Input, FedAt, PushPlace
    <2>4. \A con \in Wired : at # FedAt[con] /\ at # Place[con]
      BY <2>1 DEF Wired, Connectors, Place, FedAt
    <2> QED
      BY <2>2, <2>3, <2>4
  <1> QED
    BY <1>1, <1>2, <1>3 DEF Resamplers

LEMMA Popping ==
  ASSUME NEW r \in Resamplers, phase = "process", at = PopPlace[r]
  PROVE  /\ Out(r, 1) \in Wired /\ Clock(Out(r, 1)) = r
         /\ \A con \in Wired : /\ at # Place[con] /\ (at = FedAt[con] <=> con = Out(r, 1))
                               /\ Clock(con) = r => ~Fed(con) /\ ~Passed(con)
         /\ Needs(In(r, 1)) = Needs(Out(r, 1))
  BY ResamplerWiring DEF Wired, Connectors, Place, FedAt, Passed, Fed, InLoop, Loop, Clock, PopPlace,
     Resamplers, Needs

\* A module with several inputs reads what this round has computed.
LEMMA Joins ==
  ASSUME NEW name \in {"mod_sst", "mod_sss", "mod_classify"}, phase = "process", at = Place[name]
  PROVE  /\ \A i \in DOMAIN Links[name].ins :
               /\ Links[name].ins[i] \in Wired /\ Passed(Links[name].ins[i])
               /\ Clock(Links[name].ins[i]) = "mod_resample_mics"
         /\ 1 \in DOMAIN Links[name].ins
         /\ \A con \in Wired : at # Place[con]
  <1>1. CASE name = "mod_sst"
    BY <1>1, JoinWiring DEF Place, Passed, InLoop, Loop, Clock, Wired, Connectors
  <1>2. CASE name = "mod_sss"
    BY <1>2, JoinWiring DEF Place, Passed, InLoop, Loop, Clock, Wired, Connectors
  <1>3. CASE name = "mod_classify"
    BY <1>3, JoinWiring DEF Place, Passed, InLoop, Loop, Clock, Wired, Connectors
  <1> QED
    BY <1>1, <1>2, <1>3

-----------------------------------------------------------------------------
(* The endpoints that are accepted have a case in every switch.              *)
LEMMA Served ==
  ASSUME NEW cfg, NEW name \in Endpoints, configs_construct(cfg), ~Refused(name, cfg)
  PROVE  /\ Opens(EndpointCases(name), EndpointConfig(name, cfg))
         /\ Processes(EndpointCases(name), EndpointConfig(name, cfg))
         /\ Closes(EndpointCases(name), EndpointConfig(name, cfg))
  <1> DEFINE e == EndpointConfig(name, cfg)
  <1>1. e # null /\ EndpointAccepts(name, e)
    BY DEF configs_construct, Refused
  <1>2. CASE name = "src_hops_mics"
    <2>1. e = src_hops_mics_config(cfg)
      BY <1>2 DEF EndpointConfig
    <2>2. e.interface \in {"file", "socket", "soundcard", "uac_in"}
      BY <1>1, <2>1 DEF src_hops_mics_config, Sampled, Endpoint, interface_construct
    <2>3. e.format \in BinaryInts
      BY <1>1, <1>2 DEF EndpointAccepts, src_hops_accepts
    <2> HIDE DEF e
    <2>4. /\ Opens(src_hops_cases, e) /\ Processes(src_hops_cases, e) /\ Closes(src_hops_cases, e)
      BY <2>2, <2>3 DEF Opens, Processes, Closes, src_hops_cases, Cases
    <2>5. EndpointCases(name) = src_hops_cases
      BY <1>2 DEF EndpointCases
    <2> QED
      BY <2>4, <2>5 DEF e
  <1> HIDE DEF e
  <1>3. CASE name = "snk_pots_ssl"
    BY <1>1, <1>3 DEF e, EndpointCases, EndpointAccepts, snk_pots_accepts, snk_text_accepts, snk_pots_cases,
       snk_text_cases, Cases, Opens, Processes, Closes
  <1>4. CASE name = "snk_tracks_sst"
    BY <1>1, <1>4 DEF e, EndpointCases, EndpointAccepts, snk_tracks_accepts, snk_text_accepts,
       snk_tracks_cases, snk_text_cases, Cases, Opens, Processes, Closes
  <1>5. CASE name \in {"snk_hops_seps_vol", "snk_hops_pfs_vol"}
    BY <1>1, <1>5 DEF e, EndpointCases, EndpointAccepts, snk_hops_accepts, snk_hops_cases, Cases, Opens,
       Processes, Closes
  <1>6. CASE name = "snk_categories"
    BY <1>1, <1>6 DEF e, EndpointCases, EndpointAccepts, snk_categories_accepts, snk_text_accepts,
       snk_categories_cases, snk_text_cases, Cases, Opens, Processes, Closes
  <1> QED
    BY <1>2, <1>3, <1>4, <1>5, <1>6 DEF Endpoints, Sinks

LEMMA SourceServed ==
  ASSUME Accepted, phase = "process"
  PROVE  Processes(src_hops_cases, src_hops_mics_config(c))
  <1>1. Processes(EndpointCases("src_hops_mics"), EndpointConfig("src_hops_mics", c))
    BY Served DEF Accepted, Serving, Endpoints
  <1> QED
    BY <1>1 DEF EndpointCases, EndpointConfig

-----------------------------------------------------------------------------
(* Resamplers.                                                               *)
LEMMA Multiplied ==
  ASSUME NEW m \in Nat \ {0}, NEW n \in Nat \ {0}
  PROVE  m * n \in Nat \ {0}
  OBVIOUS

LEMMA RatesPositive ==
  ASSUME c \in Configs, configs_construct(c), NEW r \in Resamplers
  PROVE  /\ IntervalIn(Rates(r)) \in Nat \ {0} /\ IntervalOut(Rates(r)) \in Nat \ {0}
         /\ Rates(r).fSout \in Nat \ {0}
  <1>1. /\ c.raw.fS \in Nat \ {0} /\ c.raw.hopSize \in Nat \ {0}
        /\ c.general.fS \in Nat \ {0} /\ c.general.hopSize \in Nat \ {0}
        /\ c.sep.fS \in Nat \ {0} /\ c.sep.hopSize \in Nat \ {0}
        /\ c.pf.fS \in Nat \ {0} /\ c.pf.hopSize \in Nat \ {0}
    BY ConfigsAssumption
  <1>2. /\ Rates(r).hopSizeIn \in Nat \ {0} /\ Rates(r).hopSizeOut \in Nat \ {0}
        /\ Rates(r).fSin \in Nat \ {0} /\ Rates(r).fSout \in Nat \ {0}
    <2>1. CASE r = "mod_resample_mics"
      BY <1>1, <2>1, ResamplerWiring DEF Rates, ResampleConfig, MessageConfig, mod_resample_mics_config,
         msg_hops_mics_map_config, msg_hops_mics_rs_config, HopsConfig, configs_construct
    <2>2. CASE r = "mod_resample_seps"
      BY <1>1, <2>2, ResamplerWiring DEF Rates, ResampleConfig, MessageConfig, mod_resample_seps_config,
         msg_hops_seps_config, msg_hops_seps_rs_config, HopsConfig
    <2>3. CASE r = "mod_resample_pfs"
      BY <1>1, <2>3, ResamplerWiring DEF Rates, ResampleConfig, MessageConfig, mod_resample_pfs_config,
         msg_hops_pfs_config, msg_hops_pfs_rs_config, HopsConfig
    <2> QED
      BY <2>1, <2>2, <2>3 DEF Resamplers
  <1>3. /\ Rates(r).hopSizeIn * Rates(r).fSout \in Nat \ {0}
        /\ Rates(r).hopSizeOut * Rates(r).fSin \in Nat \ {0}
    BY <1>2, Multiplied
  <1> QED
    BY <1>2, <1>3 DEF IntervalIn, IntervalOut

LEMMA RoundsUp ==
  ASSUME NEW n \in Nat, NEW f \in Nat \ {0}
  PROVE  f * ((n + f - 1) \div f) \in Nat /\ f * ((n + f - 1) \div f) >= n
  <1> DEFINE z == n + f - 1
             q == z \div f
  <1>1. z \in Nat
    OBVIOUS
  <1> HIDE DEF z
  <1>2. q \in Nat /\ f * q \in Nat /\ z < f * q + f
    BY <1>1, SMTT(30)
  <1> HIDE DEF q
  <1>3. f * q >= n
    BY <1>1, <1>2 DEF z
  <1> QED
    BY <1>2, <1>3 DEF q, z

\* What a resampler that cannot give a hop has left leaves room for the next.
LEMMA RoomForOneHop ==
  ASSUME c \in Configs, configs_construct(c), NEW r \in Resamplers, NEW n \in Nat,
         n < IntervalOut(Rates(r))
  PROVE  ~isFull(Rates(r), n)
  <1> DEFINE f     == Rates(r).fSout
             from  == IntervalIn(Rates(r))
             to    == IntervalOut(Rates(r))
             twice == IF from >= to THEN 2 * from ELSE 2 * to
  <1>1. from \in Nat \ {0} /\ to \in Nat \ {0} /\ f \in Nat \ {0}
    BY RatesPositive
  <1>2. BufferSize(Rates(r)) = f * ((twice + f - 1) \div f)
    BY DEF BufferSize
  <1>3. n < to
    OBVIOUS
  <1>4. isFull(Rates(r), n) <=> n + from > BufferSize(Rates(r))
    BY DEF isFull
  <1> HIDE DEF f, from, to
  <1>5. twice \in Nat /\ twice >= from + to
    BY <1>1
  <1> HIDE DEF twice
  <1>6. BufferSize(Rates(r)) \in Nat /\ BufferSize(Rates(r)) >= twice
    BY <1>1, <1>2, <1>5, RoundsUp
  <1> QED
    BY <1>1, <1>3, <1>4, <1>5, <1>6

-----------------------------------------------------------------------------
(* Along the loop.                                                           *)
LEMMA FlowContinues ==
  ASSUME Flow, phase = "process", phase' = "process", at \in 1 .. 41, at' = After(at), c' = c,
         \A con \in Wired : /\ at # FedAt[con] => in'[con] = in[con]
                            /\ at = FedAt[con] => Current(in[con], con)'
                            /\ at # Place[con] => out'[con] = out[con]
                            /\ at = Place[con] => Current(out[con], con)'
                            /\ Fed(con) \/ Passed(con) => stamp'[Clock(con)] = stamp[Clock(con)]
  PROVE  Flow'
  <1> SUFFICES ASSUME NEW con \in Wired
               PROVE  /\ Fed(con)' => Current(in[con], con)'
                      /\ Passed(con)' => Current(out[con], con)'
    BY DEF Flow, Wired
  <1>1. /\ Fed(con)' => Fed(con) \/ at = FedAt[con]
        /\ Passed(con)' => Passed(con) \/ at = Place[con]
    BY Rounds
  <1>2. ASSUME Fed(con), at # FedAt[con]
        PROVE  Current(in[con], con)'
    <2>1. Current(in[con], con)
      BY <1>2 DEF Flow
    <2> QED
      BY <1>2, <2>1 DEF Current
  <1>3. ASSUME Passed(con), at # Place[con]
        PROVE  Current(out[con], con)'
    <2>1. Current(out[con], con)
      BY <1>3 DEF Flow
    <2> QED
      BY <1>3, <2>1 DEF Current
  <1> QED
    BY <1>1, <1>2, <1>3

LEMMA PendingContinues ==
  ASSUME NEW s \in Sinks, phase = "process", phase' = "process", at \in 1 .. 41, at' = After(at)
  PROVE  LET pop == PopPlace[Clock(In(s, 1))]
         IN /\ at # Place[s] /\ at # pop => (Pending(s)' <=> Pending(s))
            /\ at = Place[s] => ~Pending(s)'
            /\ at = pop => ~Pending(s) /\ Pending(s)'
  <1>1. CASE s \in {"snk_pots_ssl", "snk_tracks_sst"}
    BY <1>1, SinkWiring DEF Place, Pending, InLoop, Loop, Clock, PopPlace, After
  <1>2. CASE s \in {"snk_hops_seps_vol", "snk_hops_pfs_vol", "snk_categories"}
    BY <1>2, SinkWiring DEF Place, Pending, InLoop, Loop, Clock, PopPlace, After
  <1> QED
    BY <1>1, <1>2 DEF Sinks

LEMMA SamplesContinue ==
  ASSUME NEW r \in Resamplers, phase = "process", phase' = "process", at \in 1 .. 41, at' = After(at)
  PROVE  LET fed == FedAt[Out(Input[r], 1)]
         IN /\ at # fed /\ at # PushPlace[r] => (Unpushed(r)' <=> Unpushed(r))
            /\ at = fed => ~Unpushed(r) /\ Unpushed(r)'
            /\ at = PushPlace[r] => Unpushed(r) /\ ~Unpushed(r)' /\ ~Draining(r) /\ Draining(r)'
            /\ at # PushPlace[r] => (Draining(r)' <=> Draining(r))
            /\ fed # PushPlace[r]
            /\ fed = IF r = "mod_resample_mics" THEN 1 ELSE 6
  <1>1. CASE r = "mod_resample_mics"
    BY <1>1, Wiring, LoopEnds DEF Unpushed, Draining, Input, FedAt, PushPlace, InLoop, Loop, After
  <1>2. CASE r = "mod_resample_seps"
    BY <1>2, ResamplerWiring, LoopEnds DEF Unpushed, Draining, Input, FedAt, PushPlace, InLoop, Loop, After
  <1>3. CASE r = "mod_resample_pfs"
    BY <1>3, ResamplerWiring, LoopEnds DEF Unpushed, Draining, Input, FedAt, PushPlace, InLoop, Loop, After
  <1> QED
    BY <1>1, <1>2, <1>3 DEF Resamplers

\* Behind a while loop.
LEMMA Leaves ==
  ASSUME NEW r \in Resamplers, phase = "process", at = PopPlace[r], Leave(r)
  PROVE  /\ at' \in 1 .. 41
         /\ \/ phase' = "process" /\ (at' = 1 => rtn = 0)
            \/ phase' = "close" /\ at' = 1 /\ rtn # 0
         /\ \A con \in Wired : (Fed(con)' => Fed(con)) /\ (Passed(con)' => Passed(con))
         /\ \A s \in Sinks : Pending(s)' <=> Pending(s)
         /\ \A q \in Resamplers : /\ Unpushed(q)' <=> Unpushed(q)
                                  /\ q # r => (Draining(q)' <=> Draining(q))
  <1>1. CASE r = "mod_resample_mics"
    <2>1. at = 6 /\ at' = 1 /\ phase' = IF rtn = 0 THEN "process" ELSE "close"
      BY <1>1 DEF Leave, PopPlace
    <2>2. \A con \in Wired : (Fed(con)' => Fed(con)) /\ (Passed(con)' => Passed(con))
      BY <2>1 DEF Fed, Passed, InLoop, Loop, Clock, FedAt, Place, Wired, Connectors
    <2>3. \A s \in Sinks : Pending(s)' <=> Pending(s)
      BY <2>1, SinkWiring DEF Pending, InLoop, Loop, Clock, PopPlace, Place, Sinks
    <2>4. \A q \in Resamplers : Unpushed(q)' <=> Unpushed(q)
      BY <2>1, Wiring, ResamplerWiring DEF Unpushed, InLoop, Loop, Input, FedAt, PushPlace, Resamplers
    <2>5. \A q \in Resamplers : q # r => (Draining(q)' <=> Draining(q))
      BY <1>1, <2>1, LoopEnds DEF Draining, PushPlace, Resamplers
    <2> QED
      BY <2>1, <2>2, <2>3, <2>4, <2>5
  <1>2. CASE r \in {"mod_resample_seps", "mod_resample_pfs"}
    <2>1. /\ \/ at = 29 /\ at' = 34 /\ r = "mod_resample_seps"
             \/ at = 34 /\ at' = 39 /\ r = "mod_resample_pfs"
          /\ phase' = "process"
      BY <1>2, LoopEnds DEF Leave, PopPlace
    <2>2. \A con \in Wired : (Fed(con)' => Fed(con)) /\ (Passed(con)' => Passed(con))
      BY <2>1 DEF Fed, Passed, InLoop, Loop, Clock, FedAt, Place, Wired, Connectors
    <2>3. \A s \in Sinks : Pending(s)' <=> Pending(s)
      BY <2>1, SinkWiring DEF Pending, InLoop, Loop, Clock, PopPlace, Place, Sinks
    <2>4. \A q \in Resamplers : Unpushed(q)' <=> Unpushed(q)
      BY <2>1, Wiring, ResamplerWiring DEF Unpushed, InLoop, Loop, Input, FedAt, PushPlace, Resamplers
    <2>5. \A q \in Resamplers : q # r => (Draining(q)' <=> Draining(q))
      BY <2>1, LoopEnds DEF Draining, PushPlace, Resamplers
    <2> QED
      BY <2>1, <2>2, <2>3, <2>4, <2>5
  <1> QED
    BY <1>1, <1>2 DEF Resamplers

-----------------------------------------------------------------------------
(* The steps that only hand messages on.                                     *)
LEMMA Elsewhere ==
  ASSUME NEW name \in DOMAIN Place
  PROVE  /\ Place[name] \in 1 .. 41 /\ Place[name] \notin {5, 6, 27, 28, 29, 34}
         /\ name # "src_hops_mics" => Place[name] # 1
         /\ \A r \in Resamplers : PopPlace[r] \in {6, 29, 34}
         /\ name \notin Sinks => \A s \in Sinks : Place[name] # Place[s]
  <1>1. Place[name] \in 1 .. 41 /\ Place[name] \notin {5, 6, 27, 28, 29, 34}
    BY DEF Place
  <1>2. name # "src_hops_mics" => Place[name] # 1
    BY DEF Place
  <1>3. name \notin Sinks => \A s \in Sinks : Place[name] # Place[s]
    BY DEF Place, Sinks
  <1>4. \A r \in Resamplers : PopPlace[r] \in {6, 29, 34}
    BY DEF PopPlace, Resamplers
  <1> QED
    BY <1>1, <1>2, <1>3, <1>4

LEMMA ProcessKeeps ==
  ASSUME IInv, phase = "process", phase' \in {"process", "close"}, c' = c, reason' = reason
  PROVE  Accepted' /\ Fresh' /\ EndpointsServe'
  BY DEF IInv, Accepted, Serving, Fresh, EndpointsServe

LEMMA TypesStep ==
  ASSUME Types, c' = c, phase' \in {"process", "close"}, at' \in 1 .. 41, phase' = "close" => at' = 1,
         in' \in [Wired -> StampedMessage], out' \in [Wired -> StampedMessage],
         fill' \in [Resamplers -> Filling], stamp' \in [Clocks -> Nat],
         sent' \in [Sinks -> Seq(StampedMessage)], reads' \in Nat, rtn' \in {0, -1},
         carried' \in Seq(Int), buffer' \in Int
  PROVE  Types'
  BY DEF Types

LEMMA SamplesStay ==
  ASSUME SamplesKept, phase = "process", phase' = "process", at \in 1 .. 41, at' = After(at), c' = c,
         fill' = fill, stamp' = stamp, at \notin {1, 5, 6, 27, 28}
  PROVE  SamplesKept'
  <1> SUFFICES ASSUME NEW r \in Resamplers, r \in Enabled(c)
               PROVE  /\ Unpushed(r)' <=> Unpushed(r)
                      /\ Draining(r)' <=> Draining(r)
    BY DEF SamplesKept, Serving, Rates, Given, Bit
  <1>1. PushPlace[r] \in {5, 27, 28}
    BY DEF PushPlace, Resamplers
  <1> QED
    BY <1>1, SamplesContinue

LEMMA ReadsStay ==
  ASSUME ReadsInOrder, phase = "process", phase' = "process", at \in 1 .. 41, at' = After(at),
         carried' = carried, stamp'["src_hops_mics"] = stamp["src_hops_mics"], reads' = reads, rtn' = rtn,
         buffer' = buffer
  PROVE  ReadsInOrder'
  BY DEF ReadsInOrder, Bit, After

LEMMA AllSentStays ==
  ASSUME AllSent, phase = "process", phase' = "process", at \in 1 .. 41, at' = After(at), sent' = sent,
         \A s \in Sinks : /\ at # Place[s] /\ at # PopPlace[Clock(In(s, 1))]
                          /\ stamp'[Clock(In(s, 1))] = stamp[Clock(In(s, 1))]
  PROVE  AllSent'
  BY PendingContinues DEF AllSent, Bit

LEMMA HandsOn ==
  ASSUME IInv, phase = "process", NEW name \in DOMAIN Place \ Sinks, name # "src_hops_mics",
         at = Place[name], Continue, UNCHANGED <<c, reason, fill, stamp, buffer, reads, carried, rtn, sent>>,
         in' \in [Wired -> StampedMessage], out' \in [Wired -> StampedMessage]
  PROVE  /\ phase' = "process" /\ at \in 1 .. 41 /\ at' = After(at)
         /\ Flow' => IInv'
  <1>1. at \in 1 .. 41 /\ at \notin {1, 5, 6, 27, 28, 29, 34}
    BY Elsewhere
  <1>2. phase' = "process" /\ at' = After(at) /\ at' \in 1 .. 41
    BY <1>1, Continues
  <1>3. Types'
    <2>1. Types
      BY DEF IInv
    <2>2. /\ fill' \in [Resamplers -> Filling] /\ stamp' \in [Clocks -> Nat]
          /\ sent' \in [Sinks -> Seq(StampedMessage)]
          /\ reads' \in Nat /\ rtn' \in {0, -1} /\ carried' \in Seq(Int) /\ buffer' \in Int
      BY <2>1 DEF Types
    <2> QED
      BY <1>2, <2>1, <2>2, TypesStep
  <1>4. Accepted' /\ Fresh' /\ EndpointsServe'
    BY <1>2, ProcessKeeps
  <1>5. RealFill' /\ SentInOrder'
    BY DEF IInv, RealFill, SentInOrder, Wants
  <1>6. AllSent'
    BY <1>1, <1>2, AllSentStays, Elsewhere, Sinking DEF IInv
  <1>7. SamplesKept'
    BY <1>1, <1>2, SamplesStay DEF IInv
  <1>8. ReadsInOrder'
    BY <1>1, <1>2, ReadsStay DEF IInv
  <1> QED
    BY <1>1, <1>2, <1>3, <1>4, <1>5, <1>6, <1>7, <1>8 DEF IInv

-----------------------------------------------------------------------------
(* The calls.                                                                *)
LEMMA CallPlace ==
  ASSUME IInv, NEW name, Calling(Call(name))
  PROVE  phase = "process" /\ at \in 1 .. 41 /\ name \in DOMAIN Place /\ at = Place[name]
  <1>1. phase = "process" /\ at \in 1 .. 41 /\ Body[at] = Call(name)
    BY DEF Calling, IInv, Types
  <1> QED
    BY <1>1, CalledAt

LEMMA CurrentType ==
  ASSUME IInv
  PROVE  /\ Types /\ \A con \in Wired : in[con] \in StampedMessage /\ out[con] \in StampedMessage
         /\ \A con \in Wired : stamp[Clock(con)] \in Nat
  BY ClockType DEF IInv, Types

LEMMA ConnectorKeeps ==
  ASSUME IInv, ProcessConnector
  PROVE  IInv'
  <1>1. PICK con \in Wired : /\ Calling(Call(con)) /\ out' = [out EXCEPT ![con] = in[con]]
                             /\ Continue
    BY DEF ProcessConnector, Wired
  <1>2. phase = "process" /\ at = Place[con] /\ con \in DOMAIN Place \ Sinks /\ con # "src_hops_mics"
    BY <1>1, CallPlace DEF Wired, Connectors, Sinks
  <1>3. UNCHANGED <<c, heap, leaked, opened, reason, in, fill, stamp, buffer, reads, carried, rtn, sent>>
    BY DEF ProcessConnector
  <1>4. in' \in [Wired -> StampedMessage] /\ out' \in [Wired -> StampedMessage]
    BY <1>1, <1>3, CurrentType DEF Types
  <1>5. phase' = "process" /\ at \in 1 .. 41 /\ at' = After(at) /\ (Flow' => IInv')
    BY <1>1, <1>2, <1>3, <1>4, HandsOn
  <1>6. /\ Fed(con)
        /\ \A other \in Wired : at # FedAt[other] /\ (at = Place[other] => other = con)
    BY <1>2, Connecting
  <1>7. Current(out[con], con)'
    <2>1. Current(in[con], con)
      BY <1>6 DEF IInv, Flow
    <2>2. out'[con] = in[con]
      BY <1>1, CurrentType DEF Types
    <2> QED
      BY <1>3, <2>1, <2>2 DEF Current
  <1>8. \A other \in Wired : at # Place[other] => out'[other] = out[other]
    BY <1>1, <1>2, CurrentType DEF Types
  <1>9. Flow'
    BY <1>2, <1>3, <1>5, <1>6, <1>7, <1>8, FlowContinues DEF IInv
  <1> QED
    BY <1>5, <1>9

\* The calls that give one connector the stamp and the data of another.
LEMMA ModuleKeeps ==
  ASSUME IInv, phase = "process", NEW name \in DOMAIN Place \ (Sinks \cup Wired), name # "src_hops_mics",
         at = Place[name], Continue, UNCHANGED <<c, reason, out, fill, stamp, buffer, reads, carried, rtn, sent>>,
         in' \in [Wired -> StampedMessage],
         \A con \in Wired : /\ at # Place[con]
                            /\ at # FedAt[con] => in'[con] = in[con]
                            /\ at = FedAt[con] => Current(in'[con], con)
  PROVE  IInv'
  <1>1. in' \in [Wired -> StampedMessage] /\ out' \in [Wired -> StampedMessage]
    BY CurrentType DEF Types
  <1>2. phase' = "process" /\ at \in 1 .. 41 /\ at' = After(at) /\ (Flow' => IInv')
    BY <1>1, HandsOn
  <1>3. \A con \in Wired : at = FedAt[con] => Current(in[con], con)'
    BY DEF Current
  <1>4. Flow'
    BY <1>2, <1>3, FlowContinues DEF IInv
  <1> QED
    BY <1>2, <1>4

LEMMA BaseEnabled ==
  ASSUME NEW cfg
  PROVE  {"mod_mapping_mics", "mod_resample_mics", "mod_stft_mics"} \subseteq Enabled(cfg)
  BY DEF Enabled

LEMMA TransformKeeps ==
  ASSUME IInv, ProcessTransform
  PROVE  IInv'
  <1>1. PICK name \in Transforms :
               /\ Calling(Call(name))
               /\ LET msg == out[In(name, 1)]
                  IN in' = [in EXCEPT ![Out(name, 1)] = Transformed(name, msg, {msg})]
               /\ Continue
    BY DEF ProcessTransform
  <1> DEFINE x == In(name, 1)
             y == Out(name, 1)
             made == Transformed(name, out[x], {out[x]})
  <1>2. phase = "process" /\ at = Place[name] /\ name \in DOMAIN Place \ (Sinks \cup Wired)
        /\ name # "src_hops_mics"
    BY <1>1, CallPlace DEF Transforms, Wired, Connectors, Sinks
  <1>3. /\ x \in Wired /\ y \in Wired /\ Passed(x) /\ Clock(x) = Clock(y)
        /\ \A con \in Wired : at # Place[con] /\ (at = FedAt[con] <=> con = y)
        /\ Needs(x) \subseteq Needs(y)
        /\ name \in Needs(y) \cup {"mod_mapping_mics", "mod_stft_mics"}
    BY <1>2, Transforming
  <1>4. UNCHANGED <<c, reason, out, fill, stamp, buffer, reads, carried, rtn, sent>>
    BY DEF ProcessTransform
  <1>5. Current(out[x], x) /\ out[x] \in StampedMessage
    BY <1>3, CurrentType DEF IInv, Flow
  <1>6. in' = [in EXCEPT ![y] = made]
    BY <1>1
  <1> HIDE DEF x, y
  <1>7. made \in StampedMessage /\ Current(made, y)
    <2>1. made = [ts |-> out[x].ts, real |-> name \in Enabled(c) /\ out[x].real]
      BY <1>5 DEF Transformed, Current
    <2>2. out[x].ts \in Nat /\ out[x].real \in BOOLEAN
      BY <1>5 DEF StampedMessage
    <2>3. Needs(y) \subseteq Enabled(c) => name \in Enabled(c) /\ out[x].real
      BY <1>3, <1>5, BaseEnabled DEF Current
    <2> HIDE DEF made
    <2>4. made.ts = out[x].ts /\ (made.real <=> name \in Enabled(c) /\ out[x].real)
      BY <2>1
    <2>5. made \in StampedMessage
      BY <2>1, <2>2 DEF StampedMessage
    <2> QED
      BY <1>3, <1>5, <2>3, <2>4, <2>5 DEF Current
  <1> HIDE DEF made
  <1>8. in' \in [Wired -> StampedMessage] /\ in'[y] = made /\ \A con \in Wired : con # y => in'[con] = in[con]
    BY <1>3, <1>6, <1>7, CurrentType DEF Types
  <1> QED
    BY <1>1, <1>2, <1>3, <1>4, <1>7, <1>8, ModuleKeeps

LEMMA InjectorKeeps ==
  ASSUME IInv, ProcessInjector
  PROVE  IInv'
  <1>1. /\ Calling(Call("inj_targets_sst")) /\ Continue
        /\ in' = [in EXCEPT !["con_targets_sst"] = [ts |-> out["con_hops_mics_rs"].ts, real |-> TRUE]]
        /\ UNCHANGED <<c, reason, out, fill, stamp, buffer, reads, carried, rtn, sent>>
    BY DEF ProcessInjector
  <1>2. /\ phase = "process" /\ at = 15 /\ at = Place["inj_targets_sst"]
        /\ "inj_targets_sst" \in DOMAIN Place \ (Sinks \cup Wired)
    BY <1>1, CallPlace DEF Place, Wired, Connectors, Sinks
  <1>3. /\ {"con_hops_mics_rs", "con_targets_sst"} \subseteq Wired
        /\ Passed("con_hops_mics_rs") /\ Clock("con_hops_mics_rs") = Clock("con_targets_sst")
        /\ \A con \in Wired : at # Place[con] /\ (at = FedAt[con] <=> con = "con_targets_sst")
    BY <1>2 DEF Wired, Connectors, Passed, InLoop, Loop, Clock, Place, FedAt
  <1>4. Current(out["con_hops_mics_rs"], "con_hops_mics_rs") /\ out["con_hops_mics_rs"] \in StampedMessage
    BY <1>3, CurrentType DEF IInv, Flow
  <1> DEFINE made == [ts |-> out["con_hops_mics_rs"].ts, real |-> TRUE]
  <1>5. made \in StampedMessage /\ Current(made, "con_targets_sst")
    BY <1>3, <1>4 DEF Current, StampedMessage
  <1>6. in' = [in EXCEPT !["con_targets_sst"] = made]
    BY <1>1
  <1> HIDE DEF made
  <1>7. /\ in' \in [Wired -> StampedMessage] /\ in'["con_targets_sst"] = made
        /\ \A con \in Wired : con # "con_targets_sst" => in'[con] = in[con]
    BY <1>3, <1>5, <1>6, CurrentType DEF Types
  <1> QED
    BY <1>1, <1>2, <1>3, <1>5, <1>7, ModuleKeeps

\* In one thread the inputs of a module always bear the same time stamp.
LEMMA NoMismatch ==
  ASSUME IInv, NEW name \in {"mod_sst", "mod_sss", "mod_classify"}, phase = "process", at = Place[name]
  PROVE  /\ ~Mismatch(name)
         /\ \A i \in DOMAIN Links[name].ins :
               LET con == Links[name].ins[i]
               IN /\ con \in Wired /\ out[con] \in StampedMessage
                  /\ out[con].ts = stamp["mod_resample_mics"] /\ out[con].ts # 0
                  /\ Needs(con) \subseteq Enabled(c) => out[con].real
  <1>1. ASSUME NEW i \in DOMAIN Links[name].ins
        PROVE  LET con == Links[name].ins[i]
               IN /\ con \in Wired /\ out[con] \in StampedMessage
                  /\ out[con].ts = stamp["mod_resample_mics"] /\ out[con].ts # 0
                  /\ Needs(con) \subseteq Enabled(c) => out[con].real
    <2> DEFINE con == Links[name].ins[i]
    <2>1. con \in Wired /\ Passed(con) /\ Clock(con) = "mod_resample_mics"
      BY Joins
    <2> HIDE DEF con
    <2>2. Current(out[con], con) /\ out[con] \in StampedMessage
      BY <2>1, CurrentType DEF IInv, Flow
    <2> QED
      BY <2>1, <2>2 DEF Current, con
  <1>2. ~Mismatch(name)
    BY <1>1 DEF Mismatch, Stamps
  <1> QED
    BY <1>1, <1>2

\* What a join makes of inputs that are all current.
LEMMA Joined ==
  ASSUME NEW name, NEW msg \in StampedMessage, NEW sources \in SUBSET StampedMessage, msg.ts # 0
  PROVE  /\ Transformed(name, msg, sources) = [ts |-> msg.ts, real |-> name \in Enabled(c) /\ \A s \in sources : s.real]
         /\ Transformed(name, msg, sources) \in StampedMessage
  <1>1. Transformed(name, msg, sources) = [ts |-> msg.ts, real |-> name \in Enabled(c) /\ \A s \in sources : s.real]
    BY DEF Transformed
  <1>2. (name \in Enabled(c) /\ \A s \in sources : s.real) \in BOOLEAN
    OBVIOUS
  <1> QED
    BY <1>1, <1>2 DEF StampedMessage

LEMMA JoinKeeps ==
  ASSUME IInv, ProcessJoin
  PROVE  IInv'
  <1>1. PICK name \in {"mod_sst", "mod_sss", "mod_classify"} :
          /\ Calling(Call(name))
          /\ IF Mismatch(name) THEN Exit("mismatch") /\ UNCHANGED <<at, in>>
            ELSE LET result == Transformed(name, out[In(name, 1)], Joining(name))
                     second == [result EXCEPT !.real = @ /\ \A m \in PostFilterUses : m.real]
                 IN /\ in' = IF name = "mod_sss"
                             THEN [in EXCEPT !["con_spectra_seps"] = result, !["con_spectra_pfs"] = second]
                             ELSE [in EXCEPT ![Out(name, 1)] = result]
                    /\ Continue /\ UNCHANGED reason
    BY DEF ProcessJoin
  <1>2. UNCHANGED <<c, out, fill, stamp, buffer, reads, carried, rtn, sent>>
    BY DEF ProcessJoin
  <1>3. phase = "process" /\ at = Place[name] /\ name \in DOMAIN Place \ (Sinks \cup Wired)
        /\ name # "src_hops_mics"
    BY <1>1, CallPlace DEF Wired, Connectors, Sinks
  <1>4. ~Mismatch(name)
    BY <1>3, NoMismatch
  <1>5. \A con \in Wired : at # Place[con]
    BY <1>3, Joins
  <1> DEFINE result == Transformed(name, out[In(name, 1)], Joining(name))
             second == [result EXCEPT !.real = @ /\ \A m \in PostFilterUses : m.real]
  <1>6. /\ in' = IF name = "mod_sss"
                 THEN [in EXCEPT !["con_spectra_seps"] = result, !["con_spectra_pfs"] = second]
                 ELSE [in EXCEPT ![Out(name, 1)] = result]
        /\ Continue /\ reason' = reason
    BY <1>1, <1>4
  <1> DEFINE Input1(con) == /\ con \in Wired /\ out[con] \in StampedMessage
                            /\ out[con].ts = stamp["mod_resample_mics"] /\ out[con].ts # 0
                            /\ Needs(con) \subseteq Enabled(c) => out[con].real
  <1>7. CASE name = "mod_sst"
    <2>1. Input1("con_pots_ssl")
      BY <1>3, <1>7, NoMismatch, JoinWiring
    <2>2. Joining(name) = {out["con_pots_ssl"]} /\ In(name, 1) = "con_pots_ssl" /\ Out(name, 1) = "con_tracks_sst"
      BY <1>7, JoinWiring DEF Joining
    <2>3. /\ result = [ts |-> out["con_pots_ssl"].ts, real |-> name \in Enabled(c) /\ out["con_pots_ssl"].real]
          /\ result \in StampedMessage
      <3>1. Joining(name) \in SUBSET StampedMessage
        BY <2>1, <2>2
      <3>2. result = Transformed(name, out["con_pots_ssl"], Joining(name))
        BY <2>2
      <3> HIDE DEF result
      <3>3. result = [ts |-> out["con_pots_ssl"].ts, real |-> name \in Enabled(c) /\ \A s \in Joining(name) : s.real]
            /\ result \in StampedMessage
        BY <2>1, <3>1, <3>2, Joined
      <3> QED
        BY <2>2, <3>3
    <2> HIDE DEF result
    <2>4. Current(result, "con_tracks_sst")
      BY <1>7, <2>1, <2>3 DEF Current, Clock, Needs, Tracking
    <2>5. /\ "con_tracks_sst" \in Wired
          /\ \A con \in Wired : at = FedAt[con] => con = "con_tracks_sst"
          /\ at = FedAt["con_tracks_sst"]
      BY <1>3, <1>7 DEF Place, FedAt, Wired, Connectors
    <2>6. in' = [in EXCEPT !["con_tracks_sst"] = result]
      BY <1>6, <1>7, <2>2
    <2>7. in' \in [Wired -> StampedMessage] /\ in'["con_tracks_sst"] = result
          /\ \A con \in Wired : con # "con_tracks_sst" => in'[con] = in[con]
      BY <2>3, <2>5, <2>6, CurrentType DEF Types
    <2> QED
      BY <1>2, <1>3, <1>5, <1>6, <2>4, <2>5, <2>7, ModuleKeeps
  <1>8. CASE name = "mod_classify"
    <2>1. Input1("con_hops_seps") /\ Input1("con_tracks_sst")
      <3>1. DOMAIN Links[name].ins = {1, 2} /\ Links[name].ins[1] = "con_hops_seps"
            /\ Links[name].ins[2] = "con_tracks_sst"
        BY <1>8, JoinWiring
      <3> QED
        BY <1>3, <3>1, NoMismatch
    <2>2. /\ Joining(name) = {out["con_hops_seps"], out["con_tracks_sst"]} /\ In(name, 1) = "con_hops_seps"
          /\ Out(name, 1) = "con_categories"
      BY <1>8, JoinWiring DEF Joining
    <2>3. /\ result = [ts |-> out["con_hops_seps"].ts,
                       real |-> name \in Enabled(c) /\ \A s \in Joining(name) : s.real]
          /\ result \in StampedMessage
      <3>1. Joining(name) \in SUBSET StampedMessage
        BY <2>1, <2>2
      <3>2. result = Transformed(name, out["con_hops_seps"], Joining(name))
        BY <2>2
      <3> HIDE DEF result
      <3> QED
        BY <2>1, <3>1, <3>2, Joined
    <2>4. result.real = (name \in Enabled(c) /\ out["con_hops_seps"].real /\ out["con_tracks_sst"].real)
      BY <2>2, <2>3
    <2> HIDE DEF result
    <2>5. Current(result, "con_categories")
      BY <1>8, <2>1, <2>3, <2>4 DEF Current, Clock, Needs, Tracking, Separating
    <2>6. /\ "con_categories" \in Wired
          /\ \A con \in Wired : at = FedAt[con] <=> con = "con_categories"
      BY <1>3, <1>8 DEF Place, FedAt, Wired, Connectors
    <2>7. in' = [in EXCEPT !["con_categories"] = result]
      BY <1>6, <1>8, <2>2
    <2>8. in' \in [Wired -> StampedMessage] /\ in'["con_categories"] = result
          /\ \A con \in Wired : con # "con_categories" => in'[con] = in[con]
      BY <2>3, <2>6, <2>7, CurrentType DEF Types
    <2> QED
      BY <1>2, <1>3, <1>5, <1>6, <2>5, <2>6, <2>8, ModuleKeeps
  <1>9. CASE name = "mod_sss"
    <2>1. Input1("con_spectra_mics") /\ Input1("con_powers_mics") /\ Input1("con_tracks_sst")
      <3>1. DOMAIN Links[name].ins = {1, 2, 3} /\ Links[name].ins[1] = "con_spectra_mics"
            /\ Links[name].ins[2] = "con_powers_mics" /\ Links[name].ins[3] = "con_tracks_sst"
        BY <1>9, JoinWiring
      <3> QED
        BY <1>3, <3>1, NoMismatch
    <2>2. Joining(name) = {out["con_spectra_mics"], out["con_tracks_sst"]} /\ In(name, 1) = "con_spectra_mics"
      BY <1>9, JoinWiring DEF Joining
    <2>3. /\ result = [ts |-> out["con_spectra_mics"].ts,
                       real |-> name \in Enabled(c) /\ \A s \in Joining(name) : s.real]
          /\ result \in StampedMessage
      <3>1. Joining(name) \in SUBSET StampedMessage
        BY <2>1, <2>2
      <3>2. result = Transformed(name, out["con_spectra_mics"], Joining(name))
        BY <2>2
      <3> HIDE DEF result
      <3> QED
        BY <2>1, <3>1, <3>2, Joined
    <2>4. /\ result.ts = stamp["mod_resample_mics"] /\ result.ts # 0
          /\ result.real = (name \in Enabled(c) /\ out["con_spectra_mics"].real /\ out["con_tracks_sst"].real)
      BY <2>1, <2>2, <2>3
    <2>5. \A m \in PostFilterUses : m = out["con_powers_mics"]
      BY DEF PostFilterUses
    <2>6. /\ second = [ts |-> result.ts, real |-> result.real /\ \A m \in PostFilterUses : m.real]
          /\ second \in StampedMessage
      <3>1. PICK b \in BOOLEAN : b = (result.real /\ \A m \in PostFilterUses : m.real)
        OBVIOUS
      <3>2. second = [result EXCEPT !.real = b]
        BY <3>1
      <3>3. result \in StampedMessage
        BY <2>3
      <3> HIDE DEF result, second
      <3>4. second = [ts |-> result.ts, real |-> b] /\ second \in StampedMessage
        BY <3>2, <3>3 DEF StampedMessage
      <3> QED
        BY <3>1, <3>4
    <2>7. second.ts = result.ts /\ second.real = (result.real /\ \A m \in PostFilterUses : m.real)
      BY <2>6
    <2> HIDE DEF result, second
    <2>8. Current(result, "con_spectra_seps") /\ Current(second, "con_spectra_pfs")
      BY <1>9, <2>1, <2>4, <2>5, <2>7 DEF Current, Clock, Needs, Tracking, Separating
    <2>9. /\ {"con_spectra_seps", "con_spectra_pfs"} \subseteq Wired
          /\ \A con \in Wired : at = FedAt[con] <=> con \in {"con_spectra_seps", "con_spectra_pfs"}
      BY <1>3, <1>9 DEF Place, FedAt, Wired, Connectors
    <2>10. in' = [in EXCEPT !["con_spectra_seps"] = result, !["con_spectra_pfs"] = second]
      BY <1>6, <1>9
    <2>11. /\ in' \in [Wired -> StampedMessage]
           /\ in'["con_spectra_seps"] = result /\ in'["con_spectra_pfs"] = second
           /\ \A con \in Wired : con \notin {"con_spectra_seps", "con_spectra_pfs"} => in'[con] = in[con]
      BY <2>3, <2>6, <2>9, <2>10, CurrentType DEF Types
    <2> QED
      BY <1>2, <1>3, <1>5, <1>6, <2>8, <2>9, <2>11, ModuleKeeps
  <1> QED
    BY <1>7, <1>8, <1>9

LEMMA SinkKeeps ==
  ASSUME IInv, ProcessSink
  PROVE  IInv'
  <1>1. PICK name \in Sinks :
          /\ Calling(Call(name))
          /\ LET msg == out[In(name, 1)] IN
             IF Processes(EndpointCases(name), EndpointConfig(name, c)) \/ msg.ts = 0
             THEN /\ sent' = IF msg.ts = 0 THEN sent ELSE [sent EXCEPT ![name] = Append(@, msg)]
                  /\ Continue /\ UNCHANGED reason
             ELSE Exit("no case") /\ UNCHANGED <<at, sent>>
    BY DEF ProcessSink
  <1>2. UNCHANGED <<c, in, out, fill, stamp, buffer, reads, carried, rtn>>
    BY DEF ProcessSink
  <1> DEFINE x == In(name, 1)
             msg == out[x]
  <1>3. phase = "process" /\ at \in 1 .. 41 /\ at = Place[name] /\ name \in DOMAIN Place
    BY <1>1, CallPlace
  <1>4. Processes(EndpointCases(name), EndpointConfig(name, c))
    BY <1>3, Served DEF IInv, Accepted, Serving, Endpoints
  <1>5. /\ x \in Wired /\ Clock(x) \in Resamplers /\ Passed(x) /\ Pending(name)
        /\ \A con \in Wired : at # Place[con] /\ at # FedAt[con]
        /\ \A t \in Sinks : at = Place[t] => t = name
        /\ Wants(name, c) => Needs(x) \subseteq Enabled(c)
    BY <1>3, Sinking
  <1>6. Current(msg, x) /\ msg \in StampedMessage
    BY <1>5, CurrentType DEF IInv, Flow
  <1>7. msg.ts = stamp[Clock(x)] /\ msg.ts # 0 /\ (Wants(name, c) => msg.real)
    BY <1>5, <1>6 DEF Current
  <1>8. sent' = [sent EXCEPT ![name] = Append(@, msg)] /\ Continue /\ reason' = reason
    BY <1>1, <1>4, <1>7
  <1>9. phase' = "process" /\ at' = After(at) /\ at' \in 1 .. 41
    BY <1>3, <1>8, Continues
  <1>10. sent \in [Sinks -> Seq(StampedMessage)]
    BY CurrentType DEF Types
  <1>11. /\ sent'[name] = Append(sent[name], msg) /\ sent[name] \in Seq(StampedMessage)
         /\ \A s \in Sinks : s # name => sent'[s] = sent[s]
         /\ sent' \in [Sinks -> Seq(StampedMessage)]
    <2> HIDE DEF msg
    <2> QED
      BY <1>6, <1>8, <1>10
  <1>12. Len(sent[name]) + 1 = stamp[Clock(x)]
    BY <1>3, <1>5 DEF IInv, AllSent, Bit
  <1> HIDE DEF msg
  <1>13. Types'
    <2>1. Types
      BY DEF IInv
    <2>2. sent' \in [Sinks -> Seq(StampedMessage)]
      BY <1>11
    <2>3. /\ in' \in [Wired -> StampedMessage] /\ out' \in [Wired -> StampedMessage]
          /\ fill' \in [Resamplers -> Filling] /\ stamp' \in [Clocks -> Nat]
          /\ reads' \in Nat /\ rtn' \in {0, -1} /\ carried' \in Seq(Int) /\ buffer' \in Int
      BY <1>2, <2>1 DEF Types
    <2> QED
      BY <1>2, <1>9, <2>1, <2>2, <2>3, TypesStep
  <1>14. Accepted' /\ Fresh' /\ EndpointsServe'
    BY <1>2, <1>3, <1>8, <1>9, ProcessKeeps
  <1>15. RealFill'
    BY <1>2 DEF IInv, RealFill
  <1>16. SentInOrder'
    <2> SUFFICES ASSUME NEW s \in Sinks, NEW i \in DOMAIN sent'[s]
                 PROVE  sent'[s][i].ts = i /\ (Wants(s, c) => sent'[s][i].real)
      BY <1>2 DEF SentInOrder, Wants
    <2>1. CASE s # name
      BY <1>11, <2>1 DEF IInv, SentInOrder
    <2>2. CASE s = name /\ i \in 1 .. Len(sent[name])
      <3>1. sent'[s][i] = sent[s][i] /\ i \in DOMAIN sent[s]
        BY <1>11, <2>2
      <3> QED
        BY <3>1 DEF IInv, SentInOrder
    <2>3. CASE s = name /\ i = Len(sent[name]) + 1
      <3>1. sent'[s][i] = msg
        BY <1>11, <2>3
      <3> QED
        BY <1>7, <1>12, <2>3, <3>1
    <2>4. s = name => i \in 1 .. Len(sent[name]) + 1
      BY <1>11
    <2> QED
      BY <1>11, <2>1, <2>2, <2>3, <2>4
  <1>17. AllSent'
    <2> SUFFICES ASSUME NEW s \in Sinks
                 PROVE  Len(sent'[s]) + Bit(Pending(s)') = stamp[Clock(In(s, 1))]
      BY <1>2 DEF AllSent, Bit
    <2>1. CASE s = name
      <3>1. ~Pending(s)'
        BY <1>3, <1>9, <2>1, PendingContinues
      <3>2. Len(sent'[s]) = Len(sent[s]) + 1 /\ Len(sent[s]) \in Nat
        BY <1>11, <2>1
      <3> QED
        BY <1>12, <2>1, <3>1, <3>2 DEF Bit
    <2>2. CASE s # name
      <3>1. at # Place[s] /\ at # PopPlace[Clock(In(s, 1))]
        BY <1>3, <1>5, <2>2, Elsewhere, Sinking
      <3>2. Pending(s)' <=> Pending(s)
        BY <1>3, <1>9, <3>1, PendingContinues
      <3> QED
        BY <1>3, <1>11, <2>2, <3>2 DEF IInv, AllSent, Bit
    <2> QED
      BY <2>1, <2>2
  <1>18. SamplesKept'
    BY <1>2, <1>3, <1>9, Elsewhere, SamplesStay DEF IInv, Sinks
  <1>19. ReadsInOrder'
    BY <1>2, <1>3, <1>9, ReadsStay DEF IInv
  <1>20. Flow'
    BY <1>2, <1>3, <1>5, <1>9, FlowContinues DEF IInv
  <1> QED
    BY <1>8, <1>13, <1>14, <1>15, <1>16, <1>17, <1>18, <1>19, <1>20 DEF IInv

-----------------------------------------------------------------------------
(* The resamplers.                                                           *)
LEMMA FillType ==
  ASSUME IInv, NEW r \in Resamplers, phase = "process"
  PROVE  /\ c \in Configs /\ configs_construct(c)
         /\ fill \in [Resamplers -> Filling]
         /\ fill[r].n \in Nat /\ fill[r].real \in BOOLEAN
         /\ IntervalIn(Rates(r)) \in Nat \ {0} /\ IntervalOut(Rates(r)) \in Nat \ {0}
  <1>1. c \in Configs /\ configs_construct(c) /\ fill \in [Resamplers -> Filling]
    BY DEF IInv, Types, Accepted, Serving
  <1>2. IntervalIn(Rates(r)) \in Nat \ {0} /\ IntervalOut(Rates(r)) \in Nat \ {0}
    BY <1>1, RatesPositive
  <1> QED
    BY <1>1, <1>2 DEF Filling

LEMMA PushKeeps ==
  ASSUME IInv, ProcessPush
  PROVE  IInv'
  <1>1. PICK r \in Resamplers :
          /\ Calling(Push(r))
          /\ fill' = IF r \notin Enabled(c) \/ isFull(Rates(r), fill[r].n) THEN fill
                     ELSE [fill EXCEPT ![r] = [n |-> AfterPush(Rates(r), @.n),
                                               real |-> @.real /\ out[In(r, 1)].real]]
          /\ Continue
    BY DEF ProcessPush
  <1>2. UNCHANGED <<c, reason, in, out, stamp, buffer, reads, carried, rtn, sent>>
    BY DEF ProcessPush
  <1>3. phase = "process" /\ at \in 1 .. 41 /\ at = PushPlace[r] /\ at \in {5, 27, 28}
    <2>1. phase = "process" /\ at \in 1 .. 41 /\ Body[at] = Push(r)
      BY <1>1 DEF Calling, IInv, Types
    <2>2. at = PushPlace[r]
      BY <2>1, PushedAt
    <2> QED
      BY <2>1, <2>2 DEF PushPlace, Resamplers
  <1>4. phase' = "process" /\ at' = After(at) /\ at' \in 1 .. 41
    BY <1>1, <1>3, Continues
  <1> DEFINE x  == In(r, 1)
             to == [n |-> fill[r].n + IntervalIn(Rates(r)), real |-> fill[r].real /\ out[x].real]
  <1>5. /\ x \in Wired /\ Passed(x) /\ Unpushed(r) /\ ~Draining(r)
        /\ \A con \in Wired : at # FedAt[con] /\ at # Place[con]
    BY <1>3, Pushing
  <1>6. Current(out[x], x) /\ out[x] \in StampedMessage
    BY <1>5, CurrentType DEF IInv, Flow
  <1>7. /\ c \in Configs /\ configs_construct(c)
        /\ fill \in [Resamplers -> Filling]
        /\ fill[r].n \in Nat /\ fill[r].real \in BOOLEAN
        /\ IntervalIn(Rates(r)) \in Nat \ {0}
    BY <1>3, FillType
  <1>8. to \in Filling
    BY <1>6, <1>7 DEF StampedMessage, Filling
  <1>9. r \in Enabled(c) => fill' = [fill EXCEPT ![r] = to]
    <2> SUFFICES ASSUME r \in Enabled(c)
                 PROVE  fill' = [fill EXCEPT ![r] = to]
      OBVIOUS
    <2>1. fill[r].n < IntervalOut(Rates(r))
      BY <1>3, <1>5 DEF IInv, SamplesKept, Serving
    <2>2. ~isFull(Rates(r), fill[r].n)
      BY <1>7, <2>1, RoomForOneHop
    <2>3. AfterPush(Rates(r), fill[r].n) = fill[r].n + IntervalIn(Rates(r))
      BY <2>2 DEF AfterPush
    <2> QED
      BY <1>1, <1>7, <2>2, <2>3
  <1>10. to.n = fill[r].n + IntervalIn(Rates(r)) /\ (Needs(x) \subseteq Enabled(c) => to.real = fill[r].real)
    BY <1>6, <1>7 DEF Current, StampedMessage
  <1> HIDE DEF to, x
  <1>11. r \notin Enabled(c) => fill' = fill
    BY <1>1
  <1>12. /\ fill' \in [Resamplers -> Filling]
         /\ \A q \in Resamplers : q # r => fill'[q] = fill[q]
         /\ r \in Enabled(c) => fill'[r] = to
         /\ r \notin Enabled(c) => fill'[r] = fill[r]
    BY <1>7, <1>8, <1>9, <1>11
  <1>13. Types'
    <2>1. Types
      BY DEF IInv
    <2>2. fill' \in [Resamplers -> Filling]
      BY <1>12
    <2>3. /\ in' \in [Wired -> StampedMessage] /\ out' \in [Wired -> StampedMessage]
          /\ stamp' \in [Clocks -> Nat] /\ sent' \in [Sinks -> Seq(StampedMessage)]
          /\ reads' \in Nat /\ rtn' \in {0, -1} /\ carried' \in Seq(Int) /\ buffer' \in Int
      BY <1>2, <2>1 DEF Types
    <2> QED
      BY <1>2, <1>4, <2>1, <2>2, <2>3, TypesStep
  <1>14. Accepted' /\ Fresh' /\ EndpointsServe'
    BY <1>2, <1>3, <1>4, ProcessKeeps
  <1>15. RealFill'
    <2> SUFFICES ASSUME NEW q \in Resamplers, Needs(In(q, 1)) \subseteq Enabled(c)
                 PROVE  fill'[q].real
      BY <1>2 DEF RealFill
    <2>1. fill[q].real
      BY DEF IInv, RealFill
    <2> QED
      BY <1>10, <1>12, <2>1 DEF x
  <1>16. SentInOrder'
    BY <1>2 DEF IInv, SentInOrder, Wants
  <1>17. AllSent'
    <2>1. \A s \in Sinks : at # Place[s] /\ at # PopPlace[Clock(In(s, 1))]
      BY <1>3, Elsewhere, Sinking DEF Place, Sinks
    <2> QED
      BY <1>2, <1>3, <1>4, <2>1, AllSentStays DEF IInv
  <1>18. SamplesKept'
    <2> SUFFICES ASSUME NEW q \in Resamplers, q \in Enabled(c)
                 PROVE  /\ fill'[q].n + stamp[q] * IntervalOut(Rates(q)) + Bit(Unpushed(q)') * IntervalIn(Rates(q))
                              = Given(q) * IntervalIn(Rates(q))
                        /\ ~Draining(q)' => fill'[q].n < IntervalOut(Rates(q))
      BY <1>2 DEF SamplesKept, Serving, Rates, Given, Bit
    <2>1. /\ fill[q].n + stamp[q] * IntervalOut(Rates(q)) + Bit(Unpushed(q)) * IntervalIn(Rates(q))
                = Given(q) * IntervalIn(Rates(q))
          /\ ~Draining(q) => fill[q].n < IntervalOut(Rates(q))
      BY <1>3 DEF IInv, SamplesKept, Serving
    <2>2. CASE q = r
      <3>1. ~Unpushed(q)' /\ Draining(q)'
        BY <1>3, <1>4, <2>2, SamplesContinue
      <3>2. stamp[q] * IntervalOut(Rates(q)) \in Nat
        BY <1>3, CurrentType, FillType DEF Types, Clocks
      <3>3. fill'[q].n = fill[q].n + IntervalIn(Rates(q))
        BY <1>10, <1>12, <2>2
      <3>4. fill[q].n + stamp[q] * IntervalOut(Rates(q)) + 1 * IntervalIn(Rates(q)) = Given(q) * IntervalIn(Rates(q))
        BY <1>5, <2>1, <2>2 DEF Bit
      <3>5. Bit(Unpushed(q)') * IntervalIn(Rates(q)) = 0
        BY <1>7, <2>2, <3>1 DEF Bit
      <3> QED
        BY <1>7, <2>2, <3>1, <3>2, <3>3, <3>4, <3>5
    <2>3. CASE q # r
      <3>1. at # PushPlace[q] /\ at # FedAt[Out(Input[q], 1)]
        BY <1>3, <1>4, <2>3, SamplesContinue DEF PushPlace, Resamplers
      <3>2. (Unpushed(q)' <=> Unpushed(q)) /\ (Draining(q)' <=> Draining(q))
        BY <1>3, <1>4, <3>1, SamplesContinue
      <3>3. fill'[q] = fill[q]
        BY <1>12, <2>3
      <3> QED
        BY <2>1, <3>2, <3>3 DEF Bit
    <2> QED
      BY <2>2, <2>3
  <1>19. ReadsInOrder'
    BY <1>2, <1>3, <1>4, ReadsStay DEF IInv
  <1>20. Flow'
    BY <1>2, <1>3, <1>4, <1>5, FlowContinues DEF IInv
  <1> QED
    BY <1>13, <1>14, <1>15, <1>16, <1>17, <1>18, <1>19, <1>20 DEF IInv

LEMMA PopKeeps ==
  ASSUME IInv, ProcessPop
  PROVE  IInv'
  <1>1. PICK r \in Resamplers :
          /\ Calling(Pop(r))
          /\ IF isEmpty(Rates(r), fill[r].n) THEN Leave(r) /\ UNCHANGED <<fill, stamp, in>>
             ELSE /\ fill'  = [fill EXCEPT ![r].n = AfterPop(Rates(r), @)]
                  /\ stamp' = [stamp EXCEPT ![r] = @ + 1]
                  /\ in' = [in EXCEPT ![Out(r, 1)] = [ts |-> stamp'[r], real |-> fill[r].real]]
                  /\ Continue
    BY DEF ProcessPop
  <1>2. UNCHANGED <<c, reason, out, buffer, reads, carried, rtn, sent>>
    BY DEF ProcessPop
  <1>3. phase = "process" /\ at \in 1 .. 41 /\ at = PopPlace[r] /\ at \in {6, 29, 34}
    <2>0. Calling(Pop(r))
      BY <1>1
    <2>1. phase = "process" /\ at \in 1 .. 41 /\ Body[at] = Pop(r)
      BY <2>0 DEF Calling, IInv, Types
    <2>2. at = PopPlace[r]
      BY <2>1, PoppedAt
    <2> QED
      BY <2>1, <2>2 DEF PopPlace, Resamplers
  <1>4. /\ fill \in [Resamplers -> Filling] /\ fill[r].n \in Nat /\ fill[r].real \in BOOLEAN
        /\ IntervalOut(Rates(r)) \in Nat \ {0}
        /\ stamp \in [Clocks -> Nat] /\ stamp[r] \in Nat /\ r \in Clocks
        /\ in \in [Wired -> StampedMessage] /\ out \in [Wired -> StampedMessage]
        /\ sent \in [Sinks -> Seq(StampedMessage)]
        /\ reads \in Nat /\ rtn \in {0, -1} /\ carried \in Seq(Int) /\ buffer \in Int
    BY <1>3, FillType, CurrentType DEF Types, Clocks
  <1>5. CASE isEmpty(Rates(r), fill[r].n)
    <2>1. Leave(r) /\ UNCHANGED <<fill, stamp, in>>
      BY <1>1, <1>5
    <2>2. /\ at' \in 1 .. 41
          /\ \/ phase' = "process" /\ (at' = 1 => rtn = 0)
             \/ phase' = "close" /\ at' = 1 /\ rtn # 0
          /\ \A con \in Wired : (Fed(con)' => Fed(con)) /\ (Passed(con)' => Passed(con))
          /\ \A s \in Sinks : Pending(s)' <=> Pending(s)
          /\ \A q \in Resamplers : /\ Unpushed(q)' <=> Unpushed(q)
                                   /\ q # r => (Draining(q)' <=> Draining(q))
      BY <1>3, <2>1, Leaves
    <2>3. Types'
      BY <1>2, <1>4, <2>1, <2>2, CurrentType, TypesStep
    <2>4. Accepted' /\ Fresh' /\ EndpointsServe'
      BY <1>2, <1>3, <2>2, ProcessKeeps
    <2>5. Flow'
      <3> SUFFICES ASSUME NEW con \in Wired
                   PROVE  /\ Fed(con)' => Current(in[con], con)'
                          /\ Passed(con)' => Current(out[con], con)'
        BY DEF Flow, Wired
      <3> QED
        BY <1>2, <2>1, <2>2 DEF IInv, Flow, Current
    <2>6. RealFill' /\ SentInOrder'
      BY <1>2, <2>1 DEF IInv, RealFill, SentInOrder, Wants
    <2>7. AllSent'
      BY <1>2, <1>3, <2>1, <2>2 DEF IInv, AllSent, Bit
    <2>8. SamplesKept'
      <3> SUFFICES ASSUME NEW q \in Resamplers, q \in Enabled(c)
                   PROVE  /\ Unpushed(q)' <=> Unpushed(q)
                          /\ fill[q].n < IntervalOut(Rates(q)) \/ (Draining(q)' <=> Draining(q))
        BY <1>2, <1>3, <2>1 DEF IInv, SamplesKept, Serving, Rates, Given, Bit
      <3>1. fill[r].n < IntervalOut(Rates(r))
        BY <1>4, <1>5 DEF isEmpty
      <3> QED
        BY <2>2, <3>1
    <2>9. ReadsInOrder'
      BY <1>2, <1>3, <1>4, <2>1, <2>2 DEF IInv, ReadsInOrder, Bit
    <2> QED
      BY <1>2, <2>3, <2>4, <2>5, <2>6, <2>7, <2>8, <2>9 DEF IInv
  <1>6. CASE ~isEmpty(Rates(r), fill[r].n)
    <2> DEFINE y == Out(r, 1)
               left == fill[r].n - IntervalOut(Rates(r))
               next == stamp[r] + 1
               made == [ts |-> next, real |-> fill[r].real]
    <2>1. left \in Nat /\ AfterPop(Rates(r), fill[r].n) = left
      BY <1>4, <1>6 DEF isEmpty, AfterPop
    <2>2. /\ fill'  = [fill EXCEPT ![r] = [@ EXCEPT !.n = left]]
          /\ stamp' = [stamp EXCEPT ![r] = next] /\ Continue
      BY <1>1, <1>6, <2>1
    <2>3. phase' = "process" /\ at' = After(at) /\ at' \in 1 .. 41
      BY <1>3, <2>2, Continues
    <2>4. /\ y \in Wired /\ Clock(y) = r
          /\ \A con \in Wired : /\ at # Place[con] /\ (at = FedAt[con] <=> con = y)
                                /\ Clock(con) = r => ~Fed(con) /\ ~Passed(con)
          /\ Needs(In(r, 1)) = Needs(y)
      BY <1>3, Popping
    <2>5. /\ stamp' \in [Clocks -> Nat] /\ stamp'[r] = next /\ \A k \in Clocks : k # r => stamp'[k] = stamp[k]
      BY <1>4, <2>2
    <2>6. in' = [in EXCEPT ![y] = made]
      BY <1>1, <1>6, <2>5
    <2>7. made \in StampedMessage
      BY <1>4 DEF StampedMessage
    <2>8. made.ts = next /\ made.real = fill[r].real
      OBVIOUS
    <2> HIDE DEF y, made
    <2>9. /\ in' \in [Wired -> StampedMessage] /\ in'[y] = made
          /\ \A con \in Wired : con # y => in'[con] = in[con]
      BY <1>4, <2>4, <2>6, <2>7
    <2>10. /\ fill' \in [Resamplers -> Filling]
           /\ fill'[r].n = left /\ fill'[r].real = fill[r].real
           /\ \A q \in Resamplers : q # r => fill'[q] = fill[q]
      <3>1. [fill[r] EXCEPT !.n = left] \in Filling
        BY <1>4, <2>1 DEF Filling
      <3>2. fill[r] \in Filling
        BY <1>4
      <3>3. [fill[r] EXCEPT !.n = left].n = left /\ [fill[r] EXCEPT !.n = left].real = fill[r].real
        BY <3>2 DEF Filling
      <3> HIDE DEF left
      <3>4. fill'[r] = [fill[r] EXCEPT !.n = left] /\ \A q \in Resamplers : q # r => fill'[q] = fill[q]
        BY <1>4, <2>2
      <3>5. fill' \in [Resamplers -> Filling]
        BY <1>4, <2>2, <3>1
      <3> QED
        BY <3>3, <3>4, <3>5
    <2>11. Types'
      <3>1. fill' \in [Resamplers -> Filling] /\ in' \in [Wired -> StampedMessage] /\ stamp' \in [Clocks -> Nat]
        BY <2>5, <2>9, <2>10
      <3> QED
        BY <1>2, <1>4, <2>3, <3>1, CurrentType, TypesStep
    <2>12. Accepted' /\ Fresh' /\ EndpointsServe'
      BY <1>2, <1>3, <2>3, ProcessKeeps
    <2>13. Flow'
      <3>1. Current(in[y], y)'
        <4>1. Needs(y) \subseteq Enabled(c) => fill[r].real
          BY <2>4 DEF IInv, RealFill
        <4>2. next # 0 /\ stamp'[Clock(y)] = next
          BY <1>4, <2>4, <2>5
        <4> QED
          BY <1>2, <2>8, <2>9, <4>1, <4>2 DEF Current
      <3>2. \A con \in Wired : Fed(con) \/ Passed(con) => stamp'[Clock(con)] = stamp[Clock(con)]
        BY <2>4, <2>5, ClockType
      <3>3. \A con \in Wired : at = FedAt[con] => Current(in[con], con)'
        BY <2>4, <3>1
      <3> QED
        BY <1>2, <1>3, <2>3, <2>4, <2>9, <3>2, <3>3, FlowContinues DEF IInv
    <2>14. RealFill' /\ SentInOrder'
      BY <1>2, <2>10 DEF IInv, RealFill, SentInOrder, Wants
    <2>15. AllSent'
      <3> SUFFICES ASSUME NEW s \in Sinks
                   PROVE  Len(sent[s]) + Bit(Pending(s)') = stamp'[Clock(In(s, 1))]
        BY <1>2 DEF AllSent, Bit
      <3>1. /\ Clock(In(s, 1)) \in Resamplers /\ Len(sent[s]) \in Nat
            /\ Len(sent[s]) + Bit(Pending(s)) = stamp[Clock(In(s, 1))]
        BY <1>3, <1>4, Sinking DEF IInv, AllSent
      <3>2. CASE Clock(In(s, 1)) = r
        <4>1. ~Pending(s) /\ Pending(s)'
          BY <1>3, <2>3, <3>2, PendingContinues
        <4> QED
          BY <2>5, <3>1, <3>2, <4>1 DEF Bit
      <3>3. CASE Clock(In(s, 1)) # r
        <4>1. at # PopPlace[Clock(In(s, 1))] /\ at # Place[s]
          <5>1. at # Place[s]
            BY <1>3 DEF Place, Sinks
          <5>2. \A q \in Resamplers : q # r => PopPlace[q] # PopPlace[r]
            BY DEF PopPlace, Resamplers
          <5> QED
            BY <1>3, <3>1, <3>3, <5>1, <5>2
        <4>2. Pending(s)' <=> Pending(s)
          BY <1>3, <2>3, <4>1, PendingContinues
        <4>3. Clock(In(s, 1)) \in Clocks
          BY ClockType
        <4> QED
          BY <2>5, <3>1, <3>3, <4>2, <4>3 DEF Bit
      <3> QED
        BY <3>2, <3>3
    <2>16. SamplesKept'
      <3> SUFFICES ASSUME NEW q \in Resamplers, q \in Enabled(c)
                   PROVE  /\ fill'[q].n + stamp'[q] * IntervalOut(Rates(q)) + Bit(Unpushed(q)') * IntervalIn(Rates(q))
                                = stamp'[Input[q]] * IntervalIn(Rates(q))
                          /\ ~Draining(q)' => fill'[q].n < IntervalOut(Rates(q))
        BY <1>2 DEF SamplesKept, Serving, Rates, Given, Bit
      <3>1. /\ fill[q].n + stamp[q] * IntervalOut(Rates(q)) + Bit(Unpushed(q)) * IntervalIn(Rates(q))
                  = stamp[Input[q]] * IntervalIn(Rates(q))
            /\ ~Draining(q) => fill[q].n < IntervalOut(Rates(q))
        BY <1>3 DEF IInv, SamplesKept, Serving, Given
      <3>2. PICK a \in Nat \ {0}, b \in Nat \ {0} : a = IntervalIn(Rates(q)) /\ b = IntervalOut(Rates(q))
        BY <1>3, FillType
      <3>3. /\ Draining(q)' <=> Draining(q)
            /\ r = q => Draining(q)
        BY <1>3, <2>3, SamplesContinue, LoopEnds DEF PushPlace, PopPlace, Resamplers, Draining
      <3>4. /\ q \in Clocks /\ Input[q] \in Clocks /\ Input[q] # q
            /\ stamp[q] \in Nat /\ stamp[Input[q]] \in Nat
        BY <1>4 DEF Input, Resamplers, Clocks
      <3>5. CASE q = r
        <4>1. Unpushed(q)' <=> Unpushed(q)
          BY <1>3, <2>3, <3>5, SamplesContinue DEF PushPlace, PopPlace, Resamplers
        <4>2. (stamp[q] + 1) * b = stamp[q] * b + b /\ stamp[q] * b \in Nat
          BY <3>2, <3>4
        <4>3. fill'[q].n = fill[q].n - b /\ stamp'[q] = stamp[q] + 1 /\ stamp'[Input[q]] = stamp[Input[q]]
          BY <2>5, <2>10, <3>2, <3>4, <3>5
        <4>4. fill'[q].n + (stamp[q] + 1) * b = fill[q].n + stamp[q] * b
          BY <1>4, <3>2, <3>5, <4>2, <4>3
        <4>5. Bit(Unpushed(q)') = Bit(Unpushed(q))
          BY <4>1 DEF Bit
        <4> QED
          BY <3>1, <3>2, <3>3, <3>5, <4>3, <4>4, <4>5
      <3>6. CASE q # r /\ Input[q] # r
        <4>1. Unpushed(q)' <=> Unpushed(q)
          BY <1>3, <2>3, <3>6, SamplesContinue DEF PushPlace, PopPlace, Resamplers, Input
        <4> QED
          BY <2>5, <2>10, <3>1, <3>3, <3>4, <3>6, <4>1 DEF Bit
      <3>7. CASE q # r /\ Input[q] = r
        <4>1. ~Unpushed(q) /\ Unpushed(q)'
          BY <1>3, <2>3, <3>7, SamplesContinue DEF PushPlace, PopPlace, Resamplers, Input
        <4>2. (stamp[r] + 1) * a = stamp[r] * a + a /\ stamp[r] * a \in Nat
          BY <1>4, <3>2
        <4>3. fill'[q] = fill[q] /\ stamp'[q] = stamp[q] /\ stamp'[Input[q]] = stamp[r] + 1
          BY <2>5, <2>10, <3>4, <3>7
        <4>4. fill[q].n \in Nat /\ stamp[q] * b \in Nat
          BY <1>3, <3>2, <3>4, FillType
        <4>5. fill[q].n + stamp[q] * b + 0 * a = stamp[r] * a
          BY <3>1, <3>2, <3>7, <4>1 DEF Bit
        <4>6. fill[q].n + stamp[q] * b + 1 * a = (stamp[r] + 1) * a
          BY <3>2, <4>2, <4>4, <4>5
        <4> QED
          BY <3>1, <3>2, <3>3, <4>1, <4>3, <4>6 DEF Bit
      <3> QED
        BY <3>5, <3>6, <3>7
    <2>17. ReadsInOrder'
      <3>1. stamp'["src_hops_mics"] = stamp["src_hops_mics"]
        BY <2>5 DEF Clocks, Resamplers
      <3> QED
        BY <1>2, <1>3, <2>3, <3>1, ReadsStay DEF IInv
    <2> QED
      BY <1>2, <2>11, <2>12, <2>13, <2>14, <2>15, <2>16, <2>17 DEF IInv
  <1> QED
    BY <1>5, <1>6

-----------------------------------------------------------------------------
(* The source.                                                               *)
LEMMA SourceKeeps ==
  ASSUME IInv, ProcessSource
  PROVE  IInv'
  <1>1. /\ Calling(Call("src_hops_mics")) /\ UNCHANGED <<c, out, fill, sent>>
        /\ Processes(src_hops_cases, src_hops_mics_config(c)) =>
             /\ carried' = Append(carried, buffer)
             /\ \E result \in {0, -1} : Read(result) /\ rtn' = result
             /\ stamp' = [stamp EXCEPT !["src_hops_mics"] = @ + 1]
             /\ in' = [in EXCEPT ![Out("src_hops_mics", 1)] =
                          [ts |-> stamp'["src_hops_mics"], real |-> TRUE]]
             /\ Continue /\ reason' = reason
    BY DEF ProcessSource
  <1>2. phase = "process" /\ at = 1 /\ at = Place["src_hops_mics"]
    BY <1>1, CallPlace DEF Place
  <1>3. Processes(src_hops_cases, src_hops_mics_config(c))
    BY <1>2, SourceServed DEF IInv
  <1> DEFINE src  == "src_hops_mics"
             raw  == "con_hops_mics_raw"
             next == stamp[src] + 1
             made == [ts |-> next, real |-> TRUE]
  <1>4. /\ stamp \in [Clocks -> Nat] /\ in \in [Wired -> StampedMessage] /\ out \in [Wired -> StampedMessage]
        /\ fill \in [Resamplers -> Filling] /\ sent \in [Sinks -> Seq(StampedMessage)]
        /\ carried \in Seq(Int) /\ buffer \in Int /\ reads \in Nat
    BY CurrentType DEF Types
  <1>5. src \in Clocks /\ raw \in Wired /\ Clock(raw) = src /\ stamp[src] \in Nat /\ Out(src, 1) = raw
        /\ \A con \in Wired : /\ at # Place[con] /\ (at = FedAt[con] <=> con = raw)
                              /\ ~Fed(con) /\ ~Passed(con)
    <2>1. src \in Clocks /\ Clock(raw) = src /\ Out(src, 1) = raw
      BY Wiring DEF Clocks, Clock
    <2>2. raw \in Wired
      BY DEF Wired, Connectors
    <2>3. \A con \in Wired : at # Place[con] /\ (at = FedAt[con] <=> con = raw)
      BY <1>2 DEF Wired, Connectors, Place, FedAt
    <2>4. \A con \in Wired : ~Fed(con) /\ ~Passed(con)
      BY <1>2 DEF Wired, Connectors, Place, FedAt, Fed, Passed, InLoop, Loop, Clock
    <2> QED
      BY <1>4, <2>1, <2>2, <2>3, <2>4
  <1>6. /\ stamp' = [stamp EXCEPT ![src] = next] /\ Continue /\ reason' = reason
        /\ carried' = Append(carried, buffer)
        /\ \E result \in {0, -1} : Read(result) /\ rtn' = result
    BY <1>1, <1>3
  <1>7. phase' = "process" /\ at \in 1 .. 41 /\ at' = After(at) /\ at' \in 1 .. 41
    BY <1>2, <1>6, Continues
  <1>8. /\ stamp' \in [Clocks -> Nat] /\ stamp'[src] = next /\ next \in Nat \ {0}
        /\ \A k \in Clocks : k # src => stamp'[k] = stamp[k]
    BY <1>4, <1>5, <1>6
  <1>9. in' = [in EXCEPT ![raw] = made]
    BY <1>1, <1>3, <1>5, <1>8
  <1>10. made \in StampedMessage /\ made.ts = next /\ made.real
    BY <1>8 DEF StampedMessage
  <1> HIDE DEF made, next
  <1>11. /\ in' \in [Wired -> StampedMessage] /\ in'[raw] = made
         /\ \A con \in Wired : con # raw => in'[con] = in[con]
    BY <1>4, <1>5, <1>9, <1>10
  <1>12. \/ rtn' = 0 /\ reads' = reads + 1 /\ buffer' = reads + 1
         \/ rtn' = -1 /\ reads' = reads /\ buffer' = -1
    BY <1>6 DEF Read, Partial
  <1>13. /\ carried' \in Seq(Int) /\ Len(carried') = Len(carried) + 1 /\ Len(carried) \in Nat
         /\ \A i \in 1 .. Len(carried) : carried'[i] = carried[i]
         /\ carried'[Len(carried) + 1] = buffer
    BY <1>4, <1>6
  <1>14. Types'
    <2>1. reads' \in Nat /\ rtn' \in {0, -1} /\ carried' \in Seq(Int) /\ buffer' \in Int
      BY <1>4, <1>12, <1>13
    <2>2. stamp' \in [Clocks -> Nat] /\ in' \in [Wired -> StampedMessage]
      BY <1>8, <1>11
    <2> QED
      BY <1>1, <1>4, <1>7, <2>1, <2>2, CurrentType, TypesStep
  <1>15. Accepted' /\ Fresh' /\ EndpointsServe'
    BY <1>1, <1>2, <1>6, <1>7, ProcessKeeps
  <1>16. RealFill' /\ SentInOrder'
    BY <1>1 DEF IInv, RealFill, SentInOrder, Wants
  <1>17. Flow'
    <2>1. Current(in[raw], raw)'
      BY <1>5, <1>8, <1>10, <1>11 DEF Current
    <2>2. \A con \in Wired : at = FedAt[con] => Current(in[con], con)'
      BY <1>5, <2>1
    <2> QED
      BY <1>1, <1>2, <1>5, <1>7, <1>11, <2>2, FlowContinues DEF IInv
  <1>18. AllSent'
    <2>1. ASSUME NEW s \in Sinks
          PROVE  /\ at # Place[s] /\ at # PopPlace[Clock(In(s, 1))]
                 /\ stamp'[Clock(In(s, 1))] = stamp[Clock(In(s, 1))]
      <3>1. Clock(In(s, 1)) \in Resamplers /\ Clock(In(s, 1)) \in Clocks /\ Clock(In(s, 1)) # src
        BY Sinking DEF Clocks, Resamplers
      <3>2. \A r \in Resamplers : PopPlace[r] # 1
        BY DEF PopPlace, Resamplers
      <3>3. Place[s] # 1
        BY DEF Place, Sinks
      <3> QED
        BY <1>2, <1>8, <3>1, <3>2, <3>3
    <2> QED
      BY <1>1, <1>2, <1>7, <2>1, AllSentStays DEF IInv
  <1>19. SamplesKept'
    <2> SUFFICES ASSUME NEW q \in Resamplers, q \in Enabled(c)
                 PROVE  /\ fill[q].n + stamp'[q] * IntervalOut(Rates(q)) + Bit(Unpushed(q)') * IntervalIn(Rates(q))
                              = stamp'[Input[q]] * IntervalIn(Rates(q))
                        /\ ~Draining(q)' => fill[q].n < IntervalOut(Rates(q))
      BY <1>1 DEF SamplesKept, Serving, Rates, Given, Bit
    <2>1. /\ fill[q].n + stamp[q] * IntervalOut(Rates(q)) + Bit(Unpushed(q)) * IntervalIn(Rates(q))
                = stamp[Input[q]] * IntervalIn(Rates(q))
          /\ ~Draining(q) => fill[q].n < IntervalOut(Rates(q))
      BY <1>2 DEF IInv, SamplesKept, Serving, Given
    <2>2. Draining(q)' <=> Draining(q)
      BY <1>2, <1>7, SamplesContinue DEF PushPlace, Resamplers
    <2>3. q \in Clocks /\ q # src /\ stamp'[q] = stamp[q] /\ stamp[q] \in Nat
      BY <1>4, <1>8 DEF Clocks, Resamplers
    <2>4. CASE q = "mod_resample_mics"
      <3>1. ~Unpushed(q) /\ Unpushed(q)' /\ Input[q] = src
        BY <1>2, <1>7, <2>4, SamplesContinue DEF Input, PushPlace
      <3>2. PICK a \in Nat \ {0}, b \in Nat \ {0} : a = IntervalIn(Rates(q)) /\ b = IntervalOut(Rates(q))
        BY <1>2, FillType
      <3>3. (stamp[src] + 1) * a = stamp[src] * a + a /\ stamp[src] * a \in Nat
        BY <1>5, <3>2
      <3>4. fill[q].n \in Nat /\ stamp[q] * b \in Nat
        BY <1>2, <2>3, <3>2, FillType
      <3>5. fill[q].n + stamp[q] * b + 0 * a = stamp[src] * a
        BY <2>1, <3>1, <3>2 DEF Bit
      <3>6. fill[q].n + stamp[q] * b + 1 * a = (stamp[src] + 1) * a
        BY <3>2, <3>3, <3>4, <3>5
      <3> QED
        BY <1>8, <2>1, <2>2, <2>3, <3>1, <3>2, <3>6 DEF Bit, next
    <2>5. CASE q # "mod_resample_mics"
      <3>1. Unpushed(q)' <=> Unpushed(q)
        BY <1>2, <1>7, <2>5, SamplesContinue DEF PushPlace, Resamplers
      <3>2. Input[q] \in Clocks /\ Input[q] # src
        BY <2>5 DEF Input, Resamplers, Clocks
      <3> QED
        BY <1>8, <2>1, <2>2, <2>3, <3>1, <3>2 DEF Bit
    <2> QED
      BY <2>4, <2>5
  <1>20. ReadsInOrder'
    <2>0. ReadsInOrder
      BY DEF IInv
    <2>1. Len(carried) = stamp[src] /\ Len(carried) = reads /\ buffer = reads
      <3>1. rtn = 0
        BY <1>2, <2>0 DEF ReadsInOrder
      <3>2. Len(carried) = stamp[src] /\ Len(carried) = reads + Bit(rtn = -1) /\ buffer = reads
        BY <1>2, <2>0, <3>1 DEF ReadsInOrder
      <3> QED
        BY <1>4, <3>1, <3>2 DEF Bit
    <2>2. \A i \in 1 .. Len(carried') : carried'[i] = i - 1
      <3>1. \A i \in 1 .. Len(carried) : carried[i] = i - 1
        BY <2>0 DEF ReadsInOrder
      <3>2. \A i \in 1 .. Len(carried') : i \in 1 .. Len(carried) \/ i = Len(carried) + 1
        BY <1>13
      <3>3. carried'[Len(carried) + 1] = Len(carried)
        BY <1>13, <2>1
      <3> QED
        BY <1>13, <3>1, <3>2, <3>3
    <2>3. carried' = [i \in 1 .. Len(carried') |-> i - 1]
      BY <1>13, <2>2
    <2>4. Len(carried') = stamp'[src] /\ Len(carried') = reads' + Bit(rtn' = -1)
      BY <1>4, <1>8, <1>12, <1>13, <2>1 DEF Bit, next
    <2>5. at' # 1
      BY <1>2, <1>7 DEF After
    <2> QED
      BY <1>7, <1>12, <2>3, <2>4, <2>5 DEF ReadsInOrder, Bit
  <1> QED
    BY <1>1, <1>6, <1>14, <1>15, <1>16, <1>17, <1>18, <1>19, <1>20 DEF IInv

-----------------------------------------------------------------------------
(* The steps before and behind the loop.                                     *)
LEMMA Around ==
  ASSUME IInv, c' = c, UNCHANGED stream,
         phase' = "process" => phase = "open" /\ at' = 1,
         phase' # "exit" => phase \notin {"exit", "process"},
         phase' \in Serving => phase \in Serving \cup {"construct"},
         phase' \in {"configure", "construct", "open"} => phase \in {"configure", "construct", "open"},
         phase' = "close" => phase = "close"
  PROVE  Flow' /\ RealFill' /\ Fresh' /\ SentInOrder' /\ AllSent' /\ SamplesKept' /\ ReadsInOrder'
  <1>1. UNCHANGED <<in, out, fill, stamp, buffer, reads, carried, rtn, sent>>
    BY DEF stream
  <1>2. Flow'
    <2>1. \A con \in Wired : ~Fed(con)' /\ ~Passed(con)'
      BY DEF Wired, Connectors, Fed, Passed, InLoop, Loop, FedAt, Place, Clock
    <2> QED
      BY <2>1 DEF Flow
  <1>3. RealFill' /\ SentInOrder'
    BY <1>1 DEF IInv, RealFill, SentInOrder, Wants
  <1>4. Fresh'
    BY <1>1 DEF IInv, Fresh
  <1>5. AllSent'
    <2>1. \A s \in Sinks : ~Pending(s)'
      <3>1. \A r \in Resamplers : ~InLoop(r)'
        BY DEF Resamplers, InLoop, Loop
      <3> QED
        BY <3>1, Sinking DEF Pending
    <2>2. phase' # "exit" => \A s \in Sinks : ~Pending(s)
      BY DEF Pending, InLoop
    <2> QED
      BY <1>1, <2>1, <2>2 DEF IInv, AllSent, Bit
  <1>6. SamplesKept'
    <2> SUFFICES ASSUME phase' \in Serving, NEW q \in Resamplers, q \in Enabled(c)
                 PROVE  /\ fill[q].n + stamp[q] * IntervalOut(Rates(q)) + Bit(Unpushed(q)') * IntervalIn(Rates(q))
                              = stamp[Input[q]] * IntervalIn(Rates(q))
                        /\ ~Draining(q)' => fill[q].n < IntervalOut(Rates(q))
      BY <1>1 DEF SamplesKept, Serving, Rates, Given, Bit
    <2>1. ~Unpushed(q)' /\ ~Draining(q)'
      BY Wiring, ResamplerWiring, LoopEnds DEF Unpushed, Draining, InLoop, Loop, FedAt, Input, PushPlace, Resamplers
    <2>2. ~Unpushed(q) /\ ~Draining(q)
      BY DEF Unpushed, Draining, InLoop, Serving
    <2>3. CASE phase \in Serving
      <3>1. /\ fill[q].n + stamp[q] * IntervalOut(Rates(q)) + Bit(Unpushed(q)) * IntervalIn(Rates(q))
                  = stamp[Input[q]] * IntervalIn(Rates(q))
            /\ ~Draining(q) => fill[q].n < IntervalOut(Rates(q))
        BY <2>3 DEF IInv, SamplesKept, Given
      <3> QED
        BY <2>1, <2>2, <3>1 DEF Bit
    <2>4. CASE phase = "construct"
      <3>1. fill[q].n = 0 /\ stamp[q] = 0 /\ stamp[Input[q]] = 0
        BY <2>4 DEF IInv, Fresh, Clocks, Input, Resamplers
      <3>2. PICK a \in Nat \ {0}, b \in Nat \ {0} : a = IntervalIn(Rates(q)) /\ b = IntervalOut(Rates(q))
        BY <2>4, RatesPositive DEF IInv, Types, Accepted
      <3> QED
        BY <2>1, <3>1, <3>2 DEF Bit
    <2> QED
      BY <2>3, <2>4
  <1>7. ReadsInOrder'
    <2>1. ReadsInOrder /\ Types
      BY DEF IInv
    <2>2. phase' = "process" => rtn = 0
      <3> SUFFICES ASSUME phase' = "process"
                   PROVE  rtn = 0
        OBVIOUS
      <3>1. phase = "open" /\ stamp["src_hops_mics"] = 0
        BY DEF IInv, Fresh, Clocks
      <3>2. Len(carried) = 0 /\ Len(carried) = reads + Bit(rtn = -1)
        BY <2>1, <3>1 DEF ReadsInOrder
      <3>3. reads \in Nat /\ rtn \in {0, -1}
        BY <2>1 DEF Types
      <3> QED
        BY <3>2, <3>3 DEF Bit
    <2> QED
      BY <1>1, <2>1, <2>2 DEF ReadsInOrder, Bit
  <1> QED
    BY <1>2, <1>3, <1>4, <1>5, <1>6, <1>7

LEMMA OutsideTypes ==
  ASSUME IInv, c' = c, UNCHANGED stream, at' \in Nat \ {0},
         phase' \in {"configure", "construct", "open", "process", "close", "destroy", "unconfigure",
                     "done", "exit"},
         phase' = "process" => at' <= 41, phase' \in {"open", "close"} => at' <= 6
  PROVE  Types'
  <1>1. Types
    BY DEF IInv
  <1> QED
    BY <1>1 DEF Types, stream

LEMMA ConfigureKeeps ==
  ASSUME IInv, Configure
  PROVE  IInv'
  <1>1. /\ phase = "configure" /\ at = 1 /\ UNCHANGED <<c, at, stream>>
        /\ \/ configs_construct(c) /\ phase' = "construct" /\ reason' = reason
           \/ phase' = "exit" /\ reason' = "configuration"
    BY DEF Configure, Exit, IInv, Accepted
  <1>2. Types'
    BY <1>1, OutsideTypes
  <1>3. Accepted'
    BY <1>1 DEF Accepted, Serving, ConstructOrder
  <1>4. EndpointsServe'
    BY <1>1 DEF IInv, EndpointsServe
  <1>5. Flow' /\ RealFill' /\ Fresh' /\ SentInOrder' /\ AllSent' /\ SamplesKept' /\ ReadsInOrder'
    BY <1>1, Around DEF Serving
  <1> QED
    BY <1>2, <1>3, <1>4, <1>5 DEF IInv

LEMMA EndpointsBuilt ==
  ASSUME \A i \in 1 .. 38 : ~Refused(ConstructOrder[i], c)
  PROVE  \A name \in Endpoints : ~Refused(name, c)
  <1>1. /\ ConstructOrder[1] = "src_hops_mics" /\ ConstructOrder[12] = "snk_pots_ssl"
        /\ ConstructOrder[17] = "snk_tracks_sst" /\ ConstructOrder[34] = "snk_hops_seps_vol"
        /\ ConstructOrder[35] = "snk_hops_pfs_vol" /\ ConstructOrder[38] = "snk_categories"
    BY DEF ConstructOrder
  <1> QED
    BY <1>1 DEF Endpoints, Sinks

LEMMA ConstructKeeps ==
  ASSUME IInv, Construct
  PROVE  IInv'
  <1>0. Len(ConstructOrder) = 38
    BY DEF ConstructOrder
  <1>1. /\ phase = "construct" /\ UNCHANGED <<c, stream>> /\ at \in Nat \ {0}
        /\ \/ phase' = "exit" /\ reason' = "constructor" /\ at' = at
           \/ /\ ~Refused(ConstructOrder[at], c) /\ reason' = reason
              /\ \/ at < 38 /\ at' = at + 1 /\ phase' = "construct"
                 \/ at >= 38 /\ at' = 1 /\ phase' \in {"destroy", "open"}
    <2>1. phase = "construct" /\ UNCHANGED <<c, stream>> /\ at \in Nat \ {0}
      BY CurrentType DEF Construct, Types
    <2>2. CASE Refused(ConstructOrder[at], c)
      BY <2>1, <2>2 DEF Construct, Exit
    <2>3. CASE ~Refused(ConstructOrder[at], c)
      <3>1. /\ IF at < Len(ConstructOrder)
               THEN at' = at + 1 /\ phase' = phase
               ELSE at' = 1 /\ phase' = (IF multi THEN "destroy" ELSE "open")
            /\ reason' = reason
        BY <2>3 DEF Construct
      <3> QED
        BY <1>0, <2>1, <2>3, <3>1
    <2> QED
      BY <2>1, <2>2, <2>3
  <1>2. at \in Nat \ {0} /\ at <= 38 /\ configs_construct(c) /\ \A i \in 1 .. at - 1 : ~Refused(ConstructOrder[i], c)
    BY <1>0, <1>1 DEF IInv, Types, Accepted
  <1>3. Types'
    BY <1>1, <1>2, OutsideTypes
  <1>4. Accepted'
    <2>1. CASE phase' = "exit" \/ phase' = "destroy"
      BY <2>1 DEF Accepted, Serving
    <2>2. CASE phase' = "construct"
      <3>1. at' = at + 1 /\ at' <= 38 /\ \A i \in 1 .. at' - 1 : ~Refused(ConstructOrder[i], c)
        BY <1>1, <1>2, <2>2
      <3> QED
        BY <1>0, <1>1, <1>2, <2>2, <3>1 DEF Accepted, Serving
    <2>3. CASE phase' = "open"
      <3>1. at = 38 /\ \A i \in 1 .. 38 : ~Refused(ConstructOrder[i], c)
        BY <1>1, <1>2, <2>3
      <3>2. \A name \in Endpoints : ~Refused(name, c)
        BY <3>1, EndpointsBuilt
      <3> QED
        BY <1>1, <1>2, <2>3, <3>2 DEF Accepted, Serving
    <2> QED
      BY <1>1, <2>1, <2>2, <2>3
  <1>5. EndpointsServe'
    BY <1>1 DEF IInv, EndpointsServe
  <1>6. Flow' /\ RealFill' /\ Fresh' /\ SentInOrder' /\ AllSent' /\ SamplesKept' /\ ReadsInOrder'
    BY <1>1, Around DEF Serving
  <1> QED
    BY <1>3, <1>4, <1>5, <1>6 DEF IInv

LEMMA Endings ==
  ASSUME at \in 1 .. 6
  PROVE  Len(EndpointOrder) = 6 /\ EndpointOrder[at] \in Endpoints
  BY DEF EndpointOrder, Endpoints, Sinks

LEMMA OpenKeeps ==
  ASSUME IInv, Open
  PROVE  IInv'
  <1>1. phase = "open" /\ at \in 1 .. 6 /\ UNCHANGED <<c, stream>>
    <2>1. phase = "open" /\ UNCHANGED <<c, stream>>
      BY DEF Open
    <2> QED
      BY <2>1 DEF IInv, Types
  <1>2. Opens(EndpointCases(EndpointOrder[at]), EndpointConfig(EndpointOrder[at], c))
    BY <1>1, Endings, Served DEF IInv, Accepted, Serving
  <1>3. /\ reason' = reason
        /\ \/ at < 6 /\ at' = at + 1 /\ phase' = phase
           \/ at' = 1 /\ phase' = "process"
    BY <1>1, <1>2, Endings DEF Open, NextPhase
  <1>4. Types'
    BY <1>1, <1>3, OutsideTypes
  <1>5. Accepted' /\ EndpointsServe'
    BY <1>1, <1>3 DEF IInv, Accepted, Serving, EndpointsServe
  <1>6. Flow' /\ RealFill' /\ Fresh' /\ SentInOrder' /\ AllSent' /\ SamplesKept' /\ ReadsInOrder'
    BY <1>1, <1>3, Around DEF Serving
  <1> QED
    BY <1>4, <1>5, <1>6 DEF IInv

LEMMA CloseKeeps ==
  ASSUME IInv, Close
  PROVE  IInv'
  <1>1. phase = "close" /\ at \in 1 .. 6 /\ UNCHANGED <<c, stream>>
    <2>1. phase = "close" /\ UNCHANGED <<c, stream>>
      BY DEF Close
    <2> QED
      BY <2>1 DEF IInv, Types
  <1>2. Closes(EndpointCases(EndpointOrder[at]), EndpointConfig(EndpointOrder[at], c))
    BY <1>1, Endings, Served DEF IInv, Accepted, Serving
  <1>3. /\ reason' = reason
        /\ \/ at < 6 /\ at' = at + 1 /\ phase' = phase
           \/ at' = 1 /\ phase' = "destroy"
    BY <1>1, <1>2, Endings DEF Close, NextPhase
  <1>4. Types'
    BY <1>1, <1>3, OutsideTypes
  <1>5. Accepted' /\ EndpointsServe'
    BY <1>1, <1>3 DEF IInv, Accepted, Serving, EndpointsServe
  <1>6. Flow' /\ RealFill' /\ Fresh' /\ SentInOrder' /\ AllSent' /\ SamplesKept' /\ ReadsInOrder'
    BY <1>1, <1>3, Around DEF Serving
  <1> QED
    BY <1>4, <1>5, <1>6 DEF IInv

LEMMA LeaveKeeps ==
  ASSUME IInv, OpenFails \/ Interrupt
  PROVE  IInv'
  <1>1. phase' = "exit" /\ reason' \in {"not there", "interrupted"} /\ UNCHANGED <<c, at, stream>>
    BY DEF OpenFails, Interrupt, Exit
  <1>2. Types'
    BY <1>1, OutsideTypes DEF IInv, Types
  <1>3. Accepted' /\ EndpointsServe'
    BY <1>1 DEF Accepted, Serving, EndpointsServe
  <1>4. Flow' /\ RealFill' /\ Fresh' /\ SentInOrder' /\ AllSent' /\ SamplesKept' /\ ReadsInOrder'
    BY <1>1, Around DEF Serving
  <1> QED
    BY <1>2, <1>3, <1>4 DEF IInv

LEMMA DestroyKeeps ==
  ASSUME IInv, Destroy \/ configs_destroy
  PROVE  IInv'
  <1>1. /\ phase \in {"destroy", "unconfigure"} /\ phase' \in {"destroy", "unconfigure", "done"}
        /\ at' \in {at, at + 1, 1} /\ UNCHANGED <<c, reason, stream>>
    BY DEF Destroy, configs_destroy
  <1>2. Types'
    BY <1>1, OutsideTypes DEF IInv, Types
  <1>3. Accepted' /\ EndpointsServe'
    BY <1>1 DEF IInv, Accepted, Serving, EndpointsServe
  <1>4. Flow' /\ RealFill' /\ Fresh' /\ SentInOrder' /\ AllSent' /\ SamplesKept' /\ ReadsInOrder'
    BY <1>1, Around DEF Serving
  <1> QED
    BY <1>2, <1>3, <1>4 DEF IInv

-----------------------------------------------------------------------------
(* The invariant holds.                                                      *)
LEMMA IInvInit == Init => IInv
  <1> SUFFICES ASSUME Init
               PROVE  IInv
    OBVIOUS
  <1>1. /\ c \in Configs /\ phase = "configure" /\ at = 1
        /\ in = [con \in Wired |-> Zero] /\ out = in
        /\ fill = [r \in Resamplers |-> [n |-> 0, real |-> TRUE]]
        /\ stamp = [x \in Clocks |-> 0]
        /\ buffer = 0 /\ reads = 0 /\ carried = <<>> /\ rtn = 0
        /\ sent = [s \in Sinks |-> <<>>] /\ reason = "none"
    BY DEF Init, Wired, Clocks, Silence
  <1>2. Types
    <2>1. Zero \in StampedMessage /\ [n |-> 0, real |-> TRUE] \in Filling
      BY DEF Zero, StampedMessage, Filling
    <2>2. <<>> \in Seq(Int) /\ <<>> \in Seq(StampedMessage)
      OBVIOUS
    <2> QED
      BY <1>1, <2>1, <2>2 DEF Types
  <1>3. Accepted /\ EndpointsServe
    BY <1>1 DEF Accepted, Serving, EndpointsServe
  <1>4. Flow /\ SamplesKept
    BY <1>1 DEF Flow, Fed, Passed, InLoop, SamplesKept, Serving
  <1>5. RealFill /\ Fresh
    BY <1>1 DEF RealFill, Fresh
  <1>6. SentInOrder /\ AllSent
    <2>1. \A s \in Sinks : Clock(In(s, 1)) \in Clocks /\ ~Pending(s)
      BY <1>1, ClockType DEF Pending, InLoop
    <2>2. \A s \in Sinks : DOMAIN sent[s] = {} /\ Len(sent[s]) = 0
      BY <1>1
    <2> QED
      BY <1>1, <2>1, <2>2 DEF SentInOrder, AllSent, Bit
  <1>7. ReadsInOrder
    BY <1>1 DEF ReadsInOrder, Bit, Clocks
  <1> QED
    BY <1>2, <1>3, <1>4, <1>5, <1>6, <1>7 DEF IInv

LEMMA IInvNext == IInv /\ [Next]_vars => IInv'
  <1> SUFFICES ASSUME IInv, [Next]_vars
               PROVE  IInv'
    OBVIOUS
  <1>1. CASE Configure
    BY <1>1, ConfigureKeeps
  <1>2. CASE Construct
    BY <1>2, ConstructKeeps
  <1>3. CASE Open
    BY <1>3, OpenKeeps
  <1>4. CASE OpenFails \/ Interrupt
    BY <1>4, LeaveKeeps
  <1>5. CASE Process
    BY <1>5, SourceKeeps, ConnectorKeeps, TransformKeeps, InjectorKeeps, JoinKeeps, SinkKeeps, PushKeeps,
       PopKeeps DEF Process
  <1>6. CASE Close
    BY <1>6, CloseKeeps
  <1>7. CASE Destroy \/ configs_destroy
    BY <1>7, DestroyKeeps
  <1>8. CASE UNCHANGED vars
    <2>1. UNCHANGED <<c, phase, at, in, out, fill, stamp, buffer, reads, carried, rtn, sent, reason>>
      BY <1>8 DEF vars
    <2>2. Types' /\ Accepted'
      BY <2>1 DEF IInv, Types, Accepted
    <2>3. Flow'
      BY <2>1 DEF IInv, Flow, Fed, Passed, Current, InLoop
    <2>4. RealFill' /\ Fresh' /\ SentInOrder'
      BY <2>1 DEF IInv, RealFill, Fresh, SentInOrder, Wants
    <2>5. AllSent'
      BY <2>1 DEF IInv, AllSent, Pending, InLoop, Bit
    <2>6. SamplesKept'
      BY <2>1 DEF IInv, SamplesKept, Unpushed, Draining, InLoop, Rates, Given, Bit
    <2>7. ReadsInOrder' /\ EndpointsServe'
      BY <2>1 DEF IInv, ReadsInOrder, Bit, EndpointsServe
    <2> QED
      BY <2>2, <2>3, <2>4, <2>5, <2>6, <2>7 DEF IInv
  <1> QED
    BY <1>1, <1>2, <1>3, <1>4, <1>5, <1>6, <1>7, <1>8 DEF Next

\* Every reachable state of the life of odaslive satisfies the invariant.
THEOREM Spec_IInv == Spec => []IInv
  BY IInvInit, IInvNext, PTL DEF Spec

\* A configuration that is accepted has a case in every switch of the endpoints, and in one
\* thread no module meets two time stamps: the process never leaves for one of them.
THEOREM Spec_EndpointsServe == Spec => []EndpointsServe
  <1>1. IInv => EndpointsServe
    BY DEF IInv
  <1> QED
    BY <1>1, Spec_IInv, PTL

-----------------------------------------------------------------------------
(* What the sinks have been given.                                           *)
LEMMA Divided ==
  ASSUME NEW n \in Nat, NEW y \in Nat \ {0}, NEW k \in Nat, k < y
  PROVE  (k + n * y) \div y = n
  <1> DEFINE z == k + n * y
             q == z \div y
  <1>1. n * y \in Nat
    OBVIOUS
  <1>2. z \in Nat
    BY <1>1
  <1> HIDE DEF z
  <1>3. q \in Nat /\ y * q <= z /\ z < y * q + y
    BY <1>2, SMTT(30)
  <1> HIDE DEF q
  <1>4. ASSUME q < n
        PROVE  FALSE
    <2>1. PICK d \in Nat : n = q + 1 + d
      <3>1. n - (q + 1) \in Nat /\ n = q + 1 + (n - (q + 1))
        BY <1>3, <1>4
      <3> QED
        BY <3>1
    <2>2. n * y = y * q + y + d * y /\ d * y \in Nat /\ y * q \in Nat
      BY <1>3, <2>1, SMTT(30)
    <2>3. z >= n * y
      BY <1>1 DEF z
    <2> QED
      BY <1>2, <1>3, <2>2, <2>3
  <1>5. ASSUME q > n
        PROVE  FALSE
    <2>1. PICK d \in Nat : q = n + 1 + d
      <3>1. q - (n + 1) \in Nat /\ q = n + 1 + (q - (n + 1))
        BY <1>3, <1>5
      <3> QED
        BY <3>1
    <2>2. y * q = n * y + y + d * y /\ d * y \in Nat /\ y * q \in Nat
      BY <1>3, <2>1, SMTT(30)
    <2>3. z < n * y + y
      BY <1>1 DEF z
    <2> QED
      BY <1>1, <1>2, <1>3, <2>2, <2>3
  <1>6. q = n
    BY <1>3, <1>4, <1>5
  <1> QED
    BY <1>6 DEF q, z

\* When the loop is over a resampler has given every frame that its input amounts to.
LEMMA AllConverted ==
  ASSUME IInv, phase = "close", NEW r \in Resamplers \cap Enabled(c)
  PROVE  stamp[r] = Amount(r, stamp[Input[r]])
  <1>1. /\ fill[r].n + stamp[r] * IntervalOut(Rates(r)) + Bit(Unpushed(r)) * IntervalIn(Rates(r))
              = stamp[Input[r]] * IntervalIn(Rates(r))
        /\ ~Draining(r) => fill[r].n < IntervalOut(Rates(r))
    BY DEF IInv, SamplesKept, Serving, Given
  <1>2. ~Unpushed(r) /\ ~Draining(r)
    BY DEF Unpushed, Draining, InLoop
  <1>3. c \in Configs /\ configs_construct(c) /\ fill[r].n \in Nat /\ stamp[r] \in Nat
    BY CurrentType DEF Types, Filling, Clocks, IInv, Accepted, Serving
  <1>4. PICK a \in Nat \ {0}, b \in Nat \ {0} : a = IntervalIn(Rates(r)) /\ b = IntervalOut(Rates(r))
    BY <1>3, RatesPositive
  <1>5. stamp[r] * b \in Nat
    BY <1>3, <1>4
  <1>6. fill[r].n + stamp[r] * b + 0 * a = stamp[Input[r]] * a
    BY <1>1, <1>2, <1>4 DEF Bit
  <1>7. fill[r].n + stamp[r] * b = stamp[Input[r]] * a
    BY <1>3, <1>4, <1>5, <1>6
  <1>8. (fill[r].n + stamp[r] * b) \div b = stamp[r]
    BY <1>1, <1>2, <1>3, <1>4, Divided
  <1> QED
    BY <1>4, <1>7, <1>8 DEF Amount

LEMMA DueSent ==
  ASSUME IInv, phase = "close", NEW s \in Sinks, Wants(s, c)
  PROVE  Len(sent[s]) = Due(s)
  <1>1. Len(sent[s]) = stamp[Clock(In(s, 1))]
    <2>1. ~Pending(s)
      BY DEF Pending, InLoop
    <2>2. Len(sent[s]) \in Nat
      BY CurrentType DEF Types
    <2>3. Len(sent[s]) + Bit(Pending(s)) = stamp[Clock(In(s, 1))]
      BY DEF IInv, AllSent
    <2> QED
      BY <2>1, <2>2, <2>3 DEF Bit
  <1>2. stamp["mod_resample_mics"] = Amount("mod_resample_mics", stamp["src_hops_mics"])
    BY BaseEnabled, AllConverted DEF Input, Resamplers
  <1>3. CASE s \in {"snk_pots_ssl", "snk_tracks_sst", "snk_categories"}
    BY <1>1, <1>2, <1>3, SinkWiring DEF Clock, Due
  <1>4. CASE s = "snk_hops_seps_vol"
    <2>1. stamp["mod_resample_seps"] = Amount("mod_resample_seps", stamp["mod_resample_mics"])
      BY <1>4, AllConverted DEF Enabled, Input, Resamplers
    <2> QED
      BY <1>1, <1>2, <1>4, <2>1, SinkWiring DEF Clock, Due
  <1>5. CASE s = "snk_hops_pfs_vol"
    <2>1. stamp["mod_resample_pfs"] = Amount("mod_resample_pfs", stamp["mod_resample_mics"])
      BY <1>5, AllConverted DEF Enabled, Input, Resamplers
    <2> QED
      BY <1>1, <1>2, <1>5, <2>1, SinkWiring DEF Clock, Due
  <1> QED
    BY <1>3, <1>4, <1>5 DEF Sinks

\* In one thread, for any rates and hop sizes, each sink in use writes frames 1, 2, 3, ... that
\* enabled modules made from the source, and at the end of the loop every frame that the hops
\* amount to; hop k carries read k - 1, and only the short read at the end is not sent.
THEOREM Spec_StreamDelivered == Spec => []StreamDelivered
  <1>1. IInv => StreamDelivered
    <2> SUFFICES ASSUME IInv
                 PROVE  StreamDelivered
      OBVIOUS
    <2>1. \A s \in Sinks : \A i \in DOMAIN sent[s] : sent[s][i].ts = i /\ (Wants(s, c) => sent[s][i].real)
      BY DEF IInv, SentInOrder
    <2>2. carried = [i \in 1 .. Len(carried) |-> i - 1]
      BY DEF IInv, ReadsInOrder
    <2>3. phase = "close" => Len(carried) = reads + 1
      BY DEF IInv, ReadsInOrder, Bit
    <2>4. phase = "close" => \A s \in Sinks : Wants(s, c) => Len(sent[s]) = Due(s)
      BY DueSent
    <2> QED
      BY <2>1, <2>2, <2>3, <2>4 DEF StreamDelivered
  <1> QED
    BY <1>1, Spec_IInv, PTL

-----------------------------------------------------------------------------
(* What each destructor frees.                                               *)
Balanced(o, frees) == Unbalanced(o, frees) = {}
Even(parts) == \A p \in parts : Balanced(p[1], p[2])

LEMMA BalancedIf ==
  ASSUME NEW o, NEW frees, DOMAIN frees \subseteq DOMAIN o,
         \A f \in DOMAIN o : \/ f \in CountFields /\ f \notin DOMAIN frees
                             \/ Count(o[f]) = IF f \in DOMAIN frees THEN frees[f] ELSE 0
  PROVE  Balanced(o, frees)
  BY DEF Balanced, Unbalanced

LEMMA EvenLeaks == \A parts : Even(parts) => Leaks(parts) = {}
  BY DEF Even, Leaks, Balanced

LEMMA EvenPair == \A o, frees : Balanced(o, frees) => Even({<<o, frees>>})
  BY DEF Even

LEMMA EvenBoth == \A p, q : Even(p) /\ Even(q) => Even(p \cup q)
  BY DEF Even

LEMMA Counts ==
  /\ \A n, cells : Count(Rows(n, cells)) = n
  /\ \A cells : Count(Flat(cells)) = 1
  /\ \A n, rows : Count([rows |-> n, at |-> rows]) = n
  /\ Count(Struct) = 1
  /\ Count(null) = 0 /\ \A n, rows : [rows |-> n, at |-> rows] # null
  /\ \A o : "rows" \notin DOMAIN o /\ "null" \notin DOMAIN o => Count(o) = 1
  BY DEF Count, Flat, Rows, Struct, null

LEMMA Numbers ==
  {"nSignals", "nChannels", "nPots", "nTracks", "nTargets", "nSeps", "nPoints", "nPairs", "nLevels",
   "nCoarses", "nFines", "nThetas", "nRows", "nCols", "nOuts", "nMessages", "nMaxElements",
   "nTracksMax", "nTargetsMax", "nTracksNewFalse", "nCombinations", "nAssignations", "nParticles",
   "nFilters", "nIndexes", "nLinks", "frameSize", "halfFrameSize", "frameSizeInterp",
   "halfFrameSizeInterp", "hopSize", "hopSizeIn", "hopSizeOut", "bufferSize", "aimgSize", "aimgsCells",
   "winSize", "bSize", "lowPassCut", "N", "type", "mode", "mode_sep", "mode_pf", "map", "tau", "delta"}
    \subseteq CountFields
  BY DEF CountFields

LEMMA ArrayBalances ==
  ASSUME NEW o, NEW cells, "array" \in DOMAIN o, DOMAIN o \subseteq CountFields \cup {"array"},
         o.array = Flat(cells)
  PROVE  Even(ArrayPart(o))
  <1>1. /\ DOMAIN Array_destroy(o) = {"array"} /\ Array_destroy(o).array = 1
        /\ Count(o.array) = 1
    BY Counts DEF Array_destroy
  <1>2. Balanced(o, Array_destroy(o))
    BY <1>1, BalancedIf
  <1> QED
    BY <1>2, EvenPair DEF ArrayPart

\* Containers with the same destructor, free(obj->array).
LEMMA ArraysBalance ==
  /\ \A n : /\ Even(ArrayPart(window_obj(n)))
            /\ Even(ArrayPart(aimg_obj(n)))
            /\ Even(ArrayPart(categories_obj(n)))
            /\ Even(ArrayPart(pitches_obj(n)))
            /\ Even(ArrayPart(deltas_obj(n)))
            /\ Even(ArrayPart(pairs_obj(n)))
            /\ Even(ArrayPart(pots_obj(n)))
            /\ Even(ArrayPart(points_obj(n)))
            /\ Even(ArrayPart(transcendental_obj(n)))
            /\ Even(ArrayPart(fifo_obj(n)))
  /\ \A n, m : /\ Even(ArrayPart(assignations_obj(n, m)))
               /\ Even(ArrayPart(coherences_obj(n, m)))
               /\ Even(ArrayPart(gains_obj(n, m)))
               /\ Even(ArrayPart(masks_obj(n, m)))
               /\ Even(ArrayPart(matrix_obj(n, m)))
               /\ Even(ArrayPart(links_obj(n, m)))
  <1>1. ASSUME NEW n PROVE Even(ArrayPart(window_obj(n)))
    BY Numbers, ArrayBalances DEF window_obj
  <1>2. ASSUME NEW n PROVE Even(ArrayPart(aimg_obj(n)))
    BY Numbers, ArrayBalances DEF aimg_obj
  <1>3. ASSUME NEW n PROVE Even(ArrayPart(categories_obj(n)))
    BY Numbers, ArrayBalances DEF categories_obj
  <1>4. ASSUME NEW n PROVE Even(ArrayPart(pitches_obj(n)))
    BY Numbers, ArrayBalances DEF pitches_obj
  <1>5. ASSUME NEW n PROVE Even(ArrayPart(deltas_obj(n)))
    BY Numbers, ArrayBalances DEF deltas_obj
  <1>6. ASSUME NEW n PROVE Even(ArrayPart(pairs_obj(n)))
    BY Numbers, ArrayBalances DEF pairs_obj
  <1>7. ASSUME NEW n PROVE Even(ArrayPart(pots_obj(n)))
    BY Numbers, ArrayBalances DEF pots_obj
  <1>8. ASSUME NEW n PROVE Even(ArrayPart(points_obj(n)))
    BY Numbers, ArrayBalances DEF points_obj
  <1>9. ASSUME NEW n PROVE Even(ArrayPart(transcendental_obj(n)))
    BY Numbers, ArrayBalances DEF transcendental_obj
  <1>10. ASSUME NEW n PROVE Even(ArrayPart(fifo_obj(n)))
    BY Numbers, ArrayBalances DEF fifo_obj
  <1>11. ASSUME NEW n, NEW m PROVE Even(ArrayPart(assignations_obj(n, m)))
    BY Numbers, ArrayBalances DEF assignations_obj
  <1>12. ASSUME NEW n, NEW m PROVE Even(ArrayPart(coherences_obj(n, m)))
    BY Numbers, ArrayBalances DEF coherences_obj
  <1>13. ASSUME NEW n, NEW m PROVE Even(ArrayPart(gains_obj(n, m)))
    BY Numbers, ArrayBalances DEF gains_obj
  <1>14. ASSUME NEW n, NEW m PROVE Even(ArrayPart(masks_obj(n, m)))
    BY Numbers, ArrayBalances DEF masks_obj
  <1>15. ASSUME NEW n, NEW m PROVE Even(ArrayPart(matrix_obj(n, m)))
    BY Numbers, ArrayBalances DEF matrix_obj
  <1>16. ASSUME NEW n, NEW m PROVE Even(ArrayPart(links_obj(n, m)))
    BY Numbers, ArrayBalances DEF links_obj
  <1> QED
    BY <1>1, <1>2, <1>3, <1>4, <1>5, <1>6, <1>7, <1>8, <1>9, <1>10, <1>11, <1>12, <1>13, <1>14, <1>15, <1>16

\* Containers with several arrays, or a row for each signal, source or target.
LEMMA ContainersBalance ==
  /\ \A n : Balanced(particles_obj(n), particles_destroy(particles_obj(n)))
  /\ \A n, m : Balanced(tdoas_obj(n, m), tdoas_destroy(tdoas_obj(n, m)))
  /\ \A n, m : Balanced(indexes_obj(n, m), indexes_destroy(indexes_obj(n, m)))
  /\ \A n, m : Balanced(spatialindexes_obj(n, m), spatialindexes_destroy(spatialindexes_obj(n, m)))
  /\ \A n, m : Balanced(beampatterns_obj(n, m), beampatterns_destroy(beampatterns_obj(n, m)))
  /\ \A n, m : Balanced(postprobs_obj(n, m), postprobs_destroy(postprobs_obj(n, m)))
  /\ \A n, m : Balanced(frames_obj(n, m), frames_destroy(frames_obj(n, m)))
  /\ \A n, m : Balanced(xcorrs_obj(n, m), xcorrs_destroy(xcorrs_obj(n, m)))
  /\ \A n, m : Balanced(acorrs_obj(n, m), acorrs_destroy(acorrs_obj(n, m)))
  /\ \A n, m, k : Balanced(steers_obj(n, m, k), steers_destroy(steers_obj(n, m, k)))
  /\ \A n, m, k : Balanced(demixings_obj(n, m, k), demixings_destroy(demixings_obj(n, m, k)))
  /\ \A n, m : Balanced(hops_obj(n, m), hops_destroy(hops_obj(n, m)))
  /\ \A n, m : Balanced(envs_obj(n, m), envs_destroy(envs_obj(n, m)))
  /\ \A n, m : Balanced(freqs_obj(n, m), freqs_destroy(freqs_obj(n, m)))
  /\ \A n : Balanced(targets_obj(n), targets_destroy(targets_obj(n)))
  /\ \A n : Balanced(tracks_obj(n), tracks_destroy(tracks_obj(n)))
  /\ Balanced(kalman_obj, kalman_destroy(kalman_obj))
  /\ \A n, m, k, l, j : Balanced(scans_obj(n, m, k, l, j), scans_destroy(scans_obj(n, m, k, l, j)))
  /\ \A n, m, k : Balanced(mixture_obj(n, m, k), mixture_destroy(mixture_obj(n, m, k)))
  <1>1. ASSUME NEW n
        PROVE  Balanced(particles_obj(n), particles_destroy(particles_obj(n)))
    BY BalancedIf, Counts, Numbers DEF particles_obj, particles_destroy
  <1>2. ASSUME NEW n, NEW m
        PROVE  Balanced(tdoas_obj(n, m), tdoas_destroy(tdoas_obj(n, m)))
    BY BalancedIf, Counts, Numbers DEF tdoas_obj, tdoas_destroy
  <1>3. ASSUME NEW n, NEW m
        PROVE  Balanced(indexes_obj(n, m), indexes_destroy(indexes_obj(n, m)))
    BY BalancedIf, Counts, Numbers DEF indexes_obj, indexes_destroy
  <1>4. ASSUME NEW n, NEW m
        PROVE  Balanced(spatialindexes_obj(n, m), spatialindexes_destroy(spatialindexes_obj(n, m)))
    BY BalancedIf, Counts, Numbers DEF spatialindexes_obj, spatialindexes_destroy
  <1>5. ASSUME NEW n, NEW m
        PROVE  Balanced(beampatterns_obj(n, m), beampatterns_destroy(beampatterns_obj(n, m)))
    BY BalancedIf, Counts, Numbers DEF beampatterns_obj, beampatterns_destroy
  <1>6. ASSUME NEW n, NEW m
        PROVE  Balanced(postprobs_obj(n, m), postprobs_destroy(postprobs_obj(n, m)))
    BY BalancedIf, Counts, Numbers DEF postprobs_obj, postprobs_destroy
  <1>7. ASSUME NEW n, NEW m
        PROVE  Balanced(frames_obj(n, m), frames_destroy(frames_obj(n, m)))
    BY BalancedIf, Counts, Numbers DEF frames_obj, frames_destroy
  <1>8. ASSUME NEW n, NEW m
        PROVE  Balanced(xcorrs_obj(n, m), xcorrs_destroy(xcorrs_obj(n, m)))
    BY BalancedIf, Counts, Numbers DEF xcorrs_obj, xcorrs_destroy
  <1>9. ASSUME NEW n, NEW m
        PROVE  Balanced(acorrs_obj(n, m), acorrs_destroy(acorrs_obj(n, m)))
    BY BalancedIf, Counts, Numbers DEF acorrs_obj, acorrs_destroy
  <1>10. ASSUME NEW n, NEW m, NEW k
        PROVE  Balanced(steers_obj(n, m, k), steers_destroy(steers_obj(n, m, k)))
    BY BalancedIf, Counts, Numbers DEF steers_obj, steers_destroy
  <1>11. ASSUME NEW n, NEW m, NEW k
        PROVE  Balanced(demixings_obj(n, m, k), demixings_destroy(demixings_obj(n, m, k)))
    BY BalancedIf, Counts, Numbers DEF demixings_obj, demixings_destroy
  <1>12. ASSUME NEW n, NEW m
        PROVE  Balanced(hops_obj(n, m), hops_destroy(hops_obj(n, m)))
    BY BalancedIf, Counts, Numbers DEF hops_obj, hops_destroy
  <1>13. ASSUME NEW n, NEW m
        PROVE  Balanced(envs_obj(n, m), envs_destroy(envs_obj(n, m)))
    BY BalancedIf, Counts, Numbers DEF envs_obj, envs_destroy
  <1>14. ASSUME NEW n, NEW m
        PROVE  Balanced(freqs_obj(n, m), freqs_destroy(freqs_obj(n, m)))
    BY BalancedIf, Counts, Numbers DEF freqs_obj, freqs_destroy
  <1>15. ASSUME NEW n
        PROVE  Balanced(targets_obj(n), targets_destroy(targets_obj(n)))
    BY BalancedIf, Counts, Numbers DEF targets_obj, targets_destroy
  <1>16. ASSUME NEW n
        PROVE  Balanced(tracks_obj(n), tracks_destroy(tracks_obj(n)))
    BY BalancedIf, Counts, Numbers DEF tracks_obj, tracks_destroy
  <1>17. Balanced(kalman_obj, kalman_destroy(kalman_obj))
    BY BalancedIf, Counts, Numbers DEF kalman_obj, kalman_destroy, matrix_obj
  <1>18. ASSUME NEW n, NEW m, NEW k, NEW l, NEW j
        PROVE  Balanced(scans_obj(n, m, k, l, j), scans_destroy(scans_obj(n, m, k, l, j)))
    BY BalancedIf, Counts, Numbers DEF scans_obj, scans_destroy, Many, pairs_obj
  <1>19. ASSUME NEW n, NEW m, NEW k
        PROVE  Balanced(mixture_obj(n, m, k), mixture_destroy(mixture_obj(n, m, k)))
    BY BalancedIf, Counts, Numbers DEF mixture_obj, mixture_destroy, assignations_obj
  <1> QED
    BY <1>1, <1>2, <1>3, <1>4, <1>5, <1>6, <1>7, <1>8, <1>9, <1>10, <1>11, <1>12, <1>13, <1>14, <1>15, <1>16, <1>17, <1>18, <1>19

\* Operators of the modules, and the matrices they work on.
LEMMA OperatorsBalance ==
  /\ \A n : Balanced(fft_obj(n), fft_destroy(fft_obj(n)))
  /\ \A n, m, k : Balanced(hop2frame_obj(n, m, k), hop2frame_destroy(hop2frame_obj(n, m, k)))
  /\ \A n, m, k : Balanced(frame2hop_obj(n, m, k), frame2hop_destroy(frame2hop_obj(n, m, k)))
  /\ \A n, m : Balanced(frame2freq_obj(n, m), frame2freq_destroy(frame2freq_obj(n, m)))
  /\ \A n, m : Balanced(freq2frame_obj(n, m), freq2frame_destroy(freq2frame_obj(n, m)))
  /\ \A n, m : Balanced(freq2acorr_obj(n, m), freq2acorr_destroy(freq2acorr_obj(n, m)))
  /\ \A n, m : Balanced(freq2xcorr_obj(n, m), freq2xcorr_destroy(freq2xcorr_obj(n, m)))
  /\ \A n : Balanced(random_obj(n), random_destroy(random_obj(n)))
  /\ \A n : Balanced(normaloff_obj(n), normaloff_destroy(normaloff_obj(n)))
  /\ \A n : Balanced(particle2particle_obj(n), particle2particle_destroy(particle2particle_obj(n)))
  /\ Balanced(kalman2kalman_obj, kalman2kalman_destroy(kalman2kalman_obj))
  /\ Balanced(kalman2coherence_obj, kalman2coherence_destroy(kalman2coherence_obj))
  /\ \A n, m : Balanced(cmatrix_obj(n, m), cmatrix_destroy(cmatrix_obj(n, m)))
  /\ \A n, m : Balanced(track2gain_obj(n, m), track2gain_destroy(track2gain_obj(n, m)))
  /\ \A n, m, k : Balanced(track2steer_obj(n, m, k), track2steer_destroy(track2steer_obj(n, m, k)))
  /\ \A n, m, k : Balanced(steer2demixing_ds_obj(n, m, k), steer2demixing_ds_destroy(steer2demixing_ds_obj(n, m, k)))
  /\ \A n, m, k, l : Balanced(hop2hop_buffer_obj(n, m, k, l), hop2hop_buffer_destroy(hop2hop_buffer_obj(n, m, k, l)))
  <1>1. ASSUME NEW n
        PROVE  Balanced(fft_obj(n), fft_destroy(fft_obj(n)))
    BY BalancedIf, Counts, Numbers DEF fft_obj, fft_destroy
  <1>2. ASSUME NEW n, NEW m, NEW k
        PROVE  Balanced(hop2frame_obj(n, m, k), hop2frame_destroy(hop2frame_obj(n, m, k)))
    BY BalancedIf, Counts, Numbers DEF hop2frame_obj, hop2frame_destroy
  <1>3. ASSUME NEW n, NEW m, NEW k
        PROVE  Balanced(frame2hop_obj(n, m, k), frame2hop_destroy(frame2hop_obj(n, m, k)))
    BY BalancedIf, Counts, Numbers DEF frame2hop_obj, frame2hop_destroy
  <1>4. ASSUME NEW n, NEW m
        PROVE  Balanced(frame2freq_obj(n, m), frame2freq_destroy(frame2freq_obj(n, m)))
    BY BalancedIf, Counts, Numbers DEF frame2freq_obj, frame2freq_destroy, window_obj, fft_obj
  <1>5. ASSUME NEW n, NEW m
        PROVE  Balanced(freq2frame_obj(n, m), freq2frame_destroy(freq2frame_obj(n, m)))
    BY BalancedIf, Counts, Numbers DEF freq2frame_obj, freq2frame_destroy, window_obj, fft_obj
  <1>6. ASSUME NEW n, NEW m
        PROVE  Balanced(freq2acorr_obj(n, m), freq2acorr_destroy(freq2acorr_obj(n, m)))
    BY BalancedIf, Counts, Numbers DEF freq2acorr_obj, freq2acorr_destroy, fft_obj
  <1>7. ASSUME NEW n, NEW m
        PROVE  Balanced(freq2xcorr_obj(n, m), freq2xcorr_destroy(freq2xcorr_obj(n, m)))
    BY BalancedIf, Counts, Numbers DEF freq2xcorr_obj, freq2xcorr_destroy, fft_obj
  <1>8. ASSUME NEW n
        PROVE  Balanced(random_obj(n), random_destroy(random_obj(n)))
    BY BalancedIf, Counts, Numbers DEF random_obj, random_destroy
  <1>9. ASSUME NEW n
        PROVE  Balanced(normaloff_obj(n), normaloff_destroy(normaloff_obj(n)))
    BY BalancedIf, Counts, Numbers DEF normaloff_obj, normaloff_destroy
  <1>10. ASSUME NEW n
        PROVE  Balanced(particle2particle_obj(n), particle2particle_destroy(particle2particle_obj(n)))
    BY BalancedIf, Counts, Numbers DEF particle2particle_obj, particle2particle_destroy, random_obj, normaloff_obj, particles_obj
  <1>11. Balanced(kalman2kalman_obj, kalman2kalman_destroy(kalman2kalman_obj))
    BY BalancedIf, Counts, Numbers DEF kalman2kalman_obj, kalman2kalman_destroy, matrix_obj
  <1>12. Balanced(kalman2coherence_obj, kalman2coherence_destroy(kalman2coherence_obj))
    BY BalancedIf, Counts, Numbers DEF kalman2coherence_obj, kalman2coherence_destroy, matrix_obj
  <1>13. ASSUME NEW n, NEW m
        PROVE  Balanced(cmatrix_obj(n, m), cmatrix_destroy(cmatrix_obj(n, m)))
    BY BalancedIf, Counts, Numbers DEF cmatrix_obj, cmatrix_destroy
  <1>14. ASSUME NEW n, NEW m
        PROVE  Balanced(track2gain_obj(n, m), track2gain_destroy(track2gain_obj(n, m)))
    BY BalancedIf, Counts, Numbers DEF track2gain_obj, track2gain_destroy
  <1>15. ASSUME NEW n, NEW m, NEW k
        PROVE  Balanced(track2steer_obj(n, m, k), track2steer_destroy(track2steer_obj(n, m, k)))
    BY BalancedIf, Counts, Numbers DEF track2steer_obj, track2steer_destroy
  <1>16. ASSUME NEW n, NEW m, NEW k
        PROVE  Balanced(steer2demixing_ds_obj(n, m, k), steer2demixing_ds_destroy(steer2demixing_ds_obj(n, m, k)))
    BY BalancedIf, Counts, Numbers DEF steer2demixing_ds_obj, steer2demixing_ds_destroy
  <1>17. ASSUME NEW n, NEW m, NEW k, NEW l
        PROVE  Balanced(hop2hop_buffer_obj(n, m, k, l), hop2hop_buffer_destroy(hop2hop_buffer_obj(n, m, k, l)))
    BY BalancedIf, Counts, Numbers DEF hop2hop_buffer_obj, hop2hop_buffer_destroy
  <1> QED
    BY <1>1, <1>2, <1>3, <1>4, <1>5, <1>6, <1>7, <1>8, <1>9, <1>10, <1>11, <1>12, <1>13, <1>14, <1>15, <1>16, <1>17

\* Operators whose rows have one name each.
LEMMA JoinedBalance ==
  /\ \A n, m, k : Balanced(env2env_mcra_obj(n, m, k), env2env_mcra_destroy(env2env_mcra_obj(n, m, k)))
  /\ \A n, m : Balanced(env2env_interf_obj(n, m), env2env_interf_destroy(env2env_interf_obj(n, m)))
  /\ \A n, m : Balanced(env2env_gainspeech_obj(n, m), env2env_gainspeech_destroy(env2env_gainspeech_obj(n, m)))
  /\ \A n : Balanced(pitch2category_obj(n), pitch2category_destroy(pitch2category_obj(n)))
  <1>1. ASSUME NEW n, NEW m, NEW k
        PROVE  Balanced(env2env_mcra_obj(n, m, k), env2env_mcra_destroy(env2env_mcra_obj(n, m, k)))
    BY BalancedIf, Counts, Numbers DEF env2env_mcra_obj, env2env_mcra_destroy, ++, Each, EnvRows
  <1>2. ASSUME NEW n, NEW m
        PROVE  Balanced(env2env_interf_obj(n, m), env2env_interf_destroy(env2env_interf_obj(n, m)))
    BY BalancedIf, Counts, Numbers DEF env2env_interf_obj, env2env_interf_destroy, ++, Each
  <1>3. ASSUME NEW n, NEW m
        PROVE  Balanced(env2env_gainspeech_obj(n, m), env2env_gainspeech_destroy(env2env_gainspeech_obj(n, m)))
    BY BalancedIf, Counts, Numbers DEF env2env_gainspeech_obj, env2env_gainspeech_destroy, ++, Each, GainRows, transcendental_obj
  <1>4. ASSUME NEW n
        PROVE  Balanced(pitch2category_obj(n), pitch2category_destroy(pitch2category_obj(n)))
    BY BalancedIf, Counts, Numbers DEF pitch2category_obj, pitch2category_destroy, ++, PitchRows
  <1> QED
    BY <1>1, <1>2, <1>3, <1>4

\* Operators with dozens of arrays, by groups.
LEMMA ProbSpeechBalances ==
  ASSUME NEW n, NEW m, NEW k
  PROVE  LET o == env2env_probspeech_obj(n, m, k) IN Balanced(o, env2env_probspeech_destroy(o))
  <1> DEFINE o == env2env_probspeech_obj(n, m, k)
             d == env2env_probspeech_destroy(o)
             Once1 == ProbWindows \cup ProbShifted \cup ProbSpectra
             ByRow == ProbTimes \cup ProbFreqs \cup ProbRows
  <1>1. /\ DOMAIN o = {"nChannels", "halfFrameSize", "frameSize", "fft"} \cup Once1 \cup ByRow
        /\ DOMAIN d = {"fft"} \cup Once1 \cup ByRow
    <2>1. DOMAIN o = {"nChannels", "halfFrameSize", "frameSize", "fft"} \cup Once1 \cup ByRow
      <3> DEFINE size == (m - 1) * 2
                 f1 == [nChannels |-> n, halfFrameSize |-> m, frameSize |-> size, fft |-> fft_obj(size)]
                 f2 == [f \in ProbWindows |-> Flat(k)]
                 f3 == [f \in ProbShifted |-> Flat(size)]
                 f4 == [f \in ProbSpectra |-> Flat(m * 2)]
                 f5 == Each(ProbTimes, n, size)
                 f6 == Each(ProbFreqs, n, 2 * m)
                 f7 == Each(ProbRows, n, m)
      <3>1. o = f1 ++ f2 ++ f3 ++ f4 ++ f5 ++ f6 ++ f7
        BY DEF env2env_probspeech_obj
      <3>2. /\ DOMAIN f1 = {"nChannels", "halfFrameSize", "frameSize", "fft"}
            /\ DOMAIN f2 = ProbWindows /\ DOMAIN f3 = ProbShifted /\ DOMAIN f4 = ProbSpectra
            /\ DOMAIN f5 = ProbTimes /\ DOMAIN f6 = ProbFreqs /\ DOMAIN f7 = ProbRows
        BY DEF Each
      <3> HIDE DEF o, f1, f2, f3, f4, f5, f6, f7
      <3>3. DOMAIN o = DOMAIN f1 \cup DOMAIN f2 \cup DOMAIN f3 \cup DOMAIN f4 \cup DOMAIN f5 \cup DOMAIN f6
                         \cup DOMAIN f7
        BY <3>1 DEF ++
      <3> QED
        BY <3>2, <3>3
    <2>2. DOMAIN d = {"fft"} \cup Once1 \cup ByRow
      BY DEF ++, env2env_probspeech_destroy
    <2> QED
      BY <2>1, <2>2
  <1>2. o.fft = fft_obj((m - 1) * 2) /\ o.nChannels = n
    BY DEF ++, Each, env2env_probspeech_obj
  <1>3. \A f \in Once1 \cup ByRow : f \notin {"nChannels", "halfFrameSize", "frameSize", "fft"}
    BY DEF ProbWindows, ProbShifted, ProbSpectra, ProbTimes, ProbFreqs, ProbRows
  <1>4. Once1 \cap ByRow = {}
    BY DEF ProbWindows, ProbShifted, ProbSpectra, ProbTimes, ProbFreqs, ProbRows
  <1>5. ASSUME NEW f \in Once1
        PROVE  Count(o[f]) = 1
    <2>1. \E cells : o[f] = Flat(cells)
      BY <1>3 DEF ++, Each, env2env_probspeech_obj
    <2> QED
      BY <2>1, Counts
  <1>6. ASSUME NEW f \in ByRow
        PROVE  Count(o[f]) = n
    <2>1. \E cells : o[f] = Rows(n, cells)
      BY <1>3, <1>4 DEF ++, Each, env2env_probspeech_obj
    <2> QED
      BY <2>1, Counts
  <1>7. Count(o.fft) = 1
    BY <1>2, Counts DEF fft_obj
  <1>8. /\ \A f \in {"fft"} \cup Once1 : d[f] = 1
        /\ \A f \in ByRow : d[f] = n
    BY <1>2, <1>3, <1>4 DEF ++, env2env_probspeech_destroy
  <1>9. \A f \in DOMAIN o : \/ f \in CountFields /\ f \notin DOMAIN d
                            \/ Count(o[f]) = IF f \in DOMAIN d THEN d[f] ELSE 0
    <2> HIDE DEF o, d, Once1, ByRow
    <2> QED
      BY <1>1, <1>3, <1>5, <1>6, <1>7, <1>8, Numbers
  <1> QED
    BY <1>1, <1>9, BalancedIf

LEMMA GssBalances ==
  ASSUME NEW n, NEW m, NEW k
  PROVE  LET o == steer2demixing_gss_obj(n, m, k) IN Balanced(o, steer2demixing_gss_destroy(o))
  <1> DEFINE o == steer2demixing_gss_obj(n, m, k)
             d == steer2demixing_gss_destroy(o)
             Each1 == GssColumns \cup GssSquares \cup GssByChannels
  <1>1. /\ DOMAIN o = {"nSeps", "nChannels", "halfFrameSize", "X", "XH", "YH", "A"} \cup Each1
        /\ DOMAIN d = {"X", "XH", "YH", "A"} \cup Each1
    BY DEF ++, steer2demixing_gss_obj, steer2demixing_gss_destroy
  <1>2. \A f \in Each1 : f \notin {"nSeps", "nChannels", "halfFrameSize", "X", "XH", "YH", "A"}
    BY DEF GssColumns, GssSquares, GssByChannels
  <1>3. /\ o.X = cmatrix_obj(m, 1) /\ o.XH = cmatrix_obj(1, m) /\ o.nSeps = n
        /\ o.YH = Many(n, LAMBDA s : cmatrix_obj(1, s + 1))
        /\ o.A = Many(n, LAMBDA s : cmatrix_obj(m, s + 1))
    BY DEF ++, steer2demixing_gss_obj
  <1>4. Count(o.X) = 1 /\ Count(o.XH) = 1
    BY <1>3, Counts DEF cmatrix_obj
  <1>5. Count(o.YH) = n /\ Count(o.A) = n
    BY <1>3, Counts DEF Many
  <1>6. ASSUME NEW f \in Each1
        PROVE  Count(o[f]) = n
    <2>1. \E rows : o[f] = [rows |-> n, at |-> rows]
      BY <1>2 DEF ++, steer2demixing_gss_obj, Many
    <2> QED
      BY <2>1, Counts
  <1>7. /\ d.X = 1 /\ d.XH = 1 /\ d.YH = n /\ d.A = n
        /\ \A f \in Each1 : d[f] = n
    BY <1>2, <1>3 DEF ++, steer2demixing_gss_destroy
  <1>8. \A f \in DOMAIN o : \/ f \in CountFields /\ f \notin DOMAIN d
                            \/ Count(o[f]) = IF f \in DOMAIN d THEN d[f] ELSE 0
    <2> HIDE DEF o, d, Each1
    <2> QED
      BY <1>1, <1>2, <1>4, <1>5, <1>6, <1>7, Numbers
  <1> QED
    BY <1>1, <1>8, BalancedIf

LEMMA OneBalances ==
  ASSUME NEW o, NEW frees, Balanced(o, frees), NEW parts, Even(parts)
  PROVE  Even({<<o, frees>>} \cup parts)
  BY EvenPair, EvenBoth

\* The objects below an operator of the transforms.
LEMMA PartsAreEven ==
  /\ \A n : Even(fft_parts(fft_obj(n))) /\ Even(random_parts(random_obj(n)))
  /\ \A n, m : /\ Even(frames_parts(frames_obj(n, m))) /\ Even(freqs_parts(freqs_obj(n, m)))
               /\ Even(envs_parts(envs_obj(n, m)))
               /\ Even(frame2freq_parts(frame2freq_obj(n, m)))
               /\ Even(freq2frame_parts(freq2frame_obj(n, m)))
  /\ \A n, m, k : /\ Even(hop2frame_parts(hop2frame_obj(n, m, k)))
                  /\ Even(frame2hop_parts(frame2hop_obj(n, m, k)))
  <1>1. \A n : Even(fft_parts(fft_obj(n))) /\ Even(random_parts(random_obj(n)))
    BY OperatorsBalance, EvenPair DEF fft_parts, random_parts
  <1>2. \A n, m : /\ Even(frames_parts(frames_obj(n, m))) /\ Even(freqs_parts(freqs_obj(n, m)))
                  /\ Even(envs_parts(envs_obj(n, m)))
    BY ContainersBalance, EvenPair DEF frames_parts, freqs_parts, envs_parts
  <1>3. ASSUME NEW n, NEW m
        PROVE  Even(frame2freq_parts(frame2freq_obj(n, m)))
    <2> DEFINE o == frame2freq_obj(n, m)
    <2>1. o.win = window_obj(n) /\ o.fft = fft_obj(n)
      BY DEF frame2freq_obj
    <2>2. Even({<<o, frame2freq_destroy(o)>>}) /\ Even(ArrayPart(o.win)) /\ Even(fft_parts(o.fft))
      BY <1>1, <2>1, OperatorsBalance, ArraysBalance, EvenPair
    <2> QED
      BY <2>2, EvenBoth DEF frame2freq_parts
  <1>4. ASSUME NEW n, NEW m
        PROVE  Even(freq2frame_parts(freq2frame_obj(n, m)))
    <2> DEFINE o == freq2frame_obj(n, m)
    <2>1. o.win = window_obj(n) /\ o.fft = fft_obj(n)
      BY DEF freq2frame_obj
    <2>2. Even({<<o, freq2frame_destroy(o)>>}) /\ Even(ArrayPart(o.win)) /\ Even(fft_parts(o.fft))
      BY <1>1, <2>1, OperatorsBalance, ArraysBalance, EvenPair
    <2> QED
      BY <2>2, EvenBoth DEF freq2frame_parts
  <1>5. \A n, m, k : /\ Even(hop2frame_parts(hop2frame_obj(n, m, k)))
                     /\ Even(frame2hop_parts(frame2hop_obj(n, m, k)))
    BY OperatorsBalance, EvenPair DEF hop2frame_parts, frame2hop_parts
  <1> QED
    BY <1>1, <1>2, <1>3, <1>4, <1>5

LEMMA MappingEven ==
  ASSUME NEW n, NEW m, NEW to
  PROVE  LET o == mod_mapping_obj(links_obj(n, m), to)
         IN Even({<<o, mod_mapping_destroy(o)>>} \cup mod_mapping_parts(o))
  <1> DEFINE o == mod_mapping_obj(links_obj(n, m), to)
  <1>1. Balanced(o, mod_mapping_destroy(o))
    BY BalancedIf, Counts, Numbers DEF mod_mapping_obj, mod_mapping_destroy, Once, links_obj
  <1>2. Even(mod_mapping_parts(o))
    BY ArraysBalance DEF mod_mapping_obj, mod_mapping_parts
  <1> QED
    BY <1>1, <1>2, OneBalances

LEMMA StftEven ==
  ASSUME NEW from, NEW to
  PROVE  LET o == mod_stft_obj(from, to)
         IN Even({<<o, mod_stft_destroy(o)>>} \cup mod_stft_parts(o))
  <1> DEFINE o == mod_stft_obj(from, to)
  <1>1. Balanced(o, mod_stft_destroy(o))
    BY BalancedIf, Counts
    DEF mod_stft_obj, mod_stft_destroy, Once, hop2frame_obj, frames_obj, frame2freq_obj
  <1>2. Even(hop2frame_parts(o.hop2frame)) /\ Even(frames_parts(o.frames))
        /\ Even(frame2freq_parts(o.frame2freq))
    BY PartsAreEven DEF mod_stft_obj
  <1>3. Even(mod_stft_parts(o))
    BY <1>2, EvenBoth DEF mod_stft_parts
  <1> QED
    BY <1>1, <1>3, OneBalances

LEMMA IstftEven ==
  ASSUME NEW from, NEW to
  PROVE  LET o == mod_istft_obj(from, to)
         IN Even({<<o, mod_istft_destroy(o)>>} \cup mod_istft_parts(o))
  <1> DEFINE o == mod_istft_obj(from, to)
  <1>1. Balanced(o, mod_istft_destroy(o))
    BY BalancedIf, Counts
    DEF mod_istft_obj, mod_istft_destroy, Once, freq2frame_obj, frames_obj, frame2hop_obj
  <1>2. Even(freq2frame_parts(o.freq2frame)) /\ Even(frames_parts(o.frames))
        /\ Even(frame2hop_parts(o.frame2hop))
    BY PartsAreEven DEF mod_istft_obj
  <1>3. Even(mod_istft_parts(o))
    BY <1>2, EvenBoth DEF mod_istft_parts
  <1> QED
    BY <1>1, <1>3, OneBalances

LEMMA NoiseEven ==
  ASSUME NEW config, NEW from, NEW to
  PROVE  LET o == mod_noise_obj(config, from, to)
         IN Even({<<o, mod_noise_destroy(o)>>} \cup mod_noise_parts(o))
  <1> DEFINE o == mod_noise_obj(config, from, to)
  <1>1. Count(env2env_mcra_obj(to.nChannels, to.halfFrameSize, config.bSize)) = 1
    BY Counts DEF env2env_mcra_obj, ++, Each, EnvRows
  <1>2. Balanced(o, mod_noise_destroy(o))
    BY <1>1, BalancedIf, Counts, Numbers DEF mod_noise_obj, mod_noise_destroy, Once, envs_obj
  <1>3. Even(envs_parts(o.envs)) /\ Balanced(o.env2env, env2env_mcra_destroy(o.env2env))
    BY PartsAreEven, JoinedBalance DEF mod_noise_obj
  <1>4. Even(mod_noise_parts(o))
    BY <1>3, EvenPair, EvenBoth DEF mod_noise_parts
  <1> QED
    BY <1>2, <1>4, OneBalances

\* A resampler that keeps the rate has no filter; its destructor frees none.
LEMMA ResampleEven ==
  ASSUME NEW rate, NEW from, NEW to
  PROVE  LET o == mod_resample_obj(rate, from, to)
         IN Even({<<o, mod_resample_destroy(o)>>} \cup mod_resample_parts(o))
  <1> DEFINE o == mod_resample_obj(rate, from, to)
  <1>1. o.hop2hop = hop2hop_buffer_obj(from.nChannels, from.hopSize, to.hopSize, rate)
    BY DEF mod_resample_obj, ++
  <1>2. Even({<<o.hop2hop, hop2hop_buffer_destroy(o.hop2hop)>>})
    BY <1>1, OperatorsBalance, EvenPair
  <1>3. Count(o.hop2hop) = 1
    BY <1>1, Counts DEF hop2hop_buffer_obj
  <1>4. /\ DOMAIN o = {"type", "frameSize", "lowPassCut", "hop2hop"} \cup Filtering
        /\ Filtering \cap {"type", "frameSize", "lowPassCut", "hop2hop"} = {}
    BY DEF mod_resample_obj, ++, Filtering
  <1>5. CASE rate.in = rate.out
    <2>1. o.type = "s" /\ \A f \in Filtering : o[f] = null
      BY <1>4, <1>5 DEF mod_resample_obj, ++
    <2>2. Balanced(o, mod_resample_destroy(o))
      <3> HIDE DEF o
      <3> QED
        BY <1>3, <1>4, <2>1, BalancedIf, Counts, Numbers DEF mod_resample_destroy, Once
    <2> QED
      BY <1>2, <2>1, <2>2, OneBalances, EvenBoth DEF mod_resample_parts
  <1>6. CASE rate.in # rate.out
    <2>1. o.type # "s"
      BY <1>4, <1>6 DEF mod_resample_obj, ++
    <2>2. PICK n, hopSize, frameSize, half :
            /\ o.hop2frame = hop2frame_obj(hopSize, frameSize, n)
            /\ o.framesAnalysis = frames_obj(n, frameSize) /\ o.frame2freq = frame2freq_obj(frameSize, half)
            /\ o.freqsAnalysis = freqs_obj(n, half) /\ o.freq2freq_lowpass = Struct
            /\ o.freqsSynthesis = freqs_obj(n, half) /\ o.freq2frame = freq2frame_obj(frameSize, half)
            /\ o.framesSynthesis = frames_obj(n, frameSize)
            /\ o.frame2hop = frame2hop_obj(hopSize, frameSize, n) /\ o.hops = hops_obj(n, hopSize)
      <3> DEFINE n == from.nChannels
                 hopSize == IF rate.in > rate.out THEN from.hopSize ELSE to.hopSize
                 frameSize == 2 * hopSize
                 half == (frameSize \div 2) + 1
      <3>1. /\ o.hop2frame = hop2frame_obj(hopSize, frameSize, n)
            /\ o.framesAnalysis = frames_obj(n, frameSize) /\ o.frame2freq = frame2freq_obj(frameSize, half)
        BY <1>6 DEF mod_resample_obj, ++
      <3>2. /\ o.freqsAnalysis = freqs_obj(n, half) /\ o.freq2freq_lowpass = Struct
            /\ o.freqsSynthesis = freqs_obj(n, half) /\ o.freq2frame = freq2frame_obj(frameSize, half)
        BY <1>6 DEF mod_resample_obj, ++
      <3>3. /\ o.framesSynthesis = frames_obj(n, frameSize)
            /\ o.frame2hop = frame2hop_obj(hopSize, frameSize, n) /\ o.hops = hops_obj(n, hopSize)
        BY <1>6 DEF mod_resample_obj, ++
      <3> HIDE DEF o, n, hopSize, frameSize, half
      <3> QED
        BY <3>1, <3>2, <3>3
    <2>3. \A f \in Filtering : Count(o[f]) = 1
      <3> HIDE DEF o
      <3> QED
        BY <2>2, Counts
        DEF Filtering, hop2frame_obj, frames_obj, frame2freq_obj, freqs_obj, freq2frame_obj, frame2hop_obj,
            hops_obj
    <2>4. Balanced(o, mod_resample_destroy(o))
      <3> HIDE DEF o
      <3>1. {f \in Filtering : o[f] # null} = Filtering
        BY <2>3, Counts
      <3>2. /\ DOMAIN mod_resample_destroy(o) = {"hop2hop"} \cup Filtering
            /\ \A f \in {"hop2hop"} \cup Filtering : mod_resample_destroy(o)[f] = 1
        BY <3>1 DEF mod_resample_destroy, Once
      <3> QED
        BY <1>3, <1>4, <2>3, <3>2, BalancedIf, Numbers
    <2>5. /\ Even(hop2frame_parts(o.hop2frame)) /\ Even(frames_parts(o.framesAnalysis))
          /\ Even(frame2freq_parts(o.frame2freq)) /\ Even(freqs_parts(o.freqsAnalysis))
          /\ Even(freqs_parts(o.freqsSynthesis)) /\ Even(freq2frame_parts(o.freq2frame))
          /\ Even(frames_parts(o.framesSynthesis)) /\ Even(frame2hop_parts(o.frame2hop))
          /\ Even({<<o.hops, hops_destroy(o.hops)>>})
      <3> HIDE DEF o
      <3> QED
        BY <2>2, PartsAreEven, ContainersBalance, EvenPair
    <2>6. Even(mod_resample_parts(o))
      <3> HIDE DEF o
      <3> QED
        BY <1>2, <2>1, <2>5, EvenBoth DEF mod_resample_parts
    <2> QED
      BY <2>4, <2>6, OneBalances
  <1> QED
    BY <1>5, <1>6

LEMMA ClassifyEven ==
  ASSUME NEW config, NEW in1, NEW in2
  PROVE  LET o == mod_classify_obj(config, in1, in2)
         IN Even({<<o, mod_classify_destroy(o)>>} \cup mod_classify_parts(o))
  <1> DEFINE o == mod_classify_obj(config, in1, in2)
  <1>1. PICK n, hopSize, frameSize, half :
          /\ o.hop2frame = hop2frame_obj(hopSize, frameSize, n) /\ o.frames = frames_obj(n, frameSize)
          /\ o.frame2freq = frame2freq_obj(frameSize, half) /\ o.freqs = freqs_obj(n, half)
          /\ o.freq2acorr = freq2acorr_obj(n, half) /\ o.acorrs = acorrs_obj(n, half)
          /\ o.acorr2pitch = Struct /\ o.pitches = pitches_obj(n)
          /\ o.pitch2category = pitch2category_obj(n)
    BY DEF mod_classify_obj
  <1>2. DOMAIN o = {"halfFrameSize", "winSize", "nChannels", "hop2frame", "frames", "frame2freq", "freqs",
                    "freq2acorr", "acorrs", "acorr2pitch", "pitches", "pitch2category"}
    BY DEF mod_classify_obj
  <1> HIDE DEF o
  <1>3. Count(o.pitch2category) = 1
    BY <1>1, Counts DEF pitch2category_obj, ++, PitchRows
  <1>4. /\ Count(o.hop2frame) = 1 /\ Count(o.frames) = 1 /\ Count(o.frame2freq) = 1
        /\ Count(o.freqs) = 1 /\ Count(o.freq2acorr) = 1 /\ Count(o.acorrs) = 1
        /\ Count(o.acorr2pitch) = 1 /\ Count(o.pitches) = 1
    BY <1>1, Counts
    DEF hop2frame_obj, frames_obj, frame2freq_obj, freqs_obj, freq2acorr_obj, acorrs_obj, pitches_obj
  <1>5. Balanced(o, mod_classify_destroy(o))
    BY <1>2, <1>3, <1>4, BalancedIf, Numbers DEF mod_classify_destroy, Once
  <1>6. \E n1 : o.freq2acorr.fft = fft_obj(n1)
    BY <1>1 DEF freq2acorr_obj
  <1>7. /\ Even(hop2frame_parts(o.hop2frame)) /\ Even(frames_parts(o.frames))
        /\ Even(frame2freq_parts(o.frame2freq)) /\ Even(freqs_parts(o.freqs))
        /\ Even(fft_parts(o.freq2acorr.fft)) /\ Even(ArrayPart(o.pitches))
    BY <1>1, <1>6, PartsAreEven, ArraysBalance
  <1>8. Even({<<o.freq2acorr, freq2acorr_destroy(o.freq2acorr)>>, <<o.acorrs, acorrs_destroy(o.acorrs)>>,
              <<o.pitch2category, pitch2category_destroy(o.pitch2category)>>})
    <2>1. /\ Balanced(o.freq2acorr, freq2acorr_destroy(o.freq2acorr))
          /\ Balanced(o.acorrs, acorrs_destroy(o.acorrs))
          /\ Balanced(o.pitch2category, pitch2category_destroy(o.pitch2category))
      BY <1>1, OperatorsBalance, ContainersBalance, JoinedBalance
    <2> QED
      BY <2>1 DEF Even
  <1>9. Even(mod_classify_parts(o))
    BY <1>7, <1>8, EvenBoth DEF mod_classify_parts
  <1> QED
    BY <1>5, <1>9, OneBalances DEF o

\* The levels of the search.
LEMMA ScansEven ==
  ASSUME NEW n, NEW m, NEW k, NEW l, NEW j
  PROVE  Even(scans_parts(scans_obj(n, m, k, l, j)))
  <1> DEFINE o == scans_obj(n, m, k, l, j)
  <1>1. Even({<<o, scans_destroy(o)>>})
    BY ContainersBalance, EvenPair
  <1>2. Even(ArrayPart(o.pairs))
    BY ArraysBalance DEF scans_obj
  <1>3. Even(EachPart(o.points, ArrayPart))
    <2>1. ASSUME NEW i \in DOMAIN o.points.at
          PROVE  Even(ArrayPart(o.points.at[i]))
      <3>1. o.points.at[i] = points_obj(k[i])
        BY DEF scans_obj, Many
      <3> QED
        BY <3>1, ArraysBalance
    <2> QED
      BY <2>1 DEF EachPart, Even
  <1>4. Even(EachPart(o.deltas, ArrayPart))
    <2>1. ASSUME NEW i \in DOMAIN o.deltas.at
          PROVE  Even(ArrayPart(o.deltas.at[i]))
      <3>1. o.deltas.at[i] = deltas_obj(m)
        BY DEF scans_obj, Many
      <3> QED
        BY <3>1, ArraysBalance
    <2> QED
      BY <2>1 DEF EachPart, Even
  <1>5. Even(EachPart(o.tdoas, LAMBDA p : {<<p, tdoas_destroy(p)>>}))
    <2>1. ASSUME NEW i \in DOMAIN o.tdoas.at
          PROVE  Even({<<o.tdoas.at[i], tdoas_destroy(o.tdoas.at[i])>>})
      <3>1. o.tdoas.at[i] = tdoas_obj(k[i], m)
        BY DEF scans_obj, Many
      <3> QED
        BY <3>1, ContainersBalance, EvenPair
    <2> QED
      BY <2>1 DEF EachPart, Even
  <1>6. Even(EachPart(o.spatialindexes, LAMBDA p : {<<p, spatialindexes_destroy(p)>>}))
    <2>1. ASSUME NEW i \in DOMAIN o.spatialindexes.at
          PROVE  Even({<<o.spatialindexes.at[i], spatialindexes_destroy(o.spatialindexes.at[i])>>})
      <3>1. o.spatialindexes.at[i] = spatialindexes_obj(k[i], m)
        BY DEF scans_obj, Many
      <3> QED
        BY <3>1, ContainersBalance, EvenPair
    <2> QED
      BY <2>1 DEF EachPart, Even
  <1>7. Even(EachPart(o.indexes, LAMBDA p : {<<p, indexes_destroy(p)>>}))
    <2>1. ASSUME NEW i \in DOMAIN o.indexes.at
          PROVE  Even({<<o.indexes.at[i], indexes_destroy(o.indexes.at[i])>>})
      <3>1. o.indexes.at[i] = indexes_obj(l[i], j[i])
        BY DEF scans_obj, Many
      <3> QED
        BY <3>1, ContainersBalance, EvenPair
    <2> QED
      BY <2>1 DEF EachPart, Even
  <1> QED
    BY <1>1, <1>2, <1>3, <1>4, <1>5, <1>6, <1>7, EvenBoth DEF scans_parts

LEMMA SslEven ==
  ASSUME NEW config, NEW from, NEW to
  PROVE  LET o == mod_ssl_obj(config, from, to)
         IN Even({<<o, mod_ssl_destroy(o)>>} \cup mod_ssl_parts(o))
  <1> DEFINE o == mod_ssl_obj(config, from, to)
             Once1 == {"scans", "freq2freq_phasor", "freq2freq_product", "freq2freq_interpolate",
                       "phasors", "products", "productsInterp", "freq2xcorr", "xcorrs", "xcorrsMax",
                       "xcorr2xcorr", "pots"}
  <1>1. DOMAIN o = {"nPots", "nLevels", "halfFrameSize", "frameSizeInterp", "halfFrameSizeInterp", "tau",
                    "delta", "aimgs", "aimgsCells", "xcorr2aimg"} \cup Once1
    BY DEF mod_ssl_obj
  <1>2. PICK n, m, k, l, j : o.scans = scans_obj(n, m, k, l, j)
    BY DEF mod_ssl_obj, scanning_init_scans
  <1>3. PICK nMics, nPairs, half, size, interp :
          /\ o.phasors = freqs_obj(nMics, half) /\ o.products = freqs_obj(nPairs, half)
          /\ o.productsInterp = freqs_obj(nPairs, interp)
          /\ o.xcorrs = xcorrs_obj(nPairs, size) /\ o.xcorrsMax = xcorrs_obj(nPairs, size)
          /\ o.freq2xcorr = freq2xcorr_obj(size, interp)
    BY DEF mod_ssl_obj
  <1>4. /\ o.freq2freq_phasor = Struct /\ o.freq2freq_product = Struct
        /\ o.freq2freq_interpolate = Struct /\ o.xcorr2xcorr = Struct
    BY DEF mod_ssl_obj
  <1>5. o.pots = pots_obj(to.nPots)
    BY DEF mod_ssl_obj
  <1>6. /\ o.nLevels = Len(config.levels) /\ o.aimgs.rows = o.nLevels
        /\ o.aimgs = [rows |-> o.aimgs.rows, at |-> o.aimgs.at]
    BY DEF mod_ssl_obj, Many
  <1>7. o.xcorr2aimg = [rows |-> o.nLevels, at |-> o.xcorr2aimg.at]
    BY DEF mod_ssl_obj, Many
  <1>17. ASSUME NEW i \in DOMAIN o.aimgs.at
         PROVE  Even(ArrayPart(o.aimgs.at[i]))
    <2>1. o.aimgs.at[i] = aimg_obj(o.scans.points.at[i].nPoints)
      BY DEF mod_ssl_obj, Many
    <2> QED
      BY <2>1, ArraysBalance
  <1> HIDE DEF o
  <1>8. \A f \in Once1 : Count(o[f]) = 1
    <2>1. Count(o.scans) = 1
      BY <1>2, Counts DEF scans_obj
    <2>2. /\ Count(o.phasors) = 1 /\ Count(o.products) = 1 /\ Count(o.productsInterp) = 1
          /\ Count(o.xcorrs) = 1 /\ Count(o.xcorrsMax) = 1 /\ Count(o.freq2xcorr) = 1
      BY <1>3, Counts DEF freqs_obj, xcorrs_obj, freq2xcorr_obj
    <2>3. Count(o.pots) = 1
      BY <1>5, Counts DEF pots_obj
    <2>4. /\ Count(o.freq2freq_phasor) = 1 /\ Count(o.freq2freq_product) = 1
          /\ Count(o.freq2freq_interpolate) = 1 /\ Count(o.xcorr2xcorr) = 1
      BY <1>4, Counts
    <2> QED
      BY <2>1, <2>2, <2>3, <2>4
  <1>9. Count(o.aimgs) = o.nLevels /\ Count(o.xcorr2aimg) = o.nLevels
    BY <1>6, <1>7, Counts
  <1>10. Balanced(o, mod_ssl_destroy(o))
    <2> DEFINE d == mod_ssl_destroy(o)
    <2>1. /\ DOMAIN d = Once1 \cup {"aimgs", "xcorr2aimg"}
          /\ \A f \in Once1 : d[f] = 1
          /\ d.aimgs = o.nLevels /\ d.xcorr2aimg = o.nLevels
      BY DEF mod_ssl_destroy, Once, ++
    <2> HIDE DEF d
    <2>2. Balanced(o, d)
      BY <1>1, <1>8, <1>9, <2>1, BalancedIf, Numbers
    <2> QED
      BY <2>2 DEF d
  <1>11. Even(scans_parts(o.scans)) /\ Even(ArrayPart(o.pots))
    BY <1>2, <1>5, ScansEven, ArraysBalance
  <1>12. Even(EachPart(o.aimgs, ArrayPart))
    BY <1>17 DEF EachPart, Even
  <1>13. Even(UNION {freqs_parts(o[f]) : f \in {"phasors", "products", "productsInterp"}})
    <2>1. /\ Even(freqs_parts(o.phasors)) /\ Even(freqs_parts(o.products))
          /\ Even(freqs_parts(o.productsInterp))
      BY <1>3, PartsAreEven
    <2> QED
      BY <2>1 DEF Even
  <1>14. Even({<<o[f], xcorrs_destroy(o[f])>> : f \in {"xcorrs", "xcorrsMax"}})
    <2>1. Balanced(o.xcorrs, xcorrs_destroy(o.xcorrs)) /\ Balanced(o.xcorrsMax, xcorrs_destroy(o.xcorrsMax))
      BY <1>3, ContainersBalance
    <2> QED
      BY <2>1 DEF Even
  <1>15. Even(fft_parts(o.freq2xcorr.fft)) /\ Even({<<o.freq2xcorr, freq2xcorr_destroy(o.freq2xcorr)>>})
    <2>1. \E n1 : o.freq2xcorr.fft = fft_obj(n1)
      BY <1>3 DEF freq2xcorr_obj
    <2> QED
      BY <1>3, <2>1, PartsAreEven, OperatorsBalance, EvenPair
  <1>16. Even(mod_ssl_parts(o))
    BY <1>11, <1>12, <1>13, <1>14, <1>15, EvenBoth DEF mod_ssl_parts
  <1> QED
    BY <1>10, <1>16, OneBalances DEF o

\* The filters of tracking.
LEMMA FiltersEven ==
  /\ \A n, m, k : Even(mixture_parts(mixture_obj(n, m, k)))
  /\ Even(kalman_parts(kalman_obj))
  /\ Even(matrices_parts(kalman2kalman_obj, kalman2kalman_destroy(kalman2kalman_obj)))
  /\ Even(matrices_parts(kalman2coherence_obj, kalman2coherence_destroy(kalman2coherence_obj)))
  /\ \A n : Even(particle2particle_parts(particle2particle_obj(n)))
  <1>1. ASSUME NEW n, NEW m, NEW k
        PROVE  Even(mixture_parts(mixture_obj(n, m, k)))
    <2>1. mixture_obj(n, m, k).assignations = assignations_obj(k, n)
      BY DEF mixture_obj
    <2> QED
      BY <2>1, ContainersBalance, ArraysBalance, OneBalances DEF mixture_parts
  <1>2. Even(kalman_parts(kalman_obj))
    <2>1. \A f \in DOMAIN kalman_obj : Even(ArrayPart(kalman_obj[f]))
      BY ArraysBalance DEF kalman_obj
    <2>2. Even(UNION {ArrayPart(kalman_obj[f]) : f \in DOMAIN kalman_obj})
      BY <2>1 DEF Even
    <2> QED
      BY <2>2, ContainersBalance, OneBalances DEF kalman_parts
  <1>3. Even(matrices_parts(kalman2kalman_obj, kalman2kalman_destroy(kalman2kalman_obj)))
    <2>1. \A f \in DOMAIN kalman2kalman_obj : Even(ArrayPart(kalman2kalman_obj[f]))
      BY ArraysBalance DEF kalman2kalman_obj
    <2>2. Even(UNION {ArrayPart(kalman2kalman_obj[f]) : f \in DOMAIN kalman2kalman_obj})
      BY <2>1 DEF Even
    <2> QED
      BY <2>2, OperatorsBalance, OneBalances DEF matrices_parts
  <1>4. Even(matrices_parts(kalman2coherence_obj, kalman2coherence_destroy(kalman2coherence_obj)))
    <2>1. \A f \in DOMAIN kalman2coherence_obj : Even(ArrayPart(kalman2coherence_obj[f]))
      BY ArraysBalance DEF kalman2coherence_obj
    <2>2. Even(UNION {ArrayPart(kalman2coherence_obj[f]) : f \in DOMAIN kalman2coherence_obj})
      BY <2>1 DEF Even
    <2> QED
      BY <2>2, OperatorsBalance, OneBalances DEF matrices_parts
  <1>5. ASSUME NEW n
        PROVE  Even(particle2particle_parts(particle2particle_obj(n)))
    <2> DEFINE o == particle2particle_obj(n)
    <2>1. /\ o.normaloff = normaloff_obj(10000) /\ o.particles = particles_obj(n)
          /\ o.rnd_ratio = random_obj(3) /\ o.rnd_weight = random_obj(n)
      BY DEF particle2particle_obj
    <2>2. Even({<<o, particle2particle_destroy(o)>>, <<o.normaloff, normaloff_destroy(o.normaloff)>>,
                <<o.particles, particles_destroy(o.particles)>>})
      <3>1. /\ Balanced(o, particle2particle_destroy(o))
            /\ Balanced(o.normaloff, normaloff_destroy(o.normaloff))
            /\ Balanced(o.particles, particles_destroy(o.particles))
        BY <2>1, OperatorsBalance, ContainersBalance
      <3> QED
        BY <3>1 DEF Even
    <2>3. Even(random_parts(o.rnd_ratio)) /\ Even(random_parts(o.rnd_weight))
      BY <2>1, PartsAreEven
    <2> QED
      BY <2>2, <2>3, EvenBoth DEF particle2particle_parts
  <1> QED
    BY <1>1, <1>2, <1>3, <1>4, <1>5

SstFixed == {"nPots", "nTracksMax", "nTargetsMax", "mode", "mixtures", "coherences", "postprobs",
             "tags", "mixture2mixture", "kalmans", "particles"}

\* The fields of mod_sst: the method of tracking chooses which filters are built.
LEMMA SstFields ==
  ASSUME NEW config, NEW pots, NEW targets, NEW tracks
  PROVE  LET o == mod_sst_obj(config, pots, targets, tracks)
             n == tracks.nTracks
             m == pots.nPots
             k == config.mode = "k"
         IN /\ \A f : f \in DOMAIN o <=> f \in SstFixed \cup PerSlot \cup Filters
            /\ o.nTracksMax = n /\ o.mode = config.mode
            /\ Count(o.mixtures) = n + 1 /\ Count(o.coherences) = n + 1 /\ Count(o.postprobs) = n + 1
            /\ Count(o.tags) = n /\ Count(o.mixture2mixture) = 1
            /\ o.mixture2mixture = mixture2mixture_obj(config.active_gmm, config.inactive_gmm)
            /\ \A i \in DOMAIN o.mixtures.at : o.mixtures.at[i] = mixture_obj(m, i, (i + 2) ^ m)
            /\ \A i \in DOMAIN o.coherences.at : o.coherences.at[i] = coherences_obj(m, i)
            /\ \A i \in DOMAIN o.postprobs.at : o.postprobs.at[i] = postprobs_obj(m, i)
            /\ IF k THEN /\ o.particles = null /\ o.kalmans # null /\ Count(o.kalmans) = n
                         /\ \A i \in DOMAIN o.kalmans.at : o.kalmans.at[i] = kalman_obj
                    ELSE /\ o.kalmans = null /\ o.particles # null /\ Count(o.particles) = n
                         /\ \A i \in DOMAIN o.particles.at : o.particles.at[i] = particles_obj(config.nParticles)
            /\ \A f \in PerSlot : o[f] = Flat(n)
            /\ \A f \in kalman2kalmans    : o[f] = IF k THEN kalman2kalman_obj ELSE null
            /\ \A f \in kalman2coherences : o[f] = IF k THEN kalman2coherence_obj ELSE null
            /\ \A f \in particle2particles :
                  o[f] = IF k THEN null ELSE particle2particle_obj(config.nParticles)
            /\ \A f \in particle2coherences : o[f] = IF k THEN null ELSE Struct
  <1> DEFINE o == mod_sst_obj(config, pots, targets, tracks)
             n == tracks.nTracks
             m == pots.nPots
             k == config.mode = "k"
             f1 == [nPots |-> m, nTracksMax |-> n, nTargetsMax |-> targets.nTargets, mode |-> config.mode,
                    mixtures   |-> Many(n + 1, LAMBDA t : mixture_obj(m, t, (t + 2) ^ m)),
                    coherences |-> Many(n + 1, LAMBDA t : coherences_obj(m, t)),
                    postprobs  |-> Many(n + 1, LAMBDA t : postprobs_obj(m, t)),
                    tags |-> Rows(n, 256),
                    mixture2mixture |-> mixture2mixture_obj(config.active_gmm, config.inactive_gmm),
                    kalmans   |-> IF k THEN Many(n, LAMBDA t : kalman_obj) ELSE null,
                    particles |-> IF k THEN null ELSE Many(n, LAMBDA t : particles_obj(config.nParticles))]
             f2 == [f \in PerSlot |-> Flat(n)]
             f3 == [f \in kalman2kalmans    |-> IF k THEN kalman2kalman_obj ELSE null]
             f4 == [f \in kalman2coherences |-> IF k THEN kalman2coherence_obj ELSE null]
             f5 == [f \in particle2particles |->
                      IF k THEN null ELSE particle2particle_obj(config.nParticles)]
             f6 == [f \in particle2coherences |-> IF k THEN null ELSE Struct]
  <1>1. o = f1 ++ f2 ++ f3 ++ f4 ++ f5 ++ f6
    BY DEF mod_sst_obj
  <1>2. /\ DOMAIN f1 = SstFixed /\ f1.nTracksMax = n /\ f1.mode = config.mode
        /\ f1.mixtures = Many(n + 1, LAMBDA t : mixture_obj(m, t, (t + 2) ^ m))
        /\ f1.coherences = Many(n + 1, LAMBDA t : coherences_obj(m, t))
        /\ f1.postprobs = Many(n + 1, LAMBDA t : postprobs_obj(m, t))
        /\ f1.tags = Rows(n, 256) /\ f1.mixture2mixture = mixture2mixture_obj(config.active_gmm, config.inactive_gmm)
        /\ f1.kalmans = IF k THEN Many(n, LAMBDA t : kalman_obj) ELSE null
        /\ f1.particles = IF k THEN null ELSE Many(n, LAMBDA t : particles_obj(config.nParticles))
    BY DEF SstFixed
  <1>3. /\ DOMAIN f2 = PerSlot /\ DOMAIN f3 = kalman2kalmans /\ DOMAIN f4 = kalman2coherences
        /\ DOMAIN f5 = particle2particles /\ DOMAIN f6 = particle2coherences
    OBVIOUS
  <1>4. /\ SstFixed \cap PerSlot = {}
        /\ (SstFixed \cup PerSlot) \cap kalman2kalmans = {}
        /\ (SstFixed \cup PerSlot \cup kalman2kalmans) \cap kalman2coherences = {}
        /\ (SstFixed \cup PerSlot \cup kalman2kalmans \cup kalman2coherences) \cap particle2particles = {}
        /\ (SstFixed \cup PerSlot \cup kalman2kalmans \cup kalman2coherences \cup particle2particles)
             \cap particle2coherences = {}
    BY DEF SstFixed, PerSlot, kalman2kalmans, kalman2coherences, particle2particles, particle2coherences
  <1>5. /\ \A f \in PerSlot : f2[f] = Flat(n)
        /\ \A f \in kalman2kalmans : f3[f] = IF k THEN kalman2kalman_obj ELSE null
        /\ \A f \in kalman2coherences : f4[f] = IF k THEN kalman2coherence_obj ELSE null
        /\ \A f \in particle2particles : f5[f] = IF k THEN null ELSE particle2particle_obj(config.nParticles)
        /\ \A f \in particle2coherences : f6[f] = IF k THEN null ELSE Struct
    OBVIOUS
  <1> HIDE DEF o, n, m, k, f1, f2, f3, f4, f5, f6
  <1>6. /\ DOMAIN o = DOMAIN f1 \cup DOMAIN f2 \cup DOMAIN f3 \cup DOMAIN f4 \cup DOMAIN f5 \cup DOMAIN f6
        /\ \A x \in DOMAIN f1 : o[x] = f1[x]
        /\ \A x \in DOMAIN f2 : o[x] = f2[x]
        /\ \A x \in DOMAIN f3 : o[x] = f3[x]
        /\ \A x \in DOMAIN f4 : o[x] = f4[x]
        /\ \A x \in DOMAIN f5 : o[x] = f5[x]
        /\ \A x \in DOMAIN f6 : o[x] = f6[x]
    <2> DEFINE g2 == f1 ++ f2
               g3 == g2 ++ f3
               g4 == g3 ++ f4
               g5 == g4 ++ f5
    <2>1. /\ DOMAIN g2 = DOMAIN f1 \cup DOMAIN f2
          /\ \A x \in DOMAIN f1 : g2[x] = f1[x]
          /\ \A x \in DOMAIN f2 : g2[x] = f2[x]
      <3>1. DOMAIN f1 \cap DOMAIN f2 = {}
        BY <1>2, <1>3, <1>4
      <3> QED
        BY <3>1 DEF ++
    <2> HIDE DEF g2
    <2>2. /\ DOMAIN g3 = DOMAIN g2 \cup DOMAIN f3
          /\ \A x \in DOMAIN g2 : g3[x] = g2[x]
          /\ \A x \in DOMAIN f3 : g3[x] = f3[x]
      <3>1. DOMAIN g2 \cap DOMAIN f3 = {}
        BY <1>2, <1>3, <1>4, <2>1
      <3> QED
        BY <3>1 DEF ++
    <2> HIDE DEF g3
    <2>3. /\ DOMAIN g4 = DOMAIN g3 \cup DOMAIN f4
          /\ \A x \in DOMAIN g3 : g4[x] = g3[x]
          /\ \A x \in DOMAIN f4 : g4[x] = f4[x]
      <3>1. DOMAIN g3 \cap DOMAIN f4 = {}
        BY <1>2, <1>3, <1>4, <2>1, <2>2
      <3> QED
        BY <3>1 DEF ++
    <2> HIDE DEF g4
    <2>4. /\ DOMAIN g5 = DOMAIN g4 \cup DOMAIN f5
          /\ \A x \in DOMAIN g4 : g5[x] = g4[x]
          /\ \A x \in DOMAIN f5 : g5[x] = f5[x]
      <3>1. DOMAIN g4 \cap DOMAIN f5 = {}
        BY <1>2, <1>3, <1>4, <2>1, <2>2, <2>3
      <3> QED
        BY <3>1 DEF ++
    <2> HIDE DEF g5
    <2>5. /\ DOMAIN o = DOMAIN g5 \cup DOMAIN f6
          /\ \A x \in DOMAIN g5 : o[x] = g5[x]
          /\ \A x \in DOMAIN f6 : o[x] = f6[x]
      <3>1. o = g5 ++ f6
        BY <1>1 DEF g2, g3, g4, g5
      <3>2. DOMAIN g5 \cap DOMAIN f6 = {}
        BY <1>2, <1>3, <1>4, <2>1, <2>2, <2>3, <2>4
      <3> QED
        BY <3>1, <3>2 DEF ++
    <2> QED
      BY <2>1, <2>2, <2>3, <2>4, <2>5
  <1>7. /\ DOMAIN o = SstFixed \cup PerSlot \cup Filters
        /\ \A f \in PerSlot : o[f] = Flat(n)
        /\ \A f \in kalman2kalmans : o[f] = IF k THEN kalman2kalman_obj ELSE null
        /\ \A f \in kalman2coherences : o[f] = IF k THEN kalman2coherence_obj ELSE null
        /\ \A f \in particle2particles : o[f] = IF k THEN null ELSE particle2particle_obj(config.nParticles)
        /\ \A f \in particle2coherences : o[f] = IF k THEN null ELSE Struct
    BY <1>2, <1>3, <1>5, <1>6 DEF Filters
  <1>8. \A f \in SstFixed : o[f] = f1[f]
    BY <1>2, <1>6
  <1>9. /\ o.nTracksMax = n /\ o.mode = config.mode
        /\ o.mixtures = Many(n + 1, LAMBDA t : mixture_obj(m, t, (t + 2) ^ m))
        /\ o.coherences = Many(n + 1, LAMBDA t : coherences_obj(m, t))
        /\ o.postprobs = Many(n + 1, LAMBDA t : postprobs_obj(m, t))
        /\ o.tags = Rows(n, 256) /\ o.mixture2mixture = mixture2mixture_obj(config.active_gmm, config.inactive_gmm)
        /\ o.kalmans = IF k THEN Many(n, LAMBDA t : kalman_obj) ELSE null
        /\ o.particles = IF k THEN null ELSE Many(n, LAMBDA t : particles_obj(config.nParticles))
    BY <1>2, <1>8 DEF SstFixed
  <1>10. /\ Count(o.mixtures) = n + 1 /\ Count(o.coherences) = n + 1 /\ Count(o.postprobs) = n + 1
         /\ Count(o.tags) = n /\ Count(o.mixture2mixture) = 1
    BY <1>9, Counts DEF Many, mixture2mixture_obj
  <1>11. /\ \A i \in DOMAIN o.mixtures.at : o.mixtures.at[i] = mixture_obj(m, i, (i + 2) ^ m)
         /\ \A i \in DOMAIN o.coherences.at : o.coherences.at[i] = coherences_obj(m, i)
         /\ \A i \in DOMAIN o.postprobs.at : o.postprobs.at[i] = postprobs_obj(m, i)
    BY <1>9 DEF Many
  <1>12. IF k THEN /\ o.particles = null /\ o.kalmans # null /\ Count(o.kalmans) = n
                   /\ \A i \in DOMAIN o.kalmans.at : o.kalmans.at[i] = kalman_obj
              ELSE /\ o.kalmans = null /\ o.particles # null /\ Count(o.particles) = n
                   /\ \A i \in DOMAIN o.particles.at : o.particles.at[i] = particles_obj(config.nParticles)
    BY <1>9, Counts DEF Many
  <1> QED
    BY <1>7, <1>9, <1>10, <1>11, <1>12 DEF o, n, m, k

\* Of the filters only those of the chosen method are built, and only those are freed.
LEMMA SstBalances ==
  ASSUME NEW config, config.mode \in {"k", "p"}, NEW pots, NEW targets, NEW tracks
  PROVE  LET o == mod_sst_obj(config, pots, targets, tracks) IN Balanced(o, mod_sst_destroy(o))
  <1> DEFINE o == mod_sst_obj(config, pots, targets, tracks)
             d == mod_sst_destroy(o)
             n == tracks.nTracks
             Numbered == {"nPots", "nTracksMax", "nTargetsMax", "mode"}
             Counted == {"mixtures", "coherences", "postprobs"}
             Slots == {"kalmans", "particles"}
             Fixed == {"tags", "mixture2mixture"}
  <1>1. DOMAIN o = Numbered \cup Counted \cup Slots \cup Fixed \cup PerSlot \cup Filters
    <2>1. \A f : f \in DOMAIN o <=> f \in SstFixed \cup PerSlot \cup Filters
      BY SstFields
    <2> HIDE DEF o
    <2>2. SstFixed = Numbered \cup Counted \cup Slots \cup Fixed
      BY DEF SstFixed
    <2> QED
      BY <2>1, <2>2
  <1>2. /\ (PerSlot \cup Filters) \cap ((Numbered \ {"type"}) \cup Counted \cup Slots \cup Fixed) = {}
        /\ PerSlot \cap Filters = {}
        /\ kalman2kalmans \cap kalman2coherences = {}
        /\ (kalman2kalmans \cup kalman2coherences) \cap (particle2particles \cup particle2coherences) = {}
        /\ particle2particles \cap particle2coherences = {}
    BY DEF PerSlot, Filters, kalman2kalmans, kalman2coherences, particle2particles, particle2coherences
  <1>3. o.nTracksMax = n
    BY SstFields
  <1>4. Count(o.mixtures) = n + 1 /\ Count(o.coherences) = n + 1 /\ Count(o.postprobs) = n + 1
    BY SstFields
  <1>5. Count(o.tags) = n /\ Count(o.mixture2mixture) = 1
    BY SstFields
  <1>6. \A f \in PerSlot : Count(o[f]) = 1
    <2>1. \A f \in PerSlot : o[f] = Flat(n)
      BY SstFields
    <2> QED
      BY <2>1, Counts
  <1>7. PICK Made \in SUBSET Filters :
          /\ \A f \in Made : Count(o[f]) = 1
          /\ \A f \in Filters \ Made : o[f] = null
    <2>1. Count(kalman2kalman_obj) = 1 /\ Count(kalman2coherence_obj) = 1
      BY Counts DEF kalman2kalman_obj, kalman2coherence_obj
    <2>2. Count(particle2particle_obj(config.nParticles)) = 1
      BY Counts DEF particle2particle_obj
    <2>3. /\ \A f \in kalman2kalmans :
                o[f] = IF config.mode = "k" THEN kalman2kalman_obj ELSE null
          /\ \A f \in kalman2coherences :
                o[f] = IF config.mode = "k" THEN kalman2coherence_obj ELSE null
          /\ \A f \in particle2particles :
                o[f] = IF config.mode = "k" THEN null ELSE particle2particle_obj(config.nParticles)
          /\ \A f \in particle2coherences : o[f] = IF config.mode = "k" THEN null ELSE Struct
      BY SstFields
    <2> HIDE DEF o
    <2>4. CASE config.mode = "k"
      <3> kalman2kalmans \cup kalman2coherences \in SUBSET Filters
        BY DEF Filters
      <3> WITNESS kalman2kalmans \cup kalman2coherences \in SUBSET Filters
      <3> QED
        BY <2>1, <2>3, <2>4 DEF Filters
    <2>5. CASE config.mode # "k"
      <3> particle2particles \cup particle2coherences \in SUBSET Filters
        BY DEF Filters
      <3> WITNESS particle2particles \cup particle2coherences \in SUBSET Filters
      <3> QED
        BY <2>2, <2>3, <2>5, Counts DEF Filters
    <2> QED
      BY <2>4, <2>5
  <1>8. PICK Filled \in SUBSET Slots :
          /\ \A f \in Filled : o[f] # null /\ Count(o[f]) = n
          /\ \A f \in Slots \ Filled : o[f] = null
    <2>1. CASE config.mode = "k"
      <3>1. o.kalmans # null /\ Count(o.kalmans) = n /\ o.particles = null
        BY <2>1, SstFields
      <3> HIDE DEF o
      <3> WITNESS {"kalmans"} \in SUBSET Slots
      <3> QED
        BY <3>1
    <2>2. CASE config.mode # "k"
      <3>1. o.particles # null /\ Count(o.particles) = n /\ o.kalmans = null
        BY <2>2, SstFields
      <3> HIDE DEF o
      <3> WITNESS {"particles"} \in SUBSET Slots
      <3> QED
        BY <3>1
    <2> QED
      BY <2>1, <2>2
  <1> HIDE DEF o
  <1>9. {f \in Filters : o[f] # null} = Made /\ {f \in Slots : o[f] # null} = Filled
    <2>1. \A f \in Made : o[f] # null
      BY <1>7, Counts
    <2>2. {f \in Filters : o[f] # null} = Made
      BY <1>7, <2>1
    <2>3. {f \in Slots : o[f] # null} = Filled
      BY <1>8
    <2> QED
      BY <2>2, <2>3
  <1>10. /\ DOMAIN d = Counted \cup PerSlot \cup Fixed \cup Made \cup Filled
         /\ \A f \in Counted : d[f] = n + 1
         /\ \A f \in PerSlot \cup {"mixture2mixture"} \cup Made : d[f] = 1
         /\ \A f \in {"tags"} \cup Filled : d[f] = n
    BY <1>2, <1>3, <1>9 DEF mod_sst_destroy, ++, Once
  <1> HIDE DEF d
  <1>11. \A f \in DOMAIN o : \/ f \in CountFields /\ f \notin DOMAIN d
                             \/ Count(o[f]) = IF f \in DOMAIN d THEN d[f] ELSE 0
    <2> TAKE f \in DOMAIN o
    <2>1. CASE f \in Numbered
      BY <1>2, <1>10, <2>1, Numbers
    <2>2. CASE f \in Counted \cup Fixed \cup PerSlot
      BY <1>4, <1>5, <1>6, <1>10, <2>2
    <2>3. CASE f \in Filters
      BY <1>2, <1>7, <1>10, <2>3, Counts
    <2>4. CASE f \in Slots
      BY <1>2, <1>8, <1>10, <2>4, Counts
    <2> QED
      BY <1>1, <2>1, <2>2, <2>3, <2>4
  <1>12. DOMAIN d \subseteq DOMAIN o
    BY <1>1, <1>10
  <1>13. Balanced(o, d)
    BY <1>11, <1>12, BalancedIf
  <1> QED
    BY <1>13 DEF o, d

LEMMA GaussiansBalance == \A n : Balanced(gaussians_1d_obj(n), gaussians_1d_destroy(gaussians_1d_obj(n)))
  BY BalancedIf, Counts, Numbers DEF gaussians_1d_obj, gaussians_1d_destroy

LEMMA MixtureEven ==
  ASSUME NEW active, NEW inactive
  PROVE  Even(mixture2mixture_parts(mixture2mixture_obj(active, inactive)))
  <1> DEFINE o == mixture2mixture_obj(active, inactive)
  <1>1. /\ DOMAIN o = {"active", "inactive"}
        /\ o.active = gaussians_1d_obj(active.nSignals) /\ o.inactive = gaussians_1d_obj(inactive.nSignals)
    BY DEF mixture2mixture_obj
  <1> HIDE DEF o
  <1>2. Count(o.active) = 1 /\ Count(o.inactive) = 1
    BY <1>1, Counts DEF gaussians_1d_obj
  <1>3. Balanced(o, mixture2mixture_destroy(o))
    BY <1>1, <1>2, BalancedIf DEF mixture2mixture_destroy
  <1>4. /\ Balanced(o.active, gaussians_1d_destroy(o.active))
        /\ Balanced(o.inactive, gaussians_1d_destroy(o.inactive))
    BY <1>1, GaussiansBalance
  <1>5. Even(mixture2mixture_parts(o))
    BY <1>3, <1>4 DEF mixture2mixture_parts, Even
  <1> QED
    BY <1>5 DEF o

LEMMA SstEven ==
  ASSUME NEW config, config.mode \in {"k", "p"}, NEW pots, NEW targets, NEW tracks
  PROVE  LET o == mod_sst_obj(config, pots, targets, tracks)
         IN Even({<<o, mod_sst_destroy(o)>>} \cup mod_sst_parts(o))
  <1> DEFINE o == mod_sst_obj(config, pots, targets, tracks)
             n == tracks.nTracks
  <1>0. Even(mixture2mixture_parts(o.mixture2mixture))
    <2>1. o.mixture2mixture = mixture2mixture_obj(config.active_gmm, config.inactive_gmm)
      BY SstFields
    <2> HIDE DEF o
    <2> QED
      BY <2>1, MixtureEven
  <1>1. Even(EachPart(o.mixtures, mixture_parts))
    <2>1. ASSUME NEW i \in DOMAIN o.mixtures.at
          PROVE  Even(mixture_parts(o.mixtures.at[i]))
      <3>1. o.mixtures.at[i] = mixture_obj(pots.nPots, i, (i + 2) ^ pots.nPots)
        BY SstFields
      <3> QED
        BY <3>1, FiltersEven
    <2> QED
      BY <2>1 DEF EachPart, Even
  <1>2. Even(EachPart(o.coherences, ArrayPart))
    <2>1. ASSUME NEW i \in DOMAIN o.coherences.at
          PROVE  Even(ArrayPart(o.coherences.at[i]))
      <3>1. o.coherences.at[i] = coherences_obj(pots.nPots, i)
        BY SstFields
      <3> QED
        BY <3>1, ArraysBalance
    <2> QED
      BY <2>1 DEF EachPart, Even
  <1>3. Even(EachPart(o.postprobs, LAMBDA p : {<<p, postprobs_destroy(p)>>}))
    <2>1. ASSUME NEW i \in DOMAIN o.postprobs.at
          PROVE  Even({<<o.postprobs.at[i], postprobs_destroy(o.postprobs.at[i])>>})
      <3>1. o.postprobs.at[i] = postprobs_obj(pots.nPots, i)
        BY SstFields
      <3> QED
        BY <3>1, ContainersBalance, EvenPair
    <2> QED
      BY <2>1 DEF EachPart, Even
  <1>4. o.mode = config.mode
    BY SstFields
  <1>5. ASSUME config.mode = "k"
        PROVE  Even(mod_sst_parts(o))
    <2>1. Even(EachPart(o.kalmans, kalman_parts))
      <3>1. ASSUME NEW i \in DOMAIN o.kalmans.at
            PROVE  Even(kalman_parts(o.kalmans.at[i]))
        <4>1. o.kalmans.at[i] = kalman_obj
          BY <1>5, SstFields
        <4> QED
          BY <4>1, FiltersEven
      <3> QED
        BY <3>1 DEF EachPart, Even
    <2>2. /\ \A f \in kalman2kalmans : o[f] = kalman2kalman_obj
          /\ \A f \in kalman2coherences : o[f] = kalman2coherence_obj
      BY <1>5, SstFields
    <2> HIDE DEF o
    <2>3. Even(UNION {matrices_parts(o[f], kalman2kalman_destroy(o[f])) : f \in kalman2kalmans})
      <3>1. \A f \in kalman2kalmans : Even(matrices_parts(o[f], kalman2kalman_destroy(o[f])))
        BY <2>2, FiltersEven
      <3> QED
        BY <3>1 DEF Even
    <2>4. Even(UNION {matrices_parts(o[f], kalman2coherence_destroy(o[f])) : f \in kalman2coherences})
      <3>1. \A f \in kalman2coherences : Even(matrices_parts(o[f], kalman2coherence_destroy(o[f])))
        BY <2>2, FiltersEven
      <3> QED
        BY <3>1 DEF Even
    <2> QED
      BY <1>0, <1>1, <1>2, <1>3, <1>4, <1>5, <2>1, <2>3, <2>4, EvenBoth DEF mod_sst_parts
  <1>6. ASSUME config.mode = "p"
        PROVE  Even(mod_sst_parts(o))
    <2>1. Even(EachPart(o.particles, LAMBDA p : {<<p, particles_destroy(p)>>}))
      <3>1. ASSUME NEW i \in DOMAIN o.particles.at
            PROVE  Even({<<o.particles.at[i], particles_destroy(o.particles.at[i])>>})
        <4>1. o.particles.at[i] = particles_obj(config.nParticles)
          BY <1>6, SstFields
        <4> QED
          BY <4>1, ContainersBalance, EvenPair
      <3> QED
        BY <3>1 DEF EachPart, Even
    <2>2. \A f \in particle2particles : o[f] = particle2particle_obj(config.nParticles)
      BY <1>6, SstFields
    <2> HIDE DEF o
    <2>3. Even(UNION {particle2particle_parts(o[f]) : f \in particle2particles})
      <3>1. \A f \in particle2particles : Even(particle2particle_parts(o[f]))
        BY <2>2, FiltersEven
      <3> QED
        BY <3>1 DEF Even
    <2> QED
      BY <1>0, <1>1, <1>2, <1>3, <1>4, <1>6, <2>1, <2>3, EvenBoth DEF mod_sst_parts
  <1>7. Balanced(o, mod_sst_destroy(o))
    BY SstBalances
  <1> QED
    BY <1>5, <1>6, <1>7, OneBalances

\* The objects of the two methods of separation.
LEMMA SepGroupEven ==
  ASSUME NEW config, NEW n, NEW m, NEW half, NEW steer2demixing, Count(steer2demixing) = 1
  PROVE  LET g == SepGroup(config, n, m, half, steer2demixing)
         IN /\ Even(SepGroup_parts(g))
            /\ g.steer2demixing = steer2demixing /\ Count(g) = 1
  <1> DEFINE g == SepGroup(config, n, m, half, steer2demixing)
  <1>1. /\ g.beampatterns_mics = beampatterns_obj(config.nMics, config.nThetas)
        /\ g.steers = steers_obj(half, n, m) /\ g.gains = gains_obj(n, m) /\ g.masks = masks_obj(n, m)
        /\ g.tracksPrev = tracks_obj(n) /\ g.tracksNow = tracks_obj(n)
        /\ g.track2gain = track2gain_obj(n, m) /\ g.gain2mask = Struct
        /\ g.track2steer = track2steer_obj(n, m, half)
        /\ g.steer2demixing = steer2demixing /\ g.demixing2freq = Struct
        /\ g.demixingsPrev = demixings_obj(half, n, m) /\ g.demixingsNow = demixings_obj(half, n, m)
    BY DEF SepGroup
  <1>2. DOMAIN g = {"beampatterns_mics", "steers", "gains", "masks", "tracksPrev", "tracksNow",
                    "track2gain", "gain2mask", "track2steer", "steer2demixing", "demixing2freq",
                    "demixingsPrev", "demixingsNow"}
    BY DEF SepGroup
  <1>3. Count(g) = 1
    BY <1>2, Counts
  <1> HIDE DEF g
  <1>4. /\ Count(g.beampatterns_mics) = 1 /\ Count(g.steers) = 1 /\ Count(g.gains) = 1
        /\ Count(g.masks) = 1 /\ Count(g.tracksPrev) = 1 /\ Count(g.tracksNow) = 1
        /\ Count(g.track2gain) = 1 /\ Count(g.gain2mask) = 1 /\ Count(g.track2steer) = 1
        /\ Count(g.steer2demixing) = 1 /\ Count(g.demixing2freq) = 1
        /\ Count(g.demixingsPrev) = 1 /\ Count(g.demixingsNow) = 1
    BY <1>1, Counts
    DEF beampatterns_obj, steers_obj, gains_obj, masks_obj, tracks_obj, track2gain_obj, track2steer_obj,
        demixings_obj
  <1>5. Balanced(g, SepGroup_destroy)
    BY <1>2, <1>4, BalancedIf DEF SepGroup_destroy, Once
  <1>6. /\ Balanced(g.beampatterns_mics, beampatterns_destroy(g.beampatterns_mics))
        /\ Balanced(g.steers, steers_destroy(g.steers))
        /\ Balanced(g.track2gain, track2gain_destroy(g.track2gain))
        /\ Balanced(g.track2steer, track2steer_destroy(g.track2steer))
        /\ Balanced(g.tracksPrev, tracks_destroy(g.tracksPrev))
        /\ Balanced(g.tracksNow, tracks_destroy(g.tracksNow))
        /\ Balanced(g.demixingsPrev, demixings_destroy(g.demixingsPrev))
        /\ Balanced(g.demixingsNow, demixings_destroy(g.demixingsNow))
    BY <1>1, ContainersBalance, OperatorsBalance
  <1>7. Even({<<g, SepGroup_destroy>>, <<g.beampatterns_mics, beampatterns_destroy(g.beampatterns_mics)>>,
              <<g.steers, steers_destroy(g.steers)>>, <<g.track2gain, track2gain_destroy(g.track2gain)>>,
              <<g.track2steer, track2steer_destroy(g.track2steer)>>})
    BY <1>5, <1>6 DEF Even
  <1>8. /\ Even({<<g[f], tracks_destroy(g[f])>> : f \in {"tracksPrev", "tracksNow"}})
        /\ Even({<<g[f], demixings_destroy(g[f])>> : f \in {"demixingsPrev", "demixingsNow"}})
    BY <1>6 DEF Even
  <1>9. Even(ArrayPart(g.gains)) /\ Even(ArrayPart(g.masks))
    BY <1>1, ArraysBalance
  <1>10. Even(SepGroup_parts(g))
    BY <1>7, <1>8, <1>9, EvenBoth DEF SepGroup_parts
  <1> QED
    BY <1>1, <1>3, <1>10 DEF g

LEMMA GssEven ==
  ASSUME NEW n, NEW m, NEW k
  PROVE  Even(steer2demixing_gss_parts(steer2demixing_gss_obj(n, m, k)))
  <1> DEFINE o == steer2demixing_gss_obj(n, m, k)
             Sets == GssColumns \cup GssSquares \cup GssByChannels \cup {"YH", "A"}
  <1>1. Balanced(o, steer2demixing_gss_destroy(o))
    BY GssBalances
  <1>2. \A f \in GssColumns \cup GssSquares \cup GssByChannels :
           f \notin {"nSeps", "nChannels", "halfFrameSize", "X", "XH", "YH", "A"}
    BY DEF GssColumns, GssSquares, GssByChannels
  <1>3. o.X = cmatrix_obj(m, 1) /\ o.XH = cmatrix_obj(1, m)
    BY DEF ++, steer2demixing_gss_obj
  <1>4. ASSUME NEW f \in Sets, NEW i \in DOMAIN o[f].at
        PROVE  \E rows, cols : o[f].at[i] = cmatrix_obj(rows, cols)
    <2>1. CASE f = "YH"
      <3>1. o[f].at[i] = cmatrix_obj(1, i + 1)
        BY <2>1 DEF ++, steer2demixing_gss_obj, Many
      <3> QED
        BY <3>1
    <2>2. CASE f = "A"
      <3>1. o[f].at[i] = cmatrix_obj(m, i + 1)
        BY <2>2 DEF ++, steer2demixing_gss_obj, Many
      <3> QED
        BY <3>1
    <2>3. CASE f \in GssColumns
      <3>1. o[f].at[i] = cmatrix_obj(i + 1, 1)
        BY <1>2, <2>3 DEF ++, steer2demixing_gss_obj, Many
      <3> QED
        BY <3>1
    <2>4. CASE f \in GssSquares /\ f \notin GssColumns
      <3>1. o[f].at[i] = cmatrix_obj(i + 1, i + 1)
        BY <1>2, <2>4 DEF ++, steer2demixing_gss_obj, Many
      <3> QED
        BY <3>1
    <2>5. CASE f \in GssByChannels /\ f \notin GssColumns /\ f \notin GssSquares
      <3>1. o[f].at[i] = cmatrix_obj(i + 1, m)
        BY <1>2, <2>5 DEF ++, steer2demixing_gss_obj, Many
      <3> QED
        BY <3>1
    <2> QED
      BY <2>1, <2>2, <2>3, <2>4, <2>5
  <1> HIDE DEF o
  <1>5. \A f \in Sets : Even(cmatrices_parts(o[f]))
    <2>1. \A f \in Sets : \A i \in DOMAIN o[f].at : Balanced(o[f].at[i], cmatrix_destroy(o[f].at[i]))
      BY <1>4, OperatorsBalance
    <2> QED
      BY <2>1 DEF cmatrices_parts, EachPart, Even
  <1> HIDE DEF Sets
  <1>6. Even(UNION {cmatrices_parts(o[f]) : f \in Sets})
    BY <1>5 DEF Even
  <1>7. Even({<<o, steer2demixing_gss_destroy(o)>>, <<o.X, cmatrix_destroy(o.X)>>,
              <<o.XH, cmatrix_destroy(o.XH)>>})
    <2>1. Balanced(o.X, cmatrix_destroy(o.X)) /\ Balanced(o.XH, cmatrix_destroy(o.XH))
      BY <1>3, OperatorsBalance
    <2> QED
      BY <1>1, <2>1 DEF Even
  <1> QED
    BY <1>6, <1>7, EvenBoth DEF steer2demixing_gss_parts, Sets, o

\* The objects of the two methods of post-filtering.
LEMMA SpeechFilterEven ==
  ASSUME NEW config, NEW n, NEW half
  PROVE  LET g == pf_ms_obj(config, n, half) IN Even(pf_ms_parts(g)) /\ Count(g) = 1
  <1> DEFINE g == pf_ms_obj(config, n, half)
             Estimators == {"env2env_mcra", "env2env_interf", "env2env_gainspeech", "env2env_probspeech"}
  <1>1. /\ g.env2env_mcra = env2env_mcra_obj(n, half, config.bSize)
        /\ g.env2env_interf = env2env_interf_obj(n, half)
        /\ g.env2env_gainspeech = env2env_gainspeech_obj(n, half)
        /\ g.env2env_probspeech = env2env_probspeech_obj(n, half, config.probWinSize)
    BY DEF pf_ms_obj, ++
  <1>2. /\ ms_ops \cap (ms_envs \cup Estimators) = {} /\ ms_envs \cap Estimators = {}
        /\ "rows" \notin ms_ops \cup ms_envs /\ "null" \notin ms_ops \cup ms_envs
    BY DEF ms_ops, ms_envs
  <1>3. DOMAIN g = Estimators \cup ms_ops \cup ms_envs
    BY DEF pf_ms_obj, ++
  <1>4. \A f \in ms_ops : g[f] = Struct
    BY <1>2 DEF pf_ms_obj, ++
  <1>5. \A f \in ms_envs : g[f] = envs_obj(n, half)
    BY <1>2 DEF pf_ms_obj, ++
  <1> HIDE DEF g
  <1>6. Count(g) = 1
    BY <1>2, <1>3, Counts
  <1>7. \A f \in Estimators : Count(g[f]) = 1
    <2>1. Count(env2env_mcra_obj(n, half, config.bSize)) = 1
      BY Counts DEF env2env_mcra_obj, ++, Each, EnvRows
    <2>2. Count(env2env_interf_obj(n, half)) = 1
      BY Counts DEF env2env_interf_obj, ++, Each
    <2>3. Count(env2env_gainspeech_obj(n, half)) = 1
      BY Counts DEF env2env_gainspeech_obj, ++, Each, GainRows
    <2>4. Count(env2env_probspeech_obj(n, half, config.probWinSize)) = 1
      <3> DEFINE o == env2env_probspeech_obj(n, half, config.probWinSize)
      <3>1. DOMAIN o = {"nChannels", "halfFrameSize", "frameSize", "fft"} \cup ProbWindows
                         \cup ProbShifted \cup ProbSpectra \cup ProbTimes \cup ProbFreqs \cup ProbRows
        BY DEF ++, Each, env2env_probspeech_obj
      <3>2. "rows" \notin DOMAIN o /\ "null" \notin DOMAIN o
        BY <3>1 DEF ProbWindows, ProbShifted, ProbSpectra, ProbTimes, ProbFreqs, ProbRows
      <3> HIDE DEF o
      <3>3. Count(o) = 1
        BY <3>2, Counts
      <3> QED
        BY <3>3 DEF o
    <2> QED
      BY <1>1, <2>1, <2>2, <2>3, <2>4
  <1>8. \A f \in ms_envs : Count(g[f]) = 1
    <2>1. Count(envs_obj(n, half)) = 1
      BY Counts DEF envs_obj
    <2> QED
      BY <1>5, <2>1
  <1>9. Balanced(g, pf_ms_destroy)
    BY <1>2, <1>3, <1>4, <1>7, <1>8, BalancedIf, Counts DEF pf_ms_destroy, Once
  <1>10. /\ Balanced(g.env2env_mcra, env2env_mcra_destroy(g.env2env_mcra))
         /\ Balanced(g.env2env_interf, env2env_interf_destroy(g.env2env_interf))
         /\ Balanced(g.env2env_gainspeech, env2env_gainspeech_destroy(g.env2env_gainspeech))
         /\ Balanced(g.env2env_probspeech, env2env_probspeech_destroy(g.env2env_probspeech))
    BY <1>1, JoinedBalance, ProbSpeechBalances
  <1>11. Even({<<g, pf_ms_destroy>>, <<g.env2env_mcra, env2env_mcra_destroy(g.env2env_mcra)>>,
               <<g.env2env_interf, env2env_interf_destroy(g.env2env_interf)>>,
               <<g.env2env_gainspeech, env2env_gainspeech_destroy(g.env2env_gainspeech)>>,
               <<g.env2env_probspeech, env2env_probspeech_destroy(g.env2env_probspeech)>>})
    BY <1>9, <1>10 DEF Even
  <1>12. Even(ArrayPart(g.env2env_gainspeech.transcendental))
    <2>1. g.env2env_gainspeech.transcendental = transcendental_obj(5001)
      BY <1>1 DEF env2env_gainspeech_obj, ++
    <2> QED
      BY <2>1, ArraysBalance
  <1>13. Even(fft_parts(g.env2env_probspeech.fft))
    <2>1. g.env2env_probspeech.fft = fft_obj((half - 1) * 2)
      BY <1>1 DEF env2env_probspeech_obj, ++
    <2> QED
      BY <2>1, PartsAreEven
  <1>14. Even(UNION {envs_parts(g[f]) : f \in ms_envs})
    <2>1. \A f \in ms_envs : Even(envs_parts(g[f]))
      BY <1>5, PartsAreEven
    <2> QED
      BY <2>1 DEF Even
  <1>15. Even(pf_ms_parts(g))
    BY <1>11, <1>12, <1>13, <1>14, EvenBoth DEF pf_ms_parts
  <1> QED
    BY <1>6, <1>15 DEF g

LEMMA RatioFilterEven ==
  ASSUME NEW n, NEW m, NEW half
  PROVE  LET g == pf_ss_obj(n, m, half) IN Even(pf_ss_parts(g)) /\ Count(g) = 1
  <1> DEFINE g == pf_ss_obj(n, m, half)
  <1>1. DOMAIN g = ss_ops \cup ss_envs
    BY DEF pf_ss_obj, ++, ss_ops, ss_envs
  <1>2. /\ ss_ops \cap ss_envs = {} /\ "env_channels" \notin ss_ops
        /\ "rows" \notin ss_ops \cup ss_envs /\ "null" \notin ss_ops \cup ss_envs
    BY DEF ss_ops, ss_envs
  <1>3. \A f \in ss_ops : g[f] = Struct
    BY <1>2 DEF pf_ss_obj, ++
  <1>4. \A f \in ss_envs : g[f] = envs_obj(IF f = "env_channels" THEN m ELSE n, half)
    BY <1>2 DEF pf_ss_obj, ++
  <1> HIDE DEF g
  <1>5. Count(g) = 1
    BY <1>1, <1>2, Counts
  <1>6. \A f \in ss_envs : Count(g[f]) = 1 /\ Even(envs_parts(g[f]))
    <2>1. \A i : Count(envs_obj(i, half)) = 1
      BY Counts DEF envs_obj
    <2> QED
      BY <1>4, <2>1, PartsAreEven
  <1>7. Balanced(g, pf_ss_destroy)
    BY <1>1, <1>2, <1>3, <1>6, BalancedIf, Counts DEF pf_ss_destroy, Once
  <1>8. Even(UNION {envs_parts(g[f]) : f \in ss_envs})
    BY <1>6 DEF Even
  <1>9. Even(pf_ss_parts(g))
    BY <1>7, <1>8, OneBalances DEF pf_ss_parts
  <1> QED
    BY <1>5, <1>9 DEF g

\* Of the two methods of each stage only the chosen one is built and freed.
LEMMA SssEven ==
  ASSUME NEW config, config.mode_sep \in {"d", "g"}, config.mode_pf \in {"m", "s"}, NEW tracks, NEW spectra
  PROVE  LET o == mod_sss_obj(config, tracks, spectra)
         IN Even({<<o, mod_sss_destroy(o)>>} \cup mod_sss_parts(o))
  <1> DEFINE o == mod_sss_obj(config, tracks, spectra)
             Sep == IF config.mode_sep = "d" THEN {"sep_ds"} ELSE {"sep_gss"}
             Post == IF config.mode_pf = "m" THEN {"pf_ms"} ELSE {"pf_ss"}
  <1>1. PICK n, m, half :
          /\ o.sep_ds = IF config.mode_sep = "d"
                        THEN SepGroup(config, n, m, half, steer2demixing_ds_obj(n, m, half)) ELSE null
          /\ o.sep_gss = IF config.mode_sep = "g"
                         THEN SepGroup(config, n, m, half, steer2demixing_gss_obj(n, m, half)) ELSE null
          /\ o.sep_demixings = demixings_obj(half, n, m) /\ o.sep_masks = masks_obj(n, m)
          /\ o.pf_ms = IF config.mode_pf = "m" THEN pf_ms_obj(config, n, half) ELSE null
          /\ o.pf_ss = IF config.mode_pf = "s" THEN pf_ss_obj(n, m, half) ELSE null
    BY DEF mod_sss_obj
  <1>2. /\ DOMAIN o = {"nSeps", "nChannels", "halfFrameSize", "mode_sep", "mode_pf", "sep_ds", "sep_gss",
                       "sep_demixings", "sep_masks", "pf_ms", "pf_ss"}
        /\ o.mode_sep = config.mode_sep /\ o.mode_pf = config.mode_pf
    BY DEF mod_sss_obj
  <1> HIDE DEF o
  <1>3. /\ Even(SepGroup_parts(SepGroup(config, n, m, half, steer2demixing_ds_obj(n, m, half))))
        /\ Count(SepGroup(config, n, m, half, steer2demixing_ds_obj(n, m, half))) = 1
        /\ SepGroup(config, n, m, half, steer2demixing_ds_obj(n, m, half)).steer2demixing
             = steer2demixing_ds_obj(n, m, half)
    <2>1. Count(steer2demixing_ds_obj(n, m, half)) = 1
      BY Counts DEF steer2demixing_ds_obj
    <2> QED
      BY <2>1, SepGroupEven
  <1>4. /\ Even(SepGroup_parts(SepGroup(config, n, m, half, steer2demixing_gss_obj(n, m, half))))
        /\ Count(SepGroup(config, n, m, half, steer2demixing_gss_obj(n, m, half))) = 1
        /\ SepGroup(config, n, m, half, steer2demixing_gss_obj(n, m, half)).steer2demixing
             = steer2demixing_gss_obj(n, m, half)
    <2> DEFINE s == steer2demixing_gss_obj(n, m, half)
    <2>1. DOMAIN s = {"nSeps", "nChannels", "halfFrameSize", "X", "XH", "YH", "A"} \cup GssColumns
                       \cup GssSquares \cup GssByChannels
      BY DEF ++, steer2demixing_gss_obj
    <2>2. "rows" \notin DOMAIN s /\ "null" \notin DOMAIN s
      BY <2>1 DEF GssColumns, GssSquares, GssByChannels
    <2> HIDE DEF s
    <2>3. Count(s) = 1
      BY <2>2, Counts
    <2> QED
      BY <2>3, SepGroupEven DEF s
  <1>5. /\ Even(pf_ms_parts(pf_ms_obj(config, n, half))) /\ Count(pf_ms_obj(config, n, half)) = 1
        /\ Even(pf_ss_parts(pf_ss_obj(n, m, half))) /\ Count(pf_ss_obj(n, m, half)) = 1
    BY SpeechFilterEven, RatioFilterEven
  <1>6. Count(o.sep_ds) = (IF config.mode_sep = "d" THEN 1 ELSE 0)
        /\ Count(o.sep_gss) = (IF config.mode_sep = "g" THEN 1 ELSE 0)
    BY <1>1, <1>3, <1>4, Counts
  <1>7. Count(o.pf_ms) = (IF config.mode_pf = "m" THEN 1 ELSE 0)
        /\ Count(o.pf_ss) = (IF config.mode_pf = "s" THEN 1 ELSE 0)
    BY <1>1, <1>5, Counts
  <1>8. Count(o.sep_demixings) = 1 /\ Count(o.sep_masks) = 1
    BY <1>1, Counts DEF demixings_obj, masks_obj
  <1>9. Balanced(o, mod_sss_destroy(o))
    <2> DEFINE d == mod_sss_destroy(o)
    <2>1. /\ DOMAIN d = {"sep_demixings", "sep_masks"} \cup Sep \cup Post
          /\ \A f \in DOMAIN d : d[f] = 1
      BY <1>2 DEF mod_sss_destroy, Once
    <2> HIDE DEF d
    <2>2. DOMAIN d \subseteq DOMAIN o
      BY <1>2, <2>1
    <2>3. \A f \in DOMAIN o : \/ f \in CountFields /\ f \notin DOMAIN d
                              \/ Count(o[f]) = IF f \in DOMAIN d THEN d[f] ELSE 0
      BY <1>2, <1>6, <1>7, <1>8, <2>1, Numbers
    <2>4. Balanced(o, d)
      BY <2>2, <2>3, BalancedIf
    <2> QED
      BY <2>4 DEF d
  <1>10. Even(IF o.mode_sep = "d"
              THEN SepGroup_parts(o.sep_ds)
                   \cup {<<o.sep_ds.steer2demixing, steer2demixing_ds_destroy(o.sep_ds.steer2demixing)>>}
              ELSE SepGroup_parts(o.sep_gss) \cup steer2demixing_gss_parts(o.sep_gss.steer2demixing))
    <2>1. CASE config.mode_sep = "d"
      <3>1. Even({<<o.sep_ds.steer2demixing, steer2demixing_ds_destroy(o.sep_ds.steer2demixing)>>})
        BY <1>1, <1>3, <2>1, OperatorsBalance, EvenPair
      <3> QED
        BY <1>1, <1>2, <1>3, <2>1, <3>1, EvenBoth
    <2>2. CASE config.mode_sep = "g"
      <3>1. Even(steer2demixing_gss_parts(o.sep_gss.steer2demixing))
        BY <1>1, <1>4, <2>2, GssEven
      <3> QED
        BY <1>1, <1>2, <1>4, <2>2, <3>1, EvenBoth
    <2> QED
      BY <2>1, <2>2
  <1>11. Even(IF o.mode_pf = "m" THEN pf_ms_parts(o.pf_ms) ELSE pf_ss_parts(o.pf_ss))
    BY <1>1, <1>2, <1>5
  <1>12. Even({<<o.sep_demixings, demixings_destroy(o.sep_demixings)>>}) /\ Even(ArrayPart(o.sep_masks))
    BY <1>1, ContainersBalance, ArraysBalance, EvenPair
  <1>13. Even(mod_sss_parts(o))
    BY <1>10, <1>11, <1>12, EvenBoth DEF mod_sss_parts
  <1> QED
    BY <1>9, <1>13, OneBalances DEF o

\* The source and the sinks, the volume and the injector.
LEMMA EndpointsEven ==
  /\ \A e, msg : Even({<<src_hops_obj(e, msg), src_hops_destroy>>})
  /\ \A msg : Even({<<snk_hops_obj(msg), snk_destroy>>})
  /\ Even({<<snk_text_obj, snk_destroy>>})
  /\ \A n : Even(inj_targets_parts(inj_targets_obj(n)))
  <1>1. ASSUME NEW e, NEW msg
        PROVE  Even({<<src_hops_obj(e, msg), src_hops_destroy>>})
    <2>1. Balanced(src_hops_obj(e, msg), src_hops_destroy)
      BY BalancedIf, Counts, Numbers DEF src_hops_obj, src_hops_destroy, Once
    <2> QED
      BY <2>1, EvenPair
  <1>2. ASSUME NEW msg
        PROVE  Even({<<snk_hops_obj(msg), snk_destroy>>})
    <2>1. Balanced(snk_hops_obj(msg), snk_destroy)
      BY BalancedIf, Counts, Numbers DEF snk_hops_obj, snk_destroy, Once
    <2> QED
      BY <2>1, EvenPair
  <1>3. Even({<<snk_text_obj, snk_destroy>>})
    <2>1. Balanced(snk_text_obj, snk_destroy)
      BY BalancedIf, Counts, Numbers DEF snk_text_obj, snk_destroy, Once
    <2> QED
      BY <2>1, EvenPair
  <1>4. ASSUME NEW n
        PROVE  Even(inj_targets_parts(inj_targets_obj(n)))
    <2> DEFINE o == inj_targets_obj(n)
    <2>1. o.targets = targets_obj(n) /\ DOMAIN o = {"targets"}
      BY DEF inj_targets_obj
    <2> HIDE DEF o
    <2>2. Count(o.targets) = 1
      BY <2>1, Counts DEF targets_obj
    <2>3. Balanced(o, inj_targets_destroy(o))
      BY <2>1, <2>2, BalancedIf DEF inj_targets_destroy, Once
    <2>4. Balanced(o.targets, targets_destroy(o.targets))
      BY <2>1, ContainersBalance
    <2>5. Even(inj_targets_parts(o))
      BY <2>3, <2>4 DEF inj_targets_parts, Even
    <2> QED
      BY <2>5 DEF o
  <1> QED
    BY <1>1, <1>2, <1>3, <1>4

LEMMA VolumeLeaks ==
  \A hops : Leaks({<<mod_volume_obj(hops), mod_volume_destroy(mod_volume_obj(hops))>>})
               \subseteq {"hop2hop_gain"}
  BY DEF Leaks, Unbalanced, mod_volume_obj, mod_volume_destroy, Once

LEMMA PcmLeaks ==
  \A e, msg : Unbalanced(src_pcm_obj(e, msg), src_pcm_destory(TRUE)) \subseteq {"rb", "buffer"}
  BY DEF Unbalanced, src_pcm_obj, src_pcm_destory, Once

\* A message of each kind.
LEMMA MessagesEven ==
  ASSUME NEW config
  PROVE  /\ Even(msg_hops_parts(msg_hops_obj(config)))
         /\ Even(msg_spectra_parts(msg_spectra_obj(config)))
         /\ Even(msg_powers_parts(msg_powers_obj(config)))
         /\ Even(msg_pots_parts(msg_pots_obj(config)))
         /\ Even(msg_targets_parts(msg_targets_obj(config)))
         /\ Even(msg_tracks_parts(msg_tracks_obj(config)))
         /\ Even(msg_categories_parts(msg_categories_obj(config)))
  <1>1. ASSUME NEW data, Count(data) = 1, NEW frees, Balanced(data, frees)
        PROVE  Even({<<Message(data), Message_destroy>>, <<data, frees>>})
    <2>1. Balanced(Message(data), Message_destroy)
      BY <1>1, BalancedIf DEF Message, Message_destroy, Once
    <2> QED
      BY <1>1, <2>1 DEF Even
  <1>2. \A data : Message(data).data = data
    BY DEF Message
  <1>3. /\ \A n, m : /\ Count(hops_obj(n, m)) = 1 /\ Count(freqs_obj(n, m)) = 1
                     /\ Count(envs_obj(n, m)) = 1
        /\ \A n : /\ Count(pots_obj(n)) = 1 /\ Count(targets_obj(n)) = 1
                  /\ Count(tracks_obj(n)) = 1 /\ Count(categories_obj(n)) = 1
    BY Counts DEF hops_obj, freqs_obj, envs_obj, pots_obj, targets_obj, tracks_obj, categories_obj
  <1>4. \A n : /\ Balanced(pots_obj(n), Array_destroy(pots_obj(n)))
               /\ Balanced(categories_obj(n), Array_destroy(categories_obj(n)))
    BY ArraysBalance DEF ArrayPart, Even
  <1>5. Even(msg_hops_parts(msg_hops_obj(config)))
    BY <1>1, <1>2, <1>3, ContainersBalance DEF msg_hops_parts, msg_hops_obj
  <1>6. Even(msg_spectra_parts(msg_spectra_obj(config)))
    BY <1>1, <1>2, <1>3, ContainersBalance DEF msg_spectra_parts, msg_spectra_obj
  <1>7. Even(msg_powers_parts(msg_powers_obj(config)))
    BY <1>1, <1>2, <1>3, ContainersBalance DEF msg_powers_parts, msg_powers_obj
  <1>8. Even(msg_pots_parts(msg_pots_obj(config)))
    BY <1>1, <1>2, <1>3, <1>4 DEF msg_pots_parts, msg_pots_obj
  <1>9. Even(msg_targets_parts(msg_targets_obj(config)))
    BY <1>1, <1>2, <1>3, ContainersBalance DEF msg_targets_parts, msg_targets_obj
  <1>10. Even(msg_tracks_parts(msg_tracks_obj(config)))
    BY <1>1, <1>2, <1>3, ContainersBalance DEF msg_tracks_parts, msg_tracks_obj
  <1>11. Even(msg_categories_parts(msg_categories_obj(config)))
    BY <1>1, <1>2, <1>3, <1>4 DEF msg_categories_parts, msg_categories_obj
  <1> QED
    BY <1>5, <1>6, <1>7, <1>8, <1>9, <1>10, <1>11

\* A connector and, with threads, its pools own copies of one message.
LEMMA ConnectorEven ==
  ASSUME NEW nOuts, NEW message, Count(message) = 1
  PROVE  LET o == Connector(nOuts, message)
         IN Even({<<o, Connector_destroy(o)>>}) /\ Connector_messages(o) = {message}
  <1> DEFINE o == Connector(nOuts, message)
  <1>1. /\ DOMAIN o = {"nOuts", "in", "outs"} /\ o.in = message /\ o.nOuts = nOuts
        /\ o.outs = Many(nOuts, LAMBDA i : message)
    BY DEF Connector
  <1> HIDE DEF o
  <1>2. Count(o.outs) = nOuts
    BY <1>1, Counts DEF Many
  <1>3. Balanced(o, Connector_destroy(o))
    BY <1>1, <1>2, BalancedIf, Numbers DEF Connector_destroy
  <1>4. Connector_messages(o) = {message}
    BY <1>1 DEF Connector_messages, Many
  <1> QED
    BY <1>3, <1>4, EvenPair DEF o

LEMMA PoolEven ==
  ASSUME NEW n, NEW message
  PROVE  LET o == Pool(n, message)
         IN Even(Pool_parts(o)) /\ Pool_messages(o) \subseteq {message} /\ Count(o) = 1
  <1> DEFINE o == Pool(n, message)
  <1>1. /\ DOMAIN o = {"nMessages", "filled", "empty", "messages"} /\ o.nMessages = n
        /\ o.filled = fifo_obj(n) /\ o.empty = fifo_obj(n)
        /\ o.messages = Many(n, LAMBDA i : message)
    BY DEF Pool
  <1> HIDE DEF o
  <1>2. Count(o.messages) = n /\ Count(o.filled) = 1 /\ Count(o.empty) = 1
    BY <1>1, Counts DEF Many, fifo_obj
  <1>3. Balanced(o, Pool_destroy(o))
    BY <1>1, <1>2, BalancedIf, Numbers DEF Pool_destroy, ++, Once
  <1>4. Even(Pool_parts(o))
    BY <1>1, <1>3, ArraysBalance, OneBalances, EvenPair, EvenBoth DEF Pool_parts
  <1>5. Pool_messages(o) \subseteq {message}
    BY <1>1 DEF Pool_messages, Many
  <1>6. Count(o) = 1
    BY <1>1, Counts
  <1> QED
    BY <1>4, <1>5, <1>6 DEF o

LEMMA AConnectorEven ==
  ASSUME NEW nOuts, NEW n, NEW message
  PROVE  LET o == AConnector(nOuts, n, message)
         IN Even(AConnector_parts(o)) /\ AConnector_messages(o) \subseteq {message}
  <1> DEFINE o == AConnector(nOuts, n, message)
             p == Pool(n, message)
  <1>1. /\ DOMAIN o = {"in", "outs", "con", "thread"} /\ o.in = p
        /\ o.outs = Many(nOuts, LAMBDA i : p)
        /\ o.con = Connector(nOuts, message) /\ o.thread = Struct
    BY DEF AConnector
  <1>2. Even(Pool_parts(p)) /\ Pool_messages(p) \subseteq {message} /\ Count(p) = 1
    BY PoolEven
  <1> HIDE DEF o, p
  <1>3. Count(o.outs) = nOuts /\ o.con.nOuts = nOuts /\ Count(o.con) = 1 /\ Count(o.thread) = 1
    BY <1>1, Counts DEF Many, Connector
  <1>4. Balanced(o, AConnector_destroy(o))
    BY <1>1, <1>2, <1>3, BalancedIf DEF AConnector_destroy, ++, Once
  <1>5. AConnector_pools(o) = {p}
    BY <1>1 DEF AConnector_pools, Many
  <1>6. UNION {Pool_parts(q) : q \in AConnector_pools(o)} = Pool_parts(p)
    BY <1>5
  <1>7. Even(AConnector_parts(o))
    BY <1>2, <1>4, <1>6, OneBalances DEF AConnector_parts
  <1>8. AConnector_messages(o) \subseteq {message}
    BY <1>2, <1>5 DEF AConnector_messages
  <1> QED
    BY <1>7, <1>8 DEF o

LEMMA ThreadedEven ==
  ASSUME NEW o, Count(o) = 1
  PROVE  Even(Threaded_parts(Threaded(o)))
  <1>1. Balanced(Threaded(o), Threaded_destroy)
    BY BalancedIf, Counts DEF Threaded, Threaded_destroy, Once
  <1> QED
    BY <1>1, EvenPair DEF Threaded_parts

LEMMA ModulesCount ==
  /\ \A config, in1, in2 : /\ Count(mod_ssl_obj(config, in1, in2)) = 1
                           /\ Count(mod_sss_obj(config, in1, in2)) = 1
                           /\ Count(mod_noise_obj(config, in1, in2)) = 1
                           /\ Count(mod_classify_obj(config, in1, in2)) = 1
                           /\ Count(mod_resample_obj(config, in1, in2)) = 1
  /\ \A in1, in2 : /\ Count(mod_mapping_obj(in1, in2)) = 1 /\ Count(mod_stft_obj(in1, in2)) = 1
                   /\ Count(mod_istft_obj(in1, in2)) = 1 /\ Count(src_hops_obj(in1, in2)) = 1
  /\ \A in1 : Count(mod_volume_obj(in1)) = 1 /\ Count(snk_hops_obj(in1)) = 1 /\ Count(inj_targets_obj(in1)) = 1
  /\ Count(snk_text_obj) = 1
  /\ \A config, pots, targets, tracks : Count(mod_sst_obj(config, pots, targets, tracks)) = 1
  <1>1. \A config, in1, in2 : /\ Count(mod_ssl_obj(config, in1, in2)) = 1
                              /\ Count(mod_sss_obj(config, in1, in2)) = 1
    BY Counts DEF mod_ssl_obj, mod_sss_obj
  <1>2. \A config, in1, in2 : /\ Count(mod_noise_obj(config, in1, in2)) = 1
                              /\ Count(mod_classify_obj(config, in1, in2)) = 1
    BY Counts DEF mod_noise_obj, mod_classify_obj
  <1>3. ASSUME NEW config, NEW in1, NEW in2
        PROVE  Count(mod_resample_obj(config, in1, in2)) = 1
    <2> DEFINE o == mod_resample_obj(config, in1, in2)
    <2>1. DOMAIN o = {"type", "frameSize", "lowPassCut", "hop2hop"} \cup Filtering
      BY DEF mod_resample_obj, ++, Filtering
    <2>2. "rows" \notin DOMAIN o /\ "null" \notin DOMAIN o
      BY <2>1 DEF Filtering
    <2> HIDE DEF o
    <2>3. Count(o) = 1
      BY <2>2, Counts
    <2> QED
      BY <2>3 DEF o
  <1>4. \A in1, in2 : /\ Count(mod_mapping_obj(in1, in2)) = 1 /\ Count(mod_stft_obj(in1, in2)) = 1
                      /\ Count(mod_istft_obj(in1, in2)) = 1 /\ Count(src_hops_obj(in1, in2)) = 1
    BY Counts DEF mod_mapping_obj, mod_stft_obj, mod_istft_obj, src_hops_obj
  <1>5. \A in1 : /\ Count(mod_volume_obj(in1)) = 1 /\ Count(snk_hops_obj(in1)) = 1
                 /\ Count(inj_targets_obj(in1)) = 1
    BY Counts DEF mod_volume_obj, snk_hops_obj, inj_targets_obj
  <1>6. Count(snk_text_obj) = 1
    BY Counts DEF snk_text_obj
  <1>7. ASSUME NEW config, NEW pots, NEW targets, NEW tracks
        PROVE  Count(mod_sst_obj(config, pots, targets, tracks)) = 1
    <2> DEFINE o == mod_sst_obj(config, pots, targets, tracks)
    <2>1. DOMAIN o = SstFixed \cup PerSlot \cup Filters
      <3>1. \A f : f \in DOMAIN o <=> f \in SstFixed \cup PerSlot \cup Filters
        BY SstFields
      <3> HIDE DEF o
      <3> QED
        BY <3>1
    <2>2. "rows" \notin DOMAIN o /\ "null" \notin DOMAIN o
      BY <2>1
      DEF SstFixed, PerSlot, Filters, kalman2kalmans, kalman2coherences, particle2particles,
          particle2coherences
    <2> HIDE DEF o
    <2>3. Count(o) = 1
      BY <2>2, Counts
    <2> QED
      BY <2>3 DEF o
  <1> QED
    BY <1>1, <1>2, <1>3, <1>4, <1>5, <1>6, <1>7

\* No connector has the name of another object.
LEMMA ConnectorNames ==
  \A name \in DOMAIN Connectors :
     name \notin {"src_hops_mics", "mod_mapping_mics", "mod_resample_mics", "mod_resample_seps",
                 "mod_resample_pfs", "mod_stft_mics", "mod_noise_mics", "mod_ssl", "inj_targets_sst",
                 "mod_sst", "mod_sss", "mod_istft_seps", "mod_istft_pfs", "mod_volume_seps",
                 "mod_volume_pfs", "mod_classify", "snk_hops_seps_vol", "snk_hops_pfs_vol",
                 "snk_pots_ssl", "snk_tracks_sst", "snk_categories"}
  BY DEF Connectors

\* Each connector, in one thread and with threads.
LEMMA ConnectorsEven ==
  ASSUME NEW name \in DOMAIN Connectors, NEW cfg, NEW n
  PROVE  /\ Even(Parts(name, Built(name, cfg)))
         /\ Even(AsyncParts(name, Built(name, cfg), cfg, n))
  <1> DEFINE nOuts == Connectors[name][2]
             config == MessageConfig(name, cfg)
  <1>1. ASSUME NEW message, Count(message) = 1, Even(MessageParts(name, message)),
               ConnectorOf(name, cfg) = Connector(nOuts, message),
               AConnectorOf(name, cfg, n) = AConnector(nOuts, n, message)
        PROVE  /\ Even(Parts(name, Built(name, cfg)))
               /\ Even(AsyncParts(name, Built(name, cfg), cfg, n))
    <2> DEFINE o == Connector(nOuts, message)
               a == AConnector(nOuts, n, message)
    <2>1. Built(name, cfg) = o
      BY <1>1, ConnectorNames DEF Built, Resamplers
    <2>2. Even({<<o, Connector_destroy(o)>>}) /\ Connector_messages(o) = {message}
      BY <1>1, ConnectorEven
    <2>3. Even(AConnector_parts(a)) /\ AConnector_messages(a) \subseteq {message}
      BY AConnectorEven
    <2> HIDE DEF o, a
    <2>4. Even(UNION {MessageParts(name, m) : m \in Connector_messages(o)})
      BY <1>1, <2>2 DEF Even
    <2>5. Even(Parts(name, o))
      <3>1. Parts(name, o)
              = {<<o, Connector_destroy(o)>>} \cup UNION {MessageParts(name, m) : m \in Connector_messages(o)}
        BY ConnectorNames DEF Parts, Resamplers, Sinks
      <3> QED
        BY <2>2, <2>4, <3>1, EvenBoth
    <2>6. Even(UNION {MessageParts(name, m) : m \in AConnector_messages(a)})
      BY <1>1, <2>3 DEF Even
    <2>7. AsyncParts(name, o, cfg, n)
            = AConnector_parts(a) \cup UNION {MessageParts(name, m) : m \in AConnector_messages(a)}
      BY <1>1 DEF AsyncParts, a
    <2> QED
      BY <2>1, <2>3, <2>5, <2>6, <2>7, EvenBoth
  <1>2. \A data : Count(Message(data)) = 1
    BY Counts DEF Message
  <1>3. CASE Kind(name) = "hops"
    <2>1. Count(msg_hops_obj(config)) = 1 /\ Even(MessageParts(name, msg_hops_obj(config)))
      BY <1>2, <1>3, MessagesEven DEF msg_hops_obj, MessageParts
    <2> QED
      BY <1>1, <1>3, <2>1 DEF ConnectorOf, AConnectorOf, con_hops_obj, acon_hops_obj
  <1>4. CASE Kind(name) = "spectra"
    <2>1. Count(msg_spectra_obj(config)) = 1 /\ Even(MessageParts(name, msg_spectra_obj(config)))
      BY <1>2, <1>4, MessagesEven DEF msg_spectra_obj, MessageParts
    <2> QED
      BY <1>1, <1>4, <2>1 DEF ConnectorOf, AConnectorOf, con_spectra_obj, acon_spectra_obj
  <1>5. CASE Kind(name) = "powers"
    <2>1. Count(msg_powers_obj(config)) = 1 /\ Even(MessageParts(name, msg_powers_obj(config)))
      BY <1>2, <1>5, MessagesEven DEF msg_powers_obj, MessageParts
    <2> QED
      BY <1>1, <1>5, <2>1 DEF ConnectorOf, AConnectorOf, con_powers_obj, acon_powers_obj
  <1>6. CASE Kind(name) = "pots"
    <2>1. Count(msg_pots_obj(config)) = 1 /\ Even(MessageParts(name, msg_pots_obj(config)))
      BY <1>2, <1>6, MessagesEven DEF msg_pots_obj, MessageParts
    <2> QED
      BY <1>1, <1>6, <2>1 DEF ConnectorOf, AConnectorOf, con_pots_obj, acon_pots_obj
  <1>7. CASE Kind(name) = "targets"
    <2>1. Count(msg_targets_obj(config)) = 1 /\ Even(MessageParts(name, msg_targets_obj(config)))
      BY <1>2, <1>7, MessagesEven DEF msg_targets_obj, MessageParts
    <2> QED
      BY <1>1, <1>7, <2>1 DEF ConnectorOf, AConnectorOf, con_targets_obj, acon_targets_obj
  <1>8. CASE Kind(name) = "tracks"
    <2>1. Count(msg_tracks_obj(config)) = 1 /\ Even(MessageParts(name, msg_tracks_obj(config)))
      BY <1>2, <1>8, MessagesEven DEF msg_tracks_obj, MessageParts
    <2> QED
      BY <1>1, <1>8, <2>1 DEF ConnectorOf, AConnectorOf, con_tracks_obj, acon_tracks_obj
  <1>9. CASE Kind(name) = "categories"
    <2>1. Count(msg_categories_obj(config)) = 1 /\ Even(MessageParts(name, msg_categories_obj(config)))
      BY <1>2, <1>9, MessagesEven DEF msg_categories_obj, MessageParts
    <2> QED
      BY <1>1, <1>9, <2>1 DEF ConnectorOf, AConnectorOf, con_categories_obj, acon_categories_obj
  <1>10. Kind(name) \in {"hops", "spectra", "powers", "pots", "targets", "tracks", "categories"}
    BY DEF Kind, Connectors
  <1> QED
    BY <1>3, <1>4, <1>5, <1>6, <1>7, <1>8, <1>9, <1>10

\* The methods that the constructors of the tracker and of the separation are given.
LEMMA MethodsKnown ==
  ASSUME NEW cfg, configs_construct(cfg), ~ Refused("mod_sss", cfg)
  PROVE  /\ mod_sst_config(cfg).mode \in {"k", "p"}
         /\ mod_sss_config(cfg).mode_sep \in {"d", "g"} /\ mod_sss_config(cfg).mode_pf \in {"m", "s"}
  <1>1. mod_sst_config(cfg).mode \in {"k", "p"}
    BY DEF configs_construct, mod_sst_config
  <1>2. /\ mod_sss_config(cfg).mode_sep \in {"d", "g", "m"}
        /\ mod_sss_config(cfg).mode_pf \in {"m", "s"}
    <2>1. cfg.sss.mode_sep \in {"dds", "dgss", "dmvdr"} /\ cfg.sss.mode_pf \in {"ms", "ss"}
      BY DEF configs_construct, mod_sss_config
    <2> QED
      BY <2>1 DEF mod_sss_config
  <1>3. mod_sss_config(cfg).mode_sep # "m"
    BY DEF Refused
  <1> QED
    BY <1>1, <1>2, <1>3

\* Every other object: what its destructor forgets, and its thread.
LEMMA ObjectsBalance ==
  ASSUME NEW cfg, configs_construct(cfg), ~ Refused("mod_sss", cfg), NEW n, NEW name \in DOMAIN Links
  PROVE  /\ Leaks(Parts(name, Built(name, cfg)))
              \subseteq IF name \in {"mod_volume_seps", "mod_volume_pfs"} THEN {"hop2hop_gain"} ELSE {}
         /\ Even(AsyncParts(name, Built(name, cfg), cfg, n))
  <1> DEFINE Sound(x) == /\ Leaks(Parts(x, Built(x, cfg)))
                              \subseteq IF x \in {"mod_volume_seps", "mod_volume_pfs"} THEN {"hop2hop_gain"} ELSE {}
                         /\ Even(AsyncParts(x, Built(x, cfg), cfg, n))
  <1>1. ASSUME NEW x, NEW o, Built(x, cfg) = o, Count(o) = 1, x \notin DOMAIN Connectors,
               Even(Parts(x, o))
        PROVE  Sound(x)
    <2>1. Even(AsyncParts(x, o, cfg, n))
      BY <1>1, ThreadedEven DEF AsyncParts
    <2> QED
      BY <1>1, <2>1, EvenLeaks
  <1>2. Sound("mod_mapping_mics")
    <2> DEFINE o == mod_mapping_obj(links_obj(Len(cfg.map), cfg.map), Config(Out("mod_mapping_mics", 1), cfg))
    <2>1. Built("mod_mapping_mics", cfg) = o /\ "mod_mapping_mics" \notin DOMAIN Connectors
      BY DEF Built, Connectors, Resamplers, mod_mapping_mics_config
    <2>2. Even({<<o, mod_mapping_destroy(o)>>} \cup mod_mapping_parts(o))
      BY MappingEven
    <2>3. Count(o) = 1
      BY ModulesCount
    <2> HIDE DEF o
    <2>4. Even(Parts("mod_mapping_mics", o))
      BY <2>1, <2>2 DEF Parts, Resamplers, Sinks
    <2> QED
      BY <1>1, <2>1, <2>3, <2>4
  <1>3. Sound("mod_resample_mics")
    <2> DEFINE o == mod_resample_obj(ResampleConfig("mod_resample_mics", cfg), Config(In("mod_resample_mics", 1), cfg), Config(Out("mod_resample_mics", 1), cfg))
    <2>1. Built("mod_resample_mics", cfg) = o /\ "mod_resample_mics" \notin DOMAIN Connectors
      BY DEF Built, Connectors, Resamplers
    <2>2. Even({<<o, mod_resample_destroy(o)>>} \cup mod_resample_parts(o))
      BY ResampleEven
    <2>3. Count(o) = 1
      BY ModulesCount
    <2> HIDE DEF o
    <2>4. Even(Parts("mod_resample_mics", o))
      BY <2>1, <2>2 DEF Parts, Resamplers, Sinks
    <2> QED
      BY <1>1, <2>1, <2>3, <2>4
  <1>4. Sound("mod_resample_seps")
    <2> DEFINE o == mod_resample_obj(ResampleConfig("mod_resample_seps", cfg), Config(In("mod_resample_seps", 1), cfg), Config(Out("mod_resample_seps", 1), cfg))
    <2>1. Built("mod_resample_seps", cfg) = o /\ "mod_resample_seps" \notin DOMAIN Connectors
      BY DEF Built, Connectors, Resamplers
    <2>2. Even({<<o, mod_resample_destroy(o)>>} \cup mod_resample_parts(o))
      BY ResampleEven
    <2>3. Count(o) = 1
      BY ModulesCount
    <2> HIDE DEF o
    <2>4. Even(Parts("mod_resample_seps", o))
      BY <2>1, <2>2 DEF Parts, Resamplers, Sinks
    <2> QED
      BY <1>1, <2>1, <2>3, <2>4
  <1>5. Sound("mod_resample_pfs")
    <2> DEFINE o == mod_resample_obj(ResampleConfig("mod_resample_pfs", cfg), Config(In("mod_resample_pfs", 1), cfg), Config(Out("mod_resample_pfs", 1), cfg))
    <2>1. Built("mod_resample_pfs", cfg) = o /\ "mod_resample_pfs" \notin DOMAIN Connectors
      BY DEF Built, Connectors, Resamplers
    <2>2. Even({<<o, mod_resample_destroy(o)>>} \cup mod_resample_parts(o))
      BY ResampleEven
    <2>3. Count(o) = 1
      BY ModulesCount
    <2> HIDE DEF o
    <2>4. Even(Parts("mod_resample_pfs", o))
      BY <2>1, <2>2 DEF Parts, Resamplers, Sinks
    <2> QED
      BY <1>1, <2>1, <2>3, <2>4
  <1>6. Sound("mod_stft_mics")
    <2> DEFINE o == mod_stft_obj(Config(In("mod_stft_mics", 1), cfg), Config(Out("mod_stft_mics", 1), cfg))
    <2>1. Built("mod_stft_mics", cfg) = o /\ "mod_stft_mics" \notin DOMAIN Connectors
      BY DEF Built, Connectors, Resamplers
    <2>2. Even({<<o, mod_stft_destroy(o)>>} \cup mod_stft_parts(o))
      BY StftEven
    <2>3. Count(o) = 1
      BY ModulesCount
    <2> HIDE DEF o
    <2>4. Even(Parts("mod_stft_mics", o))
      BY <2>1, <2>2 DEF Parts, Resamplers, Sinks
    <2> QED
      BY <1>1, <2>1, <2>3, <2>4
  <1>7. Sound("mod_noise_mics")
    <2> DEFINE o == mod_noise_obj(mod_noise_mics_config(cfg), Config(In("mod_noise_mics", 1), cfg), Config(Out("mod_noise_mics", 1), cfg))
    <2>1. Built("mod_noise_mics", cfg) = o /\ "mod_noise_mics" \notin DOMAIN Connectors
      BY DEF Built, Connectors, Resamplers
    <2>2. Even({<<o, mod_noise_destroy(o)>>} \cup mod_noise_parts(o))
      BY NoiseEven
    <2>3. Count(o) = 1
      BY ModulesCount
    <2> HIDE DEF o
    <2>4. Even(Parts("mod_noise_mics", o))
      BY <2>1, <2>2 DEF Parts, Resamplers, Sinks
    <2> QED
      BY <1>1, <2>1, <2>3, <2>4
  <1>8. Sound("mod_ssl")
    <2> DEFINE o == mod_ssl_obj(mod_ssl_config(cfg), Config(In("mod_ssl", 1), cfg), Config(Out("mod_ssl", 1), cfg))
    <2>1. Built("mod_ssl", cfg) = o /\ "mod_ssl" \notin DOMAIN Connectors
      BY DEF Built, Connectors, Resamplers
    <2>2. Even({<<o, mod_ssl_destroy(o)>>} \cup mod_ssl_parts(o))
      BY SslEven
    <2>3. Count(o) = 1
      BY ModulesCount
    <2> HIDE DEF o
    <2>4. Even(Parts("mod_ssl", o))
      BY <2>1, <2>2 DEF Parts, Resamplers, Sinks
    <2> QED
      BY <1>1, <2>1, <2>3, <2>4
  <1>9. Sound("mod_sst")
    <2> DEFINE o == mod_sst_obj(mod_sst_config(cfg), Config(In("mod_sst", 1), cfg), Config(In("mod_sst", 2), cfg), Config(Out("mod_sst", 1), cfg))
    <2>1. Built("mod_sst", cfg) = o /\ "mod_sst" \notin DOMAIN Connectors
      BY DEF Built, Connectors, Resamplers
    <2>2. Even({<<o, mod_sst_destroy(o)>>} \cup mod_sst_parts(o))
      BY SstEven, MethodsKnown
    <2>3. Count(o) = 1
      BY ModulesCount
    <2> HIDE DEF o
    <2>4. Even(Parts("mod_sst", o))
      BY <2>1, <2>2 DEF Parts, Resamplers, Sinks
    <2> QED
      BY <1>1, <2>1, <2>3, <2>4
  <1>10. Sound("mod_sss")
    <2> DEFINE o == mod_sss_obj(mod_sss_config(cfg), Config(In("mod_sss", 3), cfg), Config(In("mod_sss", 1), cfg))
    <2>1. Built("mod_sss", cfg) = o /\ "mod_sss" \notin DOMAIN Connectors
      BY DEF Built, Connectors, Resamplers
    <2>2. Even({<<o, mod_sss_destroy(o)>>} \cup mod_sss_parts(o))
      BY SssEven, MethodsKnown
    <2>3. Count(o) = 1
      BY ModulesCount
    <2> HIDE DEF o
    <2>4. Even(Parts("mod_sss", o))
      BY <2>1, <2>2 DEF Parts, Resamplers, Sinks
    <2> QED
      BY <1>1, <2>1, <2>3, <2>4
  <1>11. Sound("mod_istft_seps")
    <2> DEFINE o == mod_istft_obj(Config(In("mod_istft_seps", 1), cfg), Config(Out("mod_istft_seps", 1), cfg))
    <2>1. Built("mod_istft_seps", cfg) = o /\ "mod_istft_seps" \notin DOMAIN Connectors
      BY DEF Built, Connectors, Resamplers
    <2>2. Even({<<o, mod_istft_destroy(o)>>} \cup mod_istft_parts(o))
      BY IstftEven
    <2>3. Count(o) = 1
      BY ModulesCount
    <2> HIDE DEF o
    <2>4. Even(Parts("mod_istft_seps", o))
      BY <2>1, <2>2 DEF Parts, Resamplers, Sinks
    <2> QED
      BY <1>1, <2>1, <2>3, <2>4
  <1>12. Sound("mod_istft_pfs")
    <2> DEFINE o == mod_istft_obj(Config(In("mod_istft_pfs", 1), cfg), Config(Out("mod_istft_pfs", 1), cfg))
    <2>1. Built("mod_istft_pfs", cfg) = o /\ "mod_istft_pfs" \notin DOMAIN Connectors
      BY DEF Built, Connectors, Resamplers
    <2>2. Even({<<o, mod_istft_destroy(o)>>} \cup mod_istft_parts(o))
      BY IstftEven
    <2>3. Count(o) = 1
      BY ModulesCount
    <2> HIDE DEF o
    <2>4. Even(Parts("mod_istft_pfs", o))
      BY <2>1, <2>2 DEF Parts, Resamplers, Sinks
    <2> QED
      BY <1>1, <2>1, <2>3, <2>4
  <1>13. Sound("mod_classify")
    <2> DEFINE o == mod_classify_obj(mod_classify_config(cfg), Config(In("mod_classify", 1), cfg), Config(In("mod_classify", 2), cfg))
    <2>1. Built("mod_classify", cfg) = o /\ "mod_classify" \notin DOMAIN Connectors
      BY DEF Built, Connectors, Resamplers
    <2>2. Even({<<o, mod_classify_destroy(o)>>} \cup mod_classify_parts(o))
      BY ClassifyEven
    <2>3. Count(o) = 1
      BY ModulesCount
    <2> HIDE DEF o
    <2>4. Even(Parts("mod_classify", o))
      BY <2>1, <2>2 DEF Parts, Resamplers, Sinks
    <2> QED
      BY <1>1, <2>1, <2>3, <2>4
  <1>14. Sound("src_hops_mics")
    <2> DEFINE o == src_hops_obj(src_hops_mics_config(cfg), Config(Out("src_hops_mics", 1), cfg))
    <2>1. Built("src_hops_mics", cfg) = o /\ "src_hops_mics" \notin DOMAIN Connectors
      BY DEF Built, Connectors, Resamplers
    <2>2. Even({<<o, src_hops_destroy>>})
      BY EndpointsEven
    <2>3. Count(o) = 1
      BY ModulesCount
    <2> HIDE DEF o
    <2>4. Even(Parts("src_hops_mics", o))
      BY <2>1, <2>2 DEF Parts, Resamplers, Sinks
    <2> QED
      BY <1>1, <2>1, <2>3, <2>4
  <1>15. Sound("snk_hops_seps_vol")
    <2> DEFINE o == snk_hops_obj(Config(In("snk_hops_seps_vol", 1), cfg))
    <2>1. Built("snk_hops_seps_vol", cfg) = o /\ "snk_hops_seps_vol" \notin DOMAIN Connectors
      BY DEF Built, Connectors, Resamplers
    <2>2. Even({<<o, snk_destroy>>})
      BY EndpointsEven
    <2>3. Count(o) = 1
      BY ModulesCount
    <2> HIDE DEF o
    <2>4. Even(Parts("snk_hops_seps_vol", o))
      BY <2>1, <2>2 DEF Parts, Resamplers, Sinks
    <2> QED
      BY <1>1, <2>1, <2>3, <2>4
  <1>16. Sound("snk_hops_pfs_vol")
    <2> DEFINE o == snk_hops_obj(Config(In("snk_hops_pfs_vol", 1), cfg))
    <2>1. Built("snk_hops_pfs_vol", cfg) = o /\ "snk_hops_pfs_vol" \notin DOMAIN Connectors
      BY DEF Built, Connectors, Resamplers
    <2>2. Even({<<o, snk_destroy>>})
      BY EndpointsEven
    <2>3. Count(o) = 1
      BY ModulesCount
    <2> HIDE DEF o
    <2>4. Even(Parts("snk_hops_pfs_vol", o))
      BY <2>1, <2>2 DEF Parts, Resamplers, Sinks
    <2> QED
      BY <1>1, <2>1, <2>3, <2>4
  <1>17. ASSUME NEW x \in {"snk_pots_ssl", "snk_tracks_sst", "snk_categories"}
        PROVE  Sound(x)
    <2>1. Built(x, cfg) = snk_text_obj /\ x \notin DOMAIN Connectors
      BY DEF Built, Connectors, Resamplers
    <2>2. Parts(x, snk_text_obj) = {<<snk_text_obj, snk_destroy>>}
      BY <2>1 DEF Parts, Resamplers, Sinks
    <2>3. Even(Parts(x, snk_text_obj)) /\ Count(snk_text_obj) = 1
      BY <2>2, EndpointsEven, ModulesCount
    <2> QED
      BY <1>1, <2>1, <2>3
  <1>18. Sound("inj_targets_sst")
    <2> DEFINE o == inj_targets_obj(cfg.sst.nTargets)
    <2>1. Built("inj_targets_sst", cfg) = o /\ "inj_targets_sst" \notin DOMAIN Connectors
      BY DEF Built, Connectors, Resamplers
    <2>2. Even(inj_targets_parts(o)) /\ Count(o) = 1
      BY EndpointsEven, ModulesCount
    <2> HIDE DEF o
    <2>3. Even(Parts("inj_targets_sst", o))
      BY <2>1, <2>2 DEF Parts, Resamplers, Sinks
    <2> QED
      BY <1>1, <2>1, <2>2, <2>3
  <1>19. ASSUME NEW x \in {"mod_volume_seps", "mod_volume_pfs"}
        PROVE  Sound(x)
    <2> DEFINE o == mod_volume_obj(Config(Out(x, 1), cfg))
    <2>1. Built(x, cfg) = o /\ x \notin DOMAIN Connectors
      BY DEF Built, Connectors, Resamplers
    <2>2. Parts(x, o) = {<<o, mod_volume_destroy(o)>>}
      BY <2>1 DEF Parts, Resamplers, Sinks
    <2>3. Leaks(Parts(x, o)) \subseteq {"hop2hop_gain"} /\ Count(o) = 1
      BY <2>2, VolumeLeaks, ModulesCount
    <2> HIDE DEF o
    <2>4. Even(AsyncParts(x, o, cfg, n))
      BY <2>1, <2>3, ThreadedEven DEF AsyncParts
    <2> QED
      BY <2>1, <2>3, <2>4
  <1>20. name \in {"snk_pots_ssl", "snk_tracks_sst", "snk_categories", "mod_volume_seps", "mod_volume_pfs",
                 "mod_mapping_mics", "mod_resample_mics", "mod_resample_seps", "mod_resample_pfs",
                 "mod_stft_mics", "mod_noise_mics", "mod_ssl", "mod_sst",
                 "mod_sss", "mod_istft_seps", "mod_istft_pfs", "mod_classify",
                 "src_hops_mics", "snk_hops_seps_vol", "snk_hops_pfs_vol", "inj_targets_sst"}
    BY DEF Links
  <1> HIDE DEF Sound
  <1>21. Sound(name)
    BY <1>2, <1>3, <1>4, <1>5, <1>6, <1>7, <1>8, <1>9, <1>10, <1>11, <1>12, <1>13, <1>14, <1>15, <1>16, <1>17, <1>18, <1>19, <1>20
  <1> QED
    BY <1>21 DEF Sound

-----------------------------------------------------------------------------
(* The objects of the configuration.                                         *)

\* The format objects that are made for an endpoint that is accepted.
LEMMA FormatsMade ==
  ASSUME NEW cfg, NEW name \in Endpoints, EndpointConfig(name, cfg) # null
  PROVE  EndpointConfig(name, cfg).formats = 1 \/ (name \in SampleSinks /\ ~Wants(name, cfg))
  <1> DEFINE e == EndpointConfig(name, cfg)
  <1>1. ASSUME NEW group, NEW interfaces, Sampled(group, interfaces) # null
        PROVE  \/ Sampled(group, interfaces).formats = 1 /\ group.interface # "blackhole"
               \/ Sampled(group, interfaces).interface = "blackhole"
    <2>1. CASE group.interface = "blackhole"
      <3>1. Sampled(group, interfaces) = [Endpoint("undefined", "blackhole") EXCEPT !.formats = 2]
        BY <1>1, <2>1 DEF Sampled
      <3>2. Endpoint("undefined", "blackhole").interface = "blackhole"
        BY DEF Endpoint, interface_construct
      <3> QED
        BY <3>1, <3>2 DEF Endpoint
    <2>2. CASE group.interface # "blackhole"
      <3>1. Sampled(group, interfaces)
              = Endpoint(format_construct_binary_int(group.nBits), group.interface)
        BY <1>1, <2>2 DEF Sampled
      <3> QED
        BY <2>2, <3>1 DEF Endpoint
    <2> QED
      BY <2>1, <2>2
  <1>2. ASSUME NEW group, NEW formats, NEW interfaces, Named(group, formats, interfaces) # null
        PROVE  Named(group, formats, interfaces).formats = 1
    BY <1>2 DEF Named, Endpoint
  <1>3. CASE name = "src_hops_mics"
    <2>1. e = src_hops_mics_config(cfg) /\ e # null
      BY <1>3 DEF EndpointConfig
    <2>2. /\ cfg.raw.interface # "blackhole"
          /\ e = Sampled(cfg.raw, {"file", "socket", "soundcard", "soundcard_name", "uacin"})
      BY <2>1 DEF src_hops_mics_config
    <2>3. e = Endpoint(format_construct_binary_int(cfg.raw.nBits), cfg.raw.interface)
      BY <2>1, <2>2 DEF Sampled
    <2> QED
      BY <2>3 DEF Endpoint
  <1>4. CASE name \in SampleSinks
    <2>1. PICK group, interfaces : e = Sampled(group, interfaces)
      BY <1>4 DEF EndpointConfig, SampleSinks, snk_hops_seps_vol_config, snk_hops_pfs_vol_config
    <2>2. e.formats = 1 \/ e.interface = "blackhole"
      BY <1>1, <2>1
    <2> QED
      BY <1>4, <2>2 DEF Wants
  <1>5. CASE name \in {"snk_pots_ssl", "snk_tracks_sst", "snk_categories"}
    <2>1. PICK group, formats, interfaces : e = Named(group, formats, interfaces)
      BY <1>5 DEF EndpointConfig, snk_pots_ssl_config, snk_tracks_sst_config, snk_categories_config
    <2> QED
      BY <1>2, <2>1
  <1> QED
    BY <1>3, <1>4, <1>5 DEF Endpoints, Sinks, SampleSinks

\* The record of an endpoint loses nothing but the first of two formats.
LEMMA EndpointLeaks ==
  ASSUME NEW cfg, NEW name \in Endpoints, configs_construct(cfg)
  PROVE  Leaks(ConfigParts(name, cfg))
            \subseteq IF name \in SampleSinks /\ ~Wants(name, cfg) THEN {"format"} ELSE {}
  <1> DEFINE e   == EndpointConfig(name, cfg)
             o   == EndpointOwns(e)
             own == Once({"format", "interface"})
  <1>1. e.formats = 1 \/ (name \in SampleSinks /\ ~Wants(name, cfg))
    BY FormatsMade DEF configs_construct
  <1>2. Leaks(ConfigParts(name, cfg)) = Unbalanced(o, own)
    <2>1. name \notin {"mod_mapping_mics", "mod_ssl", "mod_sst", "mod_sss", "inj_targets_sst"}
      BY DEF Endpoints, Sinks
    <2>2. ConfigParts(name, cfg) = {<<EndpointOwns(EndpointConfig(name, cfg)),
                                      Once({"format", "interface"})>>}
      BY <2>1 DEF ConfigParts
    <2>3. ConfigParts(name, cfg) = {<<o, own>>}
      BY <2>2
    <2>4. \A x, y : Leaks({<<x, y>>}) = Unbalanced(x, y)
      BY DEF Leaks
    <2> QED
      BY <2>3, <2>4
  <1>3. /\ DOMAIN o = {"format", "interface"} /\ o.format = Rows(e.formats, 1) /\ o.interface = Struct
    BY DEF EndpointOwns
  <1> HIDE DEF o, e
  <1>4. Count(o.format) = e.formats /\ Count(o.interface) = 1
    BY <1>3, Counts
  <1>5. DOMAIN own = {"format", "interface"} /\ own.format = 1 /\ own.interface = 1
    BY DEF Once
  <1> HIDE DEF own
  <1>6. Unbalanced(o, own) \subseteq IF e.formats = 1 THEN {} ELSE {"format"}
    BY <1>3, <1>4, <1>5 DEF Unbalanced
  <1> QED
    BY <1>1, <1>2, <1>6

\* The other records lose nothing.
LEMMA ConfigsEven == \A name, cfg : name \notin Endpoints => Even(ConfigParts(name, cfg))
  <1> SUFFICES ASSUME NEW name, NEW cfg, name \notin Endpoints PROVE Even(ConfigParts(name, cfg))
    OBVIOUS
  <1>0. /\ \A n : Balanced(mics_obj(n), mics_destroy)
        /\ \A n : Balanced(spatialfilters_obj(n), spatialfilters_destroy)
        /\ \A n : Balanced(gaussians_1d_obj(n), gaussians_1d_destroy(gaussians_1d_obj(n)))
    <2>1. ASSUME NEW n PROVE Balanced(mics_obj(n), mics_destroy)
      BY BalancedIf, Counts, Numbers DEF mics_obj, mics_destroy, Once
    <2>2. ASSUME NEW n PROVE Balanced(spatialfilters_obj(n), spatialfilters_destroy)
      BY BalancedIf, Counts, Numbers DEF spatialfilters_obj, spatialfilters_destroy, Once
    <2> QED
      BY <2>1, <2>2, GaussiansBalance
  <1>1. CASE name = "mod_mapping_mics"
    <2> DEFINE o == mod_mapping_mics_config(cfg)
    <2>1. DOMAIN o = {"links"} /\ o.links = links_obj(Len(cfg.map), cfg.map)
      BY DEF mod_mapping_mics_config
    <2>2. ConfigParts(name, cfg) = {<<o, Once({"links"})>>} \cup ArrayPart(o.links)
      BY <1>1 DEF ConfigParts
    <2> HIDE DEF o
    <2>3. Count(o.links) = 1
      BY <2>1, Counts DEF links_obj
    <2>4. Balanced(o, Once({"links"}))
      BY <2>1, <2>3, BalancedIf DEF Once
    <2> QED
      BY <2>1, <2>2, <2>4, OneBalances, ArraysBalance
  <1>2. CASE name = "mod_ssl"
    <2> DEFINE o   == SslOwns(cfg)
               own == Once({"mics", "samplerate", "soundspeed", "spatialfilters", "levels", "deltas"})
    <2>1. ConfigParts(name, cfg) = {<<o, own>>, <<o.mics, mics_destroy>>,
                                    <<o.spatialfilters, spatialfilters_destroy>>}
      BY <1>2 DEF ConfigParts, Endpoints, Sinks
    <2>2. /\ DOMAIN o = {"mics", "samplerate", "soundspeed", "spatialfilters", "levels", "deltas"}
          /\ o.mics = mics_obj(cfg.general.nMics)
          /\ o.spatialfilters = spatialfilters_obj(cfg.general.nFilters)
          /\ o.samplerate = Struct /\ o.soundspeed = Struct
          /\ o.levels = Flat(Len(cfg.ssl.levels)) /\ o.deltas = Flat(Len(cfg.ssl.levels))
      BY DEF SslOwns
    <2> HIDE DEF o
    <2>3. Count(o.mics) = 1 /\ Count(o.spatialfilters) = 1
      BY <2>2, Counts DEF mics_obj, spatialfilters_obj
    <2>4. /\ Count(o.samplerate) = 1 /\ Count(o.soundspeed) = 1
          /\ Count(o.levels) = 1 /\ Count(o.deltas) = 1
      BY <2>2, Counts
    <2>5. Balanced(o, own)
      BY <2>2, <2>3, <2>4, BalancedIf DEF Once
    <2>6. Balanced(o.mics, mics_destroy) /\ Balanced(o.spatialfilters, spatialfilters_destroy)
      BY <1>0, <2>2
    <2> QED
      BY <2>1, <2>5, <2>6 DEF Even
  <1>3. CASE name = "mod_sst"
    <2> DEFINE o   == SstOwns(cfg)
               own == Once({"active_gmm", "inactive_gmm", "N_inactive"})
    <2>1. /\ DOMAIN o = {"active_gmm", "inactive_gmm", "N_inactive"}
          /\ o.active_gmm = gaussians_1d_obj(cfg.sst.active)
          /\ o.inactive_gmm = gaussians_1d_obj(cfg.sst.inactive)
          /\ o.N_inactive = Flat(cfg.sst.nTracks)
      BY DEF SstOwns
    <2>2. ConfigParts(name, cfg) = {<<o, own>>, <<o.active_gmm, gaussians_1d_destroy(o.active_gmm)>>,
                                    <<o.inactive_gmm, gaussians_1d_destroy(o.inactive_gmm)>>}
      BY <1>3 DEF ConfigParts, Endpoints, Sinks
    <2> HIDE DEF o
    <2>3. Count(o.active_gmm) = 1 /\ Count(o.inactive_gmm) = 1 /\ Count(o.N_inactive) = 1
      BY <2>1, Counts DEF gaussians_1d_obj
    <2>4. Balanced(o, own)
      BY <2>1, <2>3, BalancedIf DEF Once
    <2>5. /\ Balanced(o.active_gmm, gaussians_1d_destroy(o.active_gmm))
          /\ Balanced(o.inactive_gmm, gaussians_1d_destroy(o.inactive_gmm))
      BY <1>0, <2>1
    <2> QED
      BY <2>2, <2>4, <2>5 DEF Even
  <1>4. CASE name = "mod_sss"
    <2> DEFINE o   == SssOwns(cfg)
               own == Once({"mics", "samplerate", "soundspeed"})
    <2>1. ConfigParts(name, cfg) = {<<o, own>>, <<o.mics, mics_destroy>>}
      BY <1>4 DEF ConfigParts, Endpoints, Sinks
    <2>2. /\ DOMAIN o = {"mics", "samplerate", "soundspeed"} /\ o.mics = mics_obj(cfg.general.nMics)
          /\ o.samplerate = Struct /\ o.soundspeed = Struct
      BY DEF SssOwns
    <2> HIDE DEF o
    <2>3. Count(o.mics) = 1 /\ Count(o.samplerate) = 1 /\ Count(o.soundspeed) = 1
      BY <2>2, Counts DEF mics_obj
    <2>4. Balanced(o, own)
      BY <2>2, <2>3, BalancedIf DEF Once
    <2>5. Balanced(o.mics, mics_destroy)
      BY <1>0, <2>2
    <2> QED
      BY <2>1, <2>4, <2>5 DEF Even
  <1>5. CASE name = "inj_targets_sst"
    <2> DEFINE o == inj_targets_sst_config(cfg)
    <2>1. DOMAIN o = {"targets"} /\ o.targets = targets_obj(cfg.sst.nTargets)
      BY DEF inj_targets_sst_config
    <2>2. ConfigParts(name, cfg) = {<<o, Once({"targets"})>>, <<o.targets, targets_destroy(o.targets)>>}
      BY <1>5 DEF ConfigParts, Endpoints, Sinks
    <2> HIDE DEF o
    <2>3. Count(o.targets) = 1
      BY <2>1, Counts DEF targets_obj
    <2>4. Balanced(o, Once({"targets"})) /\ Balanced(o.targets, targets_destroy(o.targets))
      BY <2>1, <2>3, BalancedIf, ContainersBalance DEF Once
    <2> QED
      BY <2>2, <2>4 DEF Even
  <1>6. CASE name \notin {"mod_mapping_mics", "mod_ssl", "mod_sst", "mod_sss", "inj_targets_sst"}
    <2>1. ConfigParts(name, cfg) = {}
      BY <1>6 DEF ConfigParts
    <2> QED
      BY <2>1 DEF Even
  <1> QED
    BY <1>1, <1>2, <1>3, <1>4, <1>5, <1>6

-----------------------------------------------------------------------------
(* The heap along the life of the program.                                   *)
Remaining(order, i) == {order[j] : j \in i .. Len(order)}
Buildable(cfg) == configs_construct(cfg) /\ ~Refused("mod_sss", cfg)

HeapInv ==
    /\ leaked \subseteq KnownLeaks(c)
    /\ heap \subseteq Remaining(DestroyOrder, 1)
    /\ opened \subseteq Remaining(EndpointOrder, 1)
    /\ phase \in Serving \cup {"destroy", "unconfigure"} => Buildable(c)
    /\ phase \in {"configure", "construct"} => opened = {}
    /\ phase = "close" => opened \subseteq Remaining(EndpointOrder, at)
    /\ phase = "destroy" => /\ at <= Len(DestroyOrder) /\ heap \subseteq Remaining(DestroyOrder, at)
                            /\ opened = {}
    /\ phase \in {"unconfigure", "done"} => heap = {} /\ opened = {}

LEMMA Lengths ==
  /\ Len(ConstructOrder) = 38 /\ Len(DestroyOrder) = 38 /\ Len(EndpointOrder) = 6
  /\ DestroyOrder = ConstructOrder
  /\ ConstructOrder[19] = "mod_sss"
  BY DEF ConstructOrder, DestroyOrder, EndpointOrder

LEMMA OrderNames == \A i \in 1 .. 38 : DestroyOrder[i] \in DOMAIN Connectors \cup DOMAIN Links
  <1>1. DestroyOrder \in Seq(DOMAIN Connectors \cup DOMAIN Links)
    BY DEF ConstructOrder, DestroyOrder, Connectors, Links
  <1>2. ASSUME NEW set, NEW s \in Seq(set), NEW i \in 1 .. Len(s)
        PROVE  s[i] \in set
    OBVIOUS
  <1> QED
    BY <1>1, <1>2, Lengths

\* Dropping the first of what remains leaves what remains behind it.
LEMMA RemainingStep ==
  ASSUME NEW order, Len(order) \in Nat, NEW i \in Nat \ {0}, NEW s, s \subseteq Remaining(order, i)
  PROVE  /\ s \ {order[i]} \subseteq Remaining(order, i + 1)
         /\ i >= Len(order) => s \ {order[i]} = {}
  <1>1. ASSUME NEW x \in s \ {order[i]}
        PROVE  \E j \in i + 1 .. Len(order) : x = order[j]
    <2>1. PICK j \in i .. Len(order) : x = order[j]
      BY DEF Remaining
    <2>2. j # i
      BY <2>1
    <2> QED
      BY <2>1, <2>2
  <1> QED
    BY <1>1 DEF Remaining

\* What destroying an object loses for good.
LEMMA DestroyLeaks ==
  ASSUME Buildable(c), NEW name \in DOMAIN Connectors \cup DOMAIN Links
  PROVE  {name} \X Leaks(Owned(name, Built(name, c))) \subseteq KnownLeaks(c)
  <1>1. \A p, q : Leaks(p \cup q) = Leaks(p) \cup Leaks(q)
    BY DEF Leaks
  <1>2. /\ Leaks(Parts(name, Built(name, c)))
              \subseteq IF name \in {"mod_volume_seps", "mod_volume_pfs"} THEN {"hop2hop_gain"} ELSE {}
        /\ Leaks(AsyncParts(name, Built(name, c), c, nMessages)) = {}
    BY ConnectorsEven, ObjectsBalance, EvenLeaks DEF Buildable
  <1>3. Leaks({}) = {}
    BY DEF Leaks
  <1>4. Leaks(Owned(name, Built(name, c)))
              \subseteq IF name \in {"mod_volume_seps", "mod_volume_pfs"} THEN {"hop2hop_gain"} ELSE {}
    BY <1>1, <1>2, <1>3 DEF Owned
  <1> QED
    BY <1>4 DEF KnownLeaks

\* What destroying the configuration loses for good.
LEMMA ConfigsLeaks ==
  ASSUME Buildable(c)
  PROVE  /\ Unbalanced(configs_obj, ConfigsDestroyed) = {}
         /\ \A name : {"configs"} \X {name} \X Leaks(ConfigParts(name, c)) \subseteq KnownLeaks(c)
  <1>1. Unbalanced(configs_obj, ConfigsDestroyed) = {}
    <2>1. DOMAIN configs_obj = DOMAIN ConfigsDestroyed
      BY DEF configs_obj, ConfigsDestroyed, Once, Links, Connectors
    <2>2. \A name \in DOMAIN configs_obj : Count(configs_obj[name]) = 1
      BY Counts DEF configs_obj
    <2>3. \A name \in DOMAIN ConfigsDestroyed : ConfigsDestroyed[name] = 1
      BY DEF ConfigsDestroyed, Once
    <2>4. Balanced(configs_obj, ConfigsDestroyed)
      BY <2>1, <2>2, <2>3, BalancedIf
    <2> QED
      BY <2>4 DEF Balanced
  <1>2. ASSUME NEW name
        PROVE  {"configs"} \X {name} \X Leaks(ConfigParts(name, c)) \subseteq KnownLeaks(c)
    <2>1. CASE name \in Endpoints
      <3>1. Leaks(ConfigParts(name, c))
              \subseteq IF name \in SampleSinks /\ ~Wants(name, c) THEN {"format"} ELSE {}
        BY <2>1, EndpointLeaks DEF Buildable
      <3> QED
        BY <3>1 DEF KnownLeaks
    <2>2. CASE name \notin Endpoints
      <3>1. Leaks(ConfigParts(name, c)) = {}
        BY <2>2, ConfigsEven, EvenLeaks
      <3> QED
        BY <3>1
    <2> QED
      BY <2>1, <2>2
  <1> QED
    BY <1>1, <1>2

LEMMA HeapStarts == Init => HeapInv
  BY DEF Init, HeapInv, Serving

LEMMA ConfigureHeap ==
  ASSUME HeapInv, Configure
  PROVE  HeapInv'
  <1>1. /\ UNCHANGED <<c, heap, leaked, opened>> /\ phase = "configure" /\ phase' \in {"construct", "exit"}
    BY DEF Configure, Exit
  <1> QED
    BY <1>1 DEF HeapInv, Serving

LEMMA ConstructHeap ==
  ASSUME IInv, HeapInv, Construct
  PROVE  HeapInv'
  <1>1. /\ phase = "construct" /\ UNCHANGED <<c, leaked, opened>> /\ at \in 1 .. 38
        /\ configs_construct(c) /\ \A i \in 1 .. at - 1 : ~Refused(ConstructOrder[i], c)
    BY Lengths DEF Construct, IInv, Types, Accepted
  <1>2. \/ phase' = "exit" /\ heap' = heap
        \/ /\ ~Refused(ConstructOrder[at], c) /\ heap' = heap \cup {ConstructOrder[at]}
           /\ \/ at < 38 /\ phase' = "construct"
              \/ at = 38 /\ at' = 1 /\ phase' \in {"destroy", "open"}
    <2>1. CASE Refused(ConstructOrder[at], c)
      BY <2>1 DEF Construct, Exit
    <2>2. CASE ~Refused(ConstructOrder[at], c)
      <3>1. /\ heap' = heap \cup {ConstructOrder[at]}
            /\ IF at < Len(ConstructOrder)
               THEN at' = at + 1 /\ phase' = phase
               ELSE at' = 1 /\ phase' = (IF multi THEN "destroy" ELSE "open")
        BY <2>2 DEF Construct
      <3> QED
        BY <1>1, <2>2, <3>1, Lengths
    <2> QED
      BY <2>1, <2>2
  <1>3. heap' \subseteq Remaining(DestroyOrder, 1)
    BY <1>1, <1>2, Lengths DEF HeapInv, Remaining
  <1>4. phase' \in {"destroy", "open"} => at' = 1 /\ Buildable(c')
    BY <1>1, <1>2, Lengths DEF Buildable
  <1>5. opened' = {} /\ leaked' \subseteq KnownLeaks(c')
    BY <1>1 DEF HeapInv
  <1>6. phase' \in {"construct", "exit", "destroy", "open"}
    BY <1>2
  <1>7. phase' = "destroy" => at' <= Len(DestroyOrder) /\ heap' \subseteq Remaining(DestroyOrder, at')
    BY <1>3, <1>4, Lengths
  <1> QED
    BY <1>3, <1>4, <1>5, <1>6, <1>7 DEF HeapInv, Serving

LEMMA OpenHeap ==
  ASSUME IInv, HeapInv, Open
  PROVE  HeapInv'
  <1>1. phase = "open" /\ at \in 1 .. 6 /\ UNCHANGED <<c, heap, leaked>>
    <2>1. phase = "open" /\ UNCHANGED <<c, heap, leaked>>
      BY DEF Open
    <2> QED
      BY <2>1 DEF IInv, Types
  <1>2. /\ opened' \in {opened, opened \cup {EndpointOrder[at]}}
        /\ phase' \in {"open", "process", "exit"}
    BY <1>1 DEF Open, NextPhase, Exit
  <1>3. opened' \subseteq Remaining(EndpointOrder, 1)
    BY <1>1, <1>2, Lengths DEF HeapInv, Remaining
  <1> QED
    BY <1>1, <1>2, <1>3 DEF HeapInv, Serving

\* Nothing is constructed, opened or freed in the loop.
LEMMA ProcessHeap ==
  ASSUME HeapInv, Process
  PROVE  HeapInv'
  <1>1. /\ UNCHANGED <<c, heap, leaked, opened>> /\ phase = "process"
        /\ \/ phase' \in {"process", "exit"}
           \/ phase' = "close" /\ at' = 1
    <2>1. CASE ProcessSource
      BY <2>1 DEF ProcessSource, Calling, Continue, Exit
    <2>2. CASE ProcessConnector
      BY <2>2 DEF ProcessConnector, Calling, Continue
    <2>3. CASE ProcessTransform
      BY <2>3 DEF ProcessTransform, Calling, Continue
    <2>4. CASE ProcessInjector
      BY <2>4 DEF ProcessInjector, Calling, Continue
    <2>5. CASE ProcessJoin
      BY <2>5 DEF ProcessJoin, Calling, Continue, Exit
    <2>6. CASE ProcessSink
      BY <2>6 DEF ProcessSink, Calling, Continue, Exit
    <2>7. CASE ProcessPush
      BY <2>7 DEF ProcessPush, Calling, Continue
    <2>8. CASE ProcessPop
      BY <2>8 DEF ProcessPop, Calling, Continue, Leave
    <2> QED
      BY <2>1, <2>2, <2>3, <2>4, <2>5, <2>6, <2>7, <2>8 DEF Process
  <1> QED
    BY <1>1 DEF HeapInv, Serving

LEMMA CloseHeap ==
  ASSUME IInv, HeapInv, Close
  PROVE  HeapInv'
  <1>1. phase = "close" /\ at \in 1 .. 6 /\ UNCHANGED <<c, heap>>
    <2>1. phase = "close" /\ UNCHANGED <<c, heap>>
      BY DEF Close
    <2> QED
      BY <2>1 DEF IInv, Types
  <1>2. leaked' \subseteq KnownLeaks(c)
    <2>1. leaked \subseteq KnownLeaks(c)
      BY DEF HeapInv
    <2>2. leaked' \subseteq leaked \cup {"src_pcm"} \X
             Unbalanced(src_pcm_obj(src_hops_mics_config(c), msg_hops_mics_raw_config(c)),
                        src_pcm_destory(TRUE))
      BY DEF Close
    <2> QED
      BY <2>1, <2>2, PcmLeaks DEF KnownLeaks
  <1>3. \/ phase' = "exit" /\ opened' = opened
        \/ /\ opened' = opened \ {EndpointOrder[at]}
           /\ \/ at < 6 /\ at' = at + 1 /\ phase' = "close"
              \/ at = 6 /\ at' = 1 /\ phase' = "destroy"
    <2>1. \/ Exit("no case") /\ opened' = opened
          \/ opened' = opened \ {EndpointOrder[at]} /\ NextPhase("destroy")
      BY DEF Close
    <2>2. Len(EndpointOrder) = 6
      BY Lengths
    <2>3. NextPhase("destroy") => \/ at < 6 /\ at' = at + 1 /\ phase' = "close"
                                  \/ at = 6 /\ at' = 1 /\ phase' = "destroy"
      BY <1>1, <2>2 DEF NextPhase
    <2> QED
      BY <2>1, <2>3 DEF Exit
  <1>4. /\ opened \ {EndpointOrder[at]} \subseteq Remaining(EndpointOrder, at + 1)
        /\ at = 6 => opened \ {EndpointOrder[at]} = {}
    <2>1. opened \subseteq Remaining(EndpointOrder, at)
      BY <1>1 DEF HeapInv
    <2>2. Len(EndpointOrder) \in Nat /\ at \in Nat \ {0} /\ (at = 6 => at >= Len(EndpointOrder))
      <3>1. Len(EndpointOrder) = 6
        BY Lengths
      <3> QED
        BY <1>1, <3>1
    <2> QED
      BY <2>1, <2>2, RemainingStep
  <1>5. heap' \subseteq Remaining(DestroyOrder, 1) /\ opened' \subseteq Remaining(EndpointOrder, 1) /\ Buildable(c')
    BY <1>1, <1>3 DEF HeapInv, Serving
  <1>6. phase' = "close" => opened' \subseteq Remaining(EndpointOrder, at')
    BY <1>3, <1>4
  <1>7. phase' = "destroy" => /\ at' <= Len(DestroyOrder) /\ opened' = {}
                             /\ heap' \subseteq Remaining(DestroyOrder, at')
    BY <1>3, <1>4, <1>5, Lengths
  <1>8. phase' \in {"exit", "close", "destroy"} /\ leaked' \subseteq KnownLeaks(c')
    BY <1>1, <1>2, <1>3
  <1> QED
    BY <1>5, <1>6, <1>7, <1>8 DEF HeapInv, Serving

LEMMA DestroyHeap ==
  ASSUME IInv, HeapInv, Destroy
  PROVE  HeapInv'
  <1>1. /\ phase = "destroy" /\ at \in 1 .. 38 /\ opened = {} /\ UNCHANGED <<c, opened>>
        /\ heap \subseteq Remaining(DestroyOrder, at) /\ Buildable(c)
    <2>1. phase = "destroy" /\ UNCHANGED <<c, opened>>
      BY DEF Destroy
    <2>2. at \in Nat \ {0}
      BY DEF IInv, Types
    <2>3. at <= Len(DestroyOrder) /\ heap \subseteq Remaining(DestroyOrder, at) /\ opened = {} /\ Buildable(c)
      BY <2>1 DEF HeapInv
    <2> QED
      BY <2>1, <2>2, <2>3, Lengths
  <1>2. /\ heap' = heap \ {DestroyOrder[at]}
        /\ leaked' = leaked \cup
             ({DestroyOrder[at]} \X Leaks(Owned(DestroyOrder[at], Built(DestroyOrder[at], c))))
        /\ \/ at < 38 /\ at' = at + 1 /\ phase' = "destroy"
           \/ at = 38 /\ at' = 1 /\ phase' = "unconfigure"
    <2>1. /\ heap' = heap \ {DestroyOrder[at]}
          /\ leaked' = leaked \cup
               ({DestroyOrder[at]} \X Leaks(Owned(DestroyOrder[at], Built(DestroyOrder[at], c))))
          /\ IF at < Len(DestroyOrder) THEN at' = at + 1 /\ phase' = phase
                                       ELSE at' = 1 /\ phase' = "unconfigure"
      BY DEF Destroy
    <2> QED
      BY <1>1, <2>1, Lengths
  <1>3. leaked' \subseteq KnownLeaks(c)
    <2>1. DestroyOrder[at] \in DOMAIN Connectors \cup DOMAIN Links
      BY <1>1, OrderNames
    <2>2. {DestroyOrder[at]} \X Leaks(Owned(DestroyOrder[at], Built(DestroyOrder[at], c)))
            \subseteq KnownLeaks(c)
      BY <1>1, <2>1, DestroyLeaks
    <2>3. leaked \subseteq KnownLeaks(c)
      BY DEF HeapInv
    <2> QED
      BY <1>2, <2>2, <2>3
  <1>4. /\ heap' \subseteq Remaining(DestroyOrder, at + 1)
        /\ at = 38 => heap' = {}
    <2>1. /\ heap \ {DestroyOrder[at]} \subseteq Remaining(DestroyOrder, at + 1)
          /\ at = 38 => heap \ {DestroyOrder[at]} = {}
      <3>1. Len(DestroyOrder) = 38
        BY Lengths
      <3>2. Len(DestroyOrder) \in Nat /\ at \in Nat \ {0} /\ (at = 38 => at >= Len(DestroyOrder))
        BY <1>1, <3>1
      <3>3. heap \subseteq Remaining(DestroyOrder, at)
        BY <1>1
      <3> QED
        BY <3>2, <3>3, RemainingStep
    <2> QED
      BY <1>2, <2>1
  <1>5. heap' \subseteq Remaining(DestroyOrder, 1) /\ opened' \subseteq Remaining(EndpointOrder, 1)
    BY <1>1, <1>2 DEF HeapInv
  <1>6. phase' = "destroy" => at' <= Len(DestroyOrder) /\ heap' \subseteq Remaining(DestroyOrder, at')
    BY <1>1, <1>2, <1>4, Lengths
  <1>7. phase' = "unconfigure" => heap' = {}
    BY <1>1, <1>2, <1>4
  <1>8. /\ opened' = {} /\ Buildable(c') /\ phase' \in {"destroy", "unconfigure"}
        /\ leaked' \subseteq KnownLeaks(c')
    BY <1>1, <1>2, <1>3
  <1> QED
    BY <1>5, <1>6, <1>7, <1>8 DEF HeapInv, Serving

LEMMA UnconfigureHeap ==
  ASSUME HeapInv, configs_destroy
  PROVE  HeapInv'
  <1>1. phase = "unconfigure" /\ phase' = "done" /\ UNCHANGED <<c, heap, opened>> /\ Buildable(c)
    BY DEF configs_destroy, HeapInv
  <1>2. leaked' \subseteq KnownLeaks(c)
    <2>1. leaked \subseteq KnownLeaks(c)
      BY DEF HeapInv
    <2>2. leaked' = leaked \cup ({"configs"} \X Unbalanced(configs_obj, ConfigsDestroyed)) \cup
            UNION {{"configs"} \X {name} \X Leaks(ConfigParts(name, c)) : name \in DOMAIN configs_obj}
      BY DEF configs_destroy
    <2> HIDE DEF HeapInv
    <2>3. {"configs"} \X Unbalanced(configs_obj, ConfigsDestroyed) = {}
      BY <1>1, ConfigsLeaks
    <2>4. \A name : {"configs"} \X {name} \X Leaks(ConfigParts(name, c)) \subseteq KnownLeaks(c)
      BY <1>1, ConfigsLeaks
    <2> QED
      BY <2>1, <2>2, <2>3, <2>4
  <1>3. KnownLeaks(c') = KnownLeaks(c)
    BY <1>1
  <1> QED
    BY <1>1, <1>2, <1>3 DEF HeapInv, Serving

LEMMA HeapNext == IInv /\ HeapInv /\ [Next]_vars => HeapInv'
  <1> SUFFICES ASSUME IInv, HeapInv, [Next]_vars
               PROVE  HeapInv'
    OBVIOUS
  <1>1. CASE OpenFails \/ Interrupt
    <2>1. phase' = "exit" /\ UNCHANGED <<c, heap, leaked, opened>>
      BY <1>1 DEF OpenFails, Interrupt, Exit
    <2> QED
      BY <2>1 DEF HeapInv, Serving
  <1>2. CASE UNCHANGED vars
    <2>1. UNCHANGED <<c, phase, at, heap, leaked, opened>>
      BY <1>2 DEF vars
    <2> QED
      BY <2>1 DEF HeapInv
  <1> QED
    BY <1>1, <1>2, ConfigureHeap, ConstructHeap, OpenHeap, ProcessHeap, CloseHeap, DestroyHeap,
       UnconfigureHeap DEF Next

\* For every configuration that is accepted, in one thread and in many: every allocation is freed
\* exactly once, those of the configuration included, except for the gain of the two mod_volume,
\* the ring of src_pcm and the first format of a black hole for samples; and a process that ends
\* by itself has destroyed what it constructed and closed what it opened.
THEOREM Spec_HeapBalanced == Spec => []HeapBalanced
  <1>1. HeapInv => HeapBalanced
    BY DEF HeapInv, HeapBalanced
  <1> QED
    BY <1>1, Spec_IInv, HeapStarts, HeapNext, PTL DEF Spec

====
