---------------------------- MODULE SourceMemory ----------------------------
(***************************************************************************)
(* What src/module/mod_sss.c (geometric source separation and speech         *)
(* post-filter) and mod_classify.c remember about the source in each slot of *)
(* the tracker, from frame to frame.  mod_sst gives a slot to one source      *)
(* after another; separation and classification only see the identifiers it  *)
(* publishes, and each of their operators decides for itself when to forget.  *)
(*                                                                         *)
(* One step is a frame: mod_sst_process, then mod_sss_process and            *)
(* mod_classify_process on the tracks it published.  A piece of state is the *)
(* set of the identifiers whose frames it was computed from.                 *)
(***************************************************************************)
EXTENDS Tracker

CONSTANTS L,         \* env2env.c: frames in a window of the noise estimate
          MaxAge     \* bound on the ages that are told apart

\* An age beyond two windows is told apart from one of two windows.
MemoryParameters == L \in Nat /\ MaxAge \in Nat /\ 2 * (L + 2) < MaxAge

VARIABLES tracksNow, \* sep_gss_tracksNow->ids
          demixing,  \* sep_gss_demixingsNow: the rows of each slot
          noise,     \* env2env_mcra: idsPrev, l, the source of lambdaD and S, and
                     \* the age in frames of Smin and of Stmp
          speech,    \* ZsPrev, GH1 and xi, zetaPrev: the source they follow
          category   \* pitch2category: cat, the source of rs, of tausNow, of tausPrev

memory  == <<tracksNow, demixing, noise, speech, category>>

NoNoise    == [idsPrev |-> 0, l |-> 0, from |-> {}, Smin |-> 0, Stmp |-> 0]
NoCategory == [cat |-> 0, rs |-> {}, tausNow |-> 0, tausPrev |-> 0]
MemoryInit ==
    /\ tracksNow = [s \in Slots |-> 0]  /\ demixing = [s \in Slots |-> {}]
    /\ noise = [s \in Slots |-> NoNoise] /\ speech = [s \in Slots |-> {}]
    /\ category = [s \in Slots |-> NoCategory]

-----------------------------------------------------------------------------
(* steer2demixing_gss_process.  The rows of the active sources are gathered   *)
(* in a matrix Wn with as many rows: those of a source that was here in the   *)
(* last frame (tracksPrev) are loaded, those of another one start from its    *)
(* delay-and-sum beamformer; one step of the gradient, and they are put back. *)
(* The rows of a slot without a source stay as they were.                    *)
Active(ids) == {s \in Slots : ids[s] # 0}
iActiveSource(ids, s) == Cardinality({r \in Active(ids) : r < s})

Loaded(ids, idsPrev, s) == IF ids[s] = idsPrev[s] THEN demixing[s] ELSE {}

\* Mutant: the rows are put back by slot, without counting the active sources.
PutBack_BySlot(ids, Wn, s) ==
    IF s - 1 \in DOMAIN Wn THEN Wn[s - 1] ELSE demixing[s]

PutBack(ids, Wn, s) == Wn[iActiveSource(ids, s)]

Wnp1(ids, idsPrev) ==
    [i \in {iActiveSource(ids, s) : s \in Active(ids)} |->
        LET s == CHOOSE r \in Active(ids) : iActiveSource(ids, r) = i
        IN Loaded(ids, idsPrev, s) \cup {ids[s]}]
steer2demixing_gss_process(ids, idsPrev) ==
    demixing' = [s \in Slots |->
        IF ids[s] = 0 THEN demixing[s] ELSE PutBack(ids, Wnp1(ids, idsPrev), s)]

-----------------------------------------------------------------------------
(* env2env_mcra_process.  A source in a slot that had none starts from the    *)
(* estimate of the microphones (age 0); otherwise the slot goes on with what   *)
(* it has.  Smin is a minimum over the frames since the window before the      *)
(* current one began, and so never older than two windows.                   *)
Older(age) == IF age < MaxAge THEN age + 1 ELSE age

Reset(n) == [n EXCEPT !.l = 0, !.from = {}, !.Smin = 0, !.Stmp = 0]

\* The window is begun anew in the frame in which l is beyond L.
Windowed(n) ==
    IF n.l <= L THEN [n EXCEPT !.l = @ + 1, !.Smin = Older(@), !.Stmp = Older(@)]
    ELSE [n EXCEPT !.l = 0, !.Smin = Older(n.Stmp), !.Stmp = 1]
Noise(n, i) ==
    LET begun == IF i # 0 /\ n.idsPrev = 0 THEN Reset(n) ELSE n
        seen  == [begun EXCEPT !.idsPrev = i]
    IN IF i = 0 THEN seen ELSE Windowed([seen EXCEPT !.from = @ \cup {i}])
env2env_mcra_process(ids) == noise' = [s \in Slots |-> Noise(noise[s], ids[s])]

(* env2env_interf_process, env2env_gainspeech_process and                    *)
(* env2env_probspeech_process all go on while there is a source, and zero the *)
(* slot when there is none.                                                  *)
Smoothed(s, i) == IF i = 0 THEN {} ELSE speech[s] \cup {i}
env2env_speech_process(ids) == speech' = [s \in Slots |-> Smoothed(s, ids[s])]

-----------------------------------------------------------------------------
(* pitch2category_process, with the loop over the slots in its order: a slot  *)
(* that classifies copies tausNow to tausPrev for every slot.  A source found *)
(* to be speech (isSpeech: rs has passed r0) stays speech.                    *)
Classified(f, s, ids, isSpeech) ==
    LET own == f[s]
        now == [f EXCEPT ![s] = [own EXCEPT !.tausNow = ids[s], !.rs = @ \cup {ids[s]},
                                            !.cat = IF s \in isSpeech THEN 1 ELSE 0]]
    IN IF ids[s] = 0 THEN [f EXCEPT ![s] = [@ EXCEPT !.tausNow = 0, !.rs = {}, !.cat = 0]]
       ELSE IF own.cat = 1 THEN f
       ELSE [r \in Slots |-> [now[r] EXCEPT !.tausPrev = now[r].tausNow]]
pitch2category_process(ids, isSpeech) ==
    LET upTo[s \in 0 .. nTracksMax] ==
            IF s = 0 THEN category ELSE Classified(upTo[s - 1], s, ids, isSpeech)
    IN category' = upTo[nTracksMax]

-----------------------------------------------------------------------------
mod_sss_process(ids) ==
    /\ tracksNow' = ids
    /\ steer2demixing_gss_process(ids, tracksNow)
    /\ env2env_mcra_process(ids) /\ env2env_speech_process(ids)
mod_classify_process(ids) == \E isSpeech \in SUBSET Slots : pitch2category_process(ids, isSpeech)

MemoryFrame == Frame /\ mod_sss_process(out') /\ mod_classify_process(out')

SourceInit == Init /\ MemoryInit

MemorySpec == SourceInit /\ [][MemoryFrame]_<<vars, memory>>

-----------------------------------------------------------------------------
MemoryTypeOK ==
    /\ tracksNow = out
    /\ \A s \in Slots :
         /\ demixing[s] \subseteq 1 .. MaxId /\ speech[s] \subseteq 1 .. MaxId
         /\ noise[s].l \in 0 .. L + 1 /\ category[s].cat \in {0, 1}
         /\ category[s].rs \subseteq 1 .. MaxId

(* What separation and classification use for a published source comes from   *)
(* this source alone.  Only the demixing rows compare identifiers; the others *)
(* forget when they see the slot free, which mod_sst shows them between any    *)
(* two sources (NoIdentitySwitch).  tausPrev is not among them: see README.    *)
StateFollowsIdentity ==
    \A s \in Active(out) :
        /\ demixing[s] = {out[s]} /\ noise[s].from = {out[s]} /\ speech[s] = {out[s]}
        /\ category[s].rs = {out[s]} /\ category[s].tausNow = out[s]

(* The noise of a source is the minimum over the last two windows of L + 2     *)
(* frames at most, and over one at least once the source has been here so long. *)
NoiseWindow ==
    \A s \in Active(out) :
        /\ noise[s].Smin <= 2 * (L + 2)
        /\ noise[s].Stmp <= noise[s].Smin
        /\ noise[s].Stmp < noise[s].Smin => noise[s].Smin >= L + 2

=============================================================================
