------------------------------ MODULE Modules ------------------------------
(***************************************************************************)
(* The processing modules of src/module as the objects they own and the     *)
(* indexes they touch.  X_obj(...) is what X_construct builds from the       *)
(* configurations of its messages, X_destroy(o) what X_destroy frees,        *)
(* X_parts(o) every object below it paired with what its destructor frees,   *)
(* and X_process(o, ins, outs) holds when an enabled X_process stays inside  *)
(* its containers and those of its messages.                                 *)
(***************************************************************************)
EXTENDS SeparationOperators

(* An operator that keeps sizes only: one allocation, no array.             *)
Struct == Flat(0)

Pairs(n) == (n * (n - 1)) \div 2

(* Direct fields freed once each.                                           *)
Once(fields) == [f \in fields |-> 1]

ArrayPart(o)      == {<<o, Array_destroy(o)>>}
fft_parts(o)      == {<<o, fft_destroy(o)>>}
hop2frame_parts(o) == {<<o, hop2frame_destroy(o)>>}
frame2hop_parts(o) == {<<o, frame2hop_destroy(o)>>}
frames_parts(o)   == {<<o, frames_destroy(o)>>}
freqs_parts(o)    == {<<o, freqs_destroy(o)>>}
envs_parts(o)     == {<<o, envs_destroy(o)>>}
frame2freq_parts(o) ==
    {<<o, frame2freq_destroy(o)>>} \cup ArrayPart(o.win) \cup fft_parts(o.fft)
freq2frame_parts(o) ==
    {<<o, freq2frame_destroy(o)>>} \cup ArrayPart(o.win) \cup fft_parts(o.fft)
EachPart(many, Parts(_)) == UNION {Parts(many.at[i]) : i \in DOMAIN many.at}

-----------------------------------------------------------------------------
(* Mapping, Fourier transforms, noise, volume.                              *)

links_obj(nLinks, map) == [nLinks |-> nLinks, array |-> Flat(nLinks), map |-> map]
mod_mapping_obj(links, out) ==
    [hop2hop_multiplex |-> Struct, hopSize |-> out.hopSize, links |-> links]
mod_mapping_destroy(o) == Once({"links", "hop2hop_multiplex"})
mod_mapping_parts(o)   == ArrayPart(o.links)
(* hop2hop_multiplex_process: link l copies channel map[l] - 1, or silence. *)
mod_mapping_process(o, in, out) ==
    /\ Holds(out.array, o.links.nLinks, o.hopSize)
    /\ \A l \in 1 .. o.links.nLinks :
           o.links.map[l] # 0 => Holds(in.array, o.links.map[l], o.hopSize)

mod_stft_obj(in, out) ==
    LET frameSize == (out.halfFrameSize - 1) * 2 IN
    [hop2frame  |-> hop2frame_obj(in.hopSize, frameSize, in.nChannels),
     frames     |-> frames_obj(in.nChannels, frameSize),
     frame2freq |-> frame2freq_obj(frameSize, out.halfFrameSize)]
mod_stft_destroy(o) == Once({"hop2frame", "frames", "frame2freq"})
mod_stft_parts(o)   ==
    hop2frame_parts(o.hop2frame) \cup frames_parts(o.frames) \cup frame2freq_parts(o.frame2freq)
mod_stft_process(o, in, out) ==
    hop2frame_process(o.hop2frame, in, o.frames) /\ frame2freq_process(o.frame2freq, o.frames, out)

mod_istft_obj(in, out) ==
    LET frameSize == (in.halfFrameSize - 1) * 2 IN
    [freq2frame |-> freq2frame_obj(frameSize, in.halfFrameSize),
     frames     |-> frames_obj(out.nChannels, frameSize),
     frame2hop  |-> frame2hop_obj(out.hopSize, frameSize, out.nChannels)]
mod_istft_destroy(o) == Once({"freq2frame", "frames", "frame2hop"})
mod_istft_parts(o)   ==
    freq2frame_parts(o.freq2frame) \cup frames_parts(o.frames) \cup frame2hop_parts(o.frame2hop)
mod_istft_process(o, in, out) ==
    freq2frame_process(o.freq2frame, in, o.frames) /\ frame2hop_process(o.frame2hop, o.frames, out)

mod_noise_obj(config, in, out) ==
    [halfFrameSize |-> in.halfFrameSize, freq2env |-> Struct,
     envs |-> envs_obj(out.nChannels, out.halfFrameSize),
     env2env |-> env2env_mcra_obj(out.nChannels, out.halfFrameSize, config.bSize)]
mod_noise_destroy(o) == Once({"freq2env", "envs", "env2env"})
mod_noise_parts(o)   == envs_parts(o.envs) \cup {<<o.env2env, env2env_mcra_destroy(o.env2env)>>}
mod_noise_process(o, in, out) ==
    /\ freq2env_process(o.halfFrameSize, in, o.envs)
    /\ env2env_mcra_process(o.env2env, null, o.envs, null, out)

(* The destructor forgets the gain: the allocation is lost.                 *)
mod_volume_obj(out)    == [hop2hop_gain |-> Struct]
mod_volume_destroy(o)  == Once({})
mod_volume_process(o, in, out) ==
    Holds(in.array, in.nSignals, in.hopSize) /\ Holds(out.array, in.nSignals, in.hopSize)

-----------------------------------------------------------------------------
(* Resampling.  Whole ratios only: rate is [in, out].                       *)

(* system/hop2hop.c: room for two of the longer interval, in input samples. *)
hop2hop_buffer_obj(nSignals, hopSizeIn, hopSizeOut, rate) ==
    LET intervalOut == (hopSizeOut * rate.in) \div rate.out
        longer      == IF hopSizeIn >= intervalOut THEN hopSizeIn ELSE intervalOut
    IN [nSignals |-> nSignals, hopSizeIn |-> hopSizeIn, hopSizeOut |-> hopSizeOut,
        bufferSize |-> 2 * longer, array |-> Rows(nSignals, 2 * longer)]
hop2hop_buffer_destroy(o) == [array |-> o.nSignals]
hop2hop_buffer_push(o, hops) ==
    Holds(o.array, hops.nSignals, o.bufferSize) /\ Holds(hops.array, hops.nSignals, o.hopSizeIn)
hop2hop_buffer_pop(o, hops) ==
    Holds(o.array, o.nSignals, o.bufferSize) /\ Holds(hops.array, o.nSignals, o.hopSizeOut)

Filtering == {"hop2frame", "framesAnalysis", "frame2freq", "freqsAnalysis", "freq2freq_lowpass",
              "freqsSynthesis", "freq2frame", "framesSynthesis", "frame2hop", "hops"}
mod_resample_obj(rate, in, out) ==
    LET type      == IF rate.in = rate.out THEN "s" ELSE IF rate.in > rate.out THEN "d" ELSE "u"
        n         == in.nChannels
        hopSize   == IF type = "d" THEN in.hopSize ELSE out.hopSize
        frameSize == IF type = "s" THEN 0 ELSE 2 * hopSize
        half      == (frameSize \div 2) + 1
        cut       == IF type = "d" THEN ((frameSize \div 2) * rate.out) \div rate.in
                                   ELSE ((frameSize \div 2) * rate.in) \div rate.out
        base      == [type |-> type, frameSize |-> frameSize, lowPassCut |-> cut,
                      hop2hop |-> hop2hop_buffer_obj(n, in.hopSize, out.hopSize, rate)]
    IN IF type = "s" THEN base ++ [f \in Filtering |-> null]
       ELSE base ++
         [hop2frame |-> hop2frame_obj(hopSize, frameSize, n),
          framesAnalysis |-> frames_obj(n, frameSize), frame2freq |-> frame2freq_obj(frameSize, half),
          freqsAnalysis |-> freqs_obj(n, half), freq2freq_lowpass |-> Struct,
          freqsSynthesis |-> freqs_obj(n, half), freq2frame |-> freq2frame_obj(frameSize, half),
          framesSynthesis |-> frames_obj(n, frameSize),
          frame2hop |-> frame2hop_obj(hopSize, frameSize, n), hops |-> hops_obj(n, hopSize)]
mod_resample_destroy(o) ==
    Once({"hop2hop"} \cup {f \in Filtering : o[f] # null})
mod_resample_parts(o) ==
    {<<o.hop2hop, hop2hop_buffer_destroy(o.hop2hop)>>} \cup
    (IF o.type = "s" THEN {} ELSE
       hop2frame_parts(o.hop2frame) \cup frames_parts(o.framesAnalysis) \cup
       frame2freq_parts(o.frame2freq) \cup freqs_parts(o.freqsAnalysis) \cup
       freqs_parts(o.freqsSynthesis) \cup freq2frame_parts(o.freq2frame) \cup
       frames_parts(o.framesSynthesis) \cup frame2hop_parts(o.frame2hop) \cup
       {<<o.hops, hops_destroy(o.hops)>>})
(* Analysis, ideal low pass, synthesis: before the buffer when going down,  *)
(* behind it when going up.                                                 *)
LowPass(o, from, to) ==
    /\ hop2frame_process(o.hop2frame, from, o.framesAnalysis)
    /\ frame2freq_process(o.frame2freq, o.framesAnalysis, o.freqsAnalysis)
    /\ freq2freq_lowpass_process(o.lowPassCut, o.freqsAnalysis, o.freqsSynthesis)
    /\ freq2frame_process(o.freq2frame, o.freqsSynthesis, o.framesSynthesis)
    /\ frame2hop_process(o.frame2hop, o.framesSynthesis, to)
mod_resample_process_push(o, in) ==
    IF o.type = "d" THEN LowPass(o, in, o.hops) /\ hop2hop_buffer_push(o.hop2hop, o.hops)
                    ELSE hop2hop_buffer_push(o.hop2hop, in)
mod_resample_process_pop(o, out) ==
    IF o.type = "u" THEN hop2hop_buffer_pop(o.hop2hop, o.hops) /\ LowPass(o, o.hops, out)
                    ELSE hop2hop_buffer_pop(o.hop2hop, out)

-----------------------------------------------------------------------------
(* Classification.                                                          *)

mod_classify_obj(config, in1, in2) ==
    LET half == (config.frameSize \div 2) + 1
        n    == in1.nChannels
    IN [halfFrameSize |-> half, winSize |-> config.winSize, nChannels |-> n,
        hop2frame |-> hop2frame_obj(in1.hopSize, config.frameSize, n),
        frames |-> frames_obj(n, config.frameSize),
        frame2freq |-> frame2freq_obj(config.frameSize, half),
        freqs |-> freqs_obj(n, half), freq2acorr |-> freq2acorr_obj(n, half),
        acorrs |-> acorrs_obj(n, half), acorr2pitch |-> Struct, pitches |-> pitches_obj(n),
        pitch2category |-> pitch2category_obj(n)]
mod_classify_destroy(o) ==
    Once({"hop2frame", "frames", "frame2freq", "freqs", "freq2acorr", "acorrs", "acorr2pitch",
          "pitches", "pitch2category"})
mod_classify_parts(o) ==
    hop2frame_parts(o.hop2frame) \cup frames_parts(o.frames) \cup frame2freq_parts(o.frame2freq)
    \cup freqs_parts(o.freqs) \cup fft_parts(o.freq2acorr.fft) \cup ArrayPart(o.pitches)
    \cup {<<o.freq2acorr, freq2acorr_destroy(o.freq2acorr)>>, <<o.acorrs, acorrs_destroy(o.acorrs)>>,
          <<o.pitch2category, pitch2category_destroy(o.pitch2category)>>}
mod_classify_process(o, in1, in2, out) ==
    /\ hop2frame_process(o.hop2frame, in1, o.frames)
    /\ frame2freq_process(o.frame2freq, o.frames, o.freqs)
    /\ freq2acorr_process(o.freq2acorr, o.freqs, o.acorrs)
    /\ acorr2pitch_process(o.nChannels, o.halfFrameSize, o.winSize, o.acorrs, o.pitches)
    /\ pitch2category_process(o.pitch2category, o.pitches, in2, out)

=============================================================================
