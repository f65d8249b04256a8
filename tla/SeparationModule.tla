-------------------------- MODULE SeparationModule --------------------------
(***************************************************************************)
(* src/module/mod_sss.c: separation by delay and sum ("d") or geometric     *)
(* source separation ("g"), and post-filtering with speech statistics ("m") *)
(* or a gain ratio ("s").  Only the objects of the two chosen methods are    *)
(* built; the pointers of the others stay NULL.  The fields sep_ds_..,       *)
(* sep_gss_.., pf_ms_.. and pf_ss_.. of the code are the four groups sep_ds, *)
(* sep_gss, pf_ms and pf_ss here.  Conventions as in Modules.                *)
(***************************************************************************)
EXTENDS ArrayModules

(* The objects both methods of separation have.                             *)
SepGroup(config, nSeps, nChannels, half, steer2demixing) ==
    [beampatterns_mics |-> beampatterns_obj(config.nMics, config.nThetas),
     steers |-> steers_obj(half, nSeps, nChannels), gains |-> gains_obj(nSeps, nChannels),
     masks |-> masks_obj(nSeps, nChannels), tracksPrev |-> tracks_obj(nSeps),
     tracksNow |-> tracks_obj(nSeps), track2gain |-> track2gain_obj(nSeps, nChannels),
     gain2mask |-> Struct, track2steer |-> track2steer_obj(nSeps, nChannels, half),
     steer2demixing |-> steer2demixing, demixing2freq |-> Struct,
     demixingsPrev |-> demixings_obj(half, nSeps, nChannels),
     demixingsNow |-> demixings_obj(half, nSeps, nChannels)]
SepGroup_destroy ==
    Once({"beampatterns_mics", "steers", "gains", "masks", "tracksPrev", "tracksNow", "track2gain",
          "gain2mask", "track2steer", "steer2demixing", "demixingsPrev", "demixingsNow",
          "demixing2freq"})
SepGroup_parts(g) ==
    {<<g, SepGroup_destroy>>, <<g.beampatterns_mics, beampatterns_destroy(g.beampatterns_mics)>>,
     <<g.steers, steers_destroy(g.steers)>>, <<g.track2gain, track2gain_destroy(g.track2gain)>>,
     <<g.track2steer, track2steer_destroy(g.track2steer)>>}
    \cup ArrayPart(g.gains) \cup ArrayPart(g.masks)
    \cup {<<g[f], tracks_destroy(g[f])>> : f \in {"tracksPrev", "tracksNow"}}
    \cup {<<g[f], demixings_destroy(g[f])>> : f \in {"demixingsPrev", "demixingsNow"}}

ms_ops  == {"freq2env", "demixing2env", "env2env_gainall", "freq2freq_gain"}
ms_envs == {"noisys", "noisesEst", "noisesSep", "interfs", "gainspeeches", "snrs", "vs",
            "probspeeches", "gainalls"}
pf_ms_obj(config, nSeps, half) ==
    [env2env_mcra |-> env2env_mcra_obj(nSeps, half, config.bSize),
     env2env_interf |-> env2env_interf_obj(nSeps, half),
     env2env_gainspeech |-> env2env_gainspeech_obj(nSeps, half),
     env2env_probspeech |-> env2env_probspeech_obj(nSeps, half, config.probWinSize)]
    ++ [f \in ms_ops |-> Struct] ++ [f \in ms_envs |-> envs_obj(nSeps, half)]
pf_ms_destroy ==
    Once(ms_ops \cup ms_envs \cup
         {"env2env_mcra", "env2env_interf", "env2env_gainspeech", "env2env_probspeech"})
pf_ms_parts(g) ==
    {<<g, pf_ms_destroy>>, <<g.env2env_mcra, env2env_mcra_destroy(g.env2env_mcra)>>,
     <<g.env2env_interf, env2env_interf_destroy(g.env2env_interf)>>,
     <<g.env2env_gainspeech, env2env_gainspeech_destroy(g.env2env_gainspeech)>>,
     <<g.env2env_probspeech, env2env_probspeech_destroy(g.env2env_probspeech)>>}
    \cup ArrayPart(g.env2env_gainspeech.transcendental) \cup fft_parts(g.env2env_probspeech.fft)
    \cup UNION {envs_parts(g[f]) : f \in ms_envs}

ss_ops  == {"freq2env_channels", "demixing2env", "freq2env_seps", "env2env_gainratio",
            "freq2freq_gain"}
ss_envs == {"env_channels", "env_channelseps", "env_seps", "gainratio"}
pf_ss_obj(nSeps, nChannels, half) ==
    [env_channels |-> envs_obj(nChannels, half)] ++ [f \in ss_ops |-> Struct]
    ++ [f \in ss_envs |-> envs_obj(nSeps, half)]
pf_ss_destroy  == Once(ss_ops \cup ss_envs)
pf_ss_parts(g) == {<<g, pf_ss_destroy>>} \cup UNION {envs_parts(g[f]) : f \in ss_envs}

-----------------------------------------------------------------------------

mod_sss_obj(config, tracks, spectra) ==
    LET n    == tracks.nTracks
        nCh  == spectra.nChannels
        half == spectra.halfFrameSize
    IN [nSeps |-> n, nChannels |-> nCh, halfFrameSize |-> half,
        mode_sep |-> config.mode_sep, mode_pf |-> config.mode_pf,
        sep_ds |-> IF config.mode_sep = "d"
                   THEN SepGroup(config, n, nCh, half, steer2demixing_ds_obj(n, nCh, half)) ELSE null,
        sep_gss |-> IF config.mode_sep = "g"
                    THEN SepGroup(config, n, nCh, half, steer2demixing_gss_obj(n, nCh, half)) ELSE null,
        sep_demixings |-> demixings_obj(half, n, nCh), sep_masks |-> masks_obj(n, nCh),
        pf_ms |-> IF config.mode_pf = "m" THEN pf_ms_obj(config, n, half) ELSE null,
        pf_ss |-> IF config.mode_pf = "s" THEN pf_ss_obj(n, nCh, half) ELSE null]
mod_sss_destroy(o) ==
    Once({"sep_demixings", "sep_masks"}
         \cup (IF o.mode_sep = "d" THEN {"sep_ds"} ELSE {"sep_gss"})
         \cup (IF o.mode_pf = "m" THEN {"pf_ms"} ELSE {"pf_ss"}))
cmatrices_parts(many) == EachPart(many, LAMBDA m : {<<m, cmatrix_destroy(m)>>})
steer2demixing_gss_parts(o) ==
    {<<o, steer2demixing_gss_destroy(o)>>, <<o.X, cmatrix_destroy(o.X)>>,
     <<o.XH, cmatrix_destroy(o.XH)>>}
    \cup UNION {cmatrices_parts(o[f]) : f \in GssColumns \cup GssSquares \cup GssByChannels \cup {"YH", "A"}}
mod_sss_parts(o) ==
    {<<o.sep_demixings, demixings_destroy(o.sep_demixings)>>} \cup ArrayPart(o.sep_masks)
    \cup (IF o.mode_sep = "d"
          THEN SepGroup_parts(o.sep_ds)
               \cup {<<o.sep_ds.steer2demixing, steer2demixing_ds_destroy(o.sep_ds.steer2demixing)>>}
          ELSE SepGroup_parts(o.sep_gss) \cup steer2demixing_gss_parts(o.sep_gss.steer2demixing))
    \cup (IF o.mode_pf = "m" THEN pf_ms_parts(o.pf_ms) ELSE pf_ss_parts(o.pf_ss))

-----------------------------------------------------------------------------
(* in1: spectra of the microphones, in2: powers of the noise, in3: tracks;  *)
(* out1: separated spectra, out2: post-filtered spectra.                    *)

(* The directions of the sources, weighted and turned into steering terms.  *)
SteerSources(o, g, in3) ==
    /\ tracks_copy(g.tracksPrev, g.tracksNow) /\ tracks_copy(g.tracksNow, in3)
    /\ track2gain_process(g.track2gain, g.beampatterns_mics, g.tracksNow, g.gains)
    /\ gain2mask_process(o.nSeps, o.nChannels, g.gains, g.masks)
    /\ track2steer_process(g.track2steer, g.tracksNow, g.gains, g.masks, g.steers)
    /\ demixings_copy(g.demixingsPrev, g.demixingsNow)
ApplyDemixing(o, g, in1, out1) ==
    /\ demixing2freq_process(o.nSeps, o.nChannels, o.halfFrameSize, g.tracksNow, g.demixingsNow,
                             g.masks, in1, out1)
    /\ demixings_copy(o.sep_demixings, g.demixingsNow)
    /\ \A m \in {o.sep_masks, g.masks} : Holds(m.array, 1, o.nSeps * o.nChannels)

mod_sss_process_dds(o, in1, in3, out1) ==
    LET g == o.sep_ds IN
    /\ SteerSources(o, g, in3)
    /\ steer2demixing_ds_process(g.steer2demixing, g.tracksNow, g.steers, g.masks, g.demixingsNow)
    /\ ApplyDemixing(o, g, in1, out1)

mod_sss_process_dgss(o, in1, in3, out1) ==
    LET g == o.sep_gss IN
    /\ SteerSources(o, g, in3)
    /\ steer2demixing_gss_process(g.steer2demixing, g.tracksPrev, g.tracksNow, g.steers, g.masks,
                                  in1, g.demixingsPrev, g.demixingsNow)
    /\ ApplyDemixing(o, g, in1, out1)

(* The operators behind the demixing run over the sources.                  *)
PerSource(o) == [nChannels |-> o.nSeps, halfFrameSize |-> o.halfFrameSize]

mod_sss_process_mspf(o, in2, in3, out1, out2) ==
    LET g == o.pf_ms IN
    /\ freq2env_process(o.halfFrameSize, out1, g.noisys)
    /\ demixing2env_process(o.nSeps, o.nChannels, o.halfFrameSize, in3, o.sep_demixings, o.sep_masks,
                            in2, g.noisesEst)
    /\ env2env_mcra_process(g.env2env_mcra, in3, g.noisys, g.noisesEst, g.noisesSep)
    /\ env2env_interf_process(g.env2env_interf, in3, g.noisys, g.noisesSep, g.interfs)
    /\ env2env_gainspeech_process(g.env2env_gainspeech, in3, g.noisys, g.interfs, g.gainspeeches,
                                  g.snrs, g.vs)
    /\ env2env_probspeech_process(g.env2env_probspeech, in3, g.snrs, g.vs, g.probspeeches)
    /\ env2env_gainall_process(PerSource(o), in3, g.gainspeeches, g.probspeeches, g.gainalls)
    /\ freq2freq_gain_process(o.halfFrameSize, out1, g.gainalls, out2)

mod_sss_process_sspf(o, in1, in3, out1, out2) ==
    LET g == o.pf_ss IN
    /\ freq2env_process(o.halfFrameSize, in1, g.env_channels)
    /\ demixing2env_process(o.nSeps, o.nChannels, o.halfFrameSize, in3, o.sep_demixings, o.sep_masks,
                            g.env_channels, g.env_channelseps)
    /\ freq2env_process(o.halfFrameSize, out1, g.env_seps)
    /\ env2env_gainratio_process(PerSource(o), in3, g.env_seps, g.env_channelseps, g.gainratio)
    /\ freq2freq_gain_process(o.halfFrameSize, out1, g.gainratio, out2)

mod_sss_process(o, in1, in2, in3, out1, out2) ==
    /\ IF o.mode_sep = "d" THEN mod_sss_process_dds(o, in1, in3, out1)
                           ELSE mod_sss_process_dgss(o, in1, in3, out1)
    /\ IF o.mode_pf = "m" THEN mod_sss_process_mspf(o, in2, in3, out1, out2)
                          ELSE mod_sss_process_sspf(o, in1, in3, out1, out2)

=============================================================================
