----------------------------- MODULE MCPipeline -----------------------------
(***************************************************************************)
(* Networks of odaslive small enough for TLC.  A source stands for all     *)
(* that feeds the first pool of the network.                               *)
(***************************************************************************)
EXTENDS Pipeline, OdasGraph

NoRates == <<>>

OneClock(g) == [p \in PoolsOf(g) |-> "asrc_hops_mics"]

(***************************************************************************)
(* Localization: the two branches mics_rs -> stft -> ssl -> sst and        *)
(* mics_rs -> targets -> sst, with every thread and connector on them, cut *)
(* out of the whole network.                                               *)
(***************************************************************************)
SstPools == {"mics_rs", "mics_rs.0", "mics_rs.1", "spectra", "spectra.1", "pots",
             "pots.0", "targets", "targets.0", "tracks", "tracks.2"}

SstProgram == ("asrc_hops_mics" :> asrc_hops_thread("mics_rs"))
                @@ Cut(LocalizationThreads, SstPools)
SstClock == OneClock(SstProgram)

(***************************************************************************)
(* Separation: the three branches that meet in sss, and the two that meet  *)
(* in classify.  A chain of modules and one-output connectors stands as    *)
(* its first module; all the connectors with several outputs are there.    *)
(***************************************************************************)
SssProgram ==
     "asrc_hops_mics"    :> asrc_hops_thread("spectra")
  @@ "acon_spectra_mics" :> acon_spectra_thread("spectra",
                              <<"spectra.0", "spectra.1", "spectra.2">>)
  @@ "amod_noise_mics"   :> amod_noise_thread("spectra.0", "powers")
  @@ "amod_ssl"          :> amod_ssl_thread("spectra.1", "tracks")
  @@ "acon_tracks_sst"   :> acon_tracks_thread("tracks", <<"tracks.0", "tracks.1">>)
  @@ "amod_sss"          :> amod_sss_thread("spectra.2", "powers", "tracks.0",
                                            "seps", "pfs")
  @@ "amod_classify"     :> amod_classify_thread("seps", "tracks.1", "categories")
  @@ "asnk_hops_pfs_vol" :> asnk_hops_thread("pfs")
  @@ "asnk_categories"   :> asnk_categories_thread("categories")
SssClock == OneClock(SssProgram)

(***************************************************************************)
(* Resampling: the two resamplers between the microphones and a sink of    *)
(* the separated sources, one lowering the rate and one raising it.        *)
(***************************************************************************)
ResampleProgram ==
     "asrc_hops_mics"     :> asrc_hops_thread("mics_map.0")
  @@ "amod_resample_mics" :> amod_resample_thread("mics_map.0", "mics_rs")
  @@ "amod_resample_seps" :> amod_resample_thread("mics_rs", "seps_rs")
  @@ "asnk_hops_seps_vol" :> asnk_hops_thread("seps_rs")

ResampleClock == "mics_map.0" :> "asrc_hops_mics" @@ "mics_rs" :> "amod_resample_mics"
                   @@ "seps_rs" :> "amod_resample_seps"

BothResamplers == {"amod_resample_mics", "amod_resample_seps"}

\* Down, 3 kHz to 2 kHz, and up, 2 kHz to 3 kHz, always with hops of 2 samples:
\* the first resampler skips outputs, the second one has to hold inputs back.
DownUp == "amod_resample_mics" :> [fSin |-> 3, fSout |-> 2, hopSizeIn |-> 2, hopSizeOut |-> 2]
       @@ "amod_resample_seps" :> [fSin |-> 2, fSout |-> 3, hopSizeIn |-> 2, hopSizeOut |-> 2]

\* one hop gives one hop: what odaslive.cfg asks for when all rates are equal
SameRate == [t \in BothResamplers |->
               [fSin |-> 1, fSout |-> 1, hopSizeIn |-> 2, hopSizeOut |-> 2]]
=============================================================================
