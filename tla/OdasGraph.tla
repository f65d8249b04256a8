----------------------------- MODULE OdasGraph ------------------------------
(***************************************************************************)
(* The network that demo/odaslive/objects.c (aobjects_construct) builds:   *)
(* one program per thread that threads_multiple_start starts.  The pools   *)
(* are named after the connector that owns them: "tracks" for its input    *)
(* (obj->in), "tracks.0", "tracks.1", ... for obj->outs[0], obj->outs[1].  *)
(***************************************************************************)
EXTENDS ThreadPrograms, TLC

\* Lines "Raw" to "Resample" of the connections
RawThreads ==
     "asrc_hops_mics"     :> asrc_hops_thread("mics_raw")
  @@ "acon_hops_mics_raw" :> acon_hops_thread("mics_raw", <<"mics_raw.0">>)
  @@ "amod_mapping_mics"  :> amod_mapping_thread("mics_raw.0", "mics_map")
  @@ "acon_hops_mics_map" :> acon_hops_thread("mics_map", <<"mics_map.0">>)
  @@ "amod_resample_mics" :> amod_resample_thread("mics_map.0", "mics_rs")

\* "STFT" to "SST"
LocalizationThreads ==
     "acon_hops_mics_rs"  :> acon_hops_thread("mics_rs", <<"mics_rs.0", "mics_rs.1">>)
  @@ "amod_stft_mics"     :> amod_stft_thread("mics_rs.0", "spectra")
  @@ "acon_spectra_mics"  :> acon_spectra_thread("spectra",
                               <<"spectra.0", "spectra.1", "spectra.2">>)
  @@ "amod_noise_mics"    :> amod_noise_thread("spectra.0", "powers")
  @@ "acon_powers_mics"   :> acon_powers_thread("powers", <<"powers.0">>)
  @@ "amod_ssl"           :> amod_ssl_thread("spectra.1", "pots")
  @@ "acon_pots_ssl"      :> acon_pots_thread("pots", <<"pots.0", "pots.1">>)
  @@ "asnk_pots_ssl"      :> asnk_pots_thread("pots.1")
  @@ "ainj_targets_sst"   :> ainj_targets_thread("mics_rs.1", "targets")
  @@ "acon_targets_sst"   :> acon_targets_thread("targets", <<"targets.0">>)
  @@ "amod_sst"           :> amod_sst_thread("pots.0", "targets.0", "tracks")
  @@ "acon_tracks_sst"    :> acon_tracks_thread("tracks",
                               <<"tracks.0", "tracks.1", "tracks.2">>)
  @@ "asnk_tracks_sst"    :> asnk_tracks_thread("tracks.2")

\* "SSS" to "Classify"
SeparationThreads ==
     "amod_sss"            :> amod_sss_thread("spectra.2", "powers.0", "tracks.0",
                                              "spectra_seps", "spectra_pfs")
  @@ "acon_spectra_seps"   :> acon_spectra_thread("spectra_seps", <<"spectra_seps.0">>)
  @@ "acon_spectra_pfs"    :> acon_spectra_thread("spectra_pfs", <<"spectra_pfs.0">>)
  @@ "amod_istft_seps"     :> amod_istft_thread("spectra_seps.0", "seps")
  @@ "amod_istft_pfs"      :> amod_istft_thread("spectra_pfs.0", "pfs")
  @@ "acon_hops_seps"      :> acon_hops_thread("seps", <<"seps.0", "seps.1">>)
  @@ "acon_hops_pfs"       :> acon_hops_thread("pfs", <<"pfs.0">>)
  @@ "amod_resample_seps"  :> amod_resample_thread("seps.0", "seps_rs")
  @@ "amod_resample_pfs"   :> amod_resample_thread("pfs.0", "pfs_rs")
  @@ "acon_hops_seps_rs"   :> acon_hops_thread("seps_rs", <<"seps_rs.0">>)
  @@ "acon_hops_pfs_rs"    :> acon_hops_thread("pfs_rs", <<"pfs_rs.0">>)
  @@ "amod_volume_seps"    :> amod_volume_thread("seps_rs.0", "seps_vol")
  @@ "amod_volume_pfs"     :> amod_volume_thread("pfs_rs.0", "pfs_vol")
  @@ "acon_hops_seps_vol"  :> acon_hops_thread("seps_vol", <<"seps_vol.0">>)
  @@ "acon_hops_pfs_vol"   :> acon_hops_thread("pfs_vol", <<"pfs_vol.0">>)
  @@ "asnk_hops_seps_vol"  :> asnk_hops_thread("seps_vol.0")
  @@ "asnk_hops_pfs_vol"   :> asnk_hops_thread("pfs_vol.0")
  @@ "amod_classify"       :> amod_classify_thread("seps.1", "tracks.1", "categories")
  @@ "acon_categories"     :> acon_categories_thread("categories", <<"categories.0">>)
  @@ "asnk_categories"     :> asnk_categories_thread("categories.0")

OdasProgram == RawThreads @@ LocalizationThreads @@ SeparationThreads

(***************************************************************************)
(* Sub-networks.  Cut(g, P) keeps the operations of g on the pools of P,   *)
(* and the threads that still have one.                                    *)
(***************************************************************************)
LOCAL Touches(o, P) == o.pool \in P
KeptOps(ops, P) == LET Kept(o) == o.do \in {"process", "check"} \/ Touches(o, P)
                   IN  SelectSeq(ops, Kept)

Cut(g, P) ==
  LET kept == {t \in DOMAIN g : \E i \in DOMAIN g[t].ops : Touches(g[t].ops[i], P)}
  IN  [t \in kept |-> [g[t] EXCEPT !.ops = KeptOps(@, P)]]

PoolsOf(g) ==
  UNION {{g[t].ops[i].pool : i \in DOMAIN g[t].ops} : t \in DOMAIN g} \ {"-"}

=============================================================================
