----------------------------- MODULE Construction -----------------------------
(***************************************************************************)
(* The constructor, the destructor and the process function that objects.c   *)
(* and threads.c call for each object of odaslive.  Built is what the         *)
(* constructor allocates, Parts pairs every allocation below it with what its *)
(* destructor frees, and Fits says that its process function stays inside its *)
(* own containers and those of its messages.                                  *)
(***************************************************************************)
EXTENDS Objects

(* The order of objects_construct, which objects_destroy repeats.             *)
ConstructOrder ==
    <<"src_hops_mics", "con_hops_mics_raw", "mod_mapping_mics", "con_hops_mics_map",
      "mod_resample_mics", "con_hops_mics_rs", "mod_stft_mics", "con_spectra_mics",
      "mod_noise_mics", "con_powers_mics", "mod_ssl", "snk_pots_ssl", "con_pots_ssl",
      "inj_targets_sst", "con_targets_sst", "mod_sst", "snk_tracks_sst", "con_tracks_sst",
      "mod_sss", "con_spectra_seps", "con_spectra_pfs", "mod_istft_seps", "mod_istft_pfs",
      "con_hops_seps", "con_hops_pfs", "mod_resample_seps", "mod_resample_pfs",
      "con_hops_seps_rs", "con_hops_pfs_rs", "mod_volume_seps", "mod_volume_pfs",
      "con_hops_seps_vol", "con_hops_pfs_vol", "snk_hops_seps_vol", "snk_hops_pfs_vol",
      "mod_classify", "con_categories", "snk_categories">>
DestroyOrder == ConstructOrder

-----------------------------------------------------------------------------
(* Constructors.                                                             *)
Config(con, c) == MessageConfig(con, c)
Built(name, c) ==
    LET in(i)  == Config(In(name, i), c)
        out(i) == Config(Out(name, i), c)
    IN CASE name \in DOMAIN Connectors -> ConnectorOf(name, c)
         [] name = "src_hops_mics"     -> src_hops_obj(src_hops_mics_config(c), out(1))
         [] name = "mod_mapping_mics"  -> mod_mapping_obj(mod_mapping_mics_config(c).links, out(1))
         [] name \in Resamplers        -> mod_resample_obj(ResampleConfig(name, c), in(1), out(1))
         [] name = "mod_stft_mics"     -> mod_stft_obj(in(1), out(1))
         [] name = "mod_noise_mics"    -> mod_noise_obj(mod_noise_mics_config(c), in(1), out(1))
         [] name = "mod_ssl"           -> mod_ssl_obj(mod_ssl_config(c), in(1), out(1))
         [] name = "inj_targets_sst"   -> inj_targets_obj(c.sst.nTargets)
         [] name = "mod_sst"           -> mod_sst_obj(mod_sst_config(c), in(1), in(2), out(1))
         [] name = "mod_sss"           -> mod_sss_obj(mod_sss_config(c), in(3), in(1))
         [] name \in {"mod_istft_seps", "mod_istft_pfs"}   -> mod_istft_obj(in(1), out(1))
         [] name \in {"mod_volume_seps", "mod_volume_pfs"} -> mod_volume_obj(out(1))
         [] name = "mod_classify"      -> mod_classify_obj(mod_classify_config(c), in(1), in(2))
         [] name \in {"snk_hops_seps_vol", "snk_hops_pfs_vol"} -> snk_hops_obj(in(1))
         [] name \in {"snk_pots_ssl", "snk_tracks_sst", "snk_categories"} -> snk_text_obj

-----------------------------------------------------------------------------
(* Destructors.  The object and everything below it.                         *)
Parts(name, o) ==
    CASE name \in DOMAIN Connectors    ->
             {<<o, Connector_destroy(o)>>}
             \cup UNION {MessageParts(name, m) : m \in Connector_messages(o)}
      [] name = "src_hops_mics"        -> {<<o, src_hops_destroy>>}
      [] name = "mod_mapping_mics"     -> {<<o, mod_mapping_destroy(o)>>} \cup mod_mapping_parts(o)
      [] name \in Resamplers           -> {<<o, mod_resample_destroy(o)>>} \cup mod_resample_parts(o)
      [] name = "mod_stft_mics"        -> {<<o, mod_stft_destroy(o)>>} \cup mod_stft_parts(o)
      [] name = "mod_noise_mics"       -> {<<o, mod_noise_destroy(o)>>} \cup mod_noise_parts(o)
      [] name = "mod_ssl"              -> {<<o, mod_ssl_destroy(o)>>} \cup mod_ssl_parts(o)
      [] name = "inj_targets_sst"      -> inj_targets_parts(o)
      [] name = "mod_sst"              -> {<<o, mod_sst_destroy(o)>>} \cup mod_sst_parts(o)
      [] name = "mod_sss"              -> {<<o, mod_sss_destroy(o)>>} \cup mod_sss_parts(o)
      [] name \in {"mod_istft_seps", "mod_istft_pfs"} ->
             {<<o, mod_istft_destroy(o)>>} \cup mod_istft_parts(o)
      [] name \in {"mod_volume_seps", "mod_volume_pfs"} -> {<<o, mod_volume_destroy(o)>>}
      [] name = "mod_classify"         -> {<<o, mod_classify_destroy(o)>>} \cup mod_classify_parts(o)
      [] name \in Sinks                -> {<<o, snk_destroy>>}

(* aobjects_construct: the same objects, each with a thread, and pools of     *)
(* nMessages messages around the connectors.                                 *)
AsyncParts(name, o, c, nMessages) ==
    IF name \in DOMAIN Connectors
    THEN LET threaded == AConnectorOf(name, c, nMessages)
         IN AConnector_parts(threaded)
            \cup UNION {MessageParts(name, m) : m \in AConnector_messages(threaded)}
    ELSE Threaded_parts(Threaded(o))

(* configs.c: one record for each object, destroyed by its X_cfg_destroy.      *)
configs_obj     == [name \in DOMAIN Links \cup DOMAIN Connectors |-> Struct]
ConfigsDestroyed ==
    Once({"src_hops_mics", "con_hops_mics_raw", "mod_mapping_mics", "con_hops_mics_map",
          "mod_resample_mics", "con_hops_mics_rs", "mod_stft_mics", "con_spectra_mics",
          "mod_noise_mics", "con_powers_mics", "mod_ssl", "con_pots_ssl", "snk_pots_ssl",
          "inj_targets_sst", "con_targets_sst", "mod_sst", "con_tracks_sst", "snk_tracks_sst",
          "mod_sss", "con_spectra_seps", "con_spectra_pfs", "mod_istft_seps", "mod_istft_pfs",
          "con_hops_seps", "con_hops_pfs", "mod_resample_seps", "mod_resample_pfs",
          "con_hops_seps_rs", "con_hops_pfs_rs", "mod_volume_seps", "mod_volume_pfs",
          "con_hops_seps_vol", "con_hops_pfs_vol", "snk_hops_seps_vol", "snk_hops_pfs_vol",
          "mod_classify", "con_categories", "snk_categories"})

(* What the record of an object owns, and X_cfg_destroy frees.  The messages,  *)
(* the resamplers, the transforms, the noise, the volumes and the classifier  *)
(* own nothing.  An interface stands for itself and its name.                 *)
mics_destroy           == Once({"mu", "sigma2", "direction", "thetaAllPass", "thetaNoPass"})
spatialfilters_destroy == Once({"direction", "thetaAllPass", "thetaNoPass"})
EndpointOwns(e) == [format |-> Rows(e.formats, 1), interface |-> Struct]
SslOwns(c) ==
    [mics |-> mics_obj(c.general.nMics), samplerate |-> Struct, soundspeed |-> Struct,
     spatialfilters |-> spatialfilters_obj(c.general.nFilters),
     levels |-> Flat(Len(c.ssl.levels)), deltas |-> Flat(Len(c.ssl.levels))]
SstOwns(c) ==
    [active_gmm |-> gaussians_1d_obj(c.sst.active), inactive_gmm |-> gaussians_1d_obj(c.sst.inactive),
     N_inactive |-> Flat(c.sst.nTracks)]
SssOwns(c) == [mics |-> mics_obj(c.general.nMics), samplerate |-> Struct, soundspeed |-> Struct]
ConfigParts(name, c) ==
    CASE name \in Endpoints ->
             {<<EndpointOwns(EndpointConfig(name, c)), Once({"format", "interface"})>>}
      [] name = "mod_mapping_mics" ->
             LET o == mod_mapping_mics_config(c) IN {<<o, Once({"links"})>>} \cup ArrayPart(o.links)
      [] name = "mod_ssl" ->
             LET o == SslOwns(c)
             IN {<<o, Once({"mics", "samplerate", "soundspeed", "spatialfilters", "levels", "deltas"})>>,
                 <<o.mics, mics_destroy>>, <<o.spatialfilters, spatialfilters_destroy>>}
      [] name = "mod_sst" ->
             LET o == SstOwns(c)
             IN {<<o, Once({"active_gmm", "inactive_gmm", "N_inactive"})>>,
                 <<o.active_gmm, gaussians_1d_destroy(o.active_gmm)>>,
                 <<o.inactive_gmm, gaussians_1d_destroy(o.inactive_gmm)>>}
      [] name = "mod_sss" ->
             LET o == SssOwns(c)
             IN {<<o, Once({"mics", "samplerate", "soundspeed"})>>, <<o.mics, mics_destroy>>}
      [] name = "inj_targets_sst" ->
             LET o == inj_targets_sst_config(c)
             IN {<<o, Once({"targets"})>>, <<o.targets, targets_destroy(o.targets)>>}
      [] OTHER -> {}

-----------------------------------------------------------------------------
(* Process functions.                                                        *)
Fits(name, o, c) ==
    LET in(i)  == Data(In(name, i), c)
        out(i) == Data(Out(name, i), c)
    IN CASE name \in DOMAIN Connectors ->
                \A copy \in Connector_process(o) : MessageCopy(name, copy[1], copy[2])
         [] name = "src_hops_mics"   ->
                LET e == src_hops_mics_config(c) msg == msg_hops_mics_raw_config(c)
                IN /\ src_hops_process(o, e, out(1))
                   /\ e.interface = "uac_in" => src_pcm_write_buffer(src_pcm_obj(e, msg), e, msg)
         [] name = "mod_mapping_mics" -> mod_mapping_process(o, in(1), out(1))
         [] name \in Resamplers ->
                mod_resample_process_push(o, in(1)) /\ mod_resample_process_pop(o, out(1))
         [] name = "mod_stft_mics"   -> mod_stft_process(o, in(1), out(1))
         [] name = "mod_noise_mics"  -> mod_noise_process(o, in(1), out(1))
         [] name = "mod_ssl"         -> mod_ssl_process(o, in(1), out(1))
         [] name = "inj_targets_sst" -> inj_targets_process(o, out(1))
         [] name = "mod_sst"         -> mod_sst_process(o, in(1), in(2), out(1))
         [] name = "mod_sss"         -> mod_sss_process(o, in(1), in(2), in(3), out(1), out(2))
         [] name \in {"mod_istft_seps", "mod_istft_pfs"}   -> mod_istft_process(o, in(1), out(1))
         [] name \in {"mod_volume_seps", "mod_volume_pfs"} -> mod_volume_process(o, in(1), out(1))
         [] name = "mod_classify"    -> mod_classify_process(o, in(1), in(2), out(1))
         [] name = "snk_pots_ssl" ->
                snk_pots_process(o, snk_pots_ssl_config(c), c.ssl.nPots, in(1))
         [] name = "snk_tracks_sst" ->
                snk_tracks_process(o, snk_tracks_sst_config(c), c.sst.nTracks, c.sst.tag, in(1))
         [] name \in {"snk_hops_seps_vol", "snk_hops_pfs_vol"} ->
                snk_hops_process(o, EndpointConfig(name, c), in(1))
         [] name = "snk_categories" ->
                snk_categories_process(o, snk_categories_config(c), c.sst.nTracks, in(1))

=============================================================================
