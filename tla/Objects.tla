------------------------------- MODULE Objects -------------------------------
(***************************************************************************)
(* demo/odaslive/objects.c: the objects of the program, which configuration  *)
(* each one is built from, how they are connected and which modules are       *)
(* enabled.  Objects keep the names of the fields of objs, without _object.   *)
(***************************************************************************)
EXTENDS Endpoints

(* connector -> the kind of its messages and its number of outputs          *)
Connectors ==
    [con_hops_mics_raw    |-> <<"hops", 1>>,    con_hops_mics_map |-> <<"hops", 1>>,
     con_hops_mics_rs     |-> <<"hops", 2>>,    con_spectra_mics  |-> <<"spectra", 3>>,
     con_powers_mics      |-> <<"powers", 1>>,  con_pots_ssl      |-> <<"pots", 2>>,
     con_targets_sst      |-> <<"targets", 1>>, con_tracks_sst    |-> <<"tracks", 3>>,
     con_spectra_seps     |-> <<"spectra", 1>>, con_spectra_pfs   |-> <<"spectra", 1>>,
     con_hops_seps        |-> <<"hops", 2>>,    con_hops_pfs      |-> <<"hops", 1>>,
     con_hops_seps_rs     |-> <<"hops", 1>>,    con_hops_pfs_rs   |-> <<"hops", 1>>,
     con_hops_seps_vol    |-> <<"hops", 1>>,    con_hops_pfs_vol  |-> <<"hops", 1>>,
     con_categories       |-> <<"categories", 1>>]
Kind(con) == Connectors[con][1]
MessageConfig(con, c) ==
    CASE con = "con_hops_mics_raw" -> msg_hops_mics_raw_config(c)
      [] con = "con_hops_mics_map" -> msg_hops_mics_map_config(c)
      [] con = "con_hops_mics_rs"  -> msg_hops_mics_rs_config(c)
      [] con = "con_spectra_mics"  -> msg_spectra_mics_config(c)
      [] con = "con_powers_mics"   -> msg_powers_mics_config(c)
      [] con = "con_pots_ssl"      -> msg_pots_ssl_config(c)
      [] con = "con_targets_sst"   -> msg_targets_sst_config(c)
      [] con = "con_tracks_sst"    -> msg_tracks_sst_config(c)
      [] con = "con_spectra_seps"  -> msg_spectra_seps_config(c)
      [] con = "con_spectra_pfs"   -> msg_spectra_pfs_config(c)
      [] con = "con_hops_seps"     -> msg_hops_seps_config(c)
      [] con = "con_hops_pfs"      -> msg_hops_pfs_config(c)
      [] con = "con_hops_seps_rs"  -> msg_hops_seps_rs_config(c)
      [] con = "con_hops_pfs_rs"   -> msg_hops_pfs_rs_config(c)
      [] con = "con_hops_seps_vol" -> msg_hops_seps_vol_config(c)
      [] con = "con_hops_pfs_vol"  -> msg_hops_pfs_vol_config(c)
      [] con = "con_categories"    -> msg_categories_config(c)
MessageParts(con, o) ==
    CASE Kind(con) = "hops"       -> msg_hops_parts(o)
      [] Kind(con) = "spectra"    -> msg_spectra_parts(o)
      [] Kind(con) = "powers"     -> msg_powers_parts(o)
      [] Kind(con) = "pots"       -> msg_pots_parts(o)
      [] Kind(con) = "targets"    -> msg_targets_parts(o)
      [] Kind(con) = "tracks"     -> msg_tracks_parts(o)
      [] Kind(con) = "categories" -> msg_categories_parts(o)
MessageCopy(con, dest, src) ==
    CASE Kind(con) = "hops"       -> hops_copy(dest, src)
      [] Kind(con) = "spectra"    -> freqs_copy(dest, src)
      [] Kind(con) = "powers"     -> envs_copy(dest, src)
      [] Kind(con) = "pots"       -> pots_copy(dest, src)
      [] Kind(con) = "targets"    -> targets_copy(dest, src)
      [] Kind(con) = "tracks"     -> tracks_copy(dest, src)
      [] Kind(con) = "categories" -> categories_copy(dest, src)
ConnectorOf(con, c) ==
    LET nOuts  == Connectors[con][2]
        config == MessageConfig(con, c)
    IN CASE Kind(con) = "hops"       -> con_hops_obj(nOuts, config)
         [] Kind(con) = "spectra"    -> con_spectra_obj(nOuts, config)
         [] Kind(con) = "powers"     -> con_powers_obj(nOuts, config)
         [] Kind(con) = "pots"       -> con_pots_obj(nOuts, config)
         [] Kind(con) = "targets"    -> con_targets_obj(nOuts, config)
         [] Kind(con) = "tracks"     -> con_tracks_obj(nOuts, config)
         [] Kind(con) = "categories" -> con_categories_obj(nOuts, config)
AConnectorOf(con, c, nMessages) ==
    LET nOuts  == Connectors[con][2]
        config == MessageConfig(con, c)
    IN CASE Kind(con) = "hops"       -> acon_hops_obj(nOuts, nMessages, config)
         [] Kind(con) = "spectra"    -> acon_spectra_obj(nOuts, nMessages, config)
         [] Kind(con) = "powers"     -> acon_powers_obj(nOuts, nMessages, config)
         [] Kind(con) = "pots"       -> acon_pots_obj(nOuts, nMessages, config)
         [] Kind(con) = "targets"    -> acon_targets_obj(nOuts, nMessages, config)
         [] Kind(con) = "tracks"     -> acon_tracks_obj(nOuts, nMessages, config)
         [] Kind(con) = "categories" -> acon_categories_obj(nOuts, nMessages, config)
Data(con, c) == ConnectorOf(con, c).in.data

-----------------------------------------------------------------------------
(* The two X_connect calls of every object: its inputs and its outputs.      *)
Link(ins, outs) == [ins |-> ins, outs |-> outs]
Links ==
    [src_hops_mics      |-> Link(<<>>, <<"con_hops_mics_raw">>),
     mod_mapping_mics   |-> Link(<<"con_hops_mics_raw">>, <<"con_hops_mics_map">>),
     mod_resample_mics  |-> Link(<<"con_hops_mics_map">>, <<"con_hops_mics_rs">>),
     mod_stft_mics      |-> Link(<<"con_hops_mics_rs">>, <<"con_spectra_mics">>),
     mod_noise_mics     |-> Link(<<"con_spectra_mics">>, <<"con_powers_mics">>),
     mod_ssl            |-> Link(<<"con_spectra_mics">>, <<"con_pots_ssl">>),
     snk_pots_ssl       |-> Link(<<"con_pots_ssl">>, <<>>),
     inj_targets_sst    |-> Link(<<"con_hops_mics_rs">>, <<"con_targets_sst">>),
     mod_sst            |-> Link(<<"con_pots_ssl", "con_targets_sst">>, <<"con_tracks_sst">>),
     snk_tracks_sst     |-> Link(<<"con_tracks_sst">>, <<>>),
     mod_sss            |-> Link(<<"con_spectra_mics", "con_powers_mics", "con_tracks_sst">>,
                                 <<"con_spectra_seps", "con_spectra_pfs">>),
     mod_istft_seps     |-> Link(<<"con_spectra_seps">>, <<"con_hops_seps">>),
     mod_istft_pfs      |-> Link(<<"con_spectra_pfs">>, <<"con_hops_pfs">>),
     mod_resample_seps  |-> Link(<<"con_hops_seps">>, <<"con_hops_seps_rs">>),
     mod_resample_pfs   |-> Link(<<"con_hops_pfs">>, <<"con_hops_pfs_rs">>),
     mod_volume_seps    |-> Link(<<"con_hops_seps_rs">>, <<"con_hops_seps_vol">>),
     mod_volume_pfs     |-> Link(<<"con_hops_pfs_rs">>, <<"con_hops_pfs_vol">>),
     snk_hops_seps_vol  |-> Link(<<"con_hops_seps_vol">>, <<>>),
     snk_hops_pfs_vol   |-> Link(<<"con_hops_pfs_vol">>, <<>>),
     mod_classify       |-> Link(<<"con_hops_seps", "con_tracks_sst">>, <<"con_categories">>),
     snk_categories     |-> Link(<<"con_categories">>, <<>>)]
In(name, i)  == Links[name].ins[i]
Out(name, i) == Links[name].outs[i]

Resamplers == {"mod_resample_mics", "mod_resample_seps", "mod_resample_pfs"}
Sinks == {"snk_pots_ssl", "snk_tracks_sst", "snk_hops_seps_vol", "snk_hops_pfs_vol",
          "snk_categories"}
Endpoints == Sinks \cup {"src_hops_mics"}

EndpointConfig(name, c) ==
    CASE name = "src_hops_mics"     -> src_hops_mics_config(c)
      [] name = "snk_pots_ssl"      -> snk_pots_ssl_config(c)
      [] name = "snk_tracks_sst"    -> snk_tracks_sst_config(c)
      [] name = "snk_hops_seps_vol" -> snk_hops_seps_vol_config(c)
      [] name = "snk_hops_pfs_vol"  -> snk_hops_pfs_vol_config(c)
      [] name = "snk_categories"    -> snk_categories_config(c)
EndpointCases(name) ==
    CASE name = "src_hops_mics"  -> src_hops_cases
      [] name = "snk_pots_ssl"   -> snk_pots_cases
      [] name = "snk_tracks_sst" -> snk_tracks_cases
      [] name \in {"snk_hops_seps_vol", "snk_hops_pfs_vol"} -> snk_hops_cases
      [] name = "snk_categories" -> snk_categories_cases
EndpointAccepts(name, e) ==
    CASE name = "src_hops_mics"  -> src_hops_accepts(e)
      [] name = "snk_pots_ssl"   -> snk_pots_accepts(e)
      [] name = "snk_tracks_sst" -> snk_tracks_accepts(e)
      [] name \in {"snk_hops_seps_vol", "snk_hops_pfs_vol"} -> snk_hops_accepts(e)
      [] name = "snk_categories" -> snk_categories_accepts(e)

ResampleConfig(name, c) ==
    CASE name = "mod_resample_mics" -> mod_resample_mics_config(c)
      [] name = "mod_resample_seps" -> mod_resample_seps_config(c)
      [] name = "mod_resample_pfs"  -> mod_resample_pfs_config(c)

-----------------------------------------------------------------------------
(* What parameters.c and the constructors refuse.  The modules of the        *)
(* configuration whose function may return nothing, and the method of         *)
(* separation that only the constructor checks.                              *)
configs_construct(c) ==
    /\ \A name \in Endpoints : EndpointConfig(name, c) # null
    /\ mod_resample_mics_config(c) # null
    /\ mod_sst_config(c) # null /\ mod_sss_config(c) # null
Refused(name, c) ==
    \/ name \in Endpoints /\ ~EndpointAccepts(name, EndpointConfig(name, c))
    \/ name = "mod_sss" /\ mod_sss_config(c).mode_sep = "m"

(* A sink that is not a black hole wants the modules above it.               *)
Wants(name, c) == EndpointConfig(name, c).interface # "blackhole"
\* Mutant: the separation is enabled without its estimate of the noise.
Enabled_NoNoise(c) ==
    {"mod_mapping_mics", "mod_resample_mics", "mod_stft_mics"}
    \cup (IF Wants("snk_pots_ssl", c) THEN {"mod_ssl"} ELSE {})
    \cup (IF Wants("snk_tracks_sst", c) THEN {"mod_ssl", "mod_sst"} ELSE {})
    \cup (IF Wants("snk_hops_seps_vol", c)
          THEN {"mod_ssl", "mod_sst", "mod_sss", "mod_istft_seps",
                "mod_resample_seps", "mod_volume_seps"} ELSE {})
    \cup (IF Wants("snk_hops_pfs_vol", c)
          THEN {"mod_ssl", "mod_sst", "mod_sss", "mod_istft_pfs",
                "mod_resample_pfs", "mod_volume_pfs"} ELSE {})
    \cup (IF Wants("snk_categories", c)
          THEN {"mod_ssl", "mod_sst", "mod_sss", "mod_istft_seps",
                "mod_classify"} ELSE {})

Enabled(c) ==
    {"mod_mapping_mics", "mod_resample_mics", "mod_stft_mics"}
    \cup (IF Wants("snk_pots_ssl", c) THEN {"mod_ssl"} ELSE {})
    \cup (IF Wants("snk_tracks_sst", c) THEN {"mod_ssl", "mod_sst"} ELSE {})
    \cup (IF Wants("snk_hops_seps_vol", c)
          THEN {"mod_ssl", "mod_sst", "mod_noise_mics", "mod_sss", "mod_istft_seps",
                "mod_resample_seps", "mod_volume_seps"} ELSE {})
    \cup (IF Wants("snk_hops_pfs_vol", c)
          THEN {"mod_ssl", "mod_sst", "mod_noise_mics", "mod_sss", "mod_istft_pfs",
                "mod_resample_pfs", "mod_volume_pfs"} ELSE {})
    \cup (IF Wants("snk_categories", c)
          THEN {"mod_ssl", "mod_sst", "mod_noise_mics", "mod_sss", "mod_istft_seps",
                "mod_classify"} ELSE {})

=============================================================================
