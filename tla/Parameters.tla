----------------------------- MODULE Parameters -----------------------------
(***************************************************************************)
(* demo/odaslive/parameters.c: from the configuration file c to the          *)
(* configurations of the modules, messages, sources and sinks.  c is a       *)
(* record of the groups of the file; only the keys that set a size, choose a *)
(* method, a format or an interface are kept, the tuning values are left out. *)
(*                                                                         *)
(* X_config(c) is what parameters_X_config returns; it is null where the     *)
(* function prints a message and leaves the process.                         *)
(***************************************************************************)
EXTENDS Messages

-----------------------------------------------------------------------------
(* general/format.c, general/interface.c: only the types matter.            *)
format_construct_binary_int(nBits) ==
    CASE nBits = 8  -> "binary_int08" [] nBits = 16 -> "binary_int16"
      [] nBits = 24 -> "binary_int24" [] nBits = 32 -> "binary_int32"
BinaryInts == {format_construct_binary_int(n) : n \in {8, 16, 24, 32}}

interface_construct(name) ==
    CASE name = "soundcard_name" -> "soundcard" [] name = "uacin"  -> "uac_in"
      [] name = "uacout"         -> "uac_out"   [] OTHER           -> name

format_named(name) ==
    CASE name = "json" -> "text_json" [] name = "binary" -> "binary_float" [] OTHER -> name

(* An endpoint has one format and one interface; formats counts the format   *)
(* objects made on the way to it.  First, one named in the file.            *)
Endpoint(f, i) == [format |-> f, interface |-> interface_construct(i), formats |-> 1]
Named(group, formats, interfaces) ==
    IF group.format \in formats /\ group.interface \in interfaces
    THEN Endpoint(format_named(group.format), group.interface) ELSE null
(* An endpoint of samples: nBits gives the format.  A black hole then gets    *)
(* another one in its place, and the first is lost.                         *)
Sampled(group, interfaces) ==
    IF group.nBits \in {8, 16, 24, 32} /\ group.interface \in interfaces
    THEN IF group.interface = "blackhole"
         THEN [Endpoint("undefined", "blackhole") EXCEPT !.formats = 2]
         ELSE Endpoint(format_construct_binary_int(group.nBits), group.interface)
    ELSE null

-----------------------------------------------------------------------------
(* Messages.                                                                *)
HopsConfig(rate, nChannels) ==
    [fS |-> rate.fS, hopSize |-> rate.hopSize, nChannels |-> nChannels]
SpectraConfig(c, nChannels) ==
    [fS |-> c.general.fS, halfFrameSize |-> (c.general.frameSize \div 2) + 1,
     nChannels |-> nChannels]

msg_hops_mics_raw_config(c) == HopsConfig(c.raw, c.raw.nChannels)
msg_hops_mics_map_config(c) == HopsConfig(c.raw, Len(c.map))
msg_hops_mics_rs_config(c)  == HopsConfig(c.general, Len(c.map))
msg_spectra_mics_config(c)  == SpectraConfig(c, Len(c.map))
msg_powers_mics_config(c)   == SpectraConfig(c, Len(c.map))
msg_pots_ssl_config(c)      == [nPots |-> c.ssl.nPots, fS |-> c.general.fS]
msg_targets_sst_config(c)   == [nTargets |-> c.sst.nTargets, fS |-> c.general.fS]
msg_tracks_sst_config(c)    == [nTracks |-> c.sst.nTracks, fS |-> c.general.fS]
msg_spectra_seps_config(c)  == SpectraConfig(c, c.sst.nTracks)
msg_spectra_pfs_config(c)   == SpectraConfig(c, c.sst.nTracks)
msg_hops_seps_config(c)     == HopsConfig(c.general, c.sst.nTracks)
msg_hops_pfs_config(c)      == HopsConfig(c.general, c.sst.nTracks)
msg_hops_seps_rs_config(c)  == HopsConfig(c.sep, c.sst.nTracks)
msg_hops_pfs_rs_config(c)   == HopsConfig(c.pf, c.sst.nTracks)
msg_hops_seps_vol_config(c) == HopsConfig(c.sep, c.sst.nTracks)
msg_hops_pfs_vol_config(c)  == HopsConfig(c.pf, c.sst.nTracks)
msg_categories_config(c)    == [nChannels |-> c.sst.nTracks, fS |-> c.general.fS]

-----------------------------------------------------------------------------
(* The source and the sinks.                                                *)
src_hops_mics_config(c) ==
    IF c.raw.interface = "blackhole" THEN null
    ELSE Sampled(c.raw, {"file", "socket", "soundcard", "soundcard_name", "uacin"})
snk_pots_ssl_config(c) ==
    Named(c.ssl, {"json", "binary", "undefined"}, {"blackhole", "file", "socket", "terminal"})
snk_tracks_sst_config(c) ==
    Named(c.sst, {"json", "binary", "undefined"}, {"blackhole", "file", "socket", "terminal"})
snk_hops_seps_vol_config(c) ==
    Sampled(c.sep, {"blackhole", "file", "socket", "terminal", "uacout"})
snk_hops_pfs_vol_config(c) ==
    Sampled(c.pf, {"blackhole", "file", "socket", "terminal"})
snk_categories_config(c) ==
    Named(c.classify, {"json", "undefined"}, {"blackhole", "file", "socket", "terminal"})

-----------------------------------------------------------------------------
(* Modules and injector: a record of what the constructor reads, and the     *)
(* objects of its own that X_cfg_destroy frees.                              *)
mod_mapping_mics_config(c) == [links |-> links_obj(Len(c.map), c.map)]

(* The microphones may only be resampled to a lower rate.                   *)
mod_resample_mics_config(c) ==
    IF c.raw.fS < c.general.fS THEN null ELSE [in |-> c.raw.fS, out |-> c.general.fS]
mod_resample_seps_config(c) == [in |-> c.general.fS, out |-> c.sep.fS]
mod_resample_pfs_config(c)  == [in |-> c.general.fS, out |-> c.pf.fS]

mod_noise_mics_config(c) == [bSize |-> c.sne.b]

mics_obj(n) == [nChannels |-> n, mu |-> Flat(3 * n), sigma2 |-> Flat(9 * n),
                direction |-> Flat(3 * n), thetaAllPass |-> Flat(n), thetaNoPass |-> Flat(n)]
spatialfilters_obj(n) == [nFilters |-> n, direction |-> Flat(3 * n),
                          thetaAllPass |-> Flat(n), thetaNoPass |-> Flat(n)]
mod_ssl_config(c) ==
    [mics |-> mics_obj(c.general.nMics), spatialfilters |-> spatialfilters_obj(c.general.nFilters),
     nMics |-> c.general.nMics, levels |-> c.ssl.levels, interp |-> c.ssl.interpRate,
     tau |-> c.ssl.tau, delta |-> c.ssl.delta]

inj_targets_sst_config(c) == [targets |-> targets_obj(c.sst.nTargets)]

(* "kalman" is 'k' and "particle" 'p'; anything else ends the process, as    *)
(* does an addition that is neither "dynamic" nor "static".                  *)
mod_sst_config(c) ==
    IF c.sst.mode \in {"kalman", "particle"} /\ c.sst.add \in {"dynamic", "static"}
    THEN [mode |-> IF c.sst.mode = "kalman" THEN "k" ELSE "p",
          nTracksMax |-> c.sst.nTracks, nParticles |-> c.sst.nParticles,
          active_gmm |-> gaussians_1d_obj(c.sst.active), inactive_gmm |-> gaussians_1d_obj(c.sst.inactive)]
    ELSE null

(* "dmvdr" is accepted here; mod_sss_construct does not know it.            *)
mod_sss_config(c) ==
    IF c.sss.mode_sep \in {"dds", "dgss", "dmvdr"} /\ c.sss.mode_pf \in {"ms", "ss"}
    THEN [mode_sep |-> CASE c.sss.mode_sep = "dds" -> "d" [] c.sss.mode_sep = "dgss" -> "g"
                         [] c.sss.mode_sep = "dmvdr" -> "m",
          mode_pf |-> IF c.sss.mode_pf = "ms" THEN "m" ELSE "s",
          mics |-> mics_obj(c.general.nMics), nMics |-> c.general.nMics,
          nThetas |-> c.general.nThetas, bSize |-> c.sne.b, probWinSize |-> c.sss.winSize]
    ELSE null

mod_classify_config(c) ==
    [frameSize |-> c.classify.frameSize, winSize |-> c.classify.winSize]

=============================================================================
