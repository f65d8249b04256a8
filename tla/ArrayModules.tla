---------------------------- MODULE ArrayModules ----------------------------
(***************************************************************************)
(* The three large modules of src/module: localisation (mod_ssl), tracking  *)
(* (mod_sst) and separation (mod_sss), with the conventions of Modules.     *)
(***************************************************************************)
EXTENDS Modules, Sequences

-----------------------------------------------------------------------------
(* mod_ssl.  config: nMics, levels (the refinement of each level), interp   *)
(* (the interpolation rate), tau and delta (the longest delay and the       *)
(* widest tolerance, in interpolated samples).                              *)

(* space_sphere(level) has 10 * 4^level + 2 directions (init/space.c).      *)
SpherePoints(level) == 10 * (4 ^ level) + 2

(* init/scanning.c: the first level is searched from a single entry, every  *)
(* other one from the best direction of the level before; at worst all the  *)
(* directions of a level are linked to one entry.                           *)
scanning_init_scans(nPairs, levels) ==
    LET n       == [l \in 0 .. (Len(levels) - 1) |-> SpherePoints(levels[l + 1])]
        entries == [l \in DOMAIN n |-> IF l = 0 THEN 1 ELSE n[l - 1]]
    IN scans_obj(Len(levels), nPairs, n, entries, n)

mod_ssl_obj(config, spectra, pots) ==
    LET nPairs == Pairs(config.nMics)
        half   == spectra.halfFrameSize
        interp == [frameSize |-> 2 * (half - 1) * config.interp,
                   half      |-> (half - 1) * config.interp + 1]
        scans  == scanning_init_scans(nPairs, config.levels)
        n(l)   == scans.points.at[l].nPoints
    IN [nPots |-> pots.nPots, nLevels |-> Len(config.levels), halfFrameSize |-> half,
        frameSizeInterp |-> interp.frameSize, halfFrameSizeInterp |-> interp.half,
        tau |-> config.tau, delta |-> config.delta,
        scans |-> scans, phasors |-> freqs_obj(config.nMics, half),
        products |-> freqs_obj(nPairs, half), productsInterp |-> freqs_obj(nPairs, interp.half),
        freq2freq_phasor |-> Struct, freq2freq_product |-> Struct,
        freq2freq_interpolate |-> Struct,
        freq2xcorr |-> freq2xcorr_obj(interp.frameSize, interp.half),
        xcorrs |-> xcorrs_obj(nPairs, interp.frameSize),
        xcorrsMax |-> xcorrs_obj(nPairs, interp.frameSize), xcorr2xcorr |-> Struct,
        aimgs |-> Many(Len(config.levels), LAMBDA l : aimg_obj(n(l))),
        (* The array of pointers to the images has a cell per potential.    *)
        aimgsCells |-> pots.nPots,
        xcorr2aimg |-> Many(Len(config.levels), LAMBDA l : Struct),
        pots |-> pots_obj(pots.nPots)]
mod_ssl_destroy(o) ==
    Once({"scans", "freq2freq_phasor", "freq2freq_product", "freq2freq_interpolate", "phasors",
          "products", "productsInterp", "freq2xcorr", "xcorrs", "xcorrsMax", "xcorr2xcorr", "pots"})
    ++ [f \in {"aimgs", "xcorr2aimg"} |-> o.nLevels]
scans_parts(o) ==
    {<<o, scans_destroy(o)>>} \cup ArrayPart(o.pairs)
    \cup EachPart(o.points, ArrayPart) \cup EachPart(o.deltas, ArrayPart)
    \cup EachPart(o.tdoas, LAMBDA p : {<<p, tdoas_destroy(p)>>})
    \cup EachPart(o.spatialindexes, LAMBDA p : {<<p, spatialindexes_destroy(p)>>})
    \cup EachPart(o.indexes, LAMBDA p : {<<p, indexes_destroy(p)>>})
mod_ssl_parts(o) ==
    scans_parts(o.scans) \cup EachPart(o.aimgs, ArrayPart) \cup ArrayPart(o.pots)
    \cup (UNION {freqs_parts(o[f]) : f \in {"phasors", "products", "productsInterp"}})
    \cup {<<o[f], xcorrs_destroy(o[f])>> : f \in {"xcorrs", "xcorrsMax"}}
    \cup fft_parts(o.freq2xcorr.fft) \cup {<<o.freq2xcorr, freq2xcorr_destroy(o.freq2xcorr)>>}

(* The search of a level starts from the direction the level before left:   *)
(* the entry of level l is one of the coarse points of l - 1, or the one    *)
(* still there from the level before that.                                  *)
EntriesOf(o, l) ==
    IF l = 0 THEN {0} ELSE {0, o.scans.points.at[l - 1].nPoints - 1}
SearchLevel(o, l) ==
    /\ l < o.aimgsCells
    /\ xcorr2xcorr_process_max(o.tau, o.delta, o.xcorrs, o.scans.tdoas.at[l], o.scans.deltas.at[l],
                               o.scans.pairs, o.xcorrsMax)
    /\ \A entry \in EntriesOf(o, l) :
           xcorr2aimg_process(o.tau, o.scans.tdoas.at[l], o.scans.indexes.at[l],
                              o.scans.spatialindexes.at[l], entry, o.xcorrsMax, o.aimgs.at[l])
    /\ Holds(o.aimgs.at[l].array, 1, o.aimgs.at[l].aimgSize)
SearchPot(o, iPot) ==
    LET last == o.nLevels - 1
        best == o.scans.points.at[last].nPoints - 1
    IN /\ iPot > 0 => xcorr2xcorr_process_reset(o.frameSizeInterp, o.tau, o.delta,
                          o.scans.tdoas.at[last], o.scans.deltas.at[last], o.scans.pairs, best, o.xcorrs)
       /\ \A l \in 0 .. last : SearchLevel(o, l)
       /\ Holds(o.scans.points.at[last].array, 1, 3 * best + 3)
       /\ Holds(o.pots.array, 1, 4 * iPot + 4)
mod_ssl_process(o, in, out) ==
    /\ freq2freq_phasor_process(in, o.phasors)
    /\ freq2freq_product_process(o.halfFrameSize, o.phasors, o.phasors, o.scans.pairs, o.products)
    /\ freq2freq_interpolate_process(o.halfFrameSize, o.halfFrameSizeInterp, o.products,
                                     o.productsInterp)
    /\ freq2xcorr_process(o.freq2xcorr, o.productsInterp, o.scans.pairs, o.xcorrs)
    /\ \A iPot \in 0 .. (o.nPots - 1) : SearchPot(o, iPot)
    /\ Holds(out.array, 1, 4 * o.pots.nPots)

-----------------------------------------------------------------------------
(* mod_sst.  config: mode ("k" Kalman or "p" particle filters), nParticles, *)
(* active_gmm, inactive_gmm.                                               *)

PerSlot == {"ids", "idsAdded", "idsRemoved", "type", "sourceActivities", "N_inactive", "n_prob",
            "mean_prob", "n_inactive"}
kalman2kalmans == {"kalman2kalman_prob", "kalman2kalman_active", "kalman2kalman_target"}
kalman2coherences == {"kalman2coherence_prob", "kalman2coherence_active", "kalman2coherence_target"}
particle2particles == {"particle2particle_prob", "particle2particle_active", "particle2particle_target"}
particle2coherences == {"particle2coherence_prob", "particle2coherence_active", "particle2coherence_target"}
mod_sst_obj(config, pots, targets, tracks) ==
    LET n == tracks.nTracks
        m == pots.nPots
        kalman == config.mode = "k"
    IN [nPots |-> m, nTracksMax |-> n, nTargetsMax |-> targets.nTargets, mode |-> config.mode,
        mixtures   |-> Many(n + 1, LAMBDA t : mixture_obj(m, t, (t + 2) ^ m)),
        coherences |-> Many(n + 1, LAMBDA t : coherences_obj(m, t)),
        postprobs  |-> Many(n + 1, LAMBDA t : postprobs_obj(m, t)),
        tags |-> Rows(n, 256),
        mixture2mixture |-> mixture2mixture_obj(config.active_gmm, config.inactive_gmm),
        kalmans   |-> IF kalman THEN Many(n, LAMBDA t : kalman_obj) ELSE null,
        particles |-> IF kalman THEN null ELSE Many(n, LAMBDA t : particles_obj(config.nParticles))]
       ++ [f \in PerSlot |-> Flat(n)]
       ++ [f \in kalman2kalmans    |-> IF kalman THEN kalman2kalman_obj ELSE null]
       ++ [f \in kalman2coherences |-> IF kalman THEN kalman2coherence_obj ELSE null]
       ++ [f \in particle2particles |->
              IF kalman THEN null ELSE particle2particle_obj(config.nParticles)]
       ++ [f \in particle2coherences |-> IF kalman THEN null ELSE Struct]

Filters ==
    kalman2kalmans \cup kalman2coherences \cup particle2particles \cup particle2coherences
\* Mutant: the mixture of a full set of tracks is forgotten.
mod_sst_destroy_ButLast(o) ==
    [f \in {"mixtures", "coherences", "postprobs"} |-> o.nTracksMax]
    ++ Once(PerSlot \cup {"mixture2mixture"} \cup {f \in Filters : o[f] # null})
    ++ [f \in {"tags"} \cup {f \in {"kalmans", "particles"} : o[f] # null} |-> o.nTracksMax]

mod_sst_destroy(o) ==
    [f \in {"mixtures", "coherences", "postprobs"} |-> o.nTracksMax + 1]
    ++ Once(PerSlot \cup {"mixture2mixture"} \cup {f \in Filters : o[f] # null})
    ++ [f \in {"tags"} \cup {f \in {"kalmans", "particles"} : o[f] # null} |-> o.nTracksMax]
mixture_parts(o) == {<<o, mixture_destroy(o)>>} \cup ArrayPart(o.assignations)
kalman_parts(o) ==
    {<<o, kalman_destroy(o)>>} \cup UNION {ArrayPart(o[f]) : f \in DOMAIN o}
matrices_parts(o, frees) == {<<o, frees>>} \cup UNION {ArrayPart(o[f]) : f \in DOMAIN o}
random_parts(o) == {<<o, random_destroy(o)>>}
particle2particle_parts(o) ==
    {<<o, particle2particle_destroy(o)>>, <<o.normaloff, normaloff_destroy(o.normaloff)>>,
     <<o.particles, particles_destroy(o.particles)>>}
    \cup random_parts(o.rnd_ratio) \cup random_parts(o.rnd_weight)
mixture2mixture_parts(o) ==
    {<<o, mixture2mixture_destroy(o)>>, <<o.active, gaussians_1d_destroy(o.active)>>,
     <<o.inactive, gaussians_1d_destroy(o.inactive)>>}
mod_sst_parts(o) ==
    mixture2mixture_parts(o.mixture2mixture)
    \cup EachPart(o.mixtures, mixture_parts) \cup EachPart(o.coherences, ArrayPart)
    \cup EachPart(o.postprobs, LAMBDA p : {<<p, postprobs_destroy(p)>>})
    \cup (IF o.mode = "k"
          THEN EachPart(o.kalmans, kalman_parts)
               \cup (UNION {matrices_parts(o[f], kalman2kalman_destroy(o[f])) :
                               f \in kalman2kalmans})
               \cup UNION {matrices_parts(o[f], kalman2coherence_destroy(o[f])) :
                              f \in kalman2coherences}
          ELSE EachPart(o.particles, LAMBDA p : {<<p, particles_destroy(p)>>})
               \cup UNION {particle2particle_parts(o[f]) : f \in particle2particles})

(* A source in slot s, the iTrack-th of nTracks sources, with any of the    *)
(* three filters its type selects.                                          *)
Follow(o, pots, targets, s, iTrack, nTracks) ==
    LET coherences == o.coherences.at[nTracks]
        postprobs  == o.postprobs.at[nTracks]
    IN IF o.mode = "k"
       THEN /\ \A f \in kalman2kalmans :
                 /\ kalman2kalman_predict(o[f], o.kalmans.at[s])
                 /\ kalman2kalman_update(o[f], postprobs, iTrack, pots, o.kalmans.at[s])
            /\ \A f \in kalman2coherences :
                 kalman2coherence_process(o[f], o.kalmans.at[s], pots, iTrack, coherences)
            /\ \A i \in 0 .. (o.nPots - 1) : kalman2kalman_init_pots(pots, i, o.kalmans.at[s])
            /\ \A i \in 0 .. (o.nTargetsMax - 1) :
                 kalman2kalman_init_targets(targets, i, o.kalmans.at[s])
       ELSE /\ \A f \in particle2particles :
                 /\ particle2particle_predict(o[f], o.particles.at[s])
                 /\ particle2particle_update(o[f], postprobs, iTrack, pots, o.particles.at[s])
            /\ particle2coherence_process(o.particles.at[s], pots, iTrack, coherences)
            /\ \A i \in 0 .. (o.nPots - 1) :
                 particle2particle_init_pots(o.particle2particle_prob, pots, i, o.particles.at[s])
            /\ \A i \in 0 .. (o.nTargetsMax - 1) :
                 particle2particle_init_targets(o.particle2particle_prob, targets, i, o.particles.at[s])

(* For every number of sources and every slot they may sit in.              *)
mod_sst_process(o, pots, targets, out) ==
    /\ Holds(targets.tags, o.nTargetsMax, 1)
    /\ \A nTracks \in 0 .. o.nTracksMax :
         /\ mixture2mixture_process(o.mixtures.at[nTracks], pots, o.coherences.at[nTracks],
                                    o.postprobs.at[nTracks])
         /\ Holds(o.postprobs.at[nTracks].arrayNew, 1, o.nPots)
         /\ \A s \in 0 .. (o.nTracksMax - 1), iTrack \in 0 .. (nTracks - 1) :
              iTrack <= s => Follow(o, pots, targets, s, iTrack, nTracks)
    /\ Holds(out.array, 1, 3 * out.nTracks) /\ Holds(out.array, 1, 3 * o.nTracksMax)
    /\ \A f \in {"ids", "activity"} : Holds(out[f], 1, out.nTracks) /\ Holds(out[f], 1, o.nTracksMax)
    /\ Holds(out.tags, o.nTracksMax, 256)

=============================================================================
