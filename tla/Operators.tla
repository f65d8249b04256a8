----------------------------- MODULE Operators -----------------------------
(***************************************************************************)
(* The signal-processing operators of src/system as the indexes they touch. *)
(*                                                                         *)
(* An operator that keeps only sizes (and tuning values) is the list of     *)
(* those sizes: X_process(sizes, containers) is TRUE when every index the   *)
(* loops of X_process produce lies inside the containers.  An operator that *)
(* allocates arrays of its own is a record like those of Signals, with      *)
(* X_destroy saying what its destructor frees.                              *)
(***************************************************************************)
EXTENDS Signals, Integers

(* utils/fft.c: transforms of one row, in and out being row lengths.       *)
fft_obj(frameSize) == [frameSize |-> frameSize, halfFrameSize |-> (frameSize \div 2) + 1,
                   realArray |-> Flat(frameSize),
                   complexArray |-> Flat(2 * ((frameSize \div 2) + 1)),
                   R2C |-> Flat(1), C2R |-> Flat(1)]
fft_destroy(o) == [realArray |-> 1, complexArray |-> 1, R2C |-> 1, C2R |-> 1]
fft_r2c(o, n, in, out) == Holds(in, n, o.frameSize) /\ Holds(out, n, 2 * o.halfFrameSize)
fft_c2r(o, n, in, out) == Holds(in, n, 2 * o.halfFrameSize) /\ Holds(out, n, o.frameSize)

-----------------------------------------------------------------------------
(* Time frames, spectra and back.                                          *)

hop2frame_obj(hopSize, frameSize, nSignals) ==
    [hopSize |-> hopSize, frameSize |-> frameSize, nSignals |-> nSignals,
     array |-> Rows(nSignals, frameSize)]
hop2frame_destroy(o) == [array |-> o.nSignals]
hop2frame_process(o, hops, frames) ==
    /\ o.hopSize <= o.frameSize
    /\ Holds(o.array, hops.nSignals, o.frameSize)
    /\ Holds(hops.array, hops.nSignals, o.hopSize)
    /\ Holds(frames.array, hops.nSignals, o.frameSize)

frame2hop_obj(hopSize, frameSize, nSignals) ==
    [hopSize |-> hopSize, frameSize |-> frameSize, nSignals |-> nSignals,
     array |-> Rows(nSignals, frameSize)]
frame2hop_destroy(o) == [array |-> o.nSignals]
frame2hop_process(o, frames, hops) ==
    /\ o.hopSize <= o.frameSize
    /\ Holds(frames.array, o.nSignals, o.frameSize)
    /\ Holds(hops.array, o.nSignals, o.hopSize)

frame2freq_obj(frameSize, halfFrameSize) ==
    [frameSize |-> frameSize, halfFrameSize |-> halfFrameSize,
     win |-> window_obj(frameSize), frame |-> Flat(frameSize), fft |-> fft_obj(frameSize)]
frame2freq_destroy(o) == [win |-> 1, frame |-> 1, fft |-> 1]
frame2freq_process(o, frames, freqs) ==
    /\ Holds(frames.array, frames.nSignals, o.frameSize)
    /\ Holds(o.win.array, 1, o.frameSize)
    /\ fft_r2c(o.fft, 1, o.frame, Rows(1, freqs.array.cells))
    /\ frames.nSignals <= freqs.array.rows

freq2frame_obj(frameSize, halfFrameSize) ==
    [frameSize |-> frameSize, halfFrameSize |-> halfFrameSize,
     win |-> window_obj(frameSize), frame |-> Flat(frameSize), fft |-> fft_obj(frameSize)]
freq2frame_destroy(o) == [win |-> 1, frame |-> 1, fft |-> 1]
freq2frame_process(o, freqs, frames) ==
    /\ Holds(frames.array, frames.nSignals, o.frameSize)
    /\ Holds(o.win.array, 1, o.frameSize)
    /\ fft_c2r(o.fft, 1, Rows(1, freqs.array.cells), o.frame)
    /\ frames.nSignals <= freqs.array.rows

freq2acorr_obj(nSignals, halfFrameSize) ==
    LET frameSize == (halfFrameSize - 1) * 2 IN
    [nSignals |-> nSignals, halfFrameSize |-> halfFrameSize, frameSize |-> frameSize,
     arrayIn |-> Flat(halfFrameSize * 2), arrayOut |-> Flat(frameSize),
     fft |-> fft_obj(frameSize)]
freq2acorr_destroy(o) == [arrayIn |-> 1, arrayOut |-> 1, fft |-> 1]
freq2acorr_process(o, freqs, acorrs) ==
    /\ Holds(freqs.array, o.nSignals, 2 * o.halfFrameSize)
    /\ Holds(o.arrayIn, 1, 2 * o.halfFrameSize)
    /\ fft_c2r(o.fft, 1, o.arrayIn, o.arrayOut)
    /\ Holds(o.arrayOut, 1, o.halfFrameSize)
    /\ Holds(acorrs.array, o.nSignals, o.halfFrameSize)

(* The cross-correlation, its two halves swapped.                          *)
freq2xcorr_obj(frameSize, halfFrameSize) ==
    [frameSize |-> frameSize, halfFrameSize |-> halfFrameSize,
     frame |-> Flat(halfFrameSize * 2), fft |-> fft_obj(frameSize)]
freq2xcorr_destroy(o) == [fft |-> 1, frame |-> 1]
freq2xcorr_process(o, freqs, pairs, xcorrs) ==
    /\ Holds(pairs.array, 1, freqs.nSignals)
    /\ fft_c2r(o.fft, freqs.nSignals, freqs.array, Rows(freqs.nSignals, o.frame.cells))
    /\ Holds(o.frame, 1, 2 * (o.frameSize \div 2))
    /\ Holds(xcorrs.array, freqs.nSignals, 2 * (o.frameSize \div 2))

freq2env_process(halfFrameSize, freqs, envs) ==
    /\ Holds(freqs.array, freqs.nSignals, 2 * halfFrameSize)
    /\ Holds(envs.array, freqs.nSignals, halfFrameSize)

freq2freq_phasor_process(freqs, phasors) ==
    /\ Holds(freqs.array, freqs.nSignals, 2 * freqs.halfFrameSize)
    /\ Holds(phasors.array, freqs.nSignals, 2 * freqs.halfFrameSize)

(* A product per pair of channels, in the order the two loops count them.  *)
freq2freq_product_process(halfFrameSize, freqs1, freqs2, pairs, freqs12) ==
    LET n   == freqs1.nSignals
        m   == freqs2.nSignals
        nOf == IF m <= 1 \/ n = 0 THEN 0
               ELSE IF n >= m THEN (m * (m - 1)) \div 2
               ELSE n * (m - 1) - ((n * (n - 1)) \div 2)
    IN /\ Holds(freqs1.array, n, 2 * halfFrameSize)
       /\ Holds(freqs2.array, m, 2 * halfFrameSize)
       /\ Holds(pairs.array, 1, nOf)
       /\ Holds(freqs12.array, nOf, 2 * halfFrameSize)

freq2freq_lowpass_process(lowPassCut, freqsAllPass, freqsLowPass) ==
    /\ Holds(freqsAllPass.array, freqsAllPass.nSignals, 2 * lowPassCut)
    /\ Holds(freqsLowPass.array, freqsAllPass.nSignals, 2 * lowPassCut)

freq2freq_interpolate_process(halfFrameSize, halfFrameSizeInterp, freqs, freqsInterp) ==
    /\ Holds(freqs.array, freqs.nSignals, 2 * halfFrameSize)
    /\ Holds(freqsInterp.array, freqs.nSignals, 2 * halfFrameSize)
    /\ Holds(freqsInterp.array, freqs.nSignals, 2 * halfFrameSizeInterp)

freq2freq_gain_process(halfFrameSize, freqsIn, envsIn, freqsOut) ==
    /\ Holds(freqsIn.array, freqsIn.nSignals, 2 * halfFrameSize)
    /\ Holds(envsIn.array, freqsIn.nSignals, halfFrameSize)
    /\ Holds(freqsOut.array, freqsIn.nSignals, 2 * halfFrameSize)

-----------------------------------------------------------------------------
(* Localisation.  A delay is stored shifted by half a frame: shift - tau .. *)
(* shift + tau are the values the tables tdoas, min and max may hold, and   *)
(* delta is the tolerance around one of them.                               *)

DelaysFit(cells, tau, delta) == tau + delta <= cells \div 2 /\ (cells \div 2) + tau + delta < cells

xcorr2xcorr_process_max(tau, delta, xcorrs, tdoas, deltas, pairs, xcorrsMax) ==
    /\ Holds(pairs.array, 1, xcorrs.nSignals) /\ Holds(deltas.array, 1, xcorrs.nSignals)
    /\ Holds(tdoas.min, 1, xcorrs.nSignals)   /\ Holds(tdoas.max, 1, xcorrs.nSignals)
    /\ xcorrs.nSignals <= xcorrs.array.rows   /\ xcorrs.nSignals <= xcorrsMax.array.rows
    /\ DelaysFit(xcorrs.array.cells, tau, delta) /\ DelaysFit(xcorrsMax.array.cells, tau, 0)

xcorr2xcorr_process_reset(frameSize, tau, delta, tdoas, deltas, pairs, iPoint, xcorrs) ==
    /\ Holds(pairs.array, 1, xcorrs.nSignals) /\ Holds(deltas.array, 1, xcorrs.nSignals)
    /\ Holds(tdoas.array, 1, iPoint * tdoas.nPairs + xcorrs.nSignals)
    /\ Holds(xcorrs.array, xcorrs.nSignals, frameSize)
    /\ DelaysFit(xcorrs.array.cells, tau, delta)

(* iPoint runs over the fine points of the coarse point iCoarse: any point  *)
(* of the level; iPair over the pairs the spatial index lists for it.       *)
xcorr2aimg_process(tau, tdoas, indexes, spatialindexes, iCoarse, xcorrs, aimg) ==
    /\ iCoarse < indexes.nCoarses
    /\ Holds(indexes.array, 1, (iCoarse + 1) * indexes.nFines)
    /\ spatialindexes.nPoints <= aimg.aimgSize
    /\ Holds(spatialindexes.array, 1, aimg.aimgSize * spatialindexes.nPairs)
    /\ Holds(spatialindexes.count, 1, aimg.aimgSize)
    /\ Holds(tdoas.array, 1, aimg.aimgSize * tdoas.nPairs)
    /\ tdoas.nPairs <= xcorrs.array.rows
    /\ DelaysFit(xcorrs.array.cells, tau, 0)

-----------------------------------------------------------------------------
(* Tracking.                                                               *)

kalman2coherence_obj ==
    [H |-> matrix_obj(3, 6), Ht |-> matrix_obj(6, 3), mu_t |-> matrix_obj(3, 1), mu_t_t |-> matrix_obj(1, 3),
     mu_s |-> matrix_obj(3, 1), mu_s_t |-> matrix_obj(1, 3), mu_st |-> matrix_obj(3, 1),
     mu_st_t |-> matrix_obj(1, 3), HP |-> matrix_obj(3, 6), sigma_epsilon |-> matrix_obj(3, 3),
     sigma_t |-> matrix_obj(3, 3), sigma_s |-> matrix_obj(3, 3), sigma_st |-> matrix_obj(3, 3),
     sigma_t_epsilon |-> matrix_obj(3, 3), sigma_t_inv |-> matrix_obj(3, 3),
     sigma_s_inv |-> matrix_obj(3, 3), sigma_st_inv |-> matrix_obj(3, 3),
     sigma_t_inv_mu_t |-> matrix_obj(3, 1), sigma_s_inv_mu_s |-> matrix_obj(3, 1),
     sigma_st_inv_mu_st |-> matrix_obj(3, 1), mu_t_t_sigma_t_inv_mu_t |-> matrix_obj(1, 1),
     mu_s_t_sigma_s_inv_mu_s |-> matrix_obj(1, 1), mu_st_t_sigma_st_inv_mu_st |-> matrix_obj(1, 1),
     sigma_t_inv_mu_t_sigma_s_inv_mu_s |-> matrix_obj(3, 1)]
kalman2coherence_destroy(o) ==
    [f \in {"H", "Ht", "mu_t", "mu_t_t", "mu_s", "mu_s_t", "mu_st", "mu_st_t", "HP",
            "sigma_epsilon", "sigma_t", "sigma_s", "sigma_st", "sigma_t_epsilon",
            "sigma_t_inv", "sigma_s_inv", "sigma_st_inv", "sigma_t_inv_mu_t",
            "sigma_s_inv_mu_s", "sigma_st_inv_mu_st", "mu_t_t_sigma_t_inv_mu_t",
            "mu_s_t_sigma_s_inv_mu_s", "mu_st_t_sigma_st_inv_mu_st",
            "sigma_t_inv_mu_t_sigma_s_inv_mu_s"} |-> 1]

(* utils/matrix.c: a product writes a row per row of its left factor and   *)
(* reads as many rows of its right factor as the left one has columns.     *)
matrix_mul(obj, src1, src2) ==
    /\ Holds(obj.array, 1, (src1.nRows - 1) * obj.nCols + src2.nCols)
    /\ Holds(src2.array, 1, src1.nCols * src2.nCols)
matrix_same(obj, src) == Holds(src.array, 1, obj.nRows * obj.nCols)
matrix_add(obj, src1, src2) == matrix_same(obj, src1) /\ matrix_same(obj, src2)
matrix_transpose(obj, src) == Holds(src.array, 1, obj.nRows * obj.nCols)

kalman2coherence_process(o, kalman, pots, iTrack, coherences) ==
    /\ matrix_mul(o.mu_t, o.H, kalman.x_llm1) /\ matrix_transpose(o.mu_t_t, o.mu_t)
    /\ matrix_mul(o.HP, o.H, kalman.P_llm1)   /\ matrix_mul(o.sigma_t, o.HP, o.Ht)
    /\ matrix_add(o.sigma_t_epsilon, o.sigma_t, o.sigma_epsilon)
    /\ matrix_same(o.sigma_t_inv, o.sigma_t_epsilon)
    /\ matrix_mul(o.sigma_t_inv_mu_t, o.sigma_t_inv, o.mu_t)
    /\ matrix_mul(o.mu_t_t_sigma_t_inv_mu_t, o.mu_t_t, o.sigma_t_inv_mu_t)
    /\ Holds(pots.array, 1, 4 * pots.nPots)
    /\ matrix_transpose(o.mu_s_t, o.mu_s)
    /\ matrix_add(o.sigma_st_inv, o.sigma_s_inv, o.sigma_t_inv)
    /\ matrix_mul(o.sigma_s_inv_mu_s, o.sigma_s_inv, o.mu_s)
    /\ matrix_add(o.sigma_t_inv_mu_t_sigma_s_inv_mu_s, o.sigma_t_inv_mu_t, o.sigma_s_inv_mu_s)
    /\ matrix_mul(o.mu_st, o.sigma_st, o.sigma_t_inv_mu_t_sigma_s_inv_mu_s)
    /\ matrix_transpose(o.mu_st_t, o.mu_st)
    /\ matrix_mul(o.sigma_st_inv_mu_st, o.sigma_st_inv, o.mu_st)
    /\ matrix_mul(o.mu_st_t_sigma_st_inv_mu_st, o.mu_st_t, o.sigma_st_inv_mu_st)
    /\ matrix_mul(o.mu_s_t_sigma_s_inv_mu_s, o.mu_s_t, o.sigma_s_inv_mu_s)
    /\ Holds(coherences.array, 1, (iTrack + 1) * pots.nPots)

kalman2kalman_obj ==
    [F |-> matrix_obj(6, 6), Ft |-> matrix_obj(6, 6), Q |-> matrix_obj(6, 6), H |-> matrix_obj(3, 6),
     Ht |-> matrix_obj(6, 3), R |-> matrix_obj(3, 3), FP |-> matrix_obj(6, 6), FPFt |-> matrix_obj(6, 6),
     K |-> matrix_obj(6, 3), PHt |-> matrix_obj(6, 3), HP |-> matrix_obj(3, 6), HPHt |-> matrix_obj(3, 3),
     HPHt_R |-> matrix_obj(3, 3), HPHt_Rinv |-> matrix_obj(3, 3), Hx |-> matrix_obj(3, 1),
     z |-> matrix_obj(3, 1), z_Hx |-> matrix_obj(3, 1), Kz_Hx |-> matrix_obj(6, 1),
     pKz_Hx |-> matrix_obj(6, 1), KHP |-> matrix_obj(6, 6), pKHP |-> matrix_obj(6, 6)]
kalman2kalman_destroy(o) ==
    [f \in {"F", "Ft", "Q", "H", "Ht", "R", "FP", "FPFt", "K", "PHt", "HP", "HPHt",
            "HPHt_R", "HPHt_Rinv", "Hx", "z", "z_Hx", "Kz_Hx", "pKz_Hx", "KHP",
            "pKHP"} |-> 1]
kalman2kalman_init_pots(pots, iPot, kalman) ==
    /\ Holds(pots.array, 1, 4 * iPot + 3)
    /\ Holds(kalman.P_lm1lm1.array, 1, 36) /\ Holds(kalman.x_lm1lm1.array, 1, 3)
kalman2kalman_init_targets(targets, iTarget, kalman) ==
    /\ Holds(targets.array, 1, 3 * iTarget + 3)
    /\ Holds(kalman.P_lm1lm1.array, 1, 36) /\ Holds(kalman.x_lm1lm1.array, 1, 3)
kalman2kalman_predict(o, kalman) ==
    /\ matrix_mul(kalman.x_llm1, o.F, kalman.x_lm1lm1)
    /\ matrix_mul(o.FP, o.F, kalman.P_lm1lm1) /\ matrix_mul(o.FPFt, o.FP, o.Ft)
    /\ matrix_add(kalman.P_llm1, o.FPFt, o.Q)
kalman2kalman_update(o, postprobs, iTrack, pots, kalman) ==
    /\ Holds(postprobs.arrayTrack, 1, (iTrack + 1) * postprobs.nPots)
    /\ Holds(postprobs.arrayTrackTotal, 1, iTrack + 1)
    /\ Holds(pots.array, 1, 4 * postprobs.nPots)
    /\ matrix_mul(o.HP, o.H, kalman.P_llm1) /\ matrix_mul(o.HPHt, o.HP, o.Ht)
    /\ matrix_add(o.HPHt_R, o.HPHt, o.R)    /\ matrix_same(o.HPHt_Rinv, o.HPHt_R)
    /\ matrix_mul(o.PHt, kalman.P_llm1, o.Ht) /\ matrix_mul(o.K, o.PHt, o.HPHt_Rinv)
    /\ matrix_mul(o.Hx, o.H, kalman.x_llm1) /\ matrix_add(o.z_Hx, o.z, o.Hx)
    /\ matrix_mul(o.Kz_Hx, o.K, o.z_Hx)     /\ matrix_same(o.pKz_Hx, o.Kz_Hx)
    /\ matrix_add(kalman.x_lm1lm1, kalman.x_llm1, o.pKz_Hx)
    /\ matrix_mul(o.KHP, o.K, o.HP)         /\ matrix_same(o.pKHP, o.KHP)
    /\ matrix_add(kalman.P_lm1lm1, kalman.P_llm1, o.pKHP)

particle2coherence_process(particles, pots, iTrack, coherences) ==
    /\ Holds(pots.array, 1, 4 * pots.nPots)
    /\ Holds(particles.array, 1, 7 * particles.nParticles)
    /\ Holds(coherences.array, 1, iTrack * coherences.nPots + pots.nPots)

random_obj(N) == [N |-> N, pdf |-> Flat(N), cdf |-> Flat(N + 1)]
random_destroy(o) == [pdf |-> 1, cdf |-> 1]
normaloff_obj(N) == [N |-> N, values |-> Flat(N)]
normaloff_destroy(o) == [values |-> 1]

particle2particle_obj(nParticles) ==
    [nParticles |-> nParticles, rnd_ratio |-> random_obj(3), rnd_weight |-> random_obj(nParticles),
     indexes_ratio |-> Flat(nParticles), pdf_weight |-> Flat(nParticles),
     indexes_weight |-> Flat(nParticles), realisation_normal |-> Flat(3 * nParticles),
     normaloff |-> normaloff_obj(10000), sum_P_p_x_O |-> Flat(nParticles),
     particles |-> particles_obj(nParticles)]
particle2particle_destroy(o) ==
    [rnd_ratio |-> 1, indexes_ratio |-> 1, pdf_weight |-> 1, indexes_weight |-> 1,
     rnd_weight |-> 1, realisation_normal |-> 1, normaloff |-> 1, sum_P_p_x_O |-> 1,
     particles |-> 1]
particle2particle_init_pots(o, pots, iPot, particles) ==
    /\ Holds(pots.array, 1, 4 * iPot + 3) /\ Holds(o.indexes_ratio, 1, o.nParticles)
    /\ Holds(particles.array, 1, 7 * o.nParticles) /\ Holds(particles.state, 1, o.nParticles)
particle2particle_init_targets(o, targets, iTarget, particles) ==
    /\ Holds(targets.array, 1, 3 * iTarget + 3) /\ Holds(o.indexes_ratio, 1, o.nParticles)
    /\ Holds(particles.array, 1, 7 * o.nParticles) /\ Holds(particles.state, 1, o.nParticles)
particle2particle_predict(o, particles) ==
    /\ Holds(o.realisation_normal, 1, 3 * o.nParticles)
    /\ Holds(o.realisation_normal, 1, 3 * particles.nParticles)
    /\ Holds(particles.array, 1, 7 * particles.nParticles)
    /\ Holds(particles.state, 1, particles.nParticles)
particle2particle_update(o, postprobs, iTrack, pots, particles) ==
    /\ Holds(pots.array, 1, 4 * pots.nPots)
    /\ Holds(postprobs.arrayTrack, 1, (iTrack + 1) * pots.nPots)
    /\ Holds(postprobs.arrayTrackTotal, 1, iTrack + 1)
    /\ Holds(o.sum_P_p_x_O, 1, particles.nParticles) /\ Holds(o.sum_P_p_x_O, 1, o.nParticles)
    /\ Holds(particles.array, 1, 7 * o.nParticles) /\ Holds(particles.state, 1, o.nParticles)
    /\ Holds(o.particles.array, 1, 7 * o.nParticles)
    /\ Holds(o.pdf_weight, 1, o.rnd_weight.N)
    /\ Holds(o.indexes_weight, 1, o.nParticles) /\ Holds(o.indexes_ratio, 1, o.nParticles)

(* The mixtures of Gaussians are copied from the configuration.            *)
gaussians_1d_obj(n)     == [nSignals |-> n, array |-> Flat(n), gaussian |-> Rows(n, 1)]
gaussians_1d_destroy(o) == [array |-> 1, gaussian |-> o.nSignals]
mixture2mixture_obj(active_gmm, inactive_gmm) ==
    [active |-> gaussians_1d_obj(active_gmm.nSignals), inactive |-> gaussians_1d_obj(inactive_gmm.nSignals)]
mixture2mixture_destroy(o) == [active |-> 1, inactive |-> 1]
mixture2mixture_process(mixture, pots, coherences, postprobs) ==
    LET nPots == mixture.nPots
        last  == IF nPots = 0 THEN 0 ELSE (2 + mixture.nTracks) * pots.nPots + nPots
    IN /\ Holds(pots.array, 1, 4 * nPots)
       /\ Holds(mixture.p_Ez_AICD, 1, last)
       /\ Holds(coherences.array, 1, mixture.nTracks * nPots)
       /\ Holds(mixture.p_Eszs_phics, 1, mixture.nTracksNewFalse * nPots)
       /\ Holds(mixture.p_phics, 1, mixture.nTracksNewFalse * nPots)
       /\ Holds(mixture.assignations.array, 1, mixture.nCombinations * nPots)
       /\ Holds(mixture.p_phic_Ez, 1, mixture.nCombinations)
       /\ Holds(postprobs.arrayTrack, 1, mixture.nTracks * nPots)
       /\ Holds(postprobs.arrayNew, 1, IF nPots = 0 THEN 1 ELSE nPots)
       /\ Holds(postprobs.arrayTrackTotal, 1, mixture.nTracks)

=============================================================================
