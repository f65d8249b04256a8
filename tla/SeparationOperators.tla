------------------------ MODULE SeparationOperators ------------------------
(***************************************************************************)
(* The operators of src/system that separate the tracked sources and clean  *)
(* them, with the complex matrices they work on, as the indexes they touch  *)
(* (see Operators for the conventions).                                     *)
(***************************************************************************)
EXTENDS Operators

(* One array of n rows for each name.                                      *)
Each(names, n, cells) == [f \in names |-> Rows(n, cells)]

(* A pointer the caller may leave out.                                     *)
null == [null |-> TRUE]

-----------------------------------------------------------------------------
(* utils/cmatrix.c.  The transposed and hermitian copies step through both  *)
(* matrices by the number of rows of the destination; cmatrix_scale steps   *)
(* through its source by the columns of the destination.                    *)

cmatrix_obj(nRows, nCols) ==
    [nRows |-> nRows, nCols |-> nCols,
     real |-> Flat(nRows * nCols), imag |-> Flat(nRows * nCols)]
cmatrix_destroy(o) == [real |-> 1, imag |-> 1]
Reaches(o, cells)  == Holds(o.real, 1, cells) /\ Holds(o.imag, 1, cells)
cmatrix_hermitian(obj, src) ==
    /\ Reaches(obj, (obj.nRows - 1) * obj.nRows + obj.nCols)
    /\ Reaches(src, (obj.nCols - 1) * obj.nRows + obj.nRows)
cmatrix_copy_cmatrix(obj, src) == Reaches(obj, src.nRows * src.nCols)
cmatrix_add(obj, src1, src2) ==
    Reaches(src1, obj.nRows * obj.nCols) /\ Reaches(src2, obj.nRows * obj.nCols)
cmatrix_scale(obj, src) ==
    /\ Reaches(obj, (src.nRows - 1) * obj.nCols + src.nCols)
    /\ Reaches(src, (src.nRows - 1) * obj.nCols + src.nCols)
cmatrix_mul(obj, src1, src2) ==
    /\ Reaches(obj, (src1.nRows - 1) * obj.nCols + src2.nCols)
    /\ Reaches(src2, src1.nCols * src2.nCols)

-----------------------------------------------------------------------------
(* From directions to gains, masks, steering and demixing terms.           *)

track2gain_obj(nSeps, nChannels) ==
    [nSeps |-> nSeps, nChannels |-> nChannels, directions |-> Flat(3 * nChannels)]
track2gain_destroy(o) == [directions |-> 1]
track2gain_process(o, beampatterns, tracks, gains) ==
    /\ Holds(tracks.ids, 1, o.nSeps) /\ Holds(tracks.array, 1, 3 * o.nSeps)
    /\ beampatterns.nThetas > 0
    /\ Holds(beampatterns.minThetas, 1, o.nChannels)
    /\ Holds(beampatterns.deltaThetas, 1, o.nChannels)
    /\ Holds(beampatterns.gains, 1, o.nChannels * beampatterns.nThetas)
    /\ Holds(gains.array, 1, o.nSeps * o.nChannels)

gain2mask_process(nSeps, nChannels, gains, masks) ==
    /\ Holds(gains.array, 1, nSeps * nChannels)
    /\ Holds(masks.array, 1, nSeps * nChannels)

track2steer_obj(nSeps, nChannels, halfFrameSize) ==
    [nSeps |-> nSeps, nChannels |-> nChannels, halfFrameSize |-> halfFrameSize,
     mics |-> Flat(3 * nChannels), factor |-> Flat(halfFrameSize)]
track2steer_destroy(o) == [factor |-> 1, mics |-> 1]
track2steer_process(o, tracks, gains, masks, steers) ==
    /\ Holds(tracks.ids, 1, o.nSeps) /\ Holds(tracks.array, 1, 3 * o.nSeps)
    /\ gain2mask_process(o.nSeps, o.nChannels, gains, masks)
    /\ Holds(steers.array, o.nSeps, o.halfFrameSize * o.nChannels * 2)

steer2demixing_ds_obj(nSeps, nChannels, halfFrameSize) ==
    [nSeps |-> nSeps, nChannels |-> nChannels, halfFrameSize |-> halfFrameSize,
     gains2 |-> Flat(halfFrameSize)]
steer2demixing_ds_destroy(o) == [gains2 |-> 1]
steer2demixing_ds_process(o, tracks, steers, masks, demixings) ==
    /\ Holds(tracks.ids, 1, o.nSeps)
    /\ Holds(masks.array, 1, o.nSeps * o.nChannels)
    /\ Holds(steers.array, o.nSeps, o.halfFrameSize * o.nChannels * 2)
    /\ Holds(demixings.array, o.nSeps, o.halfFrameSize * o.nChannels * 2)

(* A set of matrices for each number 1 .. nSeps of active sources.         *)
GssColumns    == {"Y", "dJ1_EY", "dJ1_4EY"}
GssSquares    == {"Ryy", "E", "dJ2_WA", "dJ2_WAmI", "dJ2_2WAmI"}
GssByChannels == {"AH", "Wn", "Wnp1", "dJ1", "dJ2", "dJ1_4EYXH", "dJ2_2WAmIAH",
                  "alpha_dJ1", "alpha_dJ1_p_dJ2", "mu_alpha_dJ1_p_dJ2",
                  "one_m_lambda_mu_Wn", "one_m_lambda_mu_Wn_m_mu_alpha_dJ1_p_dJ2"}
steer2demixing_gss_obj(nSeps, nChannels, halfFrameSize) ==
    [nSeps |-> nSeps, nChannels |-> nChannels, halfFrameSize |-> halfFrameSize,
     X  |-> cmatrix_obj(nChannels, 1), XH |-> cmatrix_obj(1, nChannels),
     YH |-> Many(nSeps, LAMBDA s : cmatrix_obj(1, s + 1)),
     A  |-> Many(nSeps, LAMBDA s : cmatrix_obj(nChannels, s + 1))]
    ++ [f \in GssColumns    |-> Many(nSeps, LAMBDA s : cmatrix_obj(s + 1, 1))]
    ++ [f \in GssSquares    |-> Many(nSeps, LAMBDA s : cmatrix_obj(s + 1, s + 1))]
    ++ [f \in GssByChannels |-> Many(nSeps, LAMBDA s : cmatrix_obj(s + 1, nChannels))]
steer2demixing_gss_destroy(o) ==
    [f \in {"X", "XH"} |-> 1]
    ++ [f \in GssColumns \cup GssSquares \cup GssByChannels \cup {"YH", "A"} |-> o.nSeps]

(* With n active sources, packed in the order of their rows.               *)
steer2demixing_gss_process(o, tracksPrev, tracks, steers, masks, freqs, demixingsPrev, demixings) ==
    /\ Holds(tracks.ids, 1, o.nSeps) /\ Holds(tracksPrev.ids, 1, o.nSeps)
    /\ Holds(freqs.array, o.nChannels, 2 * o.halfFrameSize)
    /\ Holds(masks.array, 1, o.nSeps * o.nChannels)
    /\ \A d \in {steers, demixingsPrev, demixings} :
           Holds(d.array, o.nSeps, o.halfFrameSize * o.nChannels * 2)
    /\ Reaches(o.X, o.nChannels) /\ Reaches(o.XH, o.nChannels)
    /\ \A n \in 1 .. o.nSeps :
         LET M(f) == o[f].at[n - 1] IN
         /\ Reaches(M("Wn"), n * o.nChannels) /\ Reaches(M("Wnp1"), n * o.nChannels)
         /\ Reaches(M("A"), n * o.nChannels)  /\ Reaches(M("AH"), n * o.nChannels)
         /\ Reaches(M("E"), n * n)            /\ Reaches(M("dJ2_WAmI"), n * n)
         /\ cmatrix_mul(M("Y"), M("Wn"), o.X) /\ cmatrix_hermitian(M("YH"), M("Y"))
         /\ cmatrix_mul(M("Ryy"), M("Y"), M("YH")) /\ cmatrix_copy_cmatrix(M("E"), M("Ryy"))
         /\ cmatrix_mul(M("dJ1_EY"), M("E"), M("Y")) /\ cmatrix_scale(M("dJ1_4EY"), M("dJ1_EY"))
         /\ cmatrix_mul(M("dJ1_4EYXH"), M("dJ1_4EY"), o.XH)
         /\ cmatrix_copy_cmatrix(M("dJ1"), M("dJ1_4EYXH"))
         /\ cmatrix_mul(M("dJ2_WA"), M("Wn"), M("A"))
         /\ cmatrix_copy_cmatrix(M("dJ2_WAmI"), M("dJ2_WA"))
         /\ cmatrix_scale(M("dJ2_2WAmI"), M("dJ2_WAmI"))
         /\ cmatrix_mul(M("dJ2_2WAmIAH"), M("dJ2_2WAmI"), M("AH"))
         /\ cmatrix_copy_cmatrix(M("dJ2"), M("dJ2_2WAmIAH"))
         /\ cmatrix_scale(M("alpha_dJ1"), M("dJ1"))
         /\ cmatrix_add(M("alpha_dJ1_p_dJ2"), M("alpha_dJ1"), M("dJ2"))
         /\ cmatrix_scale(M("mu_alpha_dJ1_p_dJ2"), M("alpha_dJ1_p_dJ2"))
         /\ cmatrix_scale(M("one_m_lambda_mu_Wn"), M("Wn"))
         /\ cmatrix_add(M("one_m_lambda_mu_Wn_m_mu_alpha_dJ1_p_dJ2"),
                        M("one_m_lambda_mu_Wn"), M("mu_alpha_dJ1_p_dJ2"))
         /\ cmatrix_copy_cmatrix(M("Wnp1"), M("one_m_lambda_mu_Wn_m_mu_alpha_dJ1_p_dJ2"))

demixing2freq_process(nSeps, nChannels, halfFrameSize, tracks, demixings, masks, freqsC, freqsS) ==
    /\ Holds(tracks.ids, 1, nSeps) /\ Holds(masks.array, 1, nSeps * nChannels)
    /\ Holds(demixings.array, nSeps, halfFrameSize * nChannels * 2)
    /\ Holds(freqsC.array, nChannels, 2 * halfFrameSize)
    /\ Holds(freqsS.array, nSeps, 2 * halfFrameSize)

demixing2env_process(nSeps, nChannels, halfFrameSize, tracks, demixings, masks, envsC, envsS) ==
    /\ Holds(tracks.ids, 1, nSeps) /\ Holds(masks.array, 1, nSeps * nChannels)
    /\ Holds(demixings.array, nSeps, halfFrameSize * nChannels * 2)
    /\ Holds(envsC.array, nChannels, halfFrameSize)
    /\ Holds(envsS.array, nSeps, halfFrameSize)

-----------------------------------------------------------------------------
(* Noise estimation and post-filtering, a row per channel or per source.    *)

EnvRows == {"Sf", "S", "SPrev", "Smin", "SminPrev", "Stmp", "StmpPrev", "lambdaD", "lambdaDnext"}
env2env_mcra_obj(nChannels, halfFrameSize, bSize) ==
    [nChannels |-> nChannels, halfFrameSize |-> halfFrameSize, bSize |-> bSize,
     idsPrev |-> Flat(nChannels), l |-> Flat(nChannels), b |-> Flat(bSize)]
    ++ Each(EnvRows, nChannels, halfFrameSize)
env2env_mcra_destroy(o) ==
    [f \in {"idsPrev", "l", "b"} |-> 1] ++ [f \in EnvRows |-> o.nChannels]

(* The smoothing window is reflected at both ends of the spectrum.         *)
ReflectedBin(halfFrameSize, i) ==
    LET j == IF i < 0 THEN -i ELSE i
    IN IF j >= halfFrameSize THEN 2 * (halfFrameSize - 1) - j ELSE j
env2env_mcra_process(o, tracks, noisys, estNoises, noises) ==
    /\ tracks # null => Holds(tracks.ids, 1, o.nChannels) /\ Holds(o.idsPrev, 1, o.nChannels)
    /\ estNoises # null => Holds(estNoises.array, o.nChannels, o.halfFrameSize)
    /\ \A f \in EnvRows : Holds(o[f], o.nChannels, o.halfFrameSize)
    /\ \A n \in 0 .. (o.bSize - 1), iBin \in 0 .. (o.halfFrameSize - 1) :
           ReflectedBin(o.halfFrameSize, iBin + n - ((o.bSize - 1) \div 2))
               \in 0 .. (noisys.array.cells - 1)
    /\ Holds(noisys.array, o.nChannels, o.halfFrameSize)
    /\ Holds(noises.array, o.nChannels, o.halfFrameSize)

EnvsHold(o, tracks, all) ==
    /\ tracks # null => Holds(tracks.ids, 1, o.nChannels)
    /\ \A e \in all : Holds(e.array, o.nChannels, o.halfFrameSize)

env2env_interf_obj(nChannels, halfFrameSize) ==
    [nChannels |-> nChannels, halfFrameSize |-> halfFrameSize]
    ++ Each({"Zs", "ZsPrev"}, nChannels, halfFrameSize)
env2env_interf_destroy(o) == [f \in {"Zs", "ZsPrev"} |-> o.nChannels]
env2env_interf_process(o, tracks, seps, noises, interfs) ==
    EnvsHold(o, tracks, {seps, noises, interfs})

(* utils/transcendental.c: a table of nIndexes values from vMin to vMax.    *)
transcendental_obj(nIndexes) == [nIndexes |-> nIndexes, array |-> Flat(nIndexes)]
GainRows == {"gamma", "alphaP", "xi", "GH1", "v"}
env2env_gainspeech_obj(nChannels, halfFrameSize) ==
    [nChannels |-> nChannels, halfFrameSize |-> halfFrameSize,
     transcendental |-> transcendental_obj(5001)]
    ++ Each(GainRows, nChannels, halfFrameSize)
env2env_gainspeech_destroy(o) == [transcendental |-> 1] ++ [f \in GainRows |-> o.nChannels]
env2env_gainspeech_process(o, tracks, seps, noises, gains, snrs, vs) ==
    EnvsHold(o, tracks, {seps, noises, gains, snrs, vs})

ProbWindows == {"winLocal", "winGlobal", "winFrame"}
ProbShifted == {"winLocalShifted", "winGlobalShifted", "winFrameShifted"}
ProbSpectra == {"winLocalShiftedFreq", "winGlobalShiftedFreq", "winFrameShiftedFreq"}
ProbTimes   == {"xiTime", "xiSmoothedLocalTime", "xiSmoothedGlobalTime", "xiSmoothedFrameTime"}
ProbFreqs   == {"xiFreq", "xiSmoothedLocalFreq", "xiSmoothedGlobalFreq", "xiSmoothedFrameFreq"}
ProbRows    == {"xiSmoothedLocal", "xiSmoothedGlobal", "xiSmoothedFrame", "zetaLocal",
                "zetaLocalPrev", "zetaGlobal", "zetaGlobalPrev", "zetaFrame", "zetaFramePrev",
                "PLocal", "PGlobal", "PFrame", "q", "p"}
env2env_probspeech_obj(nChannels, halfFrameSize, winSize) ==
    LET frameSize == (halfFrameSize - 1) * 2 IN
    [nChannels |-> nChannels, halfFrameSize |-> halfFrameSize, frameSize |-> frameSize,
     fft |-> fft_obj(frameSize)]
    ++ [f \in ProbWindows |-> Flat(winSize)] ++ [f \in ProbShifted |-> Flat(frameSize)]
    ++ [f \in ProbSpectra |-> Flat(halfFrameSize * 2)]
    ++ Each(ProbTimes, nChannels, frameSize) ++ Each(ProbFreqs, nChannels, 2 * halfFrameSize)
    ++ Each(ProbRows, nChannels, halfFrameSize)
env2env_probspeech_destroy(o) ==
    [f \in ProbWindows \cup ProbShifted \cup ProbSpectra \cup {"fft"} |-> 1]
    ++ [f \in ProbTimes \cup ProbFreqs \cup ProbRows |-> o.nChannels]

(* The windows are centred on bin 0 of the circular convolution: its first  *)
(* half wraps to the end of the frame.                                      *)
WindowFits(o, win, shifted) ==
    \A n \in 0 .. (o[win].cells - 1) :
        LET i == n - (o[win].cells \div 2)
        IN (IF i < 0 THEN i + o.frameSize ELSE i) \in 0 .. (o[shifted].cells - 1)
env2env_probspeech_process(o, tracks, snrs, vs, probspeechs) ==
    /\ WindowFits(o, "winLocal", "winLocalShifted")
    /\ WindowFits(o, "winGlobal", "winGlobalShifted")
    /\ WindowFits(o, "winFrame", "winFrameShifted")
    /\ \A f \in ProbFreqs, t \in ProbTimes :
           fft_c2r(o.fft, o.nChannels, o[f], o[t]) /\ fft_r2c(o.fft, o.nChannels, o[t], o[f])
    /\ EnvsHold(o, tracks, {snrs, vs, probspeechs})

(* env2env_gainall and env2env_gainratio keep sizes only.                   *)
env2env_gainall_process(o, tracks, gainspeeches, probspeeches, gainalls) ==
    EnvsHold(o, tracks, {gainspeeches, probspeeches, gainalls})
env2env_gainratio_process(o, tracks, seps, diffuse, gainratio) ==
    EnvsHold(o, tracks, {seps, diffuse, gainratio})

-----------------------------------------------------------------------------
(* Speech or not: the pitch of a source and how it moves.                  *)

(* Index halfFrameSize - winSize is unsigned: it must not go below zero,    *)
(* and a peak needs a neighbour on each side.                               *)
acorr2pitch_process(nSignals, halfFrameSize, winSize, acorrs, pitches) ==
    /\ winSize \in 1 .. halfFrameSize
    /\ Holds(acorrs.array, nSignals, halfFrameSize)
    /\ Holds(pitches.array, 1, nSignals)

PitchRows == {"tausNow", "tausPrev", "deltaTausNow", "deltaTausPrev", "phisNow", "phisPrev",
              "vs", "rs", "categories"}
pitch2category_obj(nSeps) == [nSeps |-> nSeps] ++ [f \in PitchRows |-> Flat(nSeps)]
pitch2category_destroy(o) == [f \in PitchRows |-> 1]
pitch2category_process(o, pitches, tracks, categories) ==
    /\ Holds(tracks.ids, 1, o.nSeps) /\ Holds(pitches.array, 1, o.nSeps)
    /\ Holds(categories.array, 1, o.nSeps)

=============================================================================
