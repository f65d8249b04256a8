------------------------------ MODULE Signals ------------------------------
(***************************************************************************)
(* The containers of src/signal as shapes.  A container is the record of    *)
(* the counts it stores and of the arrays it allocates; a flat array has    *)
(* one row, an array of pointers a row per pointer.  What the samples are   *)
(* worth is abstracted: the operations on a container keep only the range   *)
(* of indexes they touch and the counts they assign.                        *)
(*                                                                         *)
(* X_obj(...) is what X_construct_zero (or X_clone) returns, and            *)
(* X_destroy(o) says how many rows of each array X_destroy frees, counted   *)
(* by the fields of o as the code's loops count them.                       *)
(***************************************************************************)
EXTENDS Naturals

Rows(n, cells) == [rows |-> n, cells |-> cells]
Flat(cells)    == Rows(1, cells)

(* The rows 0 .. n-1 are touched, each in its cells 0 .. k-1.              *)
Holds(array, n, k) == n = 0 \/ k = 0 \/ (n <= array.rows /\ k <= array.cells)

(* The fields of two records; f gives those they share.                    *)
f ++ g == [x \in DOMAIN f \cup DOMAIN g |-> IF x \in DOMAIN f THEN f[x] ELSE g[x]]

(* n objects, the i-th of them Obj(i), counted from 0 as the code does.    *)
Many(n, Obj(_)) == [rows |-> n, at |-> [i \in 0 .. (n - 1) |-> Obj(i)]]

-----------------------------------------------------------------------------
(* One flat array (or a few) behind one or two counts.                     *)

window_obj(frameSize) == [frameSize |-> frameSize, array |-> Flat(frameSize)]
aimg_obj(aimgSize)    == [aimgSize |-> aimgSize, array |-> Flat(aimgSize)]
categories_obj(nSignals)  == [nSignals |-> nSignals, array |-> Flat(nSignals)]
pitches_obj(nSignals)     == [nSignals |-> nSignals, array |-> Flat(nSignals)]
deltas_obj(nPairs)        == [nPairs |-> nPairs, array |-> Flat(nPairs)]
pairs_obj(nPairs)         == [nPairs |-> nPairs, array |-> Flat(nPairs)]
pots_obj(nPots)           == [nPots |-> nPots, array |-> Flat(4 * nPots)]
points_obj(nPoints)       == [nPoints |-> nPoints, array |-> Flat(3 * nPoints)]
assignations_obj(nAssignations, nPots) ==
    [nAssignations |-> nAssignations, nPots |-> nPots,
     array |-> Flat(nAssignations * nPots)]
coherences_obj(nPots, nTracks) ==
    [nPots |-> nPots, nTracks |-> nTracks, array |-> Flat(nTracks * nPots)]
gains_obj(nSeps, nChannels) ==
    [nSeps |-> nSeps, nChannels |-> nChannels, array |-> Flat(nSeps * nChannels)]
masks_obj(nSeps, nChannels) ==
    [nSeps |-> nSeps, nChannels |-> nChannels, array |-> Flat(nSeps * nChannels)]

(* aimg_destroy, pots_destroy, ... : the same two free() in every file.    *)
Array_destroy(o) == [array |-> 1]

-----------------------------------------------------------------------------
(* Several flat arrays.                                                    *)

particles_obj(nParticles) ==
    [nParticles |-> nParticles, array |-> Flat(7 * nParticles), state |-> Flat(nParticles)]
particles_destroy(o) == [array |-> 1, state |-> 1]

tdoas_obj(nPoints, nPairs) ==
    [nPoints |-> nPoints, nPairs |-> nPairs, array |-> Flat(nPoints * nPairs),
     min |-> Flat(nPairs), max |-> Flat(nPairs)]
tdoas_destroy(o) == [array |-> 1, min |-> 1, max |-> 1]

indexes_obj(nCoarses, nFines) ==
    [nCoarses |-> nCoarses, nFines |-> nFines, array |-> Flat(nCoarses * nFines),
     count |-> Flat(nCoarses)]
indexes_destroy(o) == [array |-> 1, count |-> 1]

spatialindexes_obj(nPoints, nPairs) ==
    [nPoints |-> nPoints, nPairs |-> nPairs, array |-> Flat(nPoints * nPairs),
     count |-> Flat(nPoints)]
spatialindexes_destroy(o) == [array |-> 1, count |-> 1]

beampatterns_obj(nChannels, nThetas) ==
    [nChannels |-> nChannels, nThetas |-> nThetas, minThetas |-> Flat(nChannels),
     maxThetas |-> Flat(nChannels), deltaThetas |-> Flat(nChannels),
     gains |-> Flat(nThetas * nChannels)]
beampatterns_destroy(o) == [minThetas |-> 1, maxThetas |-> 1, deltaThetas |-> 1, gains |-> 1]

postprobs_obj(nPots, nTracks) ==
    [nPots |-> nPots, nTracks |-> nTracks, arrayNew |-> Flat(nPots),
     arrayTrack |-> Flat(nTracks * nPots), arrayTrackTotal |-> Flat(nTracks)]
postprobs_destroy(o) == [arrayNew |-> 1, arrayTrack |-> 1, arrayTrackTotal |-> 1]

-----------------------------------------------------------------------------
(* A row per signal, per separated source or per target.                   *)

frames_obj(nSignals, frameSize) ==
    [nSignals |-> nSignals, frameSize |-> frameSize, array |-> Rows(nSignals, frameSize)]
frames_destroy(o) == [array |-> o.nSignals]

xcorrs_obj(nSignals, frameSize) ==
    [nSignals |-> nSignals, frameSize |-> frameSize, array |-> Rows(nSignals, frameSize)]
xcorrs_destroy(o) == [array |-> o.nSignals]

acorrs_obj(nSignals, halfFrameSize) ==
    [nSignals |-> nSignals, halfFrameSize |-> halfFrameSize,
     array |-> Rows(nSignals, halfFrameSize)]
acorrs_destroy(o) == [array |-> o.nSignals]

steers_obj(halfFrameSize, nSeps, nChannels) ==
    [halfFrameSize |-> halfFrameSize, nSeps |-> nSeps, nChannels |-> nChannels,
     array |-> Rows(nSeps, halfFrameSize * nChannels * 2)]
steers_destroy(o) == [array |-> o.nSeps]

demixings_obj(halfFrameSize, nSeps, nChannels) ==
    [halfFrameSize |-> halfFrameSize, nSeps |-> nSeps, nChannels |-> nChannels,
     array |-> Rows(nSeps, halfFrameSize * nChannels * 2)]
demixings_destroy(o) == [array |-> o.nSeps]
demixings_copy(dest, src) ==
    /\ Holds(dest.array, src.nSeps, src.halfFrameSize * src.nChannels * 2)
    /\ Holds(src.array, src.nSeps, src.halfFrameSize * src.nChannels * 2)

hops_obj(nSignals, hopSize) ==
    [nSignals |-> nSignals, hopSize |-> hopSize, array |-> Rows(nSignals, hopSize)]
hops_destroy(o) == [array |-> o.nSignals]
hops_copy(dest, src) ==
    Holds(dest.array, src.nSignals, src.hopSize) /\ Holds(src.array, src.nSignals, src.hopSize)

envs_obj(nSignals, halfFrameSize) ==
    [nSignals |-> nSignals, halfFrameSize |-> halfFrameSize,
     array |-> Rows(nSignals, halfFrameSize)]
envs_destroy(o) == [array |-> o.nSignals]
envs_copy(dest, src) ==
    /\ Holds(dest.array, src.nSignals, src.halfFrameSize)
    /\ Holds(src.array, src.nSignals, src.halfFrameSize)

\* Mutant: no room for the imaginary parts.
freqs_obj_Real(nSignals, halfFrameSize) ==
    [nSignals |-> nSignals, halfFrameSize |-> halfFrameSize,
     array |-> Rows(nSignals, halfFrameSize)]

freqs_obj(nSignals, halfFrameSize) ==
    [nSignals |-> nSignals, halfFrameSize |-> halfFrameSize,
     array |-> Rows(nSignals, 2 * halfFrameSize)]
freqs_destroy(o) == [array |-> o.nSignals]
freqs_copy(dest, src) ==
    /\ Holds(dest.array, src.nSignals, 2 * src.halfFrameSize)
    /\ Holds(src.array, src.nSignals, 2 * src.halfFrameSize)

categories_copy(dest, src) ==
    Holds(dest.array, 1, src.nSignals) /\ Holds(src.array, 1, src.nSignals)

-----------------------------------------------------------------------------
(* Potentials, targets and tracks.                                         *)

pots_copy(dest, src) == Holds(dest.array, 1, 4 * src.nPots) /\ Holds(src.array, 1, 4 * src.nPots)

targets_obj(nTargets) ==
    [nTargets |-> nTargets, tags |-> Rows(nTargets, 256), array |-> Flat(3 * nTargets)]
targets_destroy(o) == [tags |-> o.nTargets, array |-> 1]
targets_copy(dest, src) ==
    \A o \in {dest, src} :
        Holds(o.array, 1, 3 * src.nTargets) /\ Holds(o.tags, src.nTargets, 256)

tracks_obj(nTracks) ==
    [nTracks |-> nTracks, array |-> Flat(3 * nTracks), ids |-> Flat(nTracks),
     tags |-> Rows(nTracks, 256), activity |-> Flat(nTracks)]
tracks_destroy(o) == [array |-> 1, ids |-> 1, tags |-> o.nTracks, activity |-> 1]
tracks_copy(dest, src) ==
    \A o \in {dest, src} :
        /\ Holds(o.array, 1, 3 * src.nTracks)
        /\ Holds(o.ids, 1, src.nTracks) /\ Holds(o.activity, 1, src.nTracks)
        /\ Holds(o.tags, src.nTracks, 256)

-----------------------------------------------------------------------------
(* Containers of containers.                                               *)

matrix_obj(nRows, nCols) == [nRows |-> nRows, nCols |-> nCols, array |-> Flat(nRows * nCols)]

kalman_obj ==
    [x_lm1lm1 |-> matrix_obj(6, 1), x_llm1 |-> matrix_obj(6, 1),
     P_lm1lm1 |-> matrix_obj(6, 6), P_llm1 |-> matrix_obj(6, 6)]
kalman_destroy(o) == [x_lm1lm1 |-> 1, x_llm1 |-> 1, P_lm1lm1 |-> 1, P_llm1 |-> 1]

(* scans_construct_null and the fields scanning_init_scans fills: a level  *)
(* of directions, with its delays, its tolerances and its two indexes.     *)
scans_obj(nLevels, nPairs, nPoints, nCoarses, nFines) ==
    [nLevels |-> nLevels,
     points  |-> Many(nLevels, LAMBDA l : points_obj(nPoints[l])),
     tdoas   |-> Many(nLevels, LAMBDA l : tdoas_obj(nPoints[l], nPairs)),
     deltas  |-> Many(nLevels, LAMBDA l : deltas_obj(nPairs)),
     spatialindexes |-> Many(nLevels, LAMBDA l : spatialindexes_obj(nPoints[l], nPairs)),
     indexes |-> Many(nLevels, LAMBDA l : indexes_obj(nCoarses[l], nFines[l])),
     pairs   |-> pairs_obj(nPairs)]
scans_destroy(o) ==
    [points |-> o.nLevels, tdoas |-> o.nLevels, deltas |-> o.nLevels,
     spatialindexes |-> o.nLevels, indexes |-> o.nLevels, pairs |-> 1]

(* nCombinations is what combining_generate returns (init/combining.c).    *)
mixture_obj(nPots, nTracks, nCombinations) ==
    [nPots |-> nPots, nTracks |-> nTracks, nTracksNewFalse |-> nTracks + 2,
     nCombinations |-> nCombinations,
     assignations |-> assignations_obj(nCombinations, nPots),
     p_Ez_AICD    |-> Flat((3 + nTracks) * nPots),
     p_Eszs_phics |-> Flat((nTracks + 2) * nPots),
     p_phics      |-> Flat((nTracks + 2) * nPots),
     p_Ez_phic    |-> Flat(nCombinations),
     p_phic       |-> Flat(nCombinations),
     p_phic_Ez    |-> Flat(nCombinations)]
mixture_destroy(o) ==
    [assignations |-> 1, p_Ez_AICD |-> 1, p_Eszs_phics |-> 1, p_phics |-> 1,
     p_Ez_phic |-> 1, p_phic |-> 1, p_phic_Ez |-> 1]

=============================================================================
