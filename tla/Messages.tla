------------------------------ MODULE Messages ------------------------------
(***************************************************************************)
(* Messages, connectors, and the wrappers that give each of them a thread:  *)
(* src/message, src/connector, src/amessage, src/aconnector, src/amodule,    *)
(* src/asink, src/asource, src/ainjector, as the objects they own (see       *)
(* Signals and Modules for the conventions).  What their threads do is in    *)
(* ThreadPrograms and Pipeline.                                              *)
(***************************************************************************)
EXTENDS SeparationModule

-----------------------------------------------------------------------------
(* A message: a time stamp and one container.  Copying a message copies its *)
(* container; a copy of potentials, targets or tracks also gives the        *)
(* destination the count of its source.                                     *)

Message(data)   == [data |-> data]
Message_destroy == Once({"data"})

msg_hops_obj(config)       == Message(hops_obj(config.nChannels, config.hopSize))
msg_spectra_obj(config)    == Message(freqs_obj(config.nChannels, config.halfFrameSize))
msg_powers_obj(config)     == Message(envs_obj(config.nChannels, config.halfFrameSize))
msg_pots_obj(config)       == Message(pots_obj(config.nPots))
msg_targets_obj(config)    == Message(targets_obj(config.nTargets))
msg_tracks_obj(config)     == Message(tracks_obj(config.nTracks))
msg_categories_obj(config) == Message(categories_obj(config.nChannels))

msg_hops_parts(o)       == {<<o, Message_destroy>>, <<o.data, hops_destroy(o.data)>>}
msg_spectra_parts(o)    == {<<o, Message_destroy>>, <<o.data, freqs_destroy(o.data)>>}
msg_powers_parts(o)     == {<<o, Message_destroy>>, <<o.data, envs_destroy(o.data)>>}
msg_pots_parts(o)       == {<<o, Message_destroy>>, <<o.data, Array_destroy(o.data)>>}
msg_targets_parts(o)    == {<<o, Message_destroy>>, <<o.data, targets_destroy(o.data)>>}
msg_tracks_parts(o)     == {<<o, Message_destroy>>, <<o.data, tracks_destroy(o.data)>>}
msg_categories_parts(o) == {<<o, Message_destroy>>, <<o.data, Array_destroy(o.data)>>}

-----------------------------------------------------------------------------
(* A connector: one message in, a copy of it on each output.                *)

Connector(nOuts, message) ==
    [nOuts |-> nOuts, in |-> message, outs |-> Many(nOuts, LAMBDA i : message)]
Connector_destroy(o)         == [in |-> 1, outs |-> o.nOuts]
Connector_messages(o)        == {o.in} \cup {o.outs.at[i] : i \in DOMAIN o.outs.at}
(* What is copied: <<destination, source>>.                                 *)
Connector_process(o)         == {<<o.outs.at[i].data, o.in.data>> : i \in 0 .. (o.nOuts - 1)}

con_hops_obj(nOuts, config)       == Connector(nOuts, msg_hops_obj(config))
con_spectra_obj(nOuts, config)    == Connector(nOuts, msg_spectra_obj(config))
con_powers_obj(nOuts, config)     == Connector(nOuts, msg_powers_obj(config))
con_pots_obj(nOuts, config)       == Connector(nOuts, msg_pots_obj(config))
con_targets_obj(nOuts, config)    == Connector(nOuts, msg_targets_obj(config))
con_tracks_obj(nOuts, config)     == Connector(nOuts, msg_tracks_obj(config))
con_categories_obj(nOuts, config) == Connector(nOuts, msg_categories_obj(config))

-----------------------------------------------------------------------------
(* The threaded versions.  A pool owns nMessages messages in two FIFOs,     *)
(* both as large as the pool; the destructor pops and frees what the two    *)
(* hold, which is everything once every thread has given its messages back. *)

fifo_obj(nMaxElements) == [nMaxElements |-> nMaxElements, array |-> Flat(nMaxElements)]
Pool(nMessages, message) ==
    [nMessages |-> nMessages, filled |-> fifo_obj(nMessages), empty |-> fifo_obj(nMessages),
     messages |-> Many(nMessages, LAMBDA i : message)]
Pool_destroy(o)         == Once({"filled", "empty"}) ++ [messages |-> o.nMessages]
Pool_messages(o)        == {o.messages.at[i] : i \in DOMAIN o.messages.at}
Pool_parts(o)           ==
    {<<o, Pool_destroy(o)>>} \cup ArrayPart(o.filled) \cup ArrayPart(o.empty)

(* The connector with its thread: pools around a plain connector.           *)
AConnector(nOuts, nMessages, message) ==
    [in |-> Pool(nMessages, message), outs |-> Many(nOuts, LAMBDA i : Pool(nMessages, message)),
     con |-> Connector(nOuts, message), thread |-> Struct]
AConnector_destroy(o)         == Once({"in", "con", "thread"}) ++ [outs |-> o.con.nOuts]
AConnector_pools(o)           == {o.in} \cup {o.outs.at[i] : i \in DOMAIN o.outs.at}
AConnector_messages(o)        ==
    UNION {Pool_messages(p) : p \in AConnector_pools(o)}
AConnector_parts(o)           ==
    {<<o, AConnector_destroy(o)>>} \cup UNION {Pool_parts(p) : p \in AConnector_pools(o)}

acon_hops_obj(nOuts, n, config)       == AConnector(nOuts, n, msg_hops_obj(config))
acon_spectra_obj(nOuts, n, config)    == AConnector(nOuts, n, msg_spectra_obj(config))
acon_powers_obj(nOuts, n, config)     == AConnector(nOuts, n, msg_powers_obj(config))
acon_pots_obj(nOuts, n, config)       == AConnector(nOuts, n, msg_pots_obj(config))
acon_targets_obj(nOuts, n, config)    == AConnector(nOuts, n, msg_targets_obj(config))
acon_tracks_obj(nOuts, n, config)     == AConnector(nOuts, n, msg_tracks_obj(config))
acon_categories_obj(nOuts, n, config) == AConnector(nOuts, n, msg_categories_obj(config))

(* A module, sink, source or injector with its thread.                      *)
Threaded(inner)            == [inner |-> inner, thread |-> Struct]
Threaded_destroy           == Once({"inner", "thread"})
Threaded_parts(o)          == {<<o, Threaded_destroy>>}

-----------------------------------------------------------------------------
(* injector/inj_targets.c: a copy of the configured targets, whose tags the *)
(* copy constructor duplicates as well.                                     *)
inj_targets_obj(nTargets)  == [targets |-> targets_obj(nTargets)]
inj_targets_destroy(o)     == Once({"targets"})
inj_targets_parts(o)       ==
    {<<o, inj_targets_destroy(o)>>, <<o.targets, targets_destroy(o.targets)>>}
inj_targets_process(o, out) == targets_copy(out, o.targets)

-----------------------------------------------------------------------------
(* Ownership.  CountFields are the fields that hold a number or a letter.    *)
(* A destructor is balanced when it frees each array and each object below   *)
(* it exactly as often as the constructor allocated it.                      *)
CountFields ==
    {"nSignals", "nChannels", "nPots", "nTracks", "nTargets", "nSeps", "nPoints", "nPairs", "nLevels",
     "nCoarses", "nFines", "nThetas", "nRows", "nCols", "nOuts", "nMessages", "nMaxElements",
     "nTracksMax", "nTargetsMax", "nTracksNewFalse", "nCombinations", "nAssignations", "nParticles",
     "nCoefficients", "nFilters", "nTriangles", "nIndexes", "nPointsDiscrete", "nResolutionsPerDiscrete", "nLinks",
     "frameSize", "halfFrameSize", "frameSizeInterp", "halfFrameSizeInterp", "hopSize", "hopSizeIn",
     "hopSizeOut", "bufferSize", "aimgSize", "aimgsCells", "winSize", "bSize", "lowPassCut", "N",
     "type", "mode", "mode_sep", "mode_pf", "map", "tau", "delta"}
Count(field) ==
    IF field = null THEN 0 ELSE IF "rows" \in DOMAIN field THEN field.rows ELSE 1
Unbalanced(o, frees) ==
    {f \in (DOMAIN o \ CountFields) \cup DOMAIN frees :
        f \notin DOMAIN o \/ Count(o[f]) # (IF f \in DOMAIN frees THEN frees[f] ELSE 0)}
Leaks(parts) == UNION {Unbalanced(p[1], p[2]) : p \in parts}

=============================================================================
