------------------------------ MODULE Endpoints ------------------------------
(***************************************************************************)
(* The source of samples (src/source/src_hops.c, src_pcm.c) and the sinks    *)
(* (src/sink): what their constructors accept, what their open, process and  *)
(* close functions have a case for, and the buffers they fill.  A function    *)
(* that meets an interface or a format it has no case for ends the process.   *)
(***************************************************************************)
EXTENDS Parameters

(* An endpoint e is a format and an interface.  The rows are the cases of    *)
(* the two switch statements of X_process, of X_open and of X_close.         *)
Cases(formats, opens, processes, closes) ==
    [formats |-> formats, opens |-> opens, processes |-> processes, closes |-> closes]
Opens(t, e)     == e.interface \in t.opens
Processes(t, e) == e.format \in t.formats /\ e.interface \in t.processes
Closes(t, e)    == e.interface \in t.closes

BytesPerSample == [f \in BinaryInts |->
    CASE f = "binary_int08" -> 1 [] f = "binary_int16" -> 2
      [] f = "binary_int24" -> 3 [] f = "binary_int32" -> 4]

-----------------------------------------------------------------------------
(* src_hops.c                                                               *)

src_hops_accepts(e) ==
    /\ e.interface \in {"file", "soundcard", "pulseaudio", "uac_in", "socket"}
    /\ e.format \in BinaryInts
src_hops_obj(e, msg) ==
    LET samples == msg.hopSize * msg.nChannels IN
    [hopSize |-> msg.hopSize, nChannels |-> msg.nChannels, buffer |-> Flat(4 * samples),
     bufferSize |-> samples * BytesPerSample[e.format], format |-> Struct, interface |-> Struct]
src_hops_destroy == Once({"buffer", "format", "interface"})
src_hops_cases ==
    LET served == {"file", "soundcard", "uac_in", "socket"} IN
    Cases(BinaryInts, served, served, served)
(* The buffer of the last call becomes the hop; then the buffer is refilled.  *)
src_hops_process(o, e, out) ==
    /\ o.hopSize * o.nChannels * BytesPerSample[e.format] <= o.buffer.cells
    /\ Holds(out.array, o.nChannels, o.hopSize)
    /\ Holds(o.buffer, 1, o.bufferSize)

(* src_pcm.c, used when the interface is uac_in: the ring and the frame that  *)
(* interleaves the channels.  A frame of 32 bits has no case there: its size is *)
(* whatever the memory held, and the configurations do not ask for it.  The    *)
(* guard of the destructor is the wrong way round: it returns at once when    *)
(* there is something to free.                                               *)
RB_COUNT == 4
src_pcm_obj(e, msg) ==
    LET size == msg.hopSize * msg.nChannels * BytesPerSample[e.format] IN
    [rb |-> Flat(RB_COUNT * size), buffer |-> Flat(size)]
src_pcm_destory(init) == IF init THEN Once({}) ELSE Once({"rb", "buffer"})
src_pcm_write_buffer(o, e, msg) ==
    Holds(o.buffer, 1, msg.hopSize * msg.nChannels * BytesPerSample[e.format])

-----------------------------------------------------------------------------
(* snk_hops.c                                                               *)

snk_hops_accepts(e) ==
    \/ e.interface = "blackhole" /\ e.format = "undefined"
    \/ e.interface \in {"file", "uac_out", "socket"} /\ e.format \in BinaryInts
snk_hops_obj(msg) ==
    [hopSize |-> msg.hopSize, nChannels |-> msg.nChannels, format |-> Struct,
     buffer |-> Flat(4 * msg.nChannels * msg.hopSize), interface |-> Struct]
snk_hops_cases ==
    LET served == {"blackhole", "file", "socket", "uac_out"} IN
    Cases(BinaryInts \cup {"undefined"}, served, served, served)
snk_hops_process(o, e, in) ==
    IF e.format = "undefined" THEN Holds(o.buffer, 1, 1)
    ELSE /\ Holds(o.buffer, 1, o.hopSize * o.nChannels * BytesPerSample[e.format])
         /\ Holds(in.array, o.nChannels, o.hopSize)

-----------------------------------------------------------------------------
(* snk_pots.c, snk_tracks.c, snk_categories.c: a text of 1024 characters at   *)
(* most, the closing zero included.  Frame is the text around the entries,    *)
(* with the longest time stamp; an entry counts its comma and its newline,    *)
(* numbers of %1.3f their six characters.                                     *)

snk_text_obj == [buffer |-> Flat(1024), format |-> Struct, interface |-> Struct]
snk_destroy  == Once({"buffer", "format", "interface"})
snk_text_accepts(e) ==
    \/ e.interface = "blackhole" /\ e.format = "undefined"
    \/ e.interface \in {"file", "socket", "terminal"} /\ e.format = "text_json"
snk_text_cases(formats) ==
    LET served == {"blackhole", "file", "socket", "terminal"} IN
    Cases(formats, served, served, served)
Frame == 2 + 39 + 13 + 6 + 2 + 1
Text(o, e, n, entry) ==
    IF e.format = "undefined" THEN Holds(o.buffer, 1, 1) ELSE Frame + n * entry <= o.buffer.cells

snk_pots_accepts(e) == snk_text_accepts(e) \/ (e.format = "binary_float" /\ e.interface = "file")
\* Mutant: no case for the binary format.
snk_pots_cases_TextOnly == snk_text_cases({"text_json", "undefined"})

snk_pots_cases      == snk_text_cases({"binary_float", "text_json", "undefined"})
snk_pots_process(o, e, nPots, in) ==
    IF e.format = "binary_float"
    THEN Holds(in.array, 1, 4 * in.nPots) /\ Holds(o.buffer, 1, 4 * 4 * in.nPots)
    ELSE Holds(in.array, 1, 4 * nPots) /\ Text(o, e, nPots, 64)

snk_tracks_accepts(e) == snk_text_accepts(e)
snk_tracks_cases      == snk_text_cases({"text_json", "undefined"})
(* tag is the length of the longest tag.                                     *)
snk_tracks_process(o, e, nTracks, tag, in) ==
    /\ Holds(in.array, 1, 3 * nTracks) /\ Holds(in.ids, 1, nTracks)
    /\ Holds(in.activity, 1, nTracks)  /\ in.tags.rows >= nTracks
    /\ Text(o, e, nTracks, 110 + tag)

snk_categories_accepts(e) == snk_text_accepts(e)
snk_categories_cases      == snk_text_cases({"text_json", "undefined"})
snk_categories_process(o, e, nChannels, in) ==
    Holds(in.array, 1, nChannels) /\ Text(o, e, nChannels, 37)

=============================================================================
