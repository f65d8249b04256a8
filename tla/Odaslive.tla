------------------------------ MODULE Odaslive ------------------------------
(***************************************************************************)
(* demo/odaslive/main.c: the life of the program for one configuration c.    *)
(* It reads the configuration, constructs the objects, and then              *)
(*   - with one thread, opens the source and the sinks, repeats              *)
(*     threads_single_process until the source returns -1, closes them;      *)
(*   - with many threads (multi), starts and joins the threads, which is the *)
(*     subject of Pipeline and ThreadControl and one step here;              *)
(* and destroys the objects and the configuration.                           *)
(*                                                                         *)
(* One step is one call that main.c, objects.c or threads.c makes.  A message *)
(* is its time stamp and a flag, real, which is TRUE when its data were       *)
(* computed from the source by enabled modules and not zeroed on the way.     *)
(***************************************************************************)
EXTENDS Construction, Hop2Hop

CONSTANTS Configs,     \* the configuration files
          MaxReads     \* bound: full reads of the source in one run

(* parameters.c takes every rate and hop size as it is; a rate is a divisor    *)
(* of the resamplers, and a hop has samples.                                  *)
ASSUME ConfigsAssumption ==
    \A cfg \in Configs : \A group \in {cfg.raw, cfg.general, cfg.sep, cfg.pf} :
        group.fS \in Nat \ {0} /\ group.hopSize \in Nat \ {0}

VARIABLES c, multi,    \* the configuration, and whether threads are used
          phase, at,   \* what main.c is doing, and the next object or call
          heap,        \* the objects constructed and not destroyed
          leaked,      \* <<object, field>>, <<"configs", object, field>>: never freed
          inside,      \* every access so far was inside its container
          in, out,     \* connector -> its input message, its output messages
          fill,        \* resampler -> interval in its buffer, and its data
          stamp,       \* source and resamplers -> last time stamp given
          buffer,      \* the read the buffer of the source holds
          reads, carried,  \* full reads so far; the read of each hop sent
          rtn,         \* what src_hops_process returned
          opened, sent,    \* endpoints open; sink -> messages written
          reason       \* why the process left by exit()

vars == <<c, multi, phase, at, heap, leaked, inside, in, out, fill, stamp, buffer, reads, carried,
          rtn, opened, sent, reason>>
stream == <<in, out, fill, stamp, buffer, reads, carried, rtn, sent>>

Silence == 0        \* the buffer of the source before the first read
Partial == -1       \* a read that came back short
Zero    == [ts |-> 0, real |-> FALSE]

Init ==
    /\ c \in Configs /\ multi \in BOOLEAN
    /\ phase = "configure" /\ at = 1 /\ heap = {} /\ leaked = {} /\ inside = TRUE
    /\ in = [con \in DOMAIN Connectors |-> Zero] /\ out = in
    /\ fill = [r \in Resamplers |-> [n |-> 0, real |-> TRUE]]
    /\ stamp = [x \in Resamplers \cup {"src_hops_mics"} |-> 0]
    /\ buffer = Silence /\ reads = 0 /\ carried = <<>> /\ rtn = 0
    /\ opened = {} /\ sent = [s \in Sinks |-> <<>>] /\ reason = "none"

Exit(why) == phase' = "exit" /\ reason' = why

-----------------------------------------------------------------------------
(* configs_construct, objects_construct (or aobjects_construct).             *)
Configure ==
    /\ phase = "configure"
    /\ IF configs_construct(c) THEN phase' = "construct" /\ UNCHANGED reason
                               ELSE Exit("configuration")
    /\ UNCHANGED <<c, multi, at, heap, leaked, inside, opened, stream>>

nMessages == 32
Construct ==
    /\ phase = "construct"
    /\ LET name == ConstructOrder[at] IN
       IF Refused(name, c)
       THEN Exit("constructor") /\ UNCHANGED <<at, heap>>
       ELSE /\ heap' = heap \cup {name}
            /\ IF at < Len(ConstructOrder)
               THEN at' = at + 1 /\ UNCHANGED phase
               ELSE at' = 1 /\ phase' = (IF multi THEN "destroy" ELSE "open")
            /\ UNCHANGED reason
    /\ UNCHANGED <<c, multi, leaked, inside, opened, stream>>

-----------------------------------------------------------------------------
(* threads_single_open and threads_single_close: the source, then the sinks. *)
EndpointOrder == <<"src_hops_mics", "snk_pots_ssl", "snk_tracks_sst", "snk_hops_seps_vol",
                   "snk_hops_pfs_vol", "snk_categories">>
NextPhase(after) ==
    IF at < Len(EndpointOrder) THEN at' = at + 1 /\ UNCHANGED phase ELSE at' = 1 /\ phase' = after

Open ==
    /\ phase = "open"
    /\ LET name == EndpointOrder[at] IN
       IF Opens(EndpointCases(name), EndpointConfig(name, c))
       THEN opened' = opened \cup {name} /\ NextPhase("process") /\ UNCHANGED reason
       ELSE Exit("no case") /\ UNCHANGED <<at, opened>>
    /\ UNCHANGED <<c, multi, heap, leaked, inside, stream>>

(* The file, the device or the peer is not there.                            *)
OpenFails ==
    /\ phase = "open" /\ EndpointConfig(EndpointOrder[at], c).interface \notin {"blackhole", "terminal"}
    /\ Exit("not there")
    /\ UNCHANGED <<c, multi, at, heap, leaked, inside, opened, stream>>

UsesPcm(name) == name = "src_hops_mics" /\ src_hops_mics_config(c).interface = "uac_in"
Close ==
    /\ phase = "close"
    /\ LET name == EndpointOrder[at]
           pcm  == src_pcm_obj(src_hops_mics_config(c), msg_hops_mics_raw_config(c))
       IN IF Closes(EndpointCases(name), EndpointConfig(name, c))
          THEN /\ opened' = opened \ {name} /\ NextPhase("destroy") /\ UNCHANGED reason
               /\ leaked' = leaked \cup
                    (IF UsesPcm(name) THEN {"src_pcm"} \X Unbalanced(pcm, src_pcm_destory(TRUE)) ELSE {})
          ELSE Exit("no case") /\ UNCHANGED <<at, opened, leaked>>
    /\ UNCHANGED <<c, multi, heap, inside, stream>>

-----------------------------------------------------------------------------
(* threads_single_process.  A call is an object, or <<"push", resampler>>,   *)
(* or <<"pop", resampler>>; a pop that returns -1 leaves its while loop.      *)
Push(r) == <<"push", r>>
Pop(r)  == <<"pop", r>>
Call(name) == <<"process", name>>
Calls(names) == [i \in 1 .. Len(names) |-> Call(names[i])]

SepsLoop == <<Pop("mod_resample_seps")>> \o
    Calls(<<"con_hops_seps_rs", "mod_volume_seps", "con_hops_seps_vol", "snk_hops_seps_vol">>)
PfsLoop == <<Pop("mod_resample_pfs")>> \o
    Calls(<<"con_hops_pfs_rs", "mod_volume_pfs", "con_hops_pfs_vol", "snk_hops_pfs_vol">>)
FrameCalls ==
    <<Pop("mod_resample_mics")>> \o
    Calls(<<"con_hops_mics_rs", "mod_stft_mics", "con_spectra_mics", "mod_noise_mics",
            "con_powers_mics", "mod_ssl", "con_pots_ssl", "snk_pots_ssl", "inj_targets_sst",
            "con_targets_sst", "mod_sst", "con_tracks_sst", "snk_tracks_sst", "mod_sss",
            "con_spectra_seps", "con_spectra_pfs", "mod_istft_seps", "mod_istft_pfs",
            "con_hops_seps", "con_hops_pfs">>)
    \o <<Push("mod_resample_seps"), Push("mod_resample_pfs")>>
HopCalls ==
    Calls(<<"src_hops_mics", "con_hops_mics_raw", "mod_mapping_mics", "con_hops_mics_map">>)
    \o <<Push("mod_resample_mics")>>
Body == HopCalls \o FrameCalls \o SepsLoop \o PfsLoop
            \o Calls(<<"mod_classify", "con_categories", "snk_categories">>)

(* The last call of each while loop, by the resampler that heads it.         *)
LoopEnd == [mod_resample_mics |-> Len(Body), mod_resample_seps |-> Len(HopCalls \o FrameCalls \o SepsLoop),
            mod_resample_pfs |-> Len(HopCalls \o FrameCalls \o SepsLoop \o PfsLoop)]
Head1(r) == CHOOSE i \in 1 .. Len(Body) : Body[i] = Pop(r)
Continue ==
    /\ at' = IF \E r \in Resamplers : at = LoopEnd[r]
             THEN Head1(CHOOSE r \in Resamplers : at = LoopEnd[r]) ELSE at + 1
    /\ UNCHANGED phase
\* Mutant: behind its loop a resampler of the separation is tried once more.
Leave_NoEnd(r) == at' = LoopEnd[r] + 1 /\ UNCHANGED phase

(* Behind the loop of r: the next call, or, behind the loop of the frames,    *)
(* the return of threads_single_process to the loop of main.c.                *)
Leave(r) ==
    IF r # "mod_resample_mics" THEN at' = LoopEnd[r] + 1 /\ UNCHANGED phase
    ELSE at' = 1 /\ phase' = IF rtn = 0 THEN "process" ELSE "close"

Calling(call) == phase = "process" /\ Body[at] = call

(* Modules and resamplers touch arrays only when enabled.  Fits covers both    *)
(* calls of a resampler.                                                     *)
Touches(call) == /\ call[1] # "pop"
                 /\ \/ call[2] \in Enabled(c)
                    \/ call[2] \in DOMAIN Connectors \cup Endpoints \cup {"inj_targets_sst"}
Examined ==
    \/ phase' # "exit" /\ Touches(Body[at])
       /\ \E name \in {Body[at][2]} : \E object \in {Built(name, c)} :
             inside' = (inside /\ Fits(name, object, c))
    \/ (phase' = "exit" \/ ~ Touches(Body[at])) /\ UNCHANGED inside

(* The buffer becomes the hop, then the next read fills the buffer.          *)
Read(result) ==
    \/ /\ reads < MaxReads
       /\ result = 0 /\ reads' = reads + 1 /\ buffer' = reads + 1
    \/ /\ src_hops_mics_config(c).interface # "uac_in"
       /\ result = -1 /\ UNCHANGED reads /\ buffer' = Partial
ProcessSource ==
    /\ Calling(Call("src_hops_mics"))
    /\ IF Processes(src_hops_cases, src_hops_mics_config(c))
       THEN /\ carried' = Append(carried, buffer)
            /\ \E result \in {0, -1} : Read(result) /\ rtn' = result
            /\ stamp' = [stamp EXCEPT !["src_hops_mics"] = @ + 1]
            /\ in' = [in EXCEPT ![Out("src_hops_mics", 1)] =
                         [ts |-> stamp'["src_hops_mics"], real |-> TRUE]]
            /\ Continue /\ UNCHANGED reason
       ELSE Exit("no case") /\ UNCHANGED <<at, carried, rtn, reads, buffer, stamp, in>>
    /\ UNCHANGED <<c, multi, heap, leaked, opened, out, fill, sent>>

ProcessConnector ==
    /\ \E con \in DOMAIN Connectors :
         /\ Calling(Call(con))
         /\ out' = [out EXCEPT ![con] = in[con]]
         /\ Continue
    /\ UNCHANGED <<c, multi, heap, leaked, opened, reason, in, fill, stamp, buffer, reads, carried,
                   rtn, sent>>

(* The one-in, one-out modules: the stamp of the input, and data when enabled *)
(* (the injector needs no enabling).  A zero input zeroes the output.         *)
Transforms == {"mod_mapping_mics", "mod_stft_mics", "mod_noise_mics", "mod_ssl", "mod_istft_seps",
               "mod_istft_pfs", "mod_volume_seps", "mod_volume_pfs"}
Transformed(name, msg, sources) ==
    IF msg.ts = 0 THEN Zero
    ELSE [ts |-> msg.ts, real |-> name \in Enabled(c) /\ \A s \in sources : s.real]
ProcessTransform ==
    /\ \E name \in Transforms :
         /\ Calling(Call(name))
         /\ LET msg == out[In(name, 1)]
            IN in' = [in EXCEPT ![Out(name, 1)] = Transformed(name, msg, {msg})]
         /\ Continue
    /\ UNCHANGED <<c, multi, heap, leaked, opened, reason, out, fill, stamp, buffer, reads, carried,
                   rtn, sent>>
ProcessInjector ==
    /\ Calling(Call("inj_targets_sst"))
    /\ in' = [in EXCEPT !["con_targets_sst"] = [ts |-> out["con_hops_mics_rs"].ts, real |-> TRUE]]
    /\ Continue
    /\ UNCHANGED <<c, multi, heap, leaked, opened, reason, out, fill, stamp, buffer, reads, carried,
                   rtn, sent>>

(* Modules with more than one input leave the process when the stamps differ. *)
Stamps(name) == {out[Links[name].ins[i]].ts : i \in DOMAIN Links[name].ins}
Mismatch(name) == \E t, u \in Stamps(name) : t # u
Joining(name) == CASE name = "mod_sst"      -> {out["con_pots_ssl"]}
                   [] name = "mod_sss"      -> {out["con_spectra_mics"], out["con_tracks_sst"]}
                   [] name = "mod_classify" -> {out["con_hops_seps"], out["con_tracks_sst"]}
PostFilterUses == IF c.sss.mode_pf = "ms" THEN {out["con_powers_mics"]} ELSE {}
ProcessJoin ==
    /\ \E name \in {"mod_sst", "mod_sss", "mod_classify"} :
         /\ Calling(Call(name))
         /\ IF Mismatch(name) THEN Exit("mismatch") /\ UNCHANGED <<at, in>>
            ELSE LET result == Transformed(name, out[In(name, 1)], Joining(name))
                     second == [result EXCEPT !.real = @ /\ \A m \in PostFilterUses : m.real]
                 IN /\ in' = IF name = "mod_sss"
                             THEN [in EXCEPT !["con_spectra_seps"] = result, !["con_spectra_pfs"] = second]
                             ELSE [in EXCEPT ![Out(name, 1)] = result]
                    /\ Continue /\ UNCHANGED reason
    /\ UNCHANGED <<c, multi, heap, leaked, opened, out, fill, stamp, buffer, reads, carried, rtn, sent>>

ProcessSink ==
    /\ \E name \in Sinks :
         /\ Calling(Call(name))
         /\ LET msg == out[In(name, 1)] IN
            IF Processes(EndpointCases(name), EndpointConfig(name, c)) \/ msg.ts = 0
            THEN /\ sent' = IF msg.ts = 0 THEN sent ELSE [sent EXCEPT ![name] = Append(@, msg)]
                 /\ Continue /\ UNCHANGED reason
            ELSE Exit("no case") /\ UNCHANGED <<at, sent>>
    /\ UNCHANGED <<c, multi, heap, leaked, opened, in, out, fill, stamp, buffer, reads, carried, rtn>>

(* Resamplers.  A disabled one takes its input and stores nothing.           *)
Rates(r) ==
    LET rate == ResampleConfig(r, c)
    IN [fSin |-> rate.in, fSout |-> rate.out,
        hopSizeIn  |-> MessageConfig(In(r, 1), c).hopSize,
        hopSizeOut |-> MessageConfig(Out(r, 1), c).hopSize]
ProcessPush ==
    /\ \E r \in Resamplers :
         /\ Calling(Push(r))
         /\ fill' = IF r \notin Enabled(c) \/ isFull(Rates(r), fill[r].n) THEN fill
                    ELSE [fill EXCEPT ![r] = [n |-> AfterPush(Rates(r), @.n),
                                              real |-> @.real /\ out[In(r, 1)].real]]
         /\ Continue
    /\ UNCHANGED <<c, multi, heap, leaked, opened, reason, in, out, stamp, buffer, reads, carried, rtn,
                   sent>>
ProcessPop ==
    /\ \E r \in Resamplers :
         /\ Calling(Pop(r))
         /\ IF isEmpty(Rates(r), fill[r].n) THEN Leave(r) /\ UNCHANGED <<fill, stamp, in>>
            ELSE /\ fill'  = [fill EXCEPT ![r].n = AfterPop(Rates(r), @)]
                 /\ stamp' = [stamp EXCEPT ![r] = @ + 1]
                 /\ in' = [in EXCEPT ![Out(r, 1)] = [ts |-> stamp'[r], real |-> fill[r].real]]
                 /\ Continue
    /\ UNCHANGED <<c, multi, heap, leaked, opened, reason, out, buffer, reads, carried, rtn, sent>>

(* Only main.c's multi-threaded branch installs a handler for SIGINT.  The    *)
(* other bound: interrupts are tried between two calls of the loop only.      *)
Interrupt ==
    /\ phase = "process" /\ at = 1
    /\ Exit("interrupted")
    /\ UNCHANGED <<c, multi, at, heap, leaked, inside, opened, stream>>

-----------------------------------------------------------------------------
(* objects_destroy (or aobjects_destroy), then configs_destroy.              *)
Owned(name, object) ==
    Parts(name, object) \cup (IF multi THEN AsyncParts(name, object, c, nMessages) ELSE {})
Destroy ==
    /\ phase = "destroy"
    /\ \E name \in {DestroyOrder[at]} : \E object \in {Built(name, c)} :
       /\ heap' = heap \ {name}
       /\ leaked' = leaked \cup ({name} \X Leaks(Owned(name, object)))
       /\ IF at < Len(DestroyOrder) THEN at' = at + 1 /\ UNCHANGED phase
                                    ELSE at' = 1 /\ phase' = "unconfigure"
    /\ UNCHANGED <<c, multi, inside, opened, reason, stream>>
configs_destroy ==
    /\ phase = "unconfigure"
    /\ leaked' = leaked \cup
         ({"configs"} \X Unbalanced(configs_obj, ConfigsDestroyed)) \cup
         UNION {{"configs"} \X {name} \X Leaks(ConfigParts(name, c)) : name \in DOMAIN configs_obj}
    /\ phase' = "done"
    /\ UNCHANGED <<c, multi, at, heap, inside, opened, reason, stream>>

Process ==
    /\ \/ ProcessSource \/ ProcessConnector \/ ProcessTransform \/ ProcessInjector
       \/ ProcessJoin \/ ProcessSink \/ ProcessPush \/ ProcessPop
    /\ Examined

Next ==
    \/ Configure \/ Construct \/ Open \/ OpenFails \/ Process \/ Interrupt
    \/ Close \/ Destroy \/ configs_destroy

Spec == Init /\ [][Next]_vars

-----------------------------------------------------------------------------
TypeOK ==
    /\ c \in Configs /\ multi \in BOOLEAN /\ inside \in BOOLEAN
    /\ phase \in {"configure", "construct", "open", "process", "close", "destroy", "unconfigure",
                  "done", "exit"}
    /\ at \in 1 .. Len(Body) /\ heap \subseteq DOMAIN Connectors \cup DOMAIN Links /\ opened \subseteq Endpoints
    /\ reads \in 0 .. MaxReads /\ rtn \in {0, -1}

(* Every object is built from the configurations of its own messages, by      *)
(* formulas of its own: no call may leave the arrays it was given.            *)
ProcessInBounds == inside

(* When the process ends by itself everything constructed has been destroyed, *)
(* every endpoint closed, and whatever an object keeps was freed exactly once, *)
(* the records of the configuration included.  Three things are never freed:  *)
(* the gain of the two mod_volume, the ring of src_pcm, and the first of the  *)
(* two formats that parameters.c makes for a sink of samples that is a black  *)
(* hole.                                                                      *)
SampleSinks == {"snk_hops_seps_vol", "snk_hops_pfs_vol"}
KnownLeaks(cfg) ==
    ({"mod_volume_seps", "mod_volume_pfs"} \X {"hop2hop_gain"}) \cup ({"src_pcm"} \X {"rb", "buffer"})
    \cup ({"configs"} \X {s \in SampleSinks : ~Wants(s, cfg)} \X {"format"})
HeapBalanced ==
    /\ leaked \subseteq KnownLeaks(c)
    /\ phase = "done" => heap = {} /\ opened = {}

(* A configuration that parameters.c and the constructors accept has a case   *)
(* in every switch that comes later, and in one thread no join ever finds     *)
(* two different time stamps.                                                 *)
EndpointsServe == reason \notin {"no case", "mismatch"}

(* In one thread the sinks write frames 1, 2, 3, ... with no gap, whatever the *)
(* rates; a sink that is no black hole only writes what enabled modules made   *)
(* from the source; and when the loop is over each has had every frame that    *)
(* the hops so far amount to.  Hop k carries read k - 1 (the first is silence):*)
(* every full read is sent, in order, and the short one at the end is not.     *)
Amount(r, nHops) == (nHops * IntervalIn(Rates(r))) \div IntervalOut(Rates(r))
Due(s) ==
    LET frames == Amount("mod_resample_mics", stamp["src_hops_mics"])
    IN CASE s \in {"snk_pots_ssl", "snk_tracks_sst", "snk_categories"} -> frames
         [] s = "snk_hops_seps_vol" -> Amount("mod_resample_seps", frames)
         [] s = "snk_hops_pfs_vol"  -> Amount("mod_resample_pfs", frames)
StreamDelivered ==
    /\ \A s \in Sinks : \A i \in DOMAIN sent[s] :
          sent[s][i].ts = i /\ (Wants(s, c) => sent[s][i].real)
    /\ carried = [i \in 1 .. Len(carried) |-> i - 1]
    /\ phase = "close" => /\ Len(carried) = reads + 1
                          /\ \A s \in Sinks : Wants(s, c) => Len(sent[s]) = Due(s)

=============================================================================
