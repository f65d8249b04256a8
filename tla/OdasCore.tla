------------------------------ MODULE OdasCore ------------------------------
(***************************************************************************)
(* The life of demo/odascore: uac.c captures frames from the audio input    *)
(* and puts them into odascore.c, whose worker thread builds ODAS and starts *)
(* it; the source of ODAS takes them out of the ring of src_pcm.c.  Four     *)
(* threads: main, the capture thread (uac_worker), the worker thread         *)
(* (run_main_worker) and the source thread.                                 *)
(*                                                                         *)
(* A sample is <<frame, position>>: which captured frame it belongs to and   *)
(* where it stands in it; one sample stands for one byte group of all        *)
(* channels, since src_pcm_write_buffer interleaves them before it writes.   *)
(***************************************************************************)
EXTENDS Integers, Sequences

CONSTANTS ThreadType,   \* 0: multi-threaded, 1: single-threaded
          Channels,     \* obj.chn
          PerFrame,     \* samples of a captured frame; the hop size of the source
          MaxFrames     \* how many frames the device captures in a run

CoreParameters == PerFrame \in Nat \ {0} /\ Channels \in Nat /\ MaxFrames \in Nat

VARIABLES main,         \* next step of main
          quit,         \* g_need_quit_flag
          running,      \* obj->running
          capture,      \* next step of the capture thread
          held,         \* channels whose frame it holds; the others are NULL
          frame,        \* frames captured so far
          core,         \* obj->odascore: "none", "live" or "freed"
          worker,       \* next step of the worker thread
          objs, aobjs,  \* core->objs # NULL, core->aobjs # NULL
          sps,          \* src_pcm_spec of the source: "raw" until it is opened
          source,       \* next step of the source
          ring,         \* samples in the ring
          buffer,       \* obj->buffer of the source
          putResult,    \* value of the last odascore_put_frames
          crashed       \* an invalid pointer was followed

vars == <<main, quit, running, capture, held, frame, core, worker, objs, aobjs,
          sps, source, ring, buffer, putResult, crashed>>

captureVars == <<capture, held, frame, putResult>>
workerVars == <<worker, objs, aobjs>>
sourceVars == <<sps, source, buffer>>
mainVars == <<main, running, core>>

RB_COUNT == 4

Capacity == RB_COUNT * PerFrame

Least(a, b) == IF a < b THEN a ELSE b

Silence == [i \in 1 .. PerFrame |-> <<0, i>>]

Samples(f) == [i \in 1 .. PerFrame |-> <<f, i>>]

Init == /\ main = "audio_init" /\ quit = FALSE /\ running = FALSE
        /\ capture = "off" /\ held = 0 /\ frame = 0 /\ putResult = 0
        /\ core = "none" /\ worker = "off" /\ objs = FALSE /\ aobjs = FALSE
        /\ sps = "raw" /\ source = "off" /\ ring = <<>> /\ buffer = Silence
        /\ crashed = FALSE

-----------------------------------------------------------------------------
(* main: uac_init, the wait for the signal, uac_destory *)

InitSteps == <<"audio_init", "start_ai", "dmic_gain", "items">>

\* A call into the audio library succeeds, or uac_init and main return.
AudioStep(i) ==
    /\ main = InitSteps[i]
    /\ main' \in {"failed", IF i = Len(InitSteps) THEN "construct" ELSE InitSteps[i + 1]}
    /\ UNCHANGED <<quit, running, core, captureVars, workerVars, sourceVars, ring, crashed>>

\* odascore_construct: the worker thread is created before it returns.
Construct == /\ main = "construct"
             /\ core' = "live"
             /\ worker' = IF ThreadType = 0 THEN "launch_multi" ELSE "launch_single"
             /\ main' = "spawn"
             /\ UNCHANGED <<quit, running, captureVars, objs, aobjs, sourceVars, ring, crashed>>

SpawnCapture == /\ main = "spawn"
                /\ running' = TRUE
                /\ capture' = "get"
                /\ main' = "wait"
                /\ UNCHANGED <<quit, core, held, frame, putResult, workerVars, sourceVars,
                               ring, crashed>>

Signal == /\ main \notin {"failed", "stopped"} /\ ~ quit
          /\ quit' = TRUE
          /\ UNCHANGED <<mainVars, captureVars, workerVars, sourceVars, ring, crashed>>

\* uac_destory: stop the capture thread and join it, then free the rest.
StopCapture == /\ main = "wait" /\ quit
               /\ running' = FALSE
               /\ main' = "join"
               /\ UNCHANGED <<quit, core, captureVars, workerVars, sourceVars, ring, crashed>>

JoinCapture == /\ main = "join" /\ capture = "done"
               /\ main' = "destroy"
               /\ UNCHANGED <<quit, running, core, captureVars, workerVars, sourceVars, ring,
                              crashed>>

\* odascore_destroy takes the branch of the other thread type, and follows the
\* pointer that only that type sets: it is NULL.
Destroyable == IF ThreadType = 0 THEN objs ELSE aobjs

DestroyCore == /\ main = "destroy" /\ ~ Destroyable
               /\ main' = "stopped"
               /\ crashed' = TRUE
               /\ UNCHANGED <<quit, running, core, captureVars, workerVars, sourceVars, ring>>

-----------------------------------------------------------------------------
(* The capture thread: uac_worker *)

\* Select and get each channel; the first failure leaves the rest of chn_bufs NULL.
GetFrames == /\ capture = "get" /\ running /\ frame < MaxFrames
             /\ held' \in 0 .. Channels
             /\ frame' = frame + 1
             /\ capture' = "put"
             /\ UNCHANGED <<mainVars, quit, putResult, workerVars, sourceVars, ring, crashed>>

\* odascore_put_frames, while the worker has built nothing.
PutRefused == /\ capture = "put" /\ ~ objs /\ ~ aobjs
              /\ putResult' = -1
              /\ capture' = "release"
              /\ UNCHANGED <<mainVars, quit, held, frame, workerVars, sourceVars, ring, crashed>>

\* odascore_put_frames, src_pcm_write_buffer and ring_buffer_write: what fits.
PutFrame ==
    /\ capture = "put" /\ (objs \/ aobjs)
    /\ sps = "open" /\ held = Channels
    /\ LET fit == Least(PerFrame, Capacity - Len(ring))
       IN  ring' = ring \o SubSeq(Samples(frame), 1, fit) /\ putResult' = fit
    /\ capture' = "release"
    /\ UNCHANGED <<mainVars, quit, held, frame, workerVars, sourceVars, crashed>>

\* The same with a NULL channel buffer, or with an src_pcm_spec that is only malloced.
PutFault == /\ capture = "put" /\ (objs \/ aobjs)
            /\ sps = "raw" \/ held < Channels
            /\ crashed' = TRUE
            /\ UNCHANGED <<mainVars, quit, captureVars, workerVars, sourceVars, ring>>

\* Release the channels in order up to the first one that holds nothing.
ReleaseFrames == /\ capture = "release"
                 /\ held' = 0
                 /\ capture' = "get"
                 /\ UNCHANGED <<mainVars, quit, frame, putResult, workerVars, sourceVars, ring,
                                crashed>>

EndCapture == /\ capture = "get" /\ ~ running
              /\ capture' = "done"
              /\ UNCHANGED <<mainVars, quit, held, frame, putResult, workerVars, sourceVars,
                             ring, crashed>>

-----------------------------------------------------------------------------
(* The worker thread: run_main_worker *)

\* launch_multi_thread: build the objects, then start the threads.
BuildMulti == /\ worker = "launch_multi"
              /\ aobjs' = TRUE
              /\ worker' = "start"
              /\ UNCHANGED <<mainVars, quit, captureVars, objs, sourceVars, ring, crashed>>

\* launch_single_thread: build the objects, then run the loop itself.
BuildSingle == /\ worker = "launch_single"
               /\ objs' = TRUE
               /\ worker' = "start"
               /\ UNCHANGED <<mainVars, quit, captureVars, aobjs, sourceVars, ring, crashed>>

StartSource == /\ worker = "start"
               /\ source' = "opening"
               /\ worker' = "done"
               /\ UNCHANGED <<mainVars, quit, captureVars, objs, aobjs, sps, buffer, ring, crashed>>

-----------------------------------------------------------------------------
(* The source, in a thread of its own or in the worker *)

\* src_hops_open_interface_uac_in and src_pcm_init.
OpenSource == /\ source = "opening"
              /\ sps' = "open"
              /\ source' = "process"
              /\ UNCHANGED <<mainVars, quit, captureVars, workerVars, buffer, ring, crashed>>

\* src_hops_process_interface_uac_in: what is there is read over the old hop;
\* it never waits and always succeeds.
ReadHop == /\ source = "process"
           /\ LET n == Least(PerFrame, Len(ring))
              IN  /\ buffer' = [i \in 1 .. PerFrame |-> IF i <= n THEN ring[i] ELSE buffer[i]]
                  /\ ring' = SubSeq(ring, n + 1, Len(ring))
           /\ UNCHANGED <<mainVars, quit, captureVars, workerVars, sps, source, crashed>>

-----------------------------------------------------------------------------

Main == (\E i \in DOMAIN InitSteps : AudioStep(i)) \/ Construct \/ SpawnCapture
        \/ StopCapture \/ JoinCapture \/ DestroyCore
Capture == GetFrames \/ PutRefused \/ PutFrame \/ PutFault \/ ReleaseFrames \/ EndCapture
Worker == BuildMulti \/ BuildSingle \/ StartSource
Source == OpenSource \/ ReadHop

Over == (crashed \/ main = "failed") /\ UNCHANGED vars

Next == \/ /\ ~ crashed /\ main # "failed"
           /\ Main \/ Signal \/ Capture \/ Worker \/ Source
        \/ Over

\* Each thread is scheduled; no signal need come.
Spec == /\ Init /\ [][Next]_vars
        /\ WF_vars(~ crashed /\ main # "failed" /\ Main)
        /\ WF_vars(~ crashed /\ main # "failed" /\ Capture)
        /\ WF_vars(~ crashed /\ main # "failed" /\ Worker)
        /\ WF_vars(~ crashed /\ main # "failed" /\ Source)

-----------------------------------------------------------------------------
(* Properties *)

Sample == (0 .. MaxFrames) \X (1 .. PerFrame)

\* Types of the variables; the ring keeps to its capacity.
TypeOK == /\ main \in {"failed", "construct", "spawn", "wait", "join", "destroy", "stopped"}
                        \cup {InitSteps[i] : i \in DOMAIN InitSteps}
          /\ {quit, running, objs, aobjs, crashed} \subseteq BOOLEAN
          /\ capture \in {"off", "get", "put", "release", "done"}
          /\ held \in 0 .. Channels /\ frame \in 0 .. MaxFrames
          /\ putResult \in -1 .. PerFrame
          /\ core \in {"none", "live"}
          /\ worker \in {"off", "launch_multi", "launch_single", "start", "done"}
          /\ sps \in {"raw", "open"} /\ source \in {"off", "opening", "process"}
          /\ ring \in Seq(Sample) /\ Len(ring) <= Capacity
          /\ buffer \in [1 .. PerFrame -> Sample]

\* No hop mixes two captured frames, although a write and a read may both be
\* cut short by a full or an empty ring: the ring holds a whole number of frames.
HopsAreWhole == \A i \in DOMAIN buffer : buffer[i] = <<buffer[1][1], i>>

\* (of each step) A hop is of the same frame as the one before (nothing new was there) or of a
\* later one; frames are skipped only when the ring was full of older ones.
HopsInOrder == buffer'[1][1] >= buffer[1][1]
=============================================================================
