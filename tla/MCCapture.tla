----------------------------- MODULE MCCapture -----------------------------
(***************************************************************************)
(* One run for the machines around the capture of samples, which share no     *)
(* state: the two rings of src/comm (RingBuffer, without and with its seek,   *)
(* and SpscRing), the program demo/odascore in its two thread types           *)
(* (OdasCore), the workers of comm_audio.c (AudioThreads), the recorder of    *)
(* app/main.cpp (DmicApp) and the set-up of the codec (CodecConfig).  Init    *)
(* picks one of them; the variables of the others stay as they were.         *)
(***************************************************************************)
EXTENDS Integers, Sequences

VARIABLES part,
    allocated, size, rd, wr, lastIsWrite, memory, growing, shrinking, fault, given, got, moved,
    cells, head, tail, wpc, wdata, wtail, wdone, rpc, rbytes, rhead, rdata,
    main, quit, running, capture, frames, frame, core, worker, objs, aobjs, sps, source, ring,
    buffer, putResult, crashed,
    start, fd, opened, pc, held, cancel, joined, owned, ctl, todo,
    app, library, device, enabled, next, appExit,
    codec, request, calls, register, file, result

ringVars   == <<allocated, size, rd, wr, lastIsWrite, memory, growing, shrinking, fault, given, got,
                moved>>
spscVars   == <<cells, head, tail, wpc, wdata, wtail, wdone, rpc, rbytes, rhead, rdata>>
coreVars   == <<main, quit, running, capture, frames, frame, core, worker, objs, aobjs, sps, source,
                ring, buffer, putResult, crashed>>
threadVars == <<start, fd, opened, pc, held, cancel, joined, owned, ctl, todo>>
appVars    == <<app, library, device, enabled, next, appExit>>
codecVars  == <<codec, request, calls, register, file, result>>
vars == <<part, ringVars, spscVars, coreVars, threadVars, appVars, codecVars>>

-----------------------------------------------------------------------------
Whole == INSTANCE RingBuffer WITH
    Byte <- {0, 1}, MaxSize <- 3, MaxChunk <- 2, result <- moved,
    Operations <- {"init", "release", "write", "read", "reset"}
Seeking == INSTANCE RingBuffer WITH
    Byte <- {0, 1}, MaxSize <- 3, MaxChunk <- 2, result <- moved,
    Operations <- {"init", "release", "write", "cover", "read", "reset", "clear", "seek", "reset_size"}

\* A size_t of eight values: two rounds of the buffer, so that positions wrap.
Spsc == INSTANCE SpscRing WITH
    Byte <- {0, 1}, Size <- 4, Word <- 8, MaxChunk <- 2, buffer <- cells

\* More frames than the ring holds.
Multi  == INSTANCE OdasCore WITH
    ThreadType <- 0, Channels <- 2, PerFrame <- 2, MaxFrames <- 6, held <- frames
Single == INSTANCE OdasCore WITH
    ThreadType <- 1, Channels <- 2, PerFrame <- 2, MaxFrames <- 6, held <- frames

Threads == INSTANCE AudioThreads WITH
    Ai <- {"ai"}, Aenc <- {"aenc"}, Adec <- {"adec"}, Ao <- {"ao"}, App <- {}
Dmic == INSTANCE DmicApp WITH
    Ai <- {}, Aenc <- {}, Adec <- {}, Ao <- {}, App <- {1, 2}, Channels <- 2, main <- app

\* What the proofs about these modules ask of their constants.
ASSUME RingSizesHold == Spsc!RingSizes
ASSUME RingsHold == Whole!RingParameters /\ Whole!PlainOperations /\ Seeking!RingParameters
ASSUME FrameSizesHold == Multi!CoreParameters /\ Single!CoreParameters
ASSUME SlotsHold == Threads!FiniteSlots /\ Dmic!FiniteSlots /\ Dmic!DmicChannels

Codec == INSTANCE CodecConfig WITH
    Codecs <- {"es8388", "inner", "none"},
    WorkModes <- {"i2s_master", "i2s_slave", "pcm_master_std", "pcm_slave_non_std"},
    Rates <- {16, 44, 48}, Widths <- {16, 32}

-----------------------------------------------------------------------------
Parts == {"queue", "seek", "spsc", "multi", "single", "threads", "dmic", "codec"}

Init ==
    /\ part \in Parts
    /\ Whole!Init /\ Spsc!Init /\ Multi!Init
    /\ IF part = "threads"
       THEN /\ Threads!Init
            /\ app = "init" /\ library = FALSE /\ device = FALSE /\ enabled = {} /\ next = 1
            /\ appExit = FALSE
       ELSE Dmic!AppInit
    /\ Codec!Init
    /\ part # "codec" => codec = "none" /\ request = [mode |-> "i2s_master", rate |-> 16, width |-> 16]

RingNext == \/ part = "queue" /\ Whole!Next
            \/ part = "seek" /\ Seeking!Next

CoreNext == \/ part = "multi" /\ Multi!Next
            \/ part = "single" /\ Single!Next

Next ==
    /\ UNCHANGED part
    /\ \/ /\ RingNext
          /\ UNCHANGED <<spscVars, coreVars, threadVars, appVars, codecVars>>
       \/ /\ part = "spsc" /\ Spsc!Next
          /\ UNCHANGED <<ringVars, coreVars, threadVars, appVars, codecVars>>
       \/ /\ CoreNext
          /\ UNCHANGED <<ringVars, spscVars, threadVars, appVars, codecVars>>
       \/ /\ part = "threads" /\ Threads!Next
          /\ UNCHANGED <<ringVars, spscVars, coreVars, appVars, codecVars>>
       \/ /\ part = "dmic" /\ Dmic!AppNext
          /\ UNCHANGED <<ringVars, spscVars, coreVars, codecVars>>
       \/ /\ part = "codec" /\ Codec!Next
          /\ UNCHANGED <<ringVars, spscVars, coreVars, threadVars, appVars>>

-----------------------------------------------------------------------------
(* The fairness of the modules, for the machine that runs.                   *)
Alive == ~ crashed /\ main # "failed"

recorderVars == <<threadVars, appVars>>

CoreFairness ==
    /\ WF_coreVars(part = "multi" /\ Alive /\ Multi!Main)
    /\ WF_coreVars(part = "multi" /\ Alive /\ Multi!Capture)
    /\ WF_coreVars(part = "multi" /\ Alive /\ Multi!Worker)
    /\ WF_coreVars(part = "single" /\ Alive /\ Single!Main)
    /\ WF_coreVars(part = "single" /\ Alive /\ Single!Capture)
    /\ WF_coreVars(part = "single" /\ Alive /\ Single!Worker)
ThreadFairness ==
    /\ WF_threadVars(part = "threads" /\ Threads!Destroy)
    /\ \A s \in {"ai", "aenc", "adec", "ao"} : WF_threadVars(part = "threads" /\ Threads!Worker(s))
AppFairness ==
    /\ WF_recorderVars(part = "dmic" /\ Dmic!Main)
    /\ \A s \in {1, 2} : WF_recorderVars(part = "dmic" /\ Dmic!Worker(s) /\ UNCHANGED appVars)

Spec == Init /\ [][Next]_vars /\ CoreFairness /\ ThreadFairness /\ AppFairness

-----------------------------------------------------------------------------
(* The variables of each machine have their types.                           *)
TypesOK ==
    CASE part = "queue"   -> Whole!TypeOK    [] part = "seek"   -> Seeking!TypeOK
      [] part = "spsc"    -> Spsc!TypeOK     [] part = "multi"  -> Multi!TypeOK
      [] part = "single"  -> Single!TypeOK   [] part = "threads" -> Threads!TypeOK
      [] part = "dmic"    -> Dmic!AppTypeOK  [] part = "codec"  -> Codec!TypeOK

(* Both rings are queues of bytes (ByteQueue), the one under a mutex and the   *)
(* one without any lock; a seek moves one end of the queue, or turns it full   *)
(* or empty where it keeps the flag of the last call; and the hops that        *)
(* odascore takes out of its ring never go back to an earlier frame.          *)
RingsAreQueues ==
    /\ part = "queue" => Whole!Queue!Init
    /\ part = "spsc" => Spsc!Queue!Init
    /\ [][/\ part = "queue" => Whole!Queue!Next
          /\ part = "spsc" => Spsc!Queue!Next
          /\ part = "seek" => Seeking!SeekKeepsFlag
          /\ part = "multi" => Multi!HopsInOrder
          /\ part = "single" => Single!HopsInOrder]_vars

(* The ring without a lock stays safe although its threads know each other's   *)
(* positions late: no byte is written while it is read, no room or byte is     *)
(* counted twice, also when the words wrap; and a hop of odascore never mixes   *)
(* two frames although the ring cuts reads and writes short.                  *)
SharingIsSafe ==
    /\ part = "spsc"   => Spsc!CopiesDisjoint /\ Spsc!ViewsAreSafe
    /\ part = "multi"  => Multi!HopsAreWhole
    /\ part = "single" => Single!HopsAreWhole

(* Whatever fails and whoever interrupts, a worker finds its file open and its *)
(* device on, each file is closed once, and nothing is left on in the end; and  *)
(* a codec that plays has been set up completely and consistently.            *)
DevicesAreSafe ==
    /\ part = "threads" => Threads!FilesAreSafe /\ Threads!DestroyedIsQuiet
    /\ part = "dmic"    => /\ Dmic!FilesAreSafe /\ Dmic!DestroyedIsQuiet
                           /\ Dmic!ChannelOutlivesWorker /\ Dmic!NothingLeftOn
    /\ part = "codec"   => Codec!AudibleIsConfigured

(* What is told to end ends: odascore on a signal (by following a NULL pointer, *)
(* as odascore_destroy does), the worker that a destroy function waits for, and *)
(* the recorder on each path, with and without a signal.                      *)
Asked == \/ part \in {"multi", "single"} /\ quit
         \/ part = "threads" /\ ctl # "idle"
         \/ part = "dmic"
Ended == \/ crashed \/ main = "failed"
         \/ part = "threads" /\ ctl = "idle"
         \/ app = "end"
CaptureEnds == Asked ~> Ended
=============================================================================
