# ODAS in TLA+

Models, checks and proofs of ODAS (Open embeddeD Audition System): of `demo/odaslive`, which is built from the
library in `src/` and `include/odas/`, of `demo/odascore`, which feeds the library from a sound card, and of the
recorder in `app`. All paths below are those of the repository, seen from its `src` directory, where the library is `src/`.

ODAS localizes, tracks, separates and post-filters sound sources. Most of its code computes on one
frame of samples. What is hard to get right, and hard to test, is around these computations:

* 38 threads that exchange recycled message objects through blocking queues, branches that split and meet
  again, a stream that must end everywhere, and a shutdown that starts in a signal handler;
* about a hundred objects per run, built from one configuration by formulas of their own, that must fit
  each other in every configuration, serve what the configuration accepts, and free what they allocate;
* a tracker whose sources come and go in a few slots, and everything behind it that remembers something per slot;
* a capture thread, a lock-free ring, worker threads and files that several threads close.

## 1. Inventory

| Part | State it keeps | Operations | Talks to | What makes it correct |
|---|---|---|---|---|
| FIFO, `src/utils/fifo.c` | array of pointers, `nElements`, one mutex, semaphores `push` and `pop` | `fifo_push`, `fifo_pop`, `fifo_nElements` | called by all threads | it is a bounded FIFO queue under every interleaving; indexes in range; no lost wake-up |
| Message pools, `src/amessage` | two FIFOs, `filled` and `empty`, of recycled message objects | `amsg_*_filled_pop/push`, `amsg_*_empty_pop/push` | one writer and one reader thread each | no message object is leaked or given out twice |
| Thread functions, `src/asource`, `aconnector`, `amodule`, `ainjector`, `asink` | the messages held, local return values | endless loops over pool operations | pools | branches that meet carry the same hop; every loop ends; nobody waits for ever |
| Network, `demo/odaslive/objects.c`, `threads.c` | which thread works on which pools, which modules are enabled | `aobjects_construct`, `threads_multiple_start/stop/join` | everything | the sinks get the whole stream in order; the end reaches every thread |
| Resampler, `src/module/mod_resample.c`, `src/system/hop2hop.c` | fill level, `noMorePush`, own `timeStamp` | `mod_resample_process_push/pop` | `amod_resample_thread` | no hop dropped or invented; it stops only at the end of the stream |
| Messages and connectors, `src/message`, `src/connector` | `timeStamp` and payload | copy, zero, isZero | thread functions | a "0" message ends the stream and only that |
| Tracker, `src/module/mod_sst.c` | per slot `ids`, `tags`, `type`, `n_prob`, `mean_prob`, `n_inactive`; last `id` | `mod_sst_process` | potential sources and targets in, tracks out | identifiers unique and never reused, slots consistent, probation and silence counted right |
| Thread control, `src/general/thread.c`, `demo/odaslive/main.c` | flag `stop` under a mutex; the handler | `thread_start/stop/askedToStop/join`, `sighandler` | SIGINT, source thread | a SIGINT ends the process; when the `thread_obj` is freed only main can still be inside the handler |
| Source, `src/source` | file, socket, device; time stamp | `src_hops_process` and its interfaces | first pool | stamps 1, 2, 3, ...; end of file ends the stream |
| Sinks, `src/sink` | file, socket | `snk_*_process` | last pools | every message but the "0" one is written |
| Injector, `src/injector` | the list of targets | `inj_targets_process` | tracker | follows the time stamps of the hops |
| Ring under a mutex, `src/comm/aml_ringbuffer.c` | `rd`, `wr`, `last_is_write`, `size` | init, write, cover, read, clear, seek, reset, reset_size, release | capture callback and source thread, through `src/source/src_pcm.c` | it is a queue of bytes; full and empty are told apart; memory outside the block is never touched |
| Ring without a lock, `src/comm/ring_buffer.c` | atomic `head`, `tail` that count for ever | write, read | one writer, one reader; the alternative to the ring above | a queue of bytes; nobody touches a byte the other may touch |
| odascore, `demo/odascore/odascore.c`, `uac.c` | flags, worker, the three objects, the ring of `src_pcm` | init, construct, start, put_frames, destroy; the capture thread | audio input, source thread | hops are whole and in order; a signal ends the process |
| Audio library shell, `app/comm_audio/comm_audio.c` (also under `demo/odascore`) | a slot per input, output, encoder and decoder: `start`, `fd`; the registers of the codec | create and destroy a worker thread per slot; configure the codec | vendor library, files, threads | a worker finds its file open, each file is closed once; a codec plays only when set up |
| Recorder, `app/main.cpp` | exit flag, devices, a file and a thread per channel | main, its workers, the handler | the shell above | nothing is left on, on any path |
| Signal processing, `src/system`, `src/signal`, `src/init`, most of `src/utils` and `src/module` | arrays of floats, some kept per slot of the tracker from frame to frame | construct, process, destroy | modules | indexes inside the arrays; what is kept of one source is not used for another |
| Configuration, `demo/odaslive/configs.c`, `parameters.c`, `src/general/format.c`, `interface.c` | records | reading libconfig files | construction | what is accepted can be built and served |
| Tools, `demo/tools`, `demo/odasserver`, `src/general/profiler.c` | - | debugging clients, timing | - | - |

How the parts interact: the source pushes hops into the first pool; a module takes one message from each
of its input pools and a free one from each of its output pools, processes, returns the inputs and
publishes the outputs; a connector copies one message to each of several pools; a sink writes and returns.
All waiting happens in `fifo_pop` and `fifo_push`. The time stamp of the hop travels with every message,
and time stamp 0 (the "0" message) makes each thread leave its loop after it has passed it on. The
modules with several inputs (`mod_sst`, `mod_sss`, `mod_classify`) exit the process when the time stamps
of their inputs differ. Only the source is ever asked to stop.

Hard behaviours: the interleavings inside the FIFO; the distance between the split and the join of a branch;
stop requests and the end of file against everything else; the two-way hold of messages in the resampler;
five stages of the tracker that update the same slots; the handler that runs inside a thread that may hold
the mutex it wants; five places per object that repeat the same case distinctions (read the configuration, construct,
open, process, close); slots that pass from one source to the next while five operators each decide when to forget;
positions of a ring read by the other thread while they change; a file closed by the worker and by the client that destroys
it. `PROJECT.json` lists the hazards line by line.

## 2. Modules

| Module | Models | State and actions against the code |
|---|---|---|
| `BoundedQueue` | the abstract specification of a `fifo_obj` | a call, its effect, its return |
| `Fifo` | `fifo.c`, one action per statement | variables are the fields of `fifo_obj`; `pc[t]` is the next statement of thread `t`, `reg[t]` its local variable; `PushWait` is `sem_wait(&push)`, `PushStore` and `PushGrow` the two assignments, `PopShift` the `memmove`, `PopClear` the `memset`, and so on |
| `FifoProofs` | theorems about `Fifo` | see section 6 |
| `ThreadPrograms` | the loop of every kind of thread | one definition per `*_thread` function: its pool operations in source order |
| `Hop2Hop` | sample counts of `hop2hop_buffer_obj` | `BufferSize`, `isFull`, `isEmpty`; counts are multiplied by `fSout` so that they are integers |
| `Pipeline` | the threads running their programs on the pools | one action per FIFO operation (`PopFilled`, `PushFilled`, `PopEmpty`, `PushEmpty`) and one per processing function (`SourceProcess`, `RelayProcess`, `ResampleProcess`); `SourceCheck` is the test at the end of the loop of the source, `StopSource` is `threads_multiple_stop` |
| `PipelineProofs` | theorems about `Pipeline` | see section 6 |
| `HopStream` | the abstract specification of the pipeline | an ordered stream delivered to every sink, then closed |
| `OdasGraph` | the connections of `aobjects_construct` and the threads of `threads_multiple_start` | one line per thread; `Cut` takes a sub-network out of it |
| `MCPipeline` | the networks that TLC checks | localization, separation, resampling |
| `Tracker`, `MCTracker` | `mod_sst_process` | one action per call; one operator per stage (`AddTargets`, `RemoveTargets`, `Activity`, `Transitions`, `UpdateDynamic`, `Published`), in source order |
| `TrackerProofs` | theorems about `Tracker` and `SourceMemory` | see section 6 |
| `SourceMemory` | what `mod_sss` and `mod_classify` keep per slot | on top of `Tracker`, one action per frame; one operator per `*_process` function with memory (`steer2demixing_gss`, `env2env_mcra`, `env2env_interf` and its two successors, `pitch2category`). A piece of memory is the set of identifiers it was computed from |
| `ThreadControl`, `MCThreadControl` | `thread.c`, the handler and `main` | `StartLock` .. `StartUnlock` are the statements of `thread_start`, `AskedLock` .. `AskedUnlock` of `thread_askedToStop`, `StopLock` .. `StopUnlock` of `thread_stop` in the handler; a thread stands still while its handler runs. `Destroy`, `DestroyRest` and `Return` are the end of `main`, with the handler still installed; `LateStop` is the handler on the freed `thread_obj` |
| `ThreadControlProofs` | theorems about `ThreadControl` | see section 6 |

The objects of odaslive are in a family of modules without variables, on which the machine `Odaslive` stands:

| Module | Models | Conventions |
|---|---|---|
| `Signals` | `src/signal`: the containers | a container is the record of its counts and of the extents of its arrays; `X_obj` constructs, `X_destroy` says how often each field is freed |
| `Operators`, `SeparationOperators` | `src/system`, `src/utils` | `X_process` is TRUE when every index that the C loops compute is inside its array |
| `Modules`, `ArrayModules`, `SeparationModule` | `src/module` | `X_obj`, `X_destroy`, `X_parts` (the objects below, each with what its destructor frees) and `X_process` (the calls it makes to the operators, in source order) |
| `Messages` | `src/message`, `connector`, `amessage`, `aconnector`, `amodule`, `asink`, `asource`, `ainjector` | the same; `Leaks` compares the frees of a destructor with the allocations of the constructor |
| `Parameters` | `parameters.c`, `format.c`, `interface.c` | one operator per record; an interface or format that a parser exits on is not in the set it accepts |
| `Endpoints` | `src/source`, `src/sink` | which pairs of interface and format each of construct, open, process and close has a case for; length of the JSON text |
| `Objects` | `objects.c` | the connections, who owns which message, `Enabled` (which sinks need which modules) |
| `Construction` | `objects.c`, `configs.c`, `threads.c` | `Built`, `Parts` and `Fits` of every object by its name |
| `Odaslive` | `main.c`, `threads_single_*`, `objects_*`, `configs_*` | one action per object constructed, opened, processed, closed or destroyed, in the order of the code; `Body` is `threads_single_process` call by call |
| `MCOdaslive` | the configurations that TLC checks | see section 3 |

Capture and the programs around it:

| Module | Models | State and actions against the code |
|---|---|---|
| `ByteQueue` | the abstract queue of bytes | bytes enter and leave in order; where a write is one step (`Prompt`) it takes all that fits |
| `RingBuffer` | `aml_ringbuffer.c` | one action per function, as each holds the mutex, which is assumed to exclude (`src_pcm.c`:26 takes the ring from `malloc`, and nothing initialises its lock); `reset_size` in two, since it reads or stores `size` outside the mutex; a `memset` on NULL ends the program (`fault`); refines `ByteQueue` |
| `SpscRing` | `ring_buffer.c` | one action per access to an atomic field or to a byte; `head` and `tail` wrap at the width of the word; refines `ByteQueue` |
| `RingProofs` | theorems about both rings | see section 6 |
| `OdasCore` | `odascore.c`, `uac.c`, `src_pcm.c` | four threads, one action per statement that another thread can see |
| `OdasCoreProofs` | theorems about `OdasCore` | see section 6 |
| `AudioThreads` | the workers of `comm_audio.c` and of the recorder | one action per library call and per access to `start` or `fd`; each library call may fail, each `select` may time out |
| `DmicApp` | `app/main.cpp` | main, step by step, on top of `AudioThreads`; the handler at any moment |
| `RecorderProofs` | theorems about `AudioThreads`, `DmicApp` and `CodecConfig` | see section 6 |
| `CodecConfig` | `comm_audio_cfg_acodec` | one action per `ioctl`, each of which may fail; what it leaves in the registers stays for the next set-up |
| `MCCapture` | the instances that TLC checks | see section 3 |

How they fit together: `Pipeline` takes a FIFO operation as one step, which is what `Fifo!ImplementsQueue`
shows (and `FifoProofs!QueueRefined` proves) to be sound; `ThreadControl` takes from `Pipeline!Termination`
that the other threads end when the source has; `Pipeline` instantiates its programs from `OdasGraph` and
`ThreadPrograms` and computes resampling with `Hop2Hop`. `Odaslive` does the same in one thread, with the same `Hop2Hop`, and builds the
objects that both modes share; `SourceMemory` extends `Tracker` and relies on its `NoIdentitySwitch`; `DmicApp`
extends `AudioThreads`; `OdasCore` takes a ring operation as one step, which is what `RingBuffer` shows (and `RingProofs!Ring_ImplementsQueue` proves)
to be sound.

Abstractions, all of them about data: a message is its time stamp; a pointer is one of two model values; an
activity is one of three levels; an array is its extent, and a loop over it the largest index that it reaches;
what is remembered of a source is whose frames it comes from; the samples, the filters and the probabilities are inputs chosen freely.
The mean over the probation is kept as a sum, compared with `theta_prob * N_prob`, so that no division is
needed. Rounding of doubles in `hop2hop.c` is left out. A call into a library outside the repository (ALSA,
the vendor's audio library, sockets, libconfig) is a success or a failure.

## 3. Runs

| Run | Instance | Properties |
|---|---|---|
| `fifo_mpmc` | 2 producers, 2 consumers, 1 observer, 2 cells, 2 pointers | type, mutual exclusion, accounting of the semaphores, indexes, no zeroed message, refinement of `BoundedQueue`, exact counter |
| `fifo_spsc` | 1 producer, 1 consumer, 3 cells | a push and a pop that can end do end |
| `sst` | all threads and connectors of the localization part, 1 message per pool, up to 2 hops | type, conservation of messages, refinement of `HopStream` |
| `sst_end` | the same with 2 messages per pool, 1 hop | every thread ends, every sink is fed |
| `sss` | separation and classification, 1 message per pool, up to 2 hops | no mismatch at either join, sinks in order, nothing left behind |
| `resample` | source, 3:2 resampler, 2:3 resampler, sink; 2 messages, up to 8 hops | ends only at the end, right number of hops |
| `disabled` | two resamplers with equal rates, the first one not enabled | every sink is fed: **violated** |
| `tracker_dynamic` | 2 slots, fixed and varying targets, up to 2 new sources per frame, 5 identifiers | consistency, identities, probation, silence; silent sources leave |
| `thread_joining` | the source and 3 other threads, up to 3 SIGINTs from the first join until main has returned | only main can be in the handler when the thread is freed, a SIGINT ends the process |
| `thread_starting` | the same, 1 SIGINT taken by main from `signal()` on | a SIGINT ends the process: **violated** |
| `odaslive` | the life of the program in 135 configurations and both modes, up to 2 full reads; the memory of 2 slots | indexes in bounds, frees balanced, endpoints served, stream delivered, memory of a source its own |
| `capture` | both rings, odascore in both thread types, the workers, the recorder, the codec | rings are queues, sharing is safe, devices are safe, what is told to end ends |

The runs `disabled` and `thread_starting` show what the code does against what its comments and its README
say; see "findings" in `PROJECT.json`.

`odaslive` and `capture` each combine machines that share no state and answer the same question of each: `Init`
chooses one of them (the variable `part`), and the variables of the others never change. An invariant of such a run says
what it says of each machine in turn.

### Bounds and why they are enough

* FIFO: two cells are the least at which `memmove` moves something and a FIFO can be neither full nor empty;
  with two producers and two consumers every pair of critical sections can collide. What the run shows for
  this instance the theorems show for all.
* Pipeline: `MaxHops` bounds what a source can read; every smaller number of hops is in the run too, as a read
  may be short at any hop. Two hops are the least at which a branch can be one message ahead of
  another. With one message per pool the branches are coupled most tightly, which is where a cyclic wait would
  appear; with two messages in `sst_end` they can drift apart. (odaslive uses 32, `objects.c`:833.) The `sst` network is cut out of
  the whole one with `Cut`; in `sss` and `resample` a chain of modules and connectors with one output
  stands as one module, as such a chain relays each message unchanged.
* Resampling: the ratios 3:2 and 2:3 with hops of two samples make the first resampler skip an output and the second one
  hold an input back; eight hops go round their common period more than once.
* Tracker: two slots let a target, a dynamic source and a third candidate compete; `N_prob = 2` and silences
  of 2 and 1 frames let both counters be at, below and at the limit with one and two tracks. `MaxId`
  bounds the identifiers given out; a slot goes through its life cycle more than twice within it.
* Thread control: the other 37 threads have the same program; three of them give a first, a middle and a
  last one to be started and joined. Three signals can be handled in three threads at once.
* odaslive: the configurations are those of `config/odaslive` with small sizes, in four families. `Blackholes` is every choice
  of the five sinks that are used, which is all that the enabling rules look at. `Methods` crosses the two trackers, the
  three separations and the two post-filters, and `SampleRates` three input and three output rates, so that resamplers repeat,
  pass and skip hops (no array depends on both a method and a rate).
  `Interfaces` takes one endpoint after the other through every interface and format, refused ones included, since
  the cases of one endpoint do not look at another. Two reads (`MaxReads`) and the short one give a hop of silence, a hop
  from the first read and one that is held back. Sizes are the least at which the arrays of different objects have different
  extents. The input `uacin` with 32 bits is left out: `uac_in` leaves `frame_size` uninitialised then.
* Memory of a source: two slots and three identifiers let a slot be taken over while the other one stays; ages up to 8 go
  past two windows of `L + 2 = 3` frames.
* Rings: three bytes of room and chunks of two give every position of both ends, full, empty and split copies. The word
  of the lock-free ring has eight values for four cells, so that positions wrap inside a run; the code needs the
  size to divide the word, as it does for a power of two.
* odascore: six frames against a ring of four, so that puts are cut short. Workers: one slot of each kind, as slots of
  one kind share nothing. Recorder: two channels, so that one can fail after the other has started. Codec: four of the work modes,
  three rates and two widths, configured over and over.

### Fairness

* `Fifo`: weak fairness for the steps inside a call (the scheduler runs a thread that can run) and for the consumers'
  next call (they loop); none for a producer to push again.
* `Pipeline`: weak fairness of each thread's steps; a thread is a POSIX thread of its own. `StopSource` is never forced, and
  each pool has one reader and one writer, so weak fairness of a blocking operation is enough.
* `Tracker`: frames keep coming (the source does not end).
* `ThreadControl`: weak fairness of the threads' own steps, and strong fairness of `StopLock`, as the source takes and
  frees the mutex over and over and a waiting thread gets it in the end. No signal need be sent.
* `MCCapture`: weak fairness of each thread of odascore, of the destroy function once called, of each worker (its `select` returns within
  a second, with or without data) and of main of the recorder (a user presses ENTER in the end). No signal need come.

Deadlock is checked wherever the system is to go on or to end (the pipelines and `thread_joining` have an explicit
final step). It is not checked in `fifo_spsc` (a consumer waits for ever when nobody pushes), in
`thread_starting` (where blocking for ever is part of what the run shows), and in `odaslive` and `capture`, whose programs end.

## 4. What the properties say

* The FIFO is linearizable: a push takes effect when `nElements` grows, a pop when the array shifts.
* `SemaphoreAccounting`: `pop` plus the consumers that hold a unit plus the producers that have not posted equals
  `nElements`, and likewise for the free cells. This is why the unchecked indexes are safe.
* `NoTimeStampMismatch`: the exit in the modules with several inputs is unreachable.
* `MessagesConserved`, `NothingLeftBehind`: each message object is in one FIFO or with one thread at any time, and back in
  its pool at the end, where `amsg_*_destroy` frees it.
* `ImplementsStream`, `SinksInOrder`: what the user of odaslive relies on.
* `ResamplerEndsOnlyAtEnd`: "push and pop both returned -1" means the end of the stream and never a full
  buffer; this is a matter of the size of the buffer only.
* `NoIdentitySwitch`: a sink never sees one identifier replaced by another in a slot without an
  empty frame between. It holds only because targets are added before others are removed and because a slot that
  loses its source is not offered to a new one in the same frame.
* `ConfirmedIsPublished`: a source that survives its probation is shown at once, whatever the slot's last source left in the counters.
* `SilentSourcesLeave`: although the longest silence allowed changes with the number of tracks.
* `ProcessInBounds`: about a hundred objects compute the extents of their arrays from a configuration, a message or each other,
  and read each other's arrays in loops of their own. In every configuration of the run each call stays inside.
* `HeapBalanced`: after the last destructor every array and object that some object keeps was freed exactly as often as it was allocated, in both modes and with
  every method, whose constructors and destructors repeat the same case distinctions far apart. `KnownLeaks` names what the
  code never frees: the gain of the two `mod_volume`, the ring and the buffer of `src_pcm`, and the first of the two formats that
  `parameters.c` makes for a sink of samples that is a black hole. The records of the configuration and what they own are in the books.
* `OnlyMainIsLate`: when `aobjects_destroy` frees the `thread_obj`, its mutex is free and nobody but main is, or will be, inside `thread_stop`,
  because all others were joined. It does not say that main keeps away: a SIGINT that main takes from then on reaches the freed object
  (`LateStop`), and the run sends it.
* `EndpointsServe`: what `parameters.c` and the constructors accept has a case in open, process and close, and the joins of
  the single-threaded loop never find two time stamps.
* `StreamDelivered`: in one thread every used sink writes frames 1, 2, 3, ... that enabled modules computed, as many as the hops amount
  to at its rate, and each full read of the source is sent once, one hop late. This is what the enabling rules are for.
* `SourceMemoryIsOwn`: what separation and classification use for a source was computed from its own frames. Only the demixing
  matrix compares identifiers; the others forget when they see the slot free, and so rely on `NoIdentitySwitch` of
  the tracker. The noise of a source is a minimum over at most two windows of `L + 2` frames.
* `RingsAreQueues`: both rings refine `ByteQueue`; a seek keeps `last_is_write` (`SeekKeepsFlag`): it drops the oldest
  bytes or adds bytes at the end, but a seek that skips all bytes of a ring last written makes it full of them again, and one that fills a ring last read
  empties it. The comment of the function (`aml_ringbuffer.c`:230-239) knows no such case; hops that odascore takes never go back to an earlier frame.
* `SharingIsSafe`: the lock-free ring counts no room and no byte twice although each thread knows the other's position late, also when
  positions wrap; and a hop of odascore never mixes two frames although writes and reads are cut short.
* `DevicesAreSafe`: whatever call fails and whenever a signal comes, a worker finds its file open, each file is closed once, and the recorder leaves
  no channel, device or library on; a codec is turned up only when all its registers belong to one request.
* `CaptureEnds` (`Asked ~> Ended`): odascore on a signal, a destroyed worker and the recorder end. For odascore "ended" includes
  the crash described in section 5: the property says that nobody waits for ever, and no more than that.

## 5. Not modelled, and divergences met

Not modelled:

* Sample values and everything numerical (filters, transforms, beamforming, Kalman and particle filters, probabilities), the conversion of
  samples in `src/utils/pcm.c`, and the interpolation of `hop2hop.c`.
* The life cycle of the slots in static tracking; the objects of both tracking modes are in `ArrayModules`.
* ALSA playback and the sink callback of `uac.c`; the bytes written by sinks; sockets. In `comm_audio.c`, binding and the set-up of output, encoder
  and decoder are lists of library calls without state of their own.
* `snk_powers`, `snk_spectra` and their threads, which no program creates; `env2env_weight`, `freq2freq_weightedphasor`,
  `steer2demixing_mvdr` and most of `src/utils/gaussian.c`, which nothing calls; tools, profiler, argument parsing.
* What a constructor or `parameters.c` makes and frees within one call (the grids of `src/init`, strings) is not in the books of `HeapBalanced`.
* What no code checks is assumed of a configuration: as many microphones as mapped channels, at most as many levels as
  potential sources, increasing levels, delays shorter than half a frame, an odd window that fits.
* The handler taken by the source inside `thread_askedToStop` blocks it just as main blocks itself in
  `thread_starting`; `thread_joining` leaves the source out of the threads that take the signal. Of the objects that `aobjects_destroy` frees
  it follows only the `thread_obj` of the source, the first one freed and the only one that the handler uses besides `aobjs`.

Found while translating, and modelled as the code does it (no line of the repository says otherwise, or nothing that TLC can
refute says it):

* `odascore_destroy` has its branches the wrong way round (`odascore.c`:118-129): with either thread type it follows a pointer that
  only the other launcher sets. `OdasCore.crashed`.
* Frames that come after the objects are allocated and before the source is opened are written through a `src_pcm_spec` that
  is only malloced (`OdasCore.PutFault`). `odascore_put_frames` returns bytes where it was given samples.
* `src_pcm_destory` returns at once when there is something to free; `mod_volume_destroy` never frees its gain.
* `ring_buffer_seek` and a shrinking `ring_buffer_reset_size` leave `last_is_write` alone, so that a ring whose ends meet there is taken for full
  or empty by what came before. The part of `capture` that refines the queue uses no seek, as no program of the repository does; what every seek does is `SeekKeepsFlag`.
* A growing `ring_buffer_reset_size` stores the new size outside the mutex, while there is no block; a `reset` or `clear` by another thread then, or a
  release before a shrinking one has locked, ends in a `memset` on NULL (`RingBuffer.fault`). No program of the repository resizes a ring.
* The handler of SIGINT is never removed: one that main takes while it destroys, or later, uses the freed `aobjs` (`main.c`:325-335, `ThreadControl.touched`).
* `env2env_mcra` compares `l <= L` where its comment says `l < L` (`env2env.c`:260-268): the real period is `L + 2`. `env2env.c`:942-946 clears one
  array twice and leaves the smoothed ones uninitialised; `bTotal` is not initialised either. `env2env_probspeech` uses 0.9 instead of `maxAbsenceProb`.
* `cmatrix_add` and `cmatrix_sub` (`utils/cmatrix.c`:128-160) compute the real part only.
* A level of `mod_ssl` whose first point is its best leaves `maxIndex` as the level before set it (`mod_ssl.c`:198). It stays inside the grid only because the
  levels grow, and then names a direction that has nothing to do with the best one.
* The JSON buffers of the sinks have 1024 bytes, and no call checks the length.
* A short read of a sound card is ignored (`src_hops.c`:437); `parameters.c` makes a format for a sink of samples and, when it is a black hole,
  another one in its place (1697 and 1712, 1768 and 1783): the first is lost.
* "dmvdr" is accepted by `parameters.c` and refused by `mod_sss_construct`, which ends the process (`Odaslive.Construct`).
* The single-threaded mode installs no handler (`main.c`:61), so that a SIGINT ends it without closing anything (`Odaslive.Interrupt`).
* `pitch2category` keeps `tausPrev` and the category of a slot that is idle while another one classifies, so a source may be compared with
  what an earlier one left. It is not part of `SourceMemoryIsOwn`.
* Workers of `comm_audio.c` that end by themselves are never joined, and a capture worker whose set-up fails leaves `start` set.

## 6. Proofs

`FifoProofs` proves, for any number of threads, cells and pointers, all seven safety properties of `fifo_mpmc`
from `ConstantsAssumption` (a positive capacity, disjoint finite sets of threads, `NULL` not a pushed pointer).
None of them is inductive alone. The invariant `IInv` has three layers:

* `Shape`: types, the program counters each kind of thread can be at, and that exactly the owner of the mutex is
  inside a critical section;
* `Accounting`: the two equations of `SemaphoreAccounting`. They give the bounds on `nElements` in every
  critical section, since a producer inside one still owns a unit of `push`;
* `CellsInUse`: which cells hold an element, at every point of a critical section, not only outside.

`Inductive` shows `Spec => []IInv`, one lemma per layer and one step per action; the properties follow. `QueueRefined`
maps `PushGrow` to `Put`, `PopShift` to `Get`, a call and a return to themselves and all other steps to stuttering.
The accounting lemmas count the threads in a set after one of them enters or leaves it (`FiniteSetTheorems`).

`PipelineProofs` proves `TypeOK`, `ResamplerEndsOnlyAtEnd`, `NoTimeStampMismatch` and `SinksInOrder` for every network, not
only for those of the runs. It rests on three assumptions of `Pipeline`, which TLC evaluates for the networks of the runs:
`SizesAssumption` (positive sizes and rates), `LoopsAssumption` (each thread has one of the three loop shapes) and
`NetworkAssumption` (each pool has one writer and one reader, and what a module combines is on one clock).

* `ResamplerEndsOnlyAtEnd`: the buffer has room for two hops of the longer kind (`RoundUp`), so a buffer too full for
  another input hop holds an output hop (`FullHasOutput`), and "push and pop both fail" leaves only the "0" message.
* `NoTimeStampMismatch` is not inductive: nothing in it says why two inputs agree. `MessagesInPlace` says that
  the k-th message that a pool ever carries is hop k of its clock, or the "0" message right after the last hop, and gives the
  k of every message in a FIFO, in the inputs and in the output of a thread. So two messages that a module takes in the same
  round are the same k of the same clock (`InputsAgree`). A step keeps messages in place because it does one
  operation of its loop (`RelayAdvance`), and because no clock runs backwards or on after its "0" message (`ClockNext`).
  There is a lemma for each kind of step. The instances that the runs use satisfy `MessagesInPlace` as well.
* `SinksInOrder` is part of `MessagesInPlace`, since a sink writes one message a round.

The second half of `PipelineProofs` stands on the same three assumptions and on `MessagesInPlace`.

* `MessagesConserved`: which pools a thread holds a message of is a function of its program counter and, in a resampler, of what its
  two calls returned (`Holds`, from `HeldBefore`); each operation adds one holder or takes one away (`Conserved`). That every program
  pairs its acquisitions and releases is a part of `LoopsAssumption` (`Paired`).
* `NothingLeftBehind` needs to know in which round each thread leaves its loop (`StreamEnds`): a relay in the round of the "0"
  message, with its sinks having written everything before; a resampler only after its input ended and its buffer was emptied. Then no
  FIFO of filled messages has anything left, nobody holds anything, and conservation says that all is back.
* `ResamplerConverts`: every sample of the accepted hops is in the buffer or in a hop sent (`SamplesKept`), and a resampler
  ends with less than a hop left, so the number of its hops is the quotient (`QuotientIs`).
* `ImplementsStream`: each network whose sinks run on the clock of one source (`OneClock`, the source that the refinement mapping
  follows) refines `HopStream`. A hop of that source is `Send`, a message written `Deliver`, the end of a sink `Close`, all else stutters.

`TrackerProofs` proves the five invariants and three step properties of `tracker_dynamic` for any number of slots, any lists of targets and
any thresholds that satisfy `TrackerAssumption`. `ProbationServed` and `NoIdentitySwitch` are not inductive: they speak of one slot after
a whole frame, and a frame passes through five stages. So `Orderly` says what the slots are like between any two stages (identifier, tag
and type agree, no two slots share an identity, an active source was convincing), `Probing` what they are like between two frames, and
`Follows` how the slots after a stage descend from those before it: the same source, none, or one with an identifier
above all earlier ones. It is transitive, which gives `FreshIdentity` and `NoIdentitySwitch` for the frame. There is one lemma for each stage.
`AddTargets` is a loop over the targets, written as a recursive function: that it exists and keeps what one target keeps is proved by
induction over sets of numbers (`LeastNumber`, `SetInduction`), since the induction theorems of the library are out of reach.

`TrackerProofs` goes on to `SourceMemory`: both halves of `SourceMemoryIsOwn` (`StateFollowsIdentity`, `NoiseWindow`) for any tracker, any
window `L` and any bound on the ages above two windows (`MemoryParameters`, which `MCOdaslive` assumes of its instance). The argument
is the one the code relies on without saying so: mod_sst shows a slot free between two sources (`NextIds`, from the facts of a frame), so
whoever forgets at a free slot follows one source. `Own` strengthens the property where it is not inductive: what is left in a free
slot (the noise estimate keeps everything there but `idsPrev`; the category must be 0, or a new source would be taken for speech at once), and
how the two minima of the noise are staggered against the counter of the window (`Windows`). The demixing rows are gathered and put back
by the number of the slot among the active ones; `RowsAreNumbered` says that no two slots have the same number. The loop over the slots
in `pitch2category_process` is a recursive function like `AddTargets` (`LoopExists`, `LoopKeeps` with one set for each round).

`OdasliveProofs` proves `EndpointsServe` and `StreamDelivered` for any set of configurations with positive rates and hop sizes
(`ConfigsAssumption`). The invariant reads the 41 calls of the loop as a table: where each object is called (`Place`), where each connector is
fed (`FedAt`), whose clock its messages bear (`Clock`), and which calls are repeated for each time stamp of a clock (`Loop`). `Fed` and `Passed` then
say, from the next call alone, which messages of a round exist already. Neither property is inductive:

* that no module meets two time stamps needs `Flow`: every connector that has been fed in this round holds the stamp of its clock, and a sink that
  passed has written it. A resampler that gives nothing sends control back to the source, and one that gives more than one hop repeats
  its loop, so the table has four nested loops;
* that a sink's data are real (`Needs`, `RealFill`) needs, for each connector, the modules that its data pass through, which the
  enabling rules switch on together;
* that all is sent when the loop ends needs the balance of each resampler: what is in its buffer, plus what it gave, is what it was given
  (`SamplesKept`), and it leaves its loop only with less than a hop (`AllSent`, `AllConverted`, `Divided`).

`OdasliveProofs` also proves `HeapBalanced`, for the same configurations, one thread or many. Its first half is a statement about every
object that odaslive owns: `Balanced` says that its destructor frees each array it holds once, `Even` says so of the object and of
all that it owns. One lemma for each kind goes from the containers of `Objects` and the operators up to the modules, the messages, the
connectors and the pools of the threads (`ArraysBalance` .. `ObjectsBalance`, `ConfigsEven`), for all sizes and each
method of the localization, the tracking, the separation and the filter. `VolumeLeaks` and `PcmLeaks` are the two exceptions, and they
say exactly what is lost; where a constructor may stop (`Refused`), the object is never destroyed, and `Buildable` says that whatever
is destroyed was not refused. The configurations have their own half of the books: `EndpointLeaks` says that an endpoint loses a format just when
it is a sink of samples that is a black hole, and `ConfigsLeaks` that nothing else of a configuration is lost. The second half is the order: `HeapInv` says that what is still on the heap lies at or behind the next
entry of `DestroyOrder`, and what is open at or behind the next of `EndpointOrder`, so that nothing is left when the lists are through.

`ThreadControlProofs` proves `OnlyMainIsLate` for any number of workers, any threads and statements of main at which signals are taken, and any number of signals. The
invariant follows main through its loops: what it has joined is done, no handler runs in a thread that is done, and the mutex belongs to
a thread that is inside a critical section.

`RingProofs` proves of the ring without a lock that it refines `ByteQueue` and that `ViewsAreSafe` and `CopiesDisjoint` hold,
for every length of the ring and every width of `size_t` that is a multiple of it (`RingSizes`). The positions wrap, so they cannot be compared:
`Positions` says by how much, modulo `Word`, what each thread loaded is behind, and that all these distances together stay below
`Size`. `Copied` says what the half-done calls have moved. The lemmas on remainders (`ModIs` .. `StoredIs`) turn the distances into the code's
`(head - tail) & (size - 1)`.

`RingProofs` proves three things of the ring under the mutex, for every size and every length of reads and writes (`RingParameters`):

* `Ring_Types`: whatever functions are called in whatever order, the pointers stay inside the ring and the ring inside its block. The one
  exception is named: between the release and the init of a growing `ring_buffer_reset_size` there is a size without a block, and only
  half way through a `ring_buffer_reset_size` can a `memset` go to NULL;
* `Ring_ImplementsQueue`: it refines `ByteQueue` when its callers use `init`, `release`, `write`, `read` and `reset` (`PlainOperations`;
  `src_pcm` uses the first four). The others are not steps of a queue: a write that covers overtakes the reader, `clear` zeroes bytes
  that still wait, a seek skips them;
* `Ring_SeekKeepsFlag`, for every seek, the ones that drain and fill the ring included, among all functions.

The pointers are below `size`, so no remainders are needed: `Spaces` says that room and bytes make up the ring, which is where the
flag `last_is_write` decides between full and empty, and `Cell` numbers the bytes from a pointer on, once around. `BytesAdded` and
`BytesTaken` say what moving either pointer does to the waiting bytes; a write or a seek backward is the first, a read or a seek
forward the second. `BehindTheLast` is the step the order rests on: a write fills the cells that follow the last waiting byte.

`RecorderProofs` proves `FilesAreSafe` and `DestroyedIsQuiet` of the workers of `comm_audio.c` for any number of slots of each kind
(`FiniteSlots`), and the same with `ChannelOutlivesWorker` and `NothingLeftOn` for the recorder with any number of channels (`DmicChannels`).
`SlotOK` says what the step of a worker tells of its file, its frame and its flag: a worker that has not ended finds `start` set unless the
client waits for it, which is why the client that finds `start` clear need not wait, and may close what is still open. `MainInv` says that
workers are created only while all channels are enabled, and that main, when it has left the recording, still has
to destroy whatever slot is owned, before its next own step.

`RecorderProofs` also proves `AudibleIsConfigured` of the codec for all modes, rates and widths, with no assumption. It says nothing of the
calls of a set-up, so the invariant (`CodecInv`) does: a set-up is put together from parts (`Has`), each of which gives the compared
registers what the request asks for or ends in a call that is refused; it begins with the reset and only its last call ends the
mute (`SetUp`). After each call, what is compared has been set or is still to come (`Midway`), so that an open output means that all has been set.

`OdasCoreProofs` proves `HopsAreWhole` and `HopsInOrder` for any frame size, any number of frames and both thread types
(`CoreParameters`). The code writes what fits and reads what is there; hops stay whole because the ring always holds a whole number of whole
frames (`WholeFrames`: its capacity is four of them, and `src_pcm` reads as much as is put), and in order because the ring is sorted, behind the
hop taken last and before the frame captured last (`OldestFirst`).

`RingBuffer`, `SpscRing`, `AudioThreads`, `DmicApp` and `OdasCore` are instantiated, not extended, by the run `capture`. Their hypotheses are
therefore operators, named in the theorems, and `MCCapture` assumes them of its instances, so that TLC evaluates them.
The invariants named `IInv` and `SlotsInv` were checked by TLC on the instances of the runs before they were proved.

Only model-checked:

* liveness (`CallsReturn`, `Termination`, `SinksAreFed`, `SilentSourcesLeave`, `StopEndsProcess`, `CaptureEnds`), as TLAPS has neither ENABLED nor
  fairness;
* of the run `odaslive`: `TypesOK`; `ProcessInBounds`, which compares the sizes of some hundred arrays that the code computes from the
  configuration, and does not hold for every configuration (an interpolation rate, a frame or a window may be too small, and no code checks
  it), so that a theorem would first have to state all those conditions;
* of the run `capture`: nothing but `CaptureEnds`. Its other properties are conjunctions over the machines that the run puts together;
  the theorems state each conjunct, for all constants, of its machine alone.

## 7. Plan

Order: what all depends on first, then what can go wrong most expensively.

1. `Fifo` against `BoundedQueue`, with proofs. Done.
2. `ThreadPrograms`, `Hop2Hop`, `Pipeline`, `OdasGraph` against `HopStream`. Done.
3. `Tracker`. Done for dynamic tracking.
4. `ThreadControl`. Done.
5. `PipelineProofs`: every safety property and the refinement of `Pipeline` for every well-formed network. Done.
6. `TrackerProofs` and `ThreadControlProofs`: every safety property of both, for any number of slots, targets and threads. Done.
7. `RingBuffer` and `SpscRing` against one abstract byte queue; `src_pcm` and the life of odascore on top. Done, with the refinement
   of both rings and the hops of odascore as theorems.
8. The single-threaded loop; the enabling rules for all combinations of sinks; the objects, their arrays and their destruction in
   every method and mode. Done (`Odaslive` and the family below it), with the single-threaded loop proved for all rates.
9. What is remembered per slot (`SourceMemory`), the workers and the recorder. Done, all with proofs.
10. Open: the life cycle in static tracking; sample conversion in `src/utils/pcm.c` and the enumeration of assignments in
    `signal/mixture.c` against reference definitions.
