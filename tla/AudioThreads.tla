---------------------------- MODULE AudioThreads ----------------------------
(***************************************************************************)
(* The worker threads of comm_audio.c and of app/main.cpp, and the client    *)
(* that creates and destroys them.  A slot is an element of g_sample_ai,     *)
(* g_sample_aenc, g_sample_adec, g_sample_ao or g_audio_apps: it has a flag   *)
(* start, which the client and the worker share without a lock, and maybe a   *)
(* file.  Encoder and decoder workers close their file themselves, all file   *)
(* slots are closed by the client too.  Every call of the audio library may   *)
(* fail, every select may time out.  The loops call the library between two   *)
(* reads of start, so each test of it is a read of its current value.        *)
(***************************************************************************)
EXTENDS Integers, SequencesExt

CONSTANTS Ai, Aenc, Adec, Ao,   \* slots of comm_audio.c
          App                   \* slots of app/main.cpp

Slots == Ai \union Aenc \union Adec \union Ao \union App

FiniteSlots == \A S \in {Ai, Aenc, Adec, Ao} : IsFiniteSet(S)

HasFile(s) == s \in Aenc \union Adec \union App

VARIABLES start,    \* start[s]: the flag of the slot
          fd,       \* fd[s]: its file pointer is not NULL
          opened,   \* opened[s]: that file is open
          pc,       \* pc[s]: next step of its worker
          held,     \* held[s]: the worker holds a frame or stream of the library
          cancel,   \* cancel[s]: pthread_cancel was called for the worker
          joined,   \* joined[s]: its last thread was joined
          owned,    \* owned[s]: created and not destroyed since
          ctl,      \* next step of the client
          todo      \* the slots it is destroying

workerVars == <<start, fd, opened, pc, held>>
clientVars == <<cancel, joined, owned, ctl, todo>>
threadVars == <<start, fd, opened, pc, held, cancel, joined, owned, ctl, todo>>

InitThreads == /\ start = [s \in Slots |-> FALSE] /\ fd = start /\ opened = start
               /\ held = start /\ cancel = start /\ owned = start
               /\ joined = [s \in Slots |-> TRUE]
               /\ pc = [s \in Slots |-> "gone"]
               /\ ctl = "idle" /\ todo = <<>>

-----------------------------------------------------------------------------
(* The workers *)

\* Where a loop goes when it breaks off.
Out(s) == IF s \in Aenc \union Adec THEN "close" ELSE IF s \in Ao THEN "gone" ELSE "clear"

Goto(s, targets) == \E l \in targets : pc' = [pc EXCEPT ![s] = l]

\* Channel parameters, file descriptor of the channel, malloc: the workers that
\* capture just return when this fails and leave start set.
Setup(s) == /\ pc[s] = "setup"
            /\ Goto(s, {"loop", IF s \in Ai \union App THEN "gone" ELSE "close"})
            /\ UNCHANGED <<start, fd, opened, held>>

Loop(s) == /\ pc[s] = "loop"
           /\ Goto(s, {IF ~ start[s] THEN Out(s)
                       ELSE IF s \in Adec THEN "read" ELSE IF s \in Ao THEN "volume" ELSE "select"})
           /\ UNCHANGED <<start, fd, opened, held>>

Select(s) == /\ pc[s] = "select"
             /\ Goto(s, {"get", Out(s)})
             /\ UNCHANGED <<start, fd, opened, held>>

\* A frame that is not there is no reason to stop, except for the encoder.
GetFails(s) == /\ pc[s] = "get"
               /\ Goto(s, {IF s \in Aenc THEN Out(s) ELSE "loop"})
               /\ UNCHANGED <<start, fd, opened, held>>

Get(s) == /\ pc[s] = "get"
          /\ held' = [held EXCEPT ![s] = TRUE]
          /\ Goto(s, {IF s \in App THEN "write" ELSE "send"})
          /\ UNCHANGED <<start, fd, opened>>

\* To the encoder, the output or the decoder.
Send(s) == /\ pc[s] = "send"
           /\ Goto(s, IF s \in Adec THEN {"loop", Out(s)}
                      ELSE {"drop", IF s \in Aenc THEN "write" ELSE "release"})
           /\ UNCHANGED <<start, fd, opened, held>>

Write(s) == /\ pc[s] = "write"
            /\ Goto(s, {"release"})
            /\ UNCHANGED <<start, fd, opened, held>>

Release(s) == /\ pc[s] \in {"release", "drop"}
              /\ held' = [held EXCEPT ![s] = FALSE]
              /\ Goto(s, IF pc[s] = "drop" THEN {Out(s)} ELSE {"loop", Out(s)})
              /\ UNCHANGED <<start, fd, opened>>

\* The end of the file sends the reader back to its beginning.
Read(s) == /\ pc[s] = "read"
           /\ Goto(s, {"loop", "send"})
           /\ UNCHANGED <<start, fd, opened, held>>

\* The volumes in turn, with a sleep after each, where a cancellation takes effect.
Volume(s) == /\ pc[s] = "volume"
             /\ Goto(s, IF cancel[s] THEN {"gone"} ELSE {"volume", "loop"})
             /\ UNCHANGED <<start, fd, opened, held>>

Close(s) == /\ pc[s] = "close"
            /\ opened' = [opened EXCEPT ![s] = FALSE]
            /\ Goto(s, {"null"})
            /\ UNCHANGED <<start, fd, held>>

\* Mutant: start is cleared while the file pointer is still there.
Clear_First(s) == /\ pc[s] = "null"
                  /\ start' = [start EXCEPT ![s] = FALSE]
                  /\ Goto(s, {"gone"})
                  /\ UNCHANGED <<fd, opened, held>>

SetNull(s) == /\ pc[s] = "null"
              /\ fd' = [fd EXCEPT ![s] = FALSE]
              /\ Goto(s, {"clear"})
              /\ UNCHANGED <<start, opened, held>>

Clear(s) == /\ pc[s] = "clear"
            /\ start' = [start EXCEPT ![s] = FALSE]
            /\ Goto(s, {"gone"})
            /\ UNCHANGED <<fd, opened, held>>

Worker(s) == /\ \/ Setup(s) \/ Loop(s) \/ Select(s) \/ GetFails(s) \/ Get(s) \/ Send(s) \/ Write(s)
                \/ Release(s) \/ Read(s) \/ Volume(s) \/ Close(s) \/ SetNull(s) \/ Clear(s)
             /\ UNCHANGED clientVars

-----------------------------------------------------------------------------
(* The client *)

\* comm_audio_create_thread_* and app_create_thread, for a slot that is not in use.
CreateThread(s) == /\ ctl = "idle" /\ ~ owned[s]
                   /\ start' = [start EXCEPT ![s] = TRUE]
                   /\ fd' = [fd EXCEPT ![s] = HasFile(s)]
                   /\ opened' = [opened EXCEPT ![s] = HasFile(s)]
                   /\ pc' = [pc EXCEPT ![s] = IF s \in Ao THEN "loop" ELSE "setup"]
                   /\ cancel' = [cancel EXCEPT ![s] = FALSE]
                   /\ joined' = [joined EXCEPT ![s] = FALSE]
                   /\ owned' = [owned EXCEPT ![s] = TRUE]
                   /\ UNCHANGED <<held, ctl, todo>>

DestroyCall(slots) == /\ ctl = "idle" /\ slots # <<>>
                      /\ todo' = slots
                      /\ ctl' = "check"
                      /\ UNCHANGED <<workerVars, cancel, joined, owned>>

\* comm_audio_destroy_all_thread goes through the slots of comm_audio.c.
DestroyOrder == SetToSeq(Ai) \o SetToSeq(Aenc) \o SetToSeq(Adec) \o SetToSeq(Ao)

\* Mutant: the worker is not told to stop.
DestroyCheck_KeepsStart == /\ ctl = "check"
                           /\ LET s == Head(todo) IN
                              /\ cancel' = [cancel EXCEPT ![s] = start[s] /\ s \in Ao]
                              /\ ctl' = IF start[s] THEN "join" ELSE "close"
                           /\ UNCHANGED <<workerVars, joined, owned, todo>>

DestroyCheck == /\ ctl = "check"
                /\ LET s == Head(todo) IN
                   /\ start' = [start EXCEPT ![s] = FALSE]
                   /\ cancel' = [cancel EXCEPT ![s] = start[s] /\ s \in Ao]
                   /\ ctl' = IF start[s] THEN "join" ELSE "close"
                /\ UNCHANGED <<fd, opened, pc, held, joined, owned, todo>>

DestroyJoin == /\ ctl = "join" /\ pc[Head(todo)] = "gone"
               /\ joined' = [joined EXCEPT ![Head(todo)] = TRUE]
               /\ ctl' = "close"
               /\ UNCHANGED <<workerVars, cancel, owned, todo>>

DestroyClose == /\ ctl = "close"
                /\ LET s == Head(todo) IN
                   /\ opened' = [opened EXCEPT ![s] = @ /\ ~ fd[s]]
                   /\ fd' = [fd EXCEPT ![s] = FALSE]
                   /\ owned' = [owned EXCEPT ![s] = FALSE]
                /\ todo' = Tail(todo)
                /\ ctl' = IF Len(todo) = 1 THEN "idle" ELSE "check"
                /\ UNCHANGED <<start, pc, held, cancel, joined>>

Destroy == DestroyCheck \/ DestroyJoin \/ DestroyClose

Next == \/ \E s \in Slots : Worker(s) \/ CreateThread(s) \/ DestroyCall(<<s>>)
        \/ DestroyCall(DestroyOrder)
        \/ Destroy

Init == InitThreads

\* A worker waits at most a second in select; the client's call goes on.
ThreadFairness == (\A s \in Slots : WF_threadVars(Worker(s))) /\ WF_threadVars(Destroy)

Spec == Init /\ [][Next]_threadVars /\ ThreadFairness

-----------------------------------------------------------------------------
TypeOK == /\ start \in [Slots -> BOOLEAN] /\ fd \in [Slots -> BOOLEAN]
          /\ opened \in [Slots -> BOOLEAN] /\ held \in [Slots -> BOOLEAN]
          /\ cancel \in [Slots -> BOOLEAN] /\ joined \in [Slots -> BOOLEAN]
          /\ owned \in [Slots -> BOOLEAN]
          /\ pc \in [Slots -> {"gone", "setup", "loop", "select", "get", "send", "write", "release",
                               "drop", "read", "volume", "close", "null", "clear"}]
          /\ ctl \in {"idle", "check", "join", "close"}
          /\ todo \in Seq(Slots) /\ (todo = <<>> <=> ctl = "idle")

\* A file is closed once, and not while its worker may still use it: the worker
\* and the client both close it, and agree only through start and fd.
FilesAreSafe ==
    /\ \A s \in Slots : (pc[s] \in {"read", "write", "close"} /\ HasFile(s)) => opened[s]
    /\ \A s \in Slots : (ctl = "close" /\ s = Head(todo) /\ fd[s]) => opened[s] /\ pc[s] = "gone"

\* A slot that was destroyed, or never created, has no worker, no open file and
\* no frame of the library: whoever ended the thread, and at whatever step.
DestroyedIsQuiet ==
    ctl = "idle" => \A s \in Slots :
        ~ owned[s] => pc[s] = "gone" /\ ~ opened[s] /\ ~ fd[s] /\ ~ held[s]
=============================================================================
