--------------------------- MODULE ThreadControl ---------------------------
(***************************************************************************)
(* Start, stop and join of the threads of odaslive: general/thread.c, the  *)
(* SIGINT handler of main.c, and threads_multiple_start, _stop and _join.  *)
(*                                                                         *)
(* The handler runs inside the thread that takes the signal, which stands  *)
(* still meanwhile, and it locks the same mutex as that thread may hold.   *)
(* The thread_obj modelled is the one of the source, the only one that is  *)
(* ever asked to stop.                                                     *)
(***************************************************************************)
EXTENDS Naturals, Sequences, FiniteSets

CONSTANTS Workers,       \* the other threads, in the order they are started and joined
          SignalTargets, \* threads that the system may choose to run the handler
          SignalFrom,    \* main's statements during which a SIGINT may arrive
          MaxSignals     \* bound: SIGINTs sent

Started == <<"source">> \o Workers
WorkerSet == {Workers[i] : i \in DOMAIN Workers}
Threads == {"main", "source"} \cup WorkerSet
Nobody == "nobody"

ASSUME ThreadControlAssumption ==
  /\ Workers \in Seq(STRING)
  /\ SignalTargets \subseteq Threads
  /\ WorkerSet \cap {"main", "source", Nobody} = {}
  /\ \A i, j \in DOMAIN Workers : i # j => Workers[i] # Workers[j]
  /\ MaxSignals \in Nat

VARIABLES use,      \* the thread that locked the mutex of the thread_obj
          stop,     \* its flag
          pc,       \* next statement of each thread; "none" before pthread_create
          index,    \* thread of Started that main starts or joins next
          handler,  \* handler[t]: next statement of the handler in t, or "none"
          sent,     \* SIGINTs delivered
          freed,    \* the thread_obj is destroyed
          touched   \* the handler has used it afterwards

vars == <<use, stop, pc, index, handler, sent, freed, touched>>

Goto(t, label) == pc' = [pc EXCEPT ![t] = label]

Init == /\ use = Nobody
        /\ stop = 0
        /\ pc = [t \in Threads |-> IF t = "main" THEN "start" ELSE "none"]
        /\ index = 1
        /\ handler = [t \in Threads |-> "none"]
        /\ sent = 0
        /\ freed = FALSE /\ touched = FALSE

\* t can run its own code: the handler does not interrupt it
Runs(t, label) == pc[t] = label /\ handler[t] = "none"

(***************************************************************************)
(* thread_start in threads_multiple_start                                  *)
(***************************************************************************)
\* the lock of the thread_obj of the source; the ones of the others are free
StartLock == /\ Runs("main", "start")
             /\ IF index = 1 THEN use = Nobody /\ use' = "main" ELSE UNCHANGED use
             /\ Goto("main", "clear")
             /\ UNCHANGED <<stop, index, handler, sent, freed, touched>>

StartClear == /\ Runs("main", "clear")
              /\ stop' = IF index = 1 THEN 0 ELSE stop
              /\ Goto("main", "create")
              /\ UNCHANGED <<use, index, handler, sent, freed, touched>>

StartCreate == /\ Runs("main", "create")
               /\ pc' = [pc EXCEPT !["main"] = "unlock", ![Started[index]] = "process"]
               /\ UNCHANGED <<use, stop, index, handler, sent, freed, touched>>

StartUnlock ==
  /\ Runs("main", "unlock")
  /\ use' = IF index = 1 THEN Nobody ELSE use
  /\ IF index < Len(Started)
     THEN index' = index + 1 /\ Goto("main", "start")
     ELSE index' = 1 /\ Goto("main", "join")
  /\ UNCHANGED <<stop, handler, sent, freed, touched>>

(***************************************************************************)
(* threads_multiple_join, then the end of main.  Nothing removes the handler: *)
(* until main has returned, a SIGINT may still come.                        *)
(***************************************************************************)
\* Mutant: the last thread is not joined.
Join_ButLast ==
  /\ Runs("main", "join")
  /\ pc[Started[index]] = "done"
  /\ IF index + 1 < Len(Started)
     THEN index' = index + 1 /\ UNCHANGED pc
     ELSE Goto("main", "destroy") /\ UNCHANGED index
  /\ UNCHANGED <<use, stop, handler, sent, freed, touched>>

Join == /\ Runs("main", "join")
        /\ pc[Started[index]] = "done"
        /\ IF index < Len(Started)
           THEN index' = index + 1 /\ UNCHANGED pc
           ELSE Goto("main", "destroy") /\ UNCHANGED index
        /\ UNCHANGED <<use, stop, handler, sent, freed, touched>>

\* The thread_obj of the source is the first thing that aobjects_destroy destroys.
Destroy == /\ Runs("main", "destroy")
           /\ freed' = TRUE
           /\ Goto("main", "configs")
           /\ UNCHANGED <<use, stop, index, handler, sent, touched>>

\* The other objects, aobjs itself, and configs_destroy; then return 0.
DestroyRest == /\ Runs("main", "configs")
               /\ Goto("main", "return")
               /\ UNCHANGED <<use, stop, index, handler, sent, freed, touched>>

Return == /\ Runs("main", "return")
          /\ Goto("main", "done")
          /\ UNCHANGED <<use, stop, index, handler, sent, freed, touched>>

(***************************************************************************)
(* asrc_hops_thread: a hop, then thread_askedToStop                        *)
(***************************************************************************)
\* src_hops_process may also return -1: the end of the source
SourceHop == /\ Runs("source", "process")
             /\ \E label \in {"lock", "done"} : Goto("source", label)
             /\ UNCHANGED <<use, stop, index, handler, sent, freed, touched>>

AskedLock == /\ Runs("source", "lock")
             /\ use = Nobody
             /\ use' = "source"
             /\ Goto("source", "read")
             /\ UNCHANGED <<stop, index, handler, sent, freed, touched>>

\* Mutant: the source starts afresh at each hop, as thread_start does.
AskedRead_Clears == /\ Runs("source", "read")
                    /\ stop' = 0
                    /\ Goto("source", "unlock to go on")
                    /\ UNCHANGED <<use, index, handler, sent, freed, touched>>

AskedRead == /\ Runs("source", "read")
             /\ Goto("source", IF stop = 1 THEN "unlock to stop" ELSE "unlock to go on")
             /\ UNCHANGED <<use, stop, index, handler, sent, freed, touched>>

AskedUnlock ==
  /\ \E label \in {"unlock to stop", "unlock to go on"} :
       /\ Runs("source", label)
       /\ Goto("source", IF label = "unlock to stop" THEN "done" ELSE "process")
  /\ use' = Nobody
  /\ UNCHANGED <<stop, index, handler, sent, freed, touched>>

\* The "0" message that the source sends at its end reaches every other thread
\* (Pipeline!Termination).
WorkerEnds(t) == /\ t \in WorkerSet /\ Runs(t, "process")
                 /\ pc["source"] = "done"
                 /\ Goto(t, "done")
                 /\ UNCHANGED <<use, stop, index, handler, sent, freed, touched>>

(***************************************************************************)
(* SIGINT: sighandler, threads_multiple_stop, thread_stop                  *)
(***************************************************************************)
Signal(t) == /\ t \in SignalTargets
             /\ pc["main"] \in SignalFrom
             /\ pc[t] \notin {"none", "done", "crashed"} /\ handler[t] = "none"
             /\ sent < MaxSignals
             /\ sent' = sent + 1
             /\ handler' = [handler EXCEPT ![t] = "lock"]
             /\ UNCHANGED <<use, stop, pc, index, freed, touched>>

StopLock(t) == /\ handler[t] = "lock" /\ ~freed
               /\ use = Nobody
               /\ use' = t
               /\ handler' = [handler EXCEPT ![t] = "set"]
               /\ UNCHANGED <<stop, pc, index, sent, freed, touched>>

StopSet(t) == /\ handler[t] = "set"
              /\ stop' = 1
              /\ handler' = [handler EXCEPT ![t] = "unlock"]
              /\ UNCHANGED <<use, pc, index, sent, freed, touched>>

StopUnlock(t) == /\ handler[t] = "unlock"
                 /\ use' = Nobody
                 /\ handler' = [handler EXCEPT ![t] = "none"]
                 /\ UNCHANGED <<stop, pc, index, sent, freed, touched>>

\* thread_stop on the freed thread_obj, through the freed aobjs: undefined.  The
\* memory may look like an unlocked mutex, so that the handler writes its flag there
\* and returns, or like a locked one, or the process ends there.
LateStop(t) ==
  /\ handler[t] = "lock" /\ freed
  /\ touched' = TRUE
  /\ \E label \in {"none", "blocked"} : handler' = [handler EXCEPT ![t] = label]
  /\ UNCHANGED pc \/ (handler'[t] = "none" /\ Goto("main", "crashed"))
  /\ UNCHANGED <<use, stop, index, sent, freed>>

(***************************************************************************)
(* The specification                                                       *)
(***************************************************************************)
MainStep   == StartLock \/ StartClear \/ StartCreate \/ StartUnlock \/ Join
              \/ Destroy \/ DestroyRest \/ Return
SourceStep == SourceHop \/ AskedLock \/ AskedRead \/ AskedUnlock
StopStep(t) == StopLock(t) \/ StopSet(t) \/ StopUnlock(t)

\* main has returned, or the freed memory has ended or blocked it
Terminated == /\ pc["main"] \in {"done", "crashed"} \/ handler["main"] = "blocked"
              /\ UNCHANGED vars

Next == \/ MainStep \/ SourceStep
        \/ \E t \in WorkerSet : WorkerEnds(t)
        \/ \E t \in Threads : Signal(t) \/ StopStep(t) \/ LateStop(t)
        \/ Terminated

Spec == Init /\ [][Next]_vars

\* Threads that can run do run, and a waiting thread gets the mutex in the end
\* when it is freed again and again.  No signal need be sent.
Fairness == /\ WF_vars(MainStep) /\ WF_vars(SourceHop)
            /\ WF_vars(AskedLock) /\ WF_vars(AskedRead) /\ WF_vars(AskedUnlock)
            /\ \A t \in WorkerSet : WF_vars(WorkerEnds(t))
            /\ \A t \in Threads : /\ SF_vars(StopLock(t))
                                  /\ WF_vars(StopSet(t)) /\ WF_vars(StopUnlock(t))
                                  /\ WF_vars(LateStop(t))

FairSpec == Spec /\ Fairness

(***************************************************************************)
(* Properties                                                              *)
(***************************************************************************)
\* When aobjects_destroy has destroyed the thread_obj, its mutex was free and no
\* thread is inside thread_stop or on its way there, but main itself: every other
\* thread was joined.  A SIGINT that comes to main from then on does use the freed
\* thread_obj (touched): the handler is never removed.
OnlyMainIsLate ==
  /\ freed => use = Nobody /\ \A t \in Threads : handler[t] # "none" => t = "main"
  /\ touched => freed /\ \A i \in DOMAIN Started : pc[Started[i]] = "done"

\* A SIGINT stops the source (comment of threads_multiple_stop: "Stops the
\* source that generate frames to process.  This will generate a "zero" message
\* that will stop all following threads."), and main returns, unless a SIGINT came
\* so late that the handler used the freed thread_obj.
StopEndsProcess ==
  (\E t \in Threads : handler[t] # "none") ~> pc["main"] = "done" \/ touched

=============================================================================
