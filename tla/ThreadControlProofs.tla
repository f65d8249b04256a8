------------------------ MODULE ThreadControlProofs -------------------------
(***************************************************************************)
(* Who can still be in the handler when the thread_obj of the source is      *)
(* destroyed, for any number of threads, whichever of them take the signals, *)
(* however many come and during whatever statements of main.                *)
(*                                                                         *)
(* OnlyMainIsLate is not inductive: it says nothing of the handlers that may *)
(* still run when main destroys the objects.  Place follows main through its *)
(* loops: the threads it has joined are done, and a thread that is done is   *)
(* not in the handler.  Mutex says who has locked the mutex.                *)
(***************************************************************************)
EXTENDS ThreadControl, TLAPS

Starting == {"start", "clear", "create", "unlock"}
After == {"configs", "return", "done", "crashed"}
Labels == Starting \cup After \cup
            {"none", "join", "destroy", "process", "lock", "read", "unlock to stop", "unlock to go on"}
Handling == {"none", "lock", "set", "unlock", "blocked"}

Place ==
  /\ pc \in [Threads -> Labels] /\ handler \in [Threads -> Handling]
  /\ pc["main"] \in Starting \cup After \cup {"join", "destroy"}
  /\ index \in DOMAIN Started
  \* The handler interrupts a thread that has been started and has not ended.
  /\ \A t \in Threads : handler[t] # "none" => pc[t] \notin {"none", "done", "crashed"}
  \* threads_multiple_join goes through the threads in their order.
  /\ pc["main"] = "join" => \A i \in 1 .. index - 1 : pc[Started[i]] = "done"
  /\ pc["main"] \in After \cup {"destroy"} => \A i \in DOMAIN Started : pc[Started[i]] = "done"
  \* A handler that comes later does not get beyond its first statement.
  /\ freed => pc["main"] \in After /\ handler["main"] \notin {"set", "unlock"}
  /\ touched => freed

\* The statements of its own at which thread t has the mutex of the source's
\* thread_obj, and the ones of the handler.
Holds(t) == \/ t = "main" /\ index = 1 /\ pc[t] \in {"clear", "create", "unlock"}
            \/ t = "source" /\ pc[t] \in {"read", "unlock to stop", "unlock to go on"}
Handles(t) == handler[t] \in {"set", "unlock"}
Mutex == /\ use \in Threads \cup {Nobody}
         /\ \A t \in Threads : (Holds(t) \/ Handles(t)) <=> use = t
         /\ \A t \in Threads : ~ (Holds(t) /\ Handles(t))

IInv == Place /\ Mutex

(* The threads of odaslive are main and the ones that it starts.             *)
LEMMA StartedThreads ==
  /\ Len(Started) \in Nat /\ DOMAIN Started = 1 .. Len(Started) /\ 1 \in DOMAIN Started
  /\ \A i \in DOMAIN Started : Started[i] \in Threads /\ Started[i] # "main"
  /\ \A i \in DOMAIN Started : Started[i] = "source" <=> i = 1
  /\ \A t \in Threads : t # "main" => \E i \in DOMAIN Started : Started[i] = t
<1>1. /\ Workers \in Seq(STRING) /\ WorkerSet \cap {"main", "source", Nobody} = {}
  BY ThreadControlAssumption
<1>2. DOMAIN Workers = 1 .. Len(Workers) /\ Len(Workers) \in Nat
  BY <1>1
<1>3. /\ Len(Started) = Len(Workers) + 1 /\ DOMAIN Started = 1 .. Len(Workers) + 1
      /\ Started[1] = "source"
      /\ \A i \in 1 .. Len(Workers) : Started[i + 1] = Workers[i]
  <2> DEFINE W == Workers
  <2>1. <<"source">> \in Seq(STRING \cup {"source"}) /\ W \in Seq(STRING \cup {"source"})
    BY <1>1
  <2> QED BY <1>1, <1>2, <2>1 DEF Started
<1>4. \A i \in DOMAIN Workers : Workers[i] \in WorkerSet
  BY DEF WorkerSet
<1>5. ASSUME NEW i \in DOMAIN Started
      PROVE  Started[i] \in Threads /\ Started[i] # "main" /\ (Started[i] = "source" <=> i = 1)
  <2>1. CASE i = 1
    BY <1>3, <2>1 DEF Threads
  <2>2. CASE i # 1
    <3>1. i - 1 \in DOMAIN Workers /\ Started[i] = Workers[i - 1]
      BY <1>2, <1>3, <2>2
    <3>2. Started[i] \in WorkerSet
      BY <1>4, <3>1
    <3> QED BY <1>1, <2>2, <3>2 DEF Threads
  <2> QED BY <2>1, <2>2
<1>6. ASSUME NEW t \in Threads, t # "main"
      PROVE  \E i \in DOMAIN Started : Started[i] = t
  <2>1. CASE t = "source"
    BY <1>2, <1>3, <2>1
  <2>2. CASE t \in WorkerSet
    <3>1. PICK i \in DOMAIN Workers : t = Workers[i]
      BY <2>2 DEF WorkerSet
    <3>2. i + 1 \in DOMAIN Started /\ Started[i + 1] = t
      BY <1>2, <1>3, <3>1
    <3> QED BY <3>2
  <2> QED BY <1>6, <2>1, <2>2 DEF Threads
<1> QED BY <1>2, <1>3, <1>5, <1>6

(* Nobody is no thread.                                                      *)
LEMMA NobodyIsNoThread == Nobody \notin Threads /\ "main" \in Threads /\ "source" \in Threads
BY ThreadControlAssumption DEF Threads, Nobody

LEMMA Initially == Init => IInv
<1> SUFFICES ASSUME Init PROVE IInv
  OBVIOUS
<1>1. pc \in [Threads -> Labels] /\ handler \in [Threads -> Handling]
  BY DEF Init, Labels, Starting, Handling
<1>2. Place
  BY <1>1, NobodyIsNoThread, StartedThreads DEF Init, Place, Starting, After
<1>3. Mutex
  BY NobodyIsNoThread DEF Init, Mutex, Holds, Handles
<1> QED BY <1>2, <1>3 DEF IInv

(* What the invariant says of main and its place in its loops.                *)
LEMMA MainPlace ==
  ASSUME Place
  PROVE  /\ Len(Started) \in Nat /\ index \in 1 .. Len(Started) /\ 1 \in 1 .. Len(Started)
         /\ "main" \in Threads /\ Started[index] \in Threads /\ Started[index] # "main"
         /\ DOMAIN Started = 1 .. Len(Started)
<1>1. index \in DOMAIN Started
  BY DEF Place
<1> QED BY <1>1, NobodyIsNoThread, StartedThreads

(* main starts, joins and destroys: where it stands.                          *)
LEMMA MainStepsPlace ==
  ASSUME Place, MainStep
  PROVE  Place'
<1> USE DEF Runs, Goto, Starting, After, Labels, Handling
<1>1. CASE StartLock
  BY <1>1, MainPlace DEF StartLock, Place
<1>2. CASE StartClear
  BY <1>2, MainPlace DEF StartClear, Place
<1>3. CASE StartCreate
  <2>1. /\ pc' \in [Threads -> Labels] /\ pc'["main"] = "unlock"
        /\ \A t \in Threads : pc'[t] = pc[t] \/ pc'[t] \in {"unlock", "process"}
    BY <1>3, MainPlace DEF StartCreate, Place
  <2>2. UNCHANGED <<index, handler, freed, touched>> /\ pc["main"] = "create"
    BY <1>3 DEF StartCreate
  <2> QED BY <2>1, <2>2 DEF Place
<1>4. CASE StartUnlock
  <2>1. /\ pc["main"] = "unlock" /\ UNCHANGED <<handler, freed, touched>>
        /\ \/ index < Len(Started) /\ index' = index + 1 /\ Goto("main", "start")
           \/ index' = 1 /\ Goto("main", "join")
    BY <1>4 DEF StartUnlock
  <2>2. index' \in DOMAIN Started
    BY <2>1, MainPlace
  <2>3. CASE Goto("main", "start")
    BY <2>1, <2>2, <2>3, MainPlace DEF Place
  <2>4. CASE index' = 1 /\ Goto("main", "join")
    <3>1. \A i \in 1 .. index' - 1 : FALSE
      BY <2>4
    <3>2. /\ pc' \in [Threads -> Labels] /\ pc'["main"] = "join"
          /\ \A t \in Threads : t # "main" => pc'[t] = pc[t]
      BY <2>4, MainPlace DEF Place
    <3> QED BY <2>1, <2>2, <3>1, <3>2 DEF Place
  <2> QED BY <2>1, <2>3, <2>4
<1>5. CASE Join
  <2>1. /\ pc["main"] = "join" /\ UNCHANGED <<handler, freed, touched>>
        /\ pc[Started[index]] = "done"
        /\ \/ index < Len(Started) /\ index' = index + 1 /\ UNCHANGED pc
           \/ ~ (index < Len(Started)) /\ Goto("main", "destroy") /\ UNCHANGED index
    BY <1>5 DEF Join
  <2>2. \A i \in 1 .. index - 1 : pc[Started[i]] = "done"
    BY <2>1 DEF Place
  <2>3. \A i \in 1 .. index : pc[Started[i]] = "done"
    BY <2>1, <2>2, MainPlace
  <2>4. CASE index < Len(Started) /\ index' = index + 1 /\ UNCHANGED pc
    <3>1. index' \in DOMAIN Started /\ \A i \in 1 .. index' - 1 : pc'[Started[i]] = "done"
      BY <2>3, <2>4, MainPlace
    <3>2. pc' = pc /\ handler' = handler /\ freed' = freed /\ touched' = touched
      BY <2>1, <2>4
    <3>3. pc["main"] \notin After \cup {"destroy"}
      BY <2>1
    <3> HIDE DEF Runs, Goto, Starting, After, Labels, Handling
    <3> QED BY <2>1, <3>1, <3>2, <3>3 DEF Place
  <2>5. CASE ~ (index < Len(Started)) /\ Goto("main", "destroy") /\ UNCHANGED index
    <3>1. \A i \in DOMAIN Started : pc[Started[i]] = "done"
      BY <2>3, <2>5, MainPlace
    <3>2. /\ pc' \in [Threads -> Labels] /\ pc'["main"] = "destroy"
          /\ \A t \in Threads : t # "main" => pc'[t] = pc[t]
      BY <2>5, MainPlace DEF Place
    <3>3. \A i \in DOMAIN Started : pc'[Started[i]] = "done"
      BY <3>1, <3>2, StartedThreads
    <3>4. \A t \in Threads : handler'[t] # "none" => pc'[t] \notin {"none", "done", "crashed"}
      BY <2>1, <3>2 DEF Place
    <3>5. ~ freed' /\ ~ touched'
      BY <2>1 DEF Place
    <3>6. /\ pc'["main"] \in Starting \cup After \cup {"join", "destroy"} /\ pc'["main"] # "join"
          /\ index' \in DOMAIN Started /\ handler' \in [Threads -> Handling]
      BY <2>1, <2>5, <3>2 DEF Place
    <3> HIDE DEF Runs, Goto, Starting, After, Labels, Handling
    <3> QED BY <3>2, <3>3, <3>4, <3>5, <3>6 DEF Place
  <2> QED BY <2>1, <2>4, <2>5
<1>6. CASE Destroy \/ DestroyRest \/ Return
  <2>1. /\ pc["main"] \in {"destroy", "configs", "return"} /\ handler["main"] = "none"
        /\ pc'["main"] \in {"configs", "return", "done"}
        /\ pc' \in [Threads -> Labels] /\ UNCHANGED <<index, handler, touched>>
        /\ \A t \in Threads : t # "main" => pc'[t] = pc[t]
    BY <1>6, MainPlace DEF Destroy, DestroyRest, Return, Place
  <2>2. \A i \in DOMAIN Started : pc'[Started[i]] = "done"
    <3>1. \A i \in DOMAIN Started : pc[Started[i]] = "done"
      BY <2>1 DEF Place
    <3> QED BY <2>1, <3>1, StartedThreads
  <2>3. \A t \in Threads : handler'[t] # "none" => pc'[t] \notin {"none", "done", "crashed"}
    BY <2>1 DEF Place
  <2>4. touched' => freed'
    BY <1>6 DEF Destroy, DestroyRest, Return, Place
  <2> QED BY <2>1, <2>2, <2>3, <2>4 DEF Place
<1> QED BY <1>1, <1>2, <1>3, <1>4, <1>5, <1>6 DEF MainStep

(* A step of main's own that leaves the mutex alone keeps who has it when main *)
(* does not have it, before or after.                                         *)
LEMMA MainStepsMutex ==
  ASSUME Place, Mutex, MainStep
  PROVE  Mutex'
<1> USE DEF Runs, Goto
<1>0. /\ handler["main"] = "none" /\ UNCHANGED handler /\ pc \in [Threads -> Labels]
      /\ Nobody \notin Threads /\ "main" \in Threads /\ "source" \in Threads
  BY NobodyIsNoThread
     DEF MainStep, StartLock, StartClear, StartCreate, StartUnlock, Join, Destroy, DestroyRest,
         Return, Place
<1>1. CASE StartLock
  <2>1. /\ pc["main"] = "start" /\ pc'["main"] = "clear" /\ UNCHANGED index
        /\ \A t \in Threads : t # "main" => pc'[t] = pc[t]
    BY <1>0, <1>1 DEF StartLock
  <2>2. /\ ~ Holds("main") /\ ~ Handles("main") /\ (Holds("main")' <=> index = 1)
        /\ \A t \in Threads : t # "main" => (Holds(t)' <=> Holds(t))
        /\ \A t \in Threads : Handles(t)' <=> Handles(t)
    BY <1>0, <2>1 DEF Holds, Handles
  <2>3. CASE index = 1
    <3>1. use = Nobody /\ use' = "main"
      BY <1>1, <2>3 DEF StartLock
    <3> QED BY <1>0, <2>2, <2>3, <3>1 DEF Mutex
  <2>4. CASE index # 1
    <3>1. use' = use
      BY <1>1, <2>4 DEF StartLock
    <3> QED BY <1>0, <2>2, <2>4, <3>1 DEF Mutex
  <2> QED BY <2>3, <2>4
<1>2. CASE StartClear
  BY <1>0, <1>2 DEF StartClear, Mutex, Holds, Handles
<1>3. CASE StartCreate
  <2> DEFINE s == Started[index]
  <2>1. s \in Threads /\ s # "main" /\ (s = "source" => index = 1)
    BY MainPlace, StartedThreads
  <2>2. /\ pc'["main"] = "unlock" /\ pc["main"] = "create" /\ UNCHANGED <<use, index>>
        /\ pc'[s] = "process"
        /\ \A t \in Threads \ {"main", s} : pc'[t] = pc[t]
    BY <1>0, <1>3, <2>1 DEF StartCreate
  <2>3. Holds("main")' <=> Holds("main")
    BY <2>2 DEF Holds
  <2>4. s = "source" => use = "main"
    BY <1>0, <2>1, <2>2 DEF Holds, Mutex
  <2>5. ~ Holds(s) /\ ~ Holds(s)'
    BY <1>0, <2>1, <2>2, <2>4 DEF Holds, Mutex
  <2>6. \A t \in Threads : Holds(t)' <=> Holds(t)
    BY <2>2, <2>3, <2>5 DEF Holds
  <2>7. \A t \in Threads : Handles(t)' <=> Handles(t)
    BY <1>0 DEF Handles
  <2> QED BY <2>2, <2>6, <2>7 DEF Mutex
<1>4. CASE StartUnlock
  <2>1. /\ pc["main"] = "unlock" /\ pc'["main"] \in {"start", "join"}
        /\ use' = IF index = 1 THEN Nobody ELSE use
        /\ \A t \in Threads : t # "main" => pc'[t] = pc[t]
    BY <1>0, <1>4 DEF StartUnlock
  <2>2. ~ Holds("main")' /\ (Holds("main") <=> index = 1)
    BY <2>1 DEF Holds
  <2>3. \A t \in Threads : t # "main" => (Holds(t)' <=> Holds(t))
    BY <2>1 DEF Holds
  <2>4. \A t \in Threads : Handles(t)' <=> Handles(t)
    BY <1>0 DEF Handles
  <2>5. ~ Handles("main")
    BY <1>0 DEF Handles
  <2>6. use # "main" \/ index = 1
    BY <1>0, <2>2, <2>5 DEF Mutex
  <2> QED BY <1>0, <2>1, <2>2, <2>3, <2>4, <2>5, <2>6 DEF Mutex
<1>5. CASE Join \/ Destroy \/ DestroyRest \/ Return
  <2>1. /\ pc["main"] \in {"join", "destroy", "configs", "return"} /\ UNCHANGED use
        /\ pc'["main"] \in {"join", "destroy", "configs", "return", "done"}
        /\ \A t \in Threads : t # "main" => pc'[t] = pc[t]
    BY <1>0, <1>5 DEF Join, Destroy, DestroyRest, Return
  <2>2. \A t \in Threads : (Holds(t)' <=> Holds(t)) /\ (Handles(t)' <=> Handles(t))
    BY <1>0, <2>1 DEF Holds, Handles
  <2> QED BY <2>1, <2>2 DEF Mutex
<1> QED BY <1>1, <1>2, <1>3, <1>4, <1>5 DEF MainStep

(* A thread t that main has started takes a step of its own, outside of the   *)
(* handler: it was not done, and may be done now.                             *)
LEMMA ThreadMoves ==
  ASSUME Place, NEW t \in Threads, t # "main", pc[t] \notin {"none", "done", "crashed"},
         handler[t] = "none", NEW label \in Labels, label # "none",
         Goto(t, label), UNCHANGED <<index, handler, freed, touched>>
  PROVE  Place'
<1>1. \A u \in Threads : u # t => pc'[u] = pc[u]
  BY DEF Place, Goto
<1>2. pc'[t] = label /\ pc' \in [Threads -> Labels]
  BY DEF Place, Goto
<1>3. \A i \in DOMAIN Started : pc[Started[i]] = "done" => pc'[Started[i]] = "done"
  BY <1>1, StartedThreads
<1>4. pc'["main"] = pc["main"]
  BY <1>1 DEF Threads
<1> QED BY <1>1, <1>2, <1>3, <1>4, StartedThreads DEF Place, Starting, After

LEMMA SourceSteps ==
  ASSUME IInv, SourceStep
  PROVE  IInv'
<1> USE DEF Runs
<1>1. /\ Nobody \notin Threads /\ "source" \in Threads /\ "main" \in Threads
      /\ Place /\ Mutex
      /\ pc \in [Threads -> Labels]
  BY NobodyIsNoThread DEF IInv, Place
<1>2. CASE SourceHop
  <2>1. Place'
    <3>1. PICK label \in {"lock", "done"} : Goto("source", label)
      BY <1>2 DEF SourceHop
    <3>2. label \in Labels /\ label # "none"
      BY DEF Labels, After
    <3>3. pc["source"] = "process" /\ handler["source"] = "none"
      BY <1>2 DEF SourceHop
    <3>4. UNCHANGED <<index, handler, freed, touched>> /\ "source" # "main"
      BY <1>2 DEF SourceHop
    <3> QED BY <1>1, <3>1, <3>2, <3>3, <3>4, ThreadMoves
  <2>2. Mutex'
    BY <1>1, <1>2 DEF SourceHop, Goto, Mutex, Holds, Handles
  <2> QED BY <2>1, <2>2 DEF IInv
<1>3. CASE AskedLock
  <2>1. Place'
    BY <1>1, <1>3, ThreadMoves DEF AskedLock, Labels
  <2>2. Mutex'
    BY <1>1, <1>3 DEF AskedLock, Goto, Mutex, Holds, Handles
  <2> QED BY <2>1, <2>2 DEF IInv
<1>4. CASE AskedRead
  <2>1. Place'
    BY <1>1, <1>4, ThreadMoves DEF AskedRead, Labels
  <2>2. Mutex'
    BY <1>1, <1>4 DEF AskedRead, Goto, Mutex, Holds, Handles
  <2> QED BY <2>1, <2>2 DEF IInv
<1>5. CASE AskedUnlock
  <2>1. Place'
    <3>1. PICK label \in {"done", "process"} : Goto("source", label)
      BY <1>5 DEF AskedUnlock
    <3>2. label \in Labels /\ label # "none"
      BY DEF Labels, After
    <3>3. pc["source"] \in {"unlock to stop", "unlock to go on"} /\ handler["source"] = "none"
      BY <1>5 DEF AskedUnlock
    <3>4. UNCHANGED <<index, handler, freed, touched>> /\ "source" # "main"
      BY <1>5 DEF AskedUnlock
    <3> QED BY <1>1, <3>1, <3>2, <3>3, <3>4, ThreadMoves
  <2>2. Mutex'
    BY <1>1, <1>5 DEF AskedUnlock, Goto, Mutex, Holds, Handles
  <2> QED BY <2>1, <2>2 DEF IInv
<1> QED BY <1>2, <1>3, <1>4, <1>5 DEF SourceStep

LEMMA WorkerSteps ==
  ASSUME IInv, NEW t \in WorkerSet, WorkerEnds(t)
  PROVE  IInv'
<1>1. t \in Threads /\ t # "main" /\ t # "source" /\ Place /\ Mutex /\ pc \in [Threads -> Labels]
  BY ThreadControlAssumption DEF Threads, IInv, Place
<1>2. Place'
  BY <1>1, ThreadMoves DEF WorkerEnds, Runs, Labels, After
<1>3. Mutex'
  BY <1>1 DEF WorkerEnds, Runs, Goto, Mutex, Holds, Handles
<1> QED BY <1>2, <1>3 DEF IInv

(* A signal only comes to a thread that runs, so that the handler runs in a   *)
(* thread that main has not joined; its own steps keep main and that thread    *)
(* where they are.                                                           *)
LEMMA HandlerSteps ==
  ASSUME IInv, NEW t \in Threads, Signal(t) \/ StopStep(t)
  PROVE  IInv'
<1>0. Nobody \notin Threads /\ Place /\ Mutex /\ handler \in [Threads -> Handling]
  BY NobodyIsNoThread DEF IInv, Place
<1>1. CASE Signal(t)
  <2>1. Place'
    BY <1>0, <1>1 DEF Signal, Place, Handling
  <2>2. Mutex'
    BY <1>0, <1>1 DEF Signal, Mutex, Holds, Handles
  <2> QED BY <2>1, <2>2 DEF IInv
<1>2. CASE StopLock(t)
  <2>1. Place'
    BY <1>0, <1>2 DEF StopLock, Place, Handling
  <2>2. Mutex'
    BY <1>0, <1>2 DEF StopLock, Mutex, Holds, Handles
  <2> QED BY <2>1, <2>2 DEF IInv
<1>3. CASE StopSet(t) \/ StopUnlock(t)
  <2>1. Place'
    <3>1. /\ UNCHANGED <<pc, index, freed, touched>> /\ handler[t] \in {"set", "unlock"}
          /\ handler'[t] \in {"unlock", "none"} /\ handler' \in [Threads -> Handling]
          /\ \A u \in Threads : u # t => handler'[u] = handler[u]
      BY <1>0, <1>3 DEF StopSet, StopUnlock, Handling
    <3>2. "main" \in Threads
      BY DEF Threads
    <3> QED BY <1>0, <3>1, <3>2 DEF Place
  <2>2. Mutex'
    BY <1>0, <1>3 DEF StopSet, StopUnlock, Mutex, Holds, Handles
  <2> QED BY <2>1, <2>2 DEF IInv
<1> QED BY <1>1, <1>2, <1>3 DEF StopStep

(* The handler that comes after the objects were destroyed is main's.          *)
LEMMA LateSteps ==
  ASSUME IInv, NEW t \in Threads, LateStop(t)
  PROVE  IInv'
<1>0. /\ Nobody \notin Threads /\ "main" \in Threads /\ Place /\ Mutex
      /\ handler \in [Threads -> Handling] /\ pc \in [Threads -> Labels]
  BY NobodyIsNoThread DEF IInv, Place
<1>1. pc["main"] \in After /\ \A u \in Threads : u # "main" => pc[u] = "done"
  <2>1. pc["main"] \in After /\ \A i \in DOMAIN Started : pc[Started[i]] = "done"
    BY <1>0 DEF LateStop, Place
  <2> QED BY <2>1, StartedThreads
<1>2. t = "main" /\ handler["main"] = "lock"
  BY <1>0, <1>1 DEF LateStop, Place
<1>3. /\ handler'["main"] \in {"none", "blocked"} /\ handler' \in [Threads -> Handling]
      /\ \A u \in Threads : u # "main" => handler'[u] = handler[u]
  BY <1>0, <1>2 DEF LateStop, Handling
<1>4. /\ pc' \in [Threads -> Labels] /\ pc'["main"] \in After
      /\ \A u \in Threads : u # "main" => pc'[u] = pc[u]
      /\ handler'["main"] # "none" => pc'["main"] = pc["main"]
  <2>1. UNCHANGED pc \/ (handler'["main"] = "none" /\ Goto("main", "crashed"))
    BY <1>2 DEF LateStop
  <2>2. CASE UNCHANGED pc
    BY <1>0, <1>1, <2>2
  <2>3. CASE handler'["main"] = "none" /\ Goto("main", "crashed")
    BY <1>0, <2>3 DEF Goto, Labels, After
  <2> QED BY <2>1, <2>2, <2>3
<1>5. UNCHANGED <<use, index, freed>> /\ freed /\ touched'
  BY DEF LateStop
<1>6. Place'
  <2>1. \A i \in DOMAIN Started : pc'[Started[i]] = "done"
    BY <1>1, <1>4, StartedThreads
  <2>2. \A u \in Threads : handler'[u] # "none" => pc'[u] \notin {"none", "done", "crashed"}
    BY <1>0, <1>2, <1>3, <1>4 DEF Place
  <2>3. index' \in DOMAIN Started /\ pc'["main"] # "join"
    BY <1>0, <1>4, <1>5 DEF Place, After
  <2> QED BY <1>3, <1>4, <1>5, <2>1, <2>2, <2>3 DEF Place, After, Starting
<1>7. Mutex'
  <2>1. \A u \in Threads : (Holds(u)' <=> Holds(u)) /\ (Handles(u)' <=> Handles(u))
    BY <1>0, <1>1, <1>2, <1>3, <1>4, <1>5 DEF Holds, Handles, After
  <2> QED BY <1>0, <1>5, <2>1 DEF Mutex
<1> QED BY <1>6, <1>7 DEF IInv

LEMMA Step == IInv /\ [Next]_vars => IInv'
<1> SUFFICES ASSUME IInv, [Next]_vars PROVE IInv'
  OBVIOUS
<1>1. CASE Terminated \/ UNCHANGED vars
  <2>1. UNCHANGED vars
    BY <1>1 DEF Terminated
  <2>2. Place'
    BY <2>1 DEF vars, IInv, Place
  <2>3. \A t \in Threads : (Holds(t)' <=> Holds(t)) /\ (Handles(t)' <=> Handles(t))
    BY <2>1 DEF vars, Holds, Handles
  <2>4. Mutex'
    BY <2>1, <2>3 DEF vars, IInv, Mutex
  <2> QED BY <2>2, <2>4 DEF IInv
<1>2. CASE MainStep
  BY <1>2, MainStepsPlace, MainStepsMutex DEF IInv
<1> QED BY <1>1, <1>2, SourceSteps, WorkerSteps, HandlerSteps, LateSteps DEF Next

(* When aobjects_destroy has destroyed the thread_obj of the source, nobody has *)
(* its mutex and only main can be in the handler of SIGINT; and it is used      *)
(* afterwards only when every thread has ended.                                *)
THEOREM OnlyMainIsLateHolds == Spec => []OnlyMainIsLate
<1>1. ASSUME IInv PROVE OnlyMainIsLate
  <2>1. ASSUME freed
        PROVE  /\ pc["main"] \in After /\ \A i \in DOMAIN Started : pc[Started[i]] = "done"
               /\ \A u \in Threads : u # "main" => pc[u] = "done"
    <3>1. pc["main"] \in After /\ \A i \in DOMAIN Started : pc[Started[i]] = "done"
      BY <1>1, <2>1 DEF IInv, Place
    <3> QED BY <3>1, StartedThreads
  <2>2. ASSUME freed, NEW t \in Threads, handler[t] # "none"
        PROVE  t = "main"
    BY <1>1, <2>1, <2>2 DEF IInv, Place
  <2>3. ASSUME freed PROVE use = Nobody
    <3>1. \A t \in Threads : ~ Handles(t)
      BY <1>1, <2>2, <2>3 DEF IInv, Place, Handles
    <3>2. \A t \in Threads : ~ Holds(t)
      BY <2>1, <2>3 DEF Holds, After
    <3> QED BY <1>1, <3>1, <3>2 DEF IInv, Mutex
  <2>4. touched => freed
    BY <1>1 DEF IInv, Place
  <2> QED BY <2>1, <2>2, <2>3, <2>4 DEF OnlyMainIsLate
<1> QED BY Initially, Step, <1>1, PTL DEF Spec

=============================================================================
