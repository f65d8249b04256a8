--------------------------- MODULE RecorderProofs ---------------------------
(***************************************************************************)
(* The workers of comm_audio.c and of the recorder (app/main.cpp), for any   *)
(* number of slots of each kind and any number of channels: a file is used    *)
(* and closed while it is open, a slot that was destroyed has nothing left,    *)
(* and a worker never outlives the channel it takes its frames from.         *)
(*                                                                         *)
(* None of this is inductive: the worker and the client agree on who closes   *)
(* the file only through start and fd, which each reads at another time.      *)
(* SlotOK says what the step of a worker tells of its file, its frame and its  *)
(* flag; MainInv adds which workers may be left at each step of the recorder.  *)
(*                                                                         *)
(* And the set-up of the codec by the same library (Codec!, CodecConfig): for  *)
(* all modes, rates and widths nothing is heard that was not set up.  The      *)
(* calls of a set-up are put together from parts (Has), each of which writes   *)
(* what is expected; only the last call ends the mute, so what a failure       *)
(* leaves behind is mute.                                                    *)
(***************************************************************************)
EXTENDS DmicApp, FiniteSetTheorems, SequenceTheorems, TLAPS

Steps == {"gone", "setup", "loop", "select", "get", "send", "write", "release",
          "drop", "read", "volume", "close", "null", "clear"}

(* A worker that has not ended finds start set, unless the client has cleared  *)
(* it and waits for this very worker; fd and opened differ only between the    *)
(* fclose of a worker and the assignment of NULL behind it.                   *)
SlotOK(s) ==
  /\ pc[s] = "null" => fd[s] /\ ~ opened[s]
  /\ pc[s] # "null" => (fd[s] <=> opened[s])
  /\ pc[s] \notin {"gone", "null", "clear"} /\ HasFile(s) => opened[s]
  /\ pc[s] \in {"close", "null"} => s \in Aenc \union Adec
  /\ pc[s] = "setup" => s \notin Ao
  /\ held[s] => pc[s] \in {"send", "write", "release", "drop"} /\ s \notin Adec
  /\ pc[s] \in {"select", "get"} => s \notin Adec
  /\ pc[s] # "gone" => start[s] \/ (ctl = "join" /\ s = Head(todo))
  /\ ~ owned[s] => pc[s] = "gone" /\ ~ opened[s]

SlotsInv == /\ TypeOK
            /\ \A s \in Slots : SlotOK(s)
            /\ ctl = "close" => pc[Head(todo)] = "gone"

-----------------------------------------------------------------------------
(* The workers *)

(* A step of a worker is seen in its own slot only.                           *)
LEMMA OwnSlot ==
  ASSUME SlotsInv, NEW s \in Slots, UNCHANGED clientVars, pc[s] # "gone",
         TypeOK', SlotOK(s)',
         \A t \in Slots \ {s} : /\ pc'[t] = pc[t] /\ fd'[t] = fd[t] /\ opened'[t] = opened[t]
                                /\ held'[t] = held[t] /\ start'[t] = start[t]
  PROVE  SlotsInv'
<1>1. ASSUME NEW t \in Slots \ {s}
      PROVE  SlotOK(t)'
  BY DEF SlotsInv, SlotOK, clientVars
<1>2. ctl = "close" => Head(todo) \in Slots \ {s}
  BY DEF SlotsInv, TypeOK
<1> QED BY <1>1, <1>2 DEF SlotsInv, clientVars

LEMMA GotoStep ==
  ASSUME NEW s \in Slots, NEW T \in SUBSET Steps, pc \in [Slots -> Steps], Goto(s, T)
  PROVE  /\ pc' \in [Slots -> Steps] /\ pc'[s] \in T
         /\ \A t \in Slots \ {s} : pc'[t] = pc[t]
BY DEF Goto

(* A worker that only goes on: what its next step asks for must hold by now.   *)
LEMMA Moves ==
  ASSUME SlotsInv, NEW s \in Slots, UNCHANGED clientVars, pc[s] \notin {"gone", "null"},
         UNCHANGED <<start, fd, opened, held>>,
         NEW T \in SUBSET (Steps \ {"null", "setup"}), Goto(s, T),
         pc[s] = "clear" => T \subseteq {"gone"},
         "close" \in T => s \in Aenc \union Adec,
         T \cap {"select", "get"} # {} => s \notin Adec,
         held[s] => T \subseteq {"send", "write", "release", "drop"}
  PROVE  SlotsInv'
<1>1. /\ pc' \in [Slots -> Steps] /\ pc'[s] \in T
      /\ \A t \in Slots \ {s} : pc'[t] = pc[t]
  BY GotoStep DEF SlotsInv, TypeOK, Steps
<1>2. TypeOK'
  BY <1>1 DEF SlotsInv, TypeOK, Steps, clientVars
<1>3. SlotOK(s)'
  BY <1>1 DEF SlotsInv, SlotOK, clientVars, HasFile
<1> QED BY <1>1, <1>2, <1>3, OwnSlot

LEMMA WorkerSteps ==
  ASSUME SlotsInv, NEW s \in Slots, Worker(s)
  PROVE  SlotsInv'
<1> SUFFICES ASSUME UNCHANGED clientVars,
                    \/ Setup(s) \/ Loop(s) \/ Select(s) \/ GetFails(s) \/ Get(s) \/ Send(s)
                    \/ Write(s) \/ Release(s) \/ Read(s) \/ Volume(s) \/ Close(s) \/ SetNull(s)
                    \/ Clear(s)
             PROVE  SlotsInv'
  BY DEF Worker
<1>1. SlotOK(s) /\ TypeOK
  BY DEF SlotsInv
<1>2. Out(s) \in {"close", "gone", "clear"} /\ (Out(s) = "close" <=> s \in Aenc \union Adec)
  BY DEF Out
<1>3. CASE Setup(s)
  <2> DEFINE end == IF s \in Ai \union App THEN "gone" ELSE "close"
  <2>1. end = "close" => s \in Aenc \union Adec
    BY <1>1, <1>3 DEF Setup, SlotOK, Slots
  <2>2. ~ held[s] /\ pc[s] = "setup"
    BY <1>1, <1>3 DEF Setup, SlotOK
  <2>3. {"loop", end} \in SUBSET (Steps \ {"null", "setup"})
    BY DEF Steps
  <2>4. Goto(s, {"loop", end}) /\ UNCHANGED <<start, fd, opened, held>>
    BY <1>3 DEF Setup
  <2> QED BY <2>1, <2>2, <2>3, <2>4, Moves
<1>4. CASE Loop(s)
  <2> DEFINE to == IF ~ start[s] THEN Out(s)
                   ELSE IF s \in Adec THEN "read" ELSE IF s \in Ao THEN "volume" ELSE "select"
  <2>1. ~ held[s] /\ pc[s] = "loop"
    BY <1>1, <1>4 DEF Loop, SlotOK
  <2>2. Goto(s, {to}) /\ UNCHANGED <<start, fd, opened, held>>
    BY <1>4 DEF Loop
  <2>3. {to} \in SUBSET (Steps \ {"null", "setup"}) /\ ("close" = to => s \in Aenc \union Adec)
        /\ (to \in {"select", "get"} => s \notin Adec)
    BY <1>2 DEF Steps
  <2> HIDE DEF to
  <2> QED BY <2>1, <2>2, <2>3, Moves
<1>5. CASE Select(s)
  <2>1. ~ held[s] /\ pc[s] = "select" /\ s \notin Adec
    BY <1>1, <1>5 DEF Select, SlotOK
  <2>2. Goto(s, {"get", Out(s)}) /\ UNCHANGED <<start, fd, opened, held>>
    BY <1>5 DEF Select
  <2>3. {"get", Out(s)} \in SUBSET (Steps \ {"null", "setup"})
    BY <1>2 DEF Steps
  <2> QED BY <1>2, <2>1, <2>2, <2>3, Moves
<1>6. CASE GetFails(s)
  <2> DEFINE to == IF s \in Aenc THEN Out(s) ELSE "loop"
  <2>1. ~ held[s] /\ pc[s] = "get" /\ s \notin Adec
    BY <1>1, <1>6 DEF GetFails, SlotOK
  <2>2. Goto(s, {to}) /\ UNCHANGED <<start, fd, opened, held>>
    BY <1>6 DEF GetFails
  <2>3. {to} \in SUBSET (Steps \ {"null", "setup"}) /\ ("close" = to => s \in Aenc \union Adec)
    BY <1>2 DEF Steps
  <2> HIDE DEF to
  <2> QED BY <2>1, <2>2, <2>3, Moves
<1>7. CASE Get(s)
  <2> DEFINE to == IF s \in App THEN "write" ELSE "send"
  <2>1. pc[s] = "get" /\ s \notin Adec /\ {to} \in SUBSET Steps /\ to \in {"write", "send"}
    BY <1>1, <1>7 DEF Get, SlotOK, Steps
  <2>2. /\ Goto(s, {to}) /\ UNCHANGED <<start, fd, opened>>
        /\ held' = [held EXCEPT ![s] = TRUE]
    BY <1>7 DEF Get
  <2> HIDE DEF to
  <2>3. /\ pc' \in [Slots -> Steps] /\ pc'[s] = to
        /\ \A t \in Slots \ {s} : pc'[t] = pc[t]
    BY <2>1, <2>2, GotoStep DEF SlotsInv, TypeOK, Steps
  <2>4. TypeOK'
    BY <2>2, <2>3 DEF SlotsInv, TypeOK, Steps, clientVars
  <2>5. SlotOK(s)'
    BY <1>1, <2>1, <2>2, <2>3 DEF SlotOK, clientVars, HasFile
  <2>6. \A t \in Slots \ {s} : held'[t] = held[t]
    BY <1>1, <2>2 DEF TypeOK
  <2> QED BY <2>1, <2>2, <2>3, <2>4, <2>5, <2>6, OwnSlot
<1>8. CASE Send(s)
  <2> DEFINE T == IF s \in Adec THEN {"loop", Out(s)}
                  ELSE {"drop", IF s \in Aenc THEN "write" ELSE "release"}
  <2>1. pc[s] = "send" /\ (s \in Adec => ~ held[s])
    BY <1>1, <1>8 DEF Send, SlotOK
  <2>2. Goto(s, T) /\ UNCHANGED <<start, fd, opened, held>>
    BY <1>8 DEF Send
  <2>3. /\ T \in SUBSET (Steps \ {"null", "setup"}) /\ T \cap {"select", "get"} = {}
        /\ "close" \in T => s \in Aenc \union Adec
        /\ s \notin Adec => T \subseteq {"send", "write", "release", "drop"}
    BY <1>2 DEF Steps
  <2> HIDE DEF T
  <2> QED BY <2>1, <2>2, <2>3, Moves
<1>9. CASE Write(s)
  <2>1. pc[s] = "write" /\ Goto(s, {"release"}) /\ UNCHANGED <<start, fd, opened, held>>
    BY <1>9 DEF Write
  <2>2. {"release"} \in SUBSET (Steps \ {"null", "setup"})
    BY DEF Steps
  <2> QED BY <2>1, <2>2, Moves
<1>10. CASE Release(s)
  <2> DEFINE T == IF pc[s] = "drop" THEN {Out(s)} ELSE {"loop", Out(s)}
  <2>1. pc[s] \in {"release", "drop"}
    BY <1>10 DEF Release
  <2>2. /\ Goto(s, T) /\ UNCHANGED <<start, fd, opened>>
        /\ held' = [held EXCEPT ![s] = FALSE]
    BY <1>10 DEF Release
  <2>3. /\ T \in SUBSET Steps /\ T \subseteq {"loop", "close", "gone", "clear"}
        /\ "close" \in T => s \in Aenc \union Adec
    BY <1>2 DEF Steps
  <2> HIDE DEF T
  <2>4. /\ pc' \in [Slots -> Steps] /\ pc'[s] \in T
        /\ \A t \in Slots \ {s} : pc'[t] = pc[t]
    BY <2>2, <2>3, GotoStep DEF SlotsInv, TypeOK, Steps
  <2>5. TypeOK'
    BY <2>2, <2>4 DEF SlotsInv, TypeOK, Steps, clientVars
  <2>6. ~ held'[s] /\ \A t \in Slots \ {s} : held'[t] = held[t]
    BY <1>1, <2>2 DEF TypeOK
  <2>7. SlotOK(s)'
    BY <1>1, <2>1, <2>2, <2>3, <2>4, <2>6 DEF SlotOK, clientVars, HasFile
  <2> QED BY <2>1, <2>2, <2>4, <2>5, <2>6, <2>7, OwnSlot
<1>11. CASE Read(s)
  <2>1. pc[s] = "read" /\ Goto(s, {"loop", "send"}) /\ UNCHANGED <<start, fd, opened, held>>
    BY <1>11 DEF Read
  <2>2. {"loop", "send"} \in SUBSET (Steps \ {"null", "setup"}) /\ ~ held[s]
    BY <1>1, <2>1 DEF Steps, SlotOK
  <2> QED BY <2>1, <2>2, Moves
<1>12. CASE Volume(s)
  <2> DEFINE T == IF cancel[s] THEN {"gone"} ELSE {"volume", "loop"}
  <2>1. pc[s] = "volume" /\ Goto(s, T) /\ UNCHANGED <<start, fd, opened, held>>
    BY <1>12 DEF Volume
  <2>2. /\ T \in SUBSET (Steps \ {"null", "setup"}) /\ "close" \notin T /\ T \cap {"select", "get"} = {}
        /\ ~ held[s]
    BY <1>1, <2>1 DEF Steps, SlotOK
  <2> HIDE DEF T
  <2> QED BY <2>1, <2>2, Moves
<1>13. CASE Close(s)
  <2>1. /\ pc[s] = "close" /\ Goto(s, {"null"}) /\ UNCHANGED <<start, fd, held>>
        /\ opened' = [opened EXCEPT ![s] = FALSE]
    BY <1>13 DEF Close
  <2>2. {"null"} \in SUBSET Steps
    BY DEF Steps
  <2>3. /\ pc' \in [Slots -> Steps] /\ pc'[s] = "null"
        /\ \A t \in Slots \ {s} : pc'[t] = pc[t]
    BY <2>1, <2>2, GotoStep DEF SlotsInv, TypeOK, Steps
  <2>4. TypeOK'
    BY <2>1, <2>3 DEF SlotsInv, TypeOK, Steps, clientVars
  <2>5. ~ opened'[s] /\ \A t \in Slots \ {s} : opened'[t] = opened[t]
    BY <1>1, <2>1 DEF TypeOK
  <2>6. SlotOK(s)'
    BY <1>1, <2>1, <2>3, <2>5 DEF SlotOK, clientVars, HasFile
  <2> QED BY <2>1, <2>3, <2>4, <2>5, <2>6, OwnSlot
<1>14. CASE SetNull(s)
  <2>1. /\ pc[s] = "null" /\ Goto(s, {"clear"}) /\ UNCHANGED <<start, opened, held>>
        /\ fd' = [fd EXCEPT ![s] = FALSE]
    BY <1>14 DEF SetNull
  <2>2. {"clear"} \in SUBSET Steps
    BY DEF Steps
  <2>3. /\ pc' \in [Slots -> Steps] /\ pc'[s] = "clear"
        /\ \A t \in Slots \ {s} : pc'[t] = pc[t]
    BY <2>1, <2>2, GotoStep DEF SlotsInv, TypeOK, Steps
  <2>4. TypeOK'
    BY <2>1, <2>3 DEF SlotsInv, TypeOK, Steps, clientVars
  <2>5. ~ fd'[s] /\ \A t \in Slots \ {s} : fd'[t] = fd[t]
    BY <1>1, <2>1 DEF TypeOK
  <2>6. SlotOK(s)'
    BY <1>1, <2>1, <2>3, <2>5 DEF SlotOK, clientVars, HasFile
  <2> QED BY <2>1, <2>3, <2>4, <2>5, <2>6, OwnSlot
<1>15. CASE Clear(s)
  <2>1. /\ pc[s] = "clear" /\ Goto(s, {"gone"}) /\ UNCHANGED <<fd, opened, held>>
        /\ start' = [start EXCEPT ![s] = FALSE]
    BY <1>15 DEF Clear
  <2>2. {"gone"} \in SUBSET Steps
    BY DEF Steps
  <2>3. /\ pc' \in [Slots -> Steps] /\ pc'[s] = "gone"
        /\ \A t \in Slots \ {s} : pc'[t] = pc[t]
    BY <2>1, <2>2, GotoStep DEF SlotsInv, TypeOK, Steps
  <2>4. TypeOK'
    BY <2>1, <2>3 DEF SlotsInv, TypeOK, Steps, clientVars
  <2>5. \A t \in Slots \ {s} : start'[t] = start[t]
    BY <1>1, <2>1 DEF TypeOK
  <2>6. SlotOK(s)'
    BY <1>1, <2>1, <2>3, <2>5 DEF SlotOK, clientVars, HasFile
  <2> QED BY <2>1, <2>3, <2>4, <2>5, <2>6, OwnSlot
<1> QED BY <1>3, <1>4, <1>5, <1>6, <1>7, <1>8, <1>9, <1>10, <1>11, <1>12, <1>13, <1>14, <1>15

-----------------------------------------------------------------------------
(* The client *)

(* The head of the slots that are being destroyed, and the slots behind it.    *)
LEMMA Todo ==
  ASSUME TypeOK, ctl # "idle"
  PROVE  /\ todo \in Seq(Slots) /\ todo # <<>> /\ Head(todo) \in Slots
         /\ Tail(todo) \in Seq(Slots) /\ Len(todo) \in Nat
         /\ (Len(todo) = 1 <=> Tail(todo) = <<>>)
<1>1. todo \in Seq(Slots) /\ todo # <<>>
  BY DEF TypeOK
<1>2. /\ Head(todo) \in Slots /\ Tail(todo) \in Seq(Slots) /\ Len(todo) \in Nat \ {0}
      /\ Len(Tail(todo)) = Len(todo) - 1
  BY <1>1
<1>3. \A q \in Seq(Slots) : Len(q) = 0 <=> q = <<>>
  OBVIOUS
<1>4. Len(Tail(todo)) = 0 <=> Tail(todo) = <<>>
  BY <1>2, <1>3
<1>5. Len(todo) = 1 <=> Len(Tail(todo)) = 0
  BY <1>2
<1> QED BY <1>1, <1>2, <1>4, <1>5

LEMMA CreateSteps ==
  ASSUME SlotsInv, NEW s \in Slots, CreateThread(s)
  PROVE  SlotsInv'
<1> DEFINE first == IF s \in Ao THEN "loop" ELSE "setup"
<1>1. SlotOK(s) /\ TypeOK /\ ~ owned[s] /\ ctl = "idle" /\ UNCHANGED <<held, ctl, todo>>
  BY DEF SlotsInv, CreateThread
<1>2. /\ start' = [start EXCEPT ![s] = TRUE] /\ owned' = [owned EXCEPT ![s] = TRUE]
      /\ fd' = [fd EXCEPT ![s] = HasFile(s)] /\ opened' = [opened EXCEPT ![s] = HasFile(s)]
      /\ pc' = [pc EXCEPT ![s] = first]
      /\ cancel' = [cancel EXCEPT ![s] = FALSE] /\ joined' = [joined EXCEPT ![s] = FALSE]
  BY DEF CreateThread
<1>3. HasFile(s) \in BOOLEAN /\ first \in {"loop", "setup"} /\ (first = "setup" => s \notin Ao)
  BY DEF HasFile
<1> HIDE DEF first
<1>4. /\ pc'[s] = first /\ start'[s] /\ owned'[s]
      /\ (fd'[s] <=> HasFile(s)) /\ (opened'[s] <=> HasFile(s))
  BY <1>1, <1>2 DEF TypeOK
<1>5. ASSUME NEW t \in Slots \ {s}
      PROVE  /\ pc'[t] = pc[t] /\ fd'[t] = fd[t] /\ opened'[t] = opened[t] /\ held'[t] = held[t]
             /\ start'[t] = start[t] /\ owned'[t] = owned[t]
  BY <1>1, <1>2 DEF TypeOK
<1>6. TypeOK'
  BY <1>1, <1>2, <1>3 DEF TypeOK
<1>7. SlotOK(s)'
  BY <1>1, <1>3, <1>4 DEF SlotOK, HasFile
<1>8. ASSUME NEW t \in Slots \ {s}
      PROVE  SlotOK(t)'
  <2>1. SlotOK(t)
    BY DEF SlotsInv
  <2> QED BY <1>1, <1>5, <2>1 DEF SlotOK
<1> QED BY <1>1, <1>6, <1>7, <1>8 DEF SlotsInv

LEMMA DestroyCallSteps ==
  ASSUME SlotsInv, NEW slots \in Seq(Slots), DestroyCall(slots)
  PROVE  SlotsInv'
BY DEF SlotsInv, DestroyCall, TypeOK, SlotOK, workerVars

(* The client clears start and waits, or finds that the worker has ended.      *)
LEMMA CheckSteps ==
  ASSUME SlotsInv, DestroyCheck
  PROVE  SlotsInv'
<1> PICK s : s = Head(todo)
  OBVIOUS
<1>1. /\ ctl = "check" /\ UNCHANGED <<fd, opened, pc, held, joined, owned, todo>>
      /\ start' = [start EXCEPT ![s] = FALSE]
      /\ cancel' = [cancel EXCEPT ![s] = start[s] /\ s \in Ao]
      /\ ctl' = IF start[s] THEN "join" ELSE "close"
  BY DEF DestroyCheck
<1>2. s \in Slots /\ SlotOK(s) /\ TypeOK
  BY <1>1, Todo DEF SlotsInv
<1>3. \A t \in Slots \ {s} : start'[t] = start[t]
  BY <1>1, <1>2 DEF TypeOK
<1>4. (start[s] /\ s \in Ao) \in BOOLEAN
  OBVIOUS
<1>5. TypeOK'
  BY <1>1, <1>2, <1>4 DEF TypeOK
<1>6. ctl' = "close" => pc'[s] = "gone"
  BY <1>1, <1>2 DEF SlotOK
<1>7. s = Head(todo')
  BY <1>1
<1>8. SlotOK(s)'
  BY <1>1, <1>2, <1>6, <1>7 DEF SlotOK
<1>9. ASSUME NEW t \in Slots \ {s}
      PROVE  SlotOK(t)'
  <2>1. SlotOK(t)
    BY DEF SlotsInv
  <2> QED BY <1>1, <1>3, <2>1 DEF SlotOK
<1> QED BY <1>5, <1>6, <1>7, <1>8, <1>9 DEF SlotsInv

LEMMA JoinSteps ==
  ASSUME SlotsInv, DestroyJoin
  PROVE  SlotsInv'
<1>1. /\ ctl = "join" /\ ctl' = "close" /\ pc[Head(todo)] = "gone"
      /\ UNCHANGED <<start, fd, opened, pc, held, cancel, owned, todo>>
      /\ joined' = [joined EXCEPT ![Head(todo)] = TRUE]
  BY DEF DestroyJoin, workerVars
<1>2. TypeOK'
  BY <1>1 DEF SlotsInv, TypeOK
<1>3. ASSUME NEW t \in Slots
      PROVE  SlotOK(t)'
  BY <1>1 DEF SlotsInv, SlotOK
<1> QED BY <1>1, <1>2, <1>3 DEF SlotsInv

LEMMA CloseSteps ==
  ASSUME SlotsInv, DestroyClose
  PROVE  SlotsInv'
<1> PICK s : s = Head(todo)
  OBVIOUS
<1>1. /\ ctl = "close" /\ UNCHANGED <<start, pc, held, cancel, joined>>
      /\ opened' = [opened EXCEPT ![s] = opened[s] /\ ~ fd[s]]
      /\ fd' = [fd EXCEPT ![s] = FALSE] /\ owned' = [owned EXCEPT ![s] = FALSE]
      /\ todo' = Tail(todo) /\ ctl' = IF Len(todo) = 1 THEN "idle" ELSE "check"
  BY DEF DestroyClose
<1>2. s \in Slots /\ SlotOK(s) /\ TypeOK /\ pc[s] = "gone"
  BY <1>1, Todo DEF SlotsInv
<1>3. /\ Tail(todo) \in Seq(Slots)
      /\ (Len(todo) = 1 <=> Tail(todo) = <<>>)
  BY <1>1, <1>2, Todo
<1>4. (opened[s] /\ ~ fd[s]) = FALSE
  BY <1>2 DEF SlotOK
<1>5. /\ ~ opened'[s] /\ ~ fd'[s] /\ ~ owned'[s]
      /\ \A t \in Slots \ {s} : /\ opened'[t] = opened[t] /\ fd'[t] = fd[t]
                                /\ owned'[t] = owned[t]
  BY <1>1, <1>2, <1>4 DEF TypeOK
<1>6. TypeOK'
  BY <1>1, <1>2, <1>3, <1>4 DEF TypeOK
<1>7. SlotOK(s)'
  BY <1>1, <1>2, <1>5 DEF SlotOK
<1>8. ASSUME NEW t \in Slots \ {s}
      PROVE  SlotOK(t)'
  <2>1. SlotOK(t)
    BY DEF SlotsInv
  <2> QED BY <1>1, <1>5, <2>1 DEF SlotOK
<1> QED BY <1>1, <1>6, <1>7, <1>8 DEF SlotsInv

LEMMA DestroySteps ==
  ASSUME SlotsInv, Destroy
  PROVE  SlotsInv'
BY CheckSteps, JoinSteps, CloseSteps DEF Destroy

LEMMA SlotsInitially == InitThreads => SlotsInv
BY DEF InitThreads, SlotsInv, TypeOK, SlotOK

(* comm_audio_destroy_all_thread: the slots are arrays of a fixed length.      *)
LEMMA SetToSeqType ==
  ASSUME NEW S, IsFiniteSet(S)
  PROVE  SetToSeq(S) \in Seq(S)
<1> DEFINE n == Cardinality(S)
<1>1. n \in Nat /\ ExistsBijection(1 .. n, S)
  BY FS_CardinalityType
<1>2. PICK f \in [1 .. n -> S] : \A a, b \in 1 .. n : f[a] = f[b] => a = b
  BY <1>1 DEF ExistsBijection, Bijection, Injection, IsInjective
<1>3. SetToSeq(S) \in [1 .. n -> S]
  BY <1>2 DEF SetToSeq, IsInjective
<1> QED BY <1>1, <1>3

LEMMA DestroyOrderType ==
  ASSUME FiniteSlots
  PROVE  DestroyOrder \in Seq(Slots)
<1>1. ASSUME NEW S \in SUBSET Slots, IsFiniteSet(S)
      PROVE  SetToSeq(S) \in Seq(Slots)
  BY <1>1, SetToSeqType
<1> QED BY <1>1 DEF FiniteSlots, DestroyOrder, Slots

LEMMA SlotsStep ==
  ASSUME FiniteSlots, SlotsInv, [Next]_threadVars
  PROVE  SlotsInv'
<1>1. ASSUME NEW s \in Slots, DestroyCall(<<s>>)
      PROVE  SlotsInv'
  <2>1. <<s>> \in Seq(Slots)
    OBVIOUS
  <2> QED BY <1>1, <2>1, DestroyCallSteps
<1>2. CASE UNCHANGED threadVars
  BY <1>2 DEF threadVars, SlotsInv, TypeOK, SlotOK
<1> QED BY <1>1, <1>2, WorkerSteps, CreateSteps, DestroyCallSteps, DestroyOrderType, DestroySteps
        DEF Next

-----------------------------------------------------------------------------
(* The recorder *)

Recording == {"start", "wait", "key", "wait_again", "key_again", "stop", "abort"}

(* Workers are created only while the recorder is at start, with every channel  *)
(* enabled, and whoever leaves the recording destroys all of them first: behind  *)
(* it, a slot that is still owned is still to be destroyed.                     *)
MainInv ==
  /\ AppTypeOK
  /\ library <=> main \notin {"init", "end"}
  /\ main \in {"init", "enable", "end"} => enabled = {} /\ ~ device
  /\ main = "enable_chn" => enabled = 1 .. next - 1
  /\ main \in {"gain"} \union Recording => enabled = App
  /\ main \in {"start", "enable_chn"} => next <= Channels
  /\ main \in {"init", "enable", "gain"} => next = 1
  /\ main \notin {"wait", "stop_ai", "exit"} => ctl = "idle"
  /\ ctl # "idle" => enabled = App
  /\ \A s \in Slots : owned[s] => /\ s \in App
                                  /\ main \in Recording \/ \E i \in DOMAIN todo : todo[i] = s

IInv == SlotsInv /\ MainInv

LEMMA RecorderInitially == ASSUME DmicChannels, AppInit PROVE IInv
<1>1. SlotsInv
  BY SlotsInitially DEF AppInit
<1>2. 1 \in 1 .. Channels + 1
  BY DEF DmicChannels
<1>3. AppTypeOK
  BY <1>1, <1>2 DEF SlotsInv, AppInit, AppTypeOK
<1> QED BY <1>1, <1>3 DEF IInv, MainInv, AppInit, InitThreads, Recording

(* The steps of main that touch no thread.                                    *)
LEMMA MainAlone ==
  ASSUME DmicChannels, IInv, UNCHANGED threadVars,
         \/ LibraryInit \/ StartDevice \/ StartChannel \/ SetGain \/ Wait \/ Key
         \/ StopChannel \/ StopDevice \/ LibraryExit \/ Signal \/ UNCHANGED mainVars
  PROVE  IInv'
<1> USE DEF At, Recording
<1>1. SlotsInv'
  BY DEF IInv, SlotsInv, TypeOK, SlotOK, threadVars
<1>2. TypeOK'
  BY <1>1 DEF SlotsInv
<1>3. /\ MainInv /\ AppTypeOK /\ Channels \in Nat \ {0} /\ App = 1 .. Channels
      /\ next \in 1 .. Channels + 1 /\ enabled \subseteq App
      /\ UNCHANGED <<ctl, todo, owned>>
  BY DEF IInv, MainInv, DmicChannels, AppTypeOK, TypeOK, threadVars
<1>4. CASE LibraryInit
  BY <1>1, <1>2, <1>3, <1>4 DEF LibraryInit, IInv, MainInv, AppTypeOK
<1>5. CASE StartDevice
  <2>1. /\ main = "enable" /\ enabled = {} /\ next = 1 /\ ctl = "idle"
        /\ UNCHANGED <<library, enabled, next, appExit>>
        /\ (device' = TRUE /\ main' = "enable_chn") \/ (device' = FALSE /\ main' = "exit")
    BY <1>3, <1>5 DEF StartDevice, MainInv
  <2>2. enabled' = 1 .. next' - 1
    BY <2>1
  <2>3. CASE main' = "enable_chn"
    BY <1>1, <1>2, <1>3, <2>1, <2>2, <2>3 DEF IInv, MainInv, AppTypeOK
  <2>4. CASE main' = "exit"
    BY <1>1, <1>2, <1>3, <2>1, <2>4 DEF IInv, MainInv, AppTypeOK
  <2> QED BY <2>1, <2>3, <2>4
<1>6. CASE StartChannel
  <2>1. enabled = 1 .. next - 1 /\ next \in 1 .. Channels
    BY <1>3, <1>6 DEF StartChannel, MainInv
  <2>2. enabled \union {next} = 1 .. next
    BY <2>1
  <2>3. CASE main' = "exit"
    BY <1>1, <1>2, <1>3, <1>6, <2>3 DEF StartChannel, IInv, MainInv, AppTypeOK
  <2>4. CASE main' # "exit" /\ next = Channels
    <3>1. main' = "gain" /\ next' = 1 /\ enabled' = App /\ UNCHANGED <<library, device, appExit>>
      BY <1>3, <1>6, <2>2, <2>4 DEF StartChannel
    <3> QED BY <1>1, <1>2, <1>3, <1>6, <3>1 DEF StartChannel, IInv, MainInv, AppTypeOK
  <2>5. CASE main' # "exit" /\ next # Channels
    <3>1. /\ main' = "enable_chn" /\ next' = next + 1 /\ enabled' = 1 .. next
          /\ UNCHANGED <<library, device, appExit>>
      BY <1>3, <1>6, <2>2, <2>5 DEF StartChannel
    <3>2. next + 1 \in 1 .. Channels /\ (next + 1) - 1 = next /\ 1 .. next \subseteq App
      BY <1>3, <2>1, <2>5
    <3> QED BY <1>1, <1>2, <1>3, <1>6, <3>1, <3>2 DEF StartChannel, IInv, MainInv, AppTypeOK
  <2> QED BY <2>3, <2>4, <2>5
<1>7. CASE SetGain
  BY <1>1, <1>2, <1>3, <1>7 DEF SetGain, IInv, MainInv, AppTypeOK
<1>8. CASE Wait
  BY <1>1, <1>2, <1>3, <1>8 DEF Wait, IInv, MainInv, AppTypeOK
<1>9. CASE Key
  BY <1>1, <1>2, <1>3, <1>9 DEF Key, IInv, MainInv, AppTypeOK
<1>10. CASE StopChannel
  <2>1. /\ main = "stop_ai" /\ ctl = "idle" /\ main' \in {"stop_ai", "exit"}
        /\ UNCHANGED <<library, device, appExit>>
        /\ (enabled' = enabled \ {next} /\ next' = next + 1) \/ UNCHANGED <<enabled, next>>
        /\ next <= Channels
    BY <1>10 DEF StopChannel
  <2>2. enabled \subseteq App /\ next \in 1 .. Channels + 1 /\ Channels \in Nat
    BY <1>3
  <2>3. next' \in 1 .. Channels + 1
    BY <2>1, <2>2
  <2>4. enabled' \subseteq App
    BY <2>1, <2>2
  <2> QED BY <1>1, <1>2, <1>3, <2>1, <2>3, <2>4 DEF IInv, MainInv, AppTypeOK
<1>11. CASE StopDevice
  BY <1>1, <1>2, <1>3, <1>11 DEF StopDevice, IInv, MainInv, AppTypeOK
<1>12. CASE LibraryExit
  BY <1>1, <1>2, <1>3, <1>12 DEF LibraryExit, IInv, MainInv, AppTypeOK
<1>13. CASE Signal
  BY <1>1, <1>2, <1>3, <1>13 DEF Signal, IInv, MainInv, AppTypeOK
<1>14. CASE UNCHANGED mainVars
  BY <1>1, <1>2, <1>3, <1>14 DEF mainVars, IInv, MainInv, AppTypeOK
<1> QED BY <1>4, <1>5, <1>6, <1>7, <1>8, <1>9, <1>10, <1>11, <1>12, <1>13, <1>14

LEMMA WorkersAlone ==
  ASSUME IInv, NEW s \in Slots, Worker(s), UNCHANGED mainVars
  PROVE  IInv'
<1>1. SlotsInv' /\ UNCHANGED <<owned, ctl, todo>>
  BY WorkerSteps DEF IInv, Worker, clientVars
<1> QED BY <1>1 DEF IInv, SlotsInv, MainInv, AppTypeOK, mainVars

LEMMA StartWorkerSteps ==
  ASSUME DmicChannels, IInv, StartWorker
  PROVE  IInv'
<1>1. /\ main = "start" /\ ctl = "idle" /\ next \in App /\ next \in Slots
      /\ next \in 1 .. Channels /\ Channels \in Nat \ {0}
  BY DEF StartWorker, At, IInv, MainInv, AppTypeOK, DmicChannels, Slots
<1>2. SlotsInv' /\ owned' = [owned EXCEPT ![next] = TRUE] /\ UNCHANGED <<ctl, todo>>
  BY <1>1, CreateSteps DEF StartWorker, IInv, CreateThread
<1>3. \A s \in Slots : owned'[s] => s \in App
  BY <1>1, <1>2 DEF IInv, MainInv, SlotsInv, TypeOK
<1>4. main' \in {"start", "wait"} /\ next' \in 1 .. Channels /\ UNCHANGED <<library, device, enabled, appExit>>
  BY <1>1 DEF StartWorker
<1> QED BY <1>1, <1>2, <1>3, <1>4 DEF IInv, SlotsInv, MainInv, AppTypeOK, Recording

(* The calls that destroy the workers: the first ones when a file cannot be     *)
(* opened, all of them when main leaves the recording.                         *)
LEMMA DestroyCalls ==
  ASSUME DmicChannels, IInv, StartFails \/ StopWorkers
  PROVE  IInv'
<1>1. /\ Channels \in Nat \ {0} /\ App = 1 .. Channels /\ App \subseteq Slots
      /\ next \in 1 .. Channels + 1
  BY DEF DmicChannels, Slots, IInv, MainInv, AppTypeOK
<1>2. ASSUME NEW n \in 1 .. Channels
      PROVE  /\ [i \in 1 .. n |-> i] \in Seq(Slots) /\ DOMAIN [i \in 1 .. n |-> i] = 1 .. n
             /\ \A s \in 1 .. n : [i \in 1 .. n |-> i][s] = s
  <2>1. [i \in 1 .. n |-> i] \in [1 .. n -> Slots]
    BY <1>1
  <2> QED BY <1>1, <2>1
<1>3. CASE StartFails
  <2>1. /\ main = "start" /\ main' = "wait" /\ next' = 1 /\ next \in 1 .. Channels
        /\ ctl = "idle" /\ enabled = App /\ UNCHANGED <<library, device, enabled, appExit>>
    BY <1>1, <1>3 DEF StartFails, At, IInv, MainInv, Recording
  <2>2. SlotsInv' /\ UNCHANGED owned
    <3>1. CASE next = 1
      BY <1>3, <3>1 DEF StartFails, threadVars, IInv, SlotsInv, TypeOK, SlotOK
    <3>2. CASE next # 1
      <4>1. next - 1 \in 1 .. Channels
        BY <2>1, <3>2, <1>1
      <4>2. [i \in 1 .. next - 1 |-> i] \in Seq(Slots)
        BY <1>2, <4>1
      <4> QED BY <1>3, <3>2, <4>2, DestroyCallSteps DEF StartFails, DestroyCall, IInv
    <3> QED BY <3>1, <3>2
  <2> QED BY <1>1, <2>1, <2>2 DEF IInv, SlotsInv, MainInv, AppTypeOK, Recording
<1>4. CASE StopWorkers
  <2>1. /\ main \in {"stop", "abort"} /\ main' \in {"stop_ai", "exit"} /\ ctl = "idle"
        /\ enabled = App /\ UNCHANGED <<library, device, enabled, next, appExit>>
    BY <1>1, <1>4 DEF StopWorkers, At, IInv, MainInv, Recording
  <2>2. Channels \in 1 .. Channels
    BY <1>1
  <2>3. SlotsInv' /\ UNCHANGED owned /\ todo' = [i \in 1 .. Channels |-> i]
    BY <1>2, <1>4, <2>2, DestroyCallSteps DEF StopWorkers, DestroyCall, IInv
  <2>4. \A s \in App : \E i \in DOMAIN todo' : todo'[i] = s
    BY <1>1, <1>2, <2>2, <2>3
  <2> QED BY <1>1, <2>1, <2>3, <2>4 DEF IInv, SlotsInv, MainInv, AppTypeOK, Recording
<1> QED BY <1>3, <1>4

(* Destroying a slot: the others of the list are still to come.                *)
LEMMA DestroyGoesOn ==
  ASSUME IInv, Destroy, UNCHANGED mainVars
  PROVE  IInv'
<1>1. SlotsInv' /\ TypeOK /\ ctl # "idle"
  BY DestroySteps DEF IInv, SlotsInv, Destroy, DestroyCheck, DestroyJoin, DestroyClose
<1>2. CASE DestroyCheck \/ DestroyJoin
  <2>1. UNCHANGED <<owned, todo>>
    BY <1>2 DEF DestroyCheck, DestroyJoin
  <2> QED BY <1>1, <2>1 DEF IInv, SlotsInv, MainInv, AppTypeOK, mainVars
<1>3. CASE DestroyClose
  <2>1. /\ owned' = [owned EXCEPT ![Head(todo)] = FALSE] /\ todo' = Tail(todo)
        /\ Head(todo) \in Slots /\ todo \in Seq(Slots) /\ todo # <<>>
    BY <1>1, <1>3, Todo DEF DestroyClose
  <2>2. ASSUME NEW s \in Slots, owned'[s], NEW i \in DOMAIN todo, todo[i] = s
        PROVE  \E j \in DOMAIN todo' : todo'[j] = s
    <3>1. s # Head(todo)
      BY <1>1, <2>1, <2>2 DEF TypeOK
    <3>2. i \in 1 .. Len(todo) /\ i # 1 /\ Len(todo) \in Nat
      BY <2>1, <2>2, <3>1
    <3>3. i - 1 \in DOMAIN Tail(todo) /\ Tail(todo)[i - 1] = todo[i]
      BY <2>1, <3>2
    <3> QED BY <2>1, <2>2, <3>3
  <2>3. \A s \in Slots : owned'[s] => owned[s]
    BY <1>1, <2>1 DEF TypeOK
  <2> QED BY <1>1, <2>2, <2>3 DEF IInv, SlotsInv, MainInv, AppTypeOK, mainVars
<1> QED BY <1>2, <1>3 DEF Destroy

LEMMA RecorderStep ==
  ASSUME DmicChannels, IInv, [AppNext]_vars
  PROVE  IInv'
<1>1. CASE Main
  <2>1. CASE Destroy /\ UNCHANGED mainVars
    BY <2>1, DestroyGoesOn
  <2>2. CASE ~ (Destroy /\ UNCHANGED mainVars)
    BY <1>1, <2>2, MainAlone, StartWorkerSteps, DestroyCalls
       DEF Main, LibraryInit, StartDevice, StartChannel, SetGain, Wait, Key, StopChannel,
           StopDevice, LibraryExit
  <2> QED BY <2>1, <2>2
<1>2. CASE Workers
  BY <1>2, WorkersAlone DEF Workers, Slots
<1>3. CASE Signal \/ Ended \/ UNCHANGED vars
  BY <1>3, MainAlone DEF Signal, Ended, vars
<1> QED BY <1>1, <1>2, <1>3 DEF AppNext

-----------------------------------------------------------------------------
(* Theorems *)

LEMMA SlotsAreSafe ==
  ASSUME SlotsInv
  PROVE  FilesAreSafe /\ DestroyedIsQuiet
<1>1. FilesAreSafe
  BY Todo DEF SlotsInv, SlotOK, FilesAreSafe
<1>2. DestroyedIsQuiet
  BY DEF SlotsInv, SlotOK, DestroyedIsQuiet
<1> QED BY <1>1, <1>2

(* comm_audio.c: whatever call fails and whatever step the worker is at when   *)
(* its slot is destroyed, nobody uses or closes a file that is not open.       *)
THEOREM Spec_FilesAreSafe ==
  ASSUME FiniteSlots PROVE Spec => []FilesAreSafe
BY SlotsInitially, SlotsStep, SlotsAreSafe, PTL DEF Spec, Init

(* Types of the slots, as comm_audio.c uses them and as the recorder does; the list *)
(* of slots to destroy is empty exactly when no destroy function runs.             *)
THEOREM Spec_TypesCorrect ==
  ASSUME FiniteSlots PROVE Spec => []TypeOK
<1>1. SlotsInv => TypeOK
  BY DEF SlotsInv
<1> QED BY <1>1, SlotsInitially, SlotsStep, PTL DEF Spec, Init

(* Types of the recorder: main never enables a channel that does not exist.        *)
THEOREM AppSpec_TypesCorrect ==
  ASSUME DmicChannels PROVE AppSpec => []AppTypeOK
<1>1. IInv => AppTypeOK
  BY DEF IInv, MainInv
<1> QED BY <1>1, RecorderInitially, RecorderStep, PTL DEF AppSpec

(* comm_audio.c: behind a destroy call the worker has ended, the file is closed *)
(* and the library has its frame back.                                        *)
THEOREM Spec_DestroyedIsQuiet ==
  ASSUME FiniteSlots PROVE Spec => []DestroyedIsQuiet
BY SlotsInitially, SlotsStep, SlotsAreSafe, PTL DEF Spec, Init

(* app/main.cpp has its own create and destroy functions around the same loops. *)
THEOREM AppSpec_FilesAreSafe ==
  ASSUME DmicChannels PROVE AppSpec => [](FilesAreSafe /\ DestroyedIsQuiet)
<1>1. IInv => FilesAreSafe /\ DestroyedIsQuiet
  BY SlotsAreSafe DEF IInv
<1> QED BY <1>1, RecorderInitially, RecorderStep, PTL DEF AppSpec

(* A worker of the recorder that calls the library finds it initialised and its *)
(* channel enabled, through failures, signals and ENTER in any order.          *)
THEOREM AppSpec_ChannelOutlivesWorker ==
  ASSUME DmicChannels PROVE AppSpec => []ChannelOutlivesWorker
<1>1. IInv => ChannelOutlivesWorker
  BY DEF IInv, SlotsInv, SlotOK, MainInv, ChannelOutlivesWorker, Slots, Recording, TypeOK
<1> QED BY <1>1, RecorderInitially, RecorderStep, PTL DEF AppSpec

(* When main returns the library is off, no worker is left and each file is     *)
(* closed.                                                                    *)
THEOREM AppSpec_NothingLeftOn ==
  ASSUME DmicChannels PROVE AppSpec => []NothingLeftOn
<1>1. IInv => NothingLeftOn
  BY DEF IInv, SlotsInv, SlotOK, MainInv, NothingLeftOn, Slots, Recording, TypeOK
<1> QED BY <1>1, RecorderInitially, RecorderStep, PTL DEF AppSpec

-----------------------------------------------------------------------------
(* The set-up of the codec *)

CONSTANTS Codecs, WorkModes, Rates, Widths
VARIABLES codec, request, calls, register, file, result

Codec == INSTANCE CodecConfig

\* A codec that drives the clock needs a rate it can make.
Supported(q) == Codec!SocIsSlave(q.mode) => Codec!get_clk_ratio(q.rate) # 0

IsList(s) == \E S : s \in Seq(S)

\* The registers that a list of calls sets.
Names(s) == {s[i].register : i \in DOMAIN s}

\* The registers that AudibleIsConfigured compares, and what a set-up for q gives them.
Compared(q) == {"adc_polarity", "dac_polarity", "adc_format", "dac_format", "adc_width", "dac_width",
                "left_dac_power", "right_dac_power", "left_dac_volume", "right_dac_volume", "clock"}
               \cup IF Codec!SocIsSlave(q.mode) THEN {"dac_ratio"} ELSE {}

Expected(q, r) ==
    CASE r \in {"adc_polarity", "dac_polarity"} ->
           (CASE q.mode \in {"pcm_master_std", "pcm_slave_std"} -> "offset_2nd"
              [] q.mode \in {"pcm_master_non_std", "pcm_slave_non_std"} -> "offset_1st"
              [] OTHER -> "normal")
      [] r \in {"adc_format", "dac_format"} ->
           (IF q.mode \in {"i2s_master", "i2s_slave"} THEN "i2s" ELSE "pcm")
      [] r \in {"adc_width", "dac_width"} -> q.width
      [] r \in {"left_dac_power", "right_dac_power"} -> "up"
      [] r \in {"left_dac_volume", "right_dac_volume"} -> "0dB"
      [] r = "clock" -> (IF Codec!SocIsSlave(q.mode) THEN "master" ELSE "slave")
      [] OTHER -> Codec!get_clk_ratio(q.rate)

\* The calls of s give the compared registers what is expected.
Fits(q, s) == /\ IsList(s)
              /\ \A i \in DOMAIN s : s[i].register \in Compared(q) => s[i].value = Expected(q, s[i].register)

\* A part of a set-up: neither a reset nor the end of the mute.
Part(q, s) == Fits(q, s) /\ \A i \in DOMAIN s : s[i].register \notin {"reset", "dac_mute"}

\* A call that gives a compared register what is expected, or sets another one.
LEMMA PartSet ==
  ASSUME NEW q, NEW r, NEW v, r \notin {"reset", "dac_mute"},
         r \in Compared(q) => v = Expected(q, r)
  PROVE  Part(q, Codec!Set(r, v)) /\ Names(Codec!Set(r, v)) = {r}
  <1> DEFINE c == [register |-> r, value |-> v]
  <1>1. c.register = r /\ c.value = v
    OBVIOUS
  <1> HIDE DEF c
  <1>2. <<c>> \in Seq({c}) /\ DOMAIN <<c>> = {1} /\ <<c>>[1] = c
    OBVIOUS
  <1>3. Codec!Set(r, v) = <<c>>
    BY DEF Codec!Set, c
  <1>4. Part(q, <<c>>)
    BY <1>1, <1>2 DEF Part, Fits, IsList
  <1>5. Names(<<c>>) = {r}
    BY <1>1, <1>2 DEF Names
  <1> QED
    BY <1>3, <1>4, <1>5

\* One list of calls after another.
LEMMA Joining ==
  ASSUME NEW s, NEW t, IsList(s), IsList(t)
  PROVE  /\ IsList(s \o t)
         /\ Len(s) \in Nat /\ Len(t) \in Nat /\ Len(s \o t) = Len(s) + Len(t)
         /\ DOMAIN s = 1 .. Len(s) /\ DOMAIN t = 1 .. Len(t)
         /\ DOMAIN (s \o t) = 1 .. Len(s) + Len(t)
         /\ \A i \in 1 .. Len(s) + Len(t) :
               (s \o t)[i] = IF i <= Len(s) THEN s[i] ELSE t[i - Len(s)]
         /\ Names(s \o t) = Names(s) \cup Names(t)
  <1>0. PICK S : s \in Seq(S) /\ t \in Seq(S)
    <2>1. PICK A, B : s \in Seq(A) /\ t \in Seq(B)
      BY DEF IsList
    <2>2. s \in Seq(A \cup B) /\ t \in Seq(A \cup B)
      BY <2>1
    <2> QED
      BY <2>2
  <1>1. /\ s \o t \in Seq(S)
        /\ Len(s) \in Nat /\ Len(t) \in Nat /\ Len(s \o t) = Len(s) + Len(t)
        /\ DOMAIN s = 1 .. Len(s) /\ DOMAIN t = 1 .. Len(t)
        /\ DOMAIN (s \o t) = 1 .. Len(s) + Len(t)
        /\ \A i \in 1 .. Len(s) + Len(t) :
               (s \o t)[i] = IF i <= Len(s) THEN s[i] ELSE t[i - Len(s)]
    BY <1>0, ConcatProperties
  <1>2. PICK u : u = s \o t
    OBVIOUS
  <1>3. ASSUME NEW i \in DOMAIN u
        PROVE  \/ i \in DOMAIN s /\ u[i] = s[i]
               \/ i - Len(s) \in DOMAIN t /\ u[i] = t[i - Len(s)]
    BY <1>1, <1>2
  <1>4. ASSUME NEW i \in DOMAIN s
        PROVE  u[i] = s[i] /\ i \in DOMAIN u
    BY <1>1, <1>2
  <1>5. ASSUME NEW i \in DOMAIN t
        PROVE  \E j \in DOMAIN u : u[j] = t[i]
    <2>1. Len(s) + i \in DOMAIN u /\ u[Len(s) + i] = t[i]
      BY <1>1, <1>2
    <2> QED
      BY <2>1
  <1>6. Names(u) \subseteq Names(s) \cup Names(t)
    BY <1>3 DEF Names
  <1>7. Names(s) \subseteq Names(u) /\ Names(t) \subseteq Names(u)
    BY <1>4, <1>5 DEF Names
  <1> QED
    BY <1>1, <1>2, <1>6, <1>7 DEF IsList

\* A part that writes the registers of R.
Has(q, s, R) == Part(q, s) /\ R \subseteq Names(s)

\* The calls of s, then those of t.
Then(s, t) == s \o t

\* Two parts make a part.
LEMMA PartsJoin ==
  ASSUME NEW q, NEW s, NEW t, NEW R, NEW T, Has(q, s, R), Has(q, t, T)
  PROVE  Has(q, Then(s, t), R \cup T)
  <1>1. IsList(s) /\ IsList(t)
    BY DEF Has, Part, Fits
  <1>2. PICK u : u = Then(s, t)
    OBVIOUS
  <1>3. /\ IsList(u) /\ Names(u) = Names(s) \cup Names(t)
        /\ \A i \in DOMAIN u : \/ i \in DOMAIN s /\ u[i] = s[i]
                               \/ i - Len(s) \in DOMAIN t /\ u[i] = t[i - Len(s)]
    BY <1>1, <1>2, Joining DEF Then
  <1>4. Part(q, u)
    BY <1>3 DEF Has, Part, Fits
  <1> QED
    BY <1>2, <1>3, <1>4 DEF Has

\* A part of one call, and of one call for each side.
LEMMA OneSet ==
  ASSUME NEW q, NEW r, NEW v, r \notin {"reset", "dac_mute"}, r \in Compared(q) => v = Expected(q, r)
  PROVE  Has(q, Codec!Set(r, v), {r})
  BY PartSet DEF Has

LEMMA BothSides ==
  ASSUME NEW q, NEW l, NEW r, NEW v, {l, r} \cap {"reset", "dac_mute"} = {},
         l \in Compared(q) => v = Expected(q, l), r \in Compared(q) => v = Expected(q, r)
  PROVE  Has(q, Codec!Both(l, r, v), {l, r})
  <1>1. Has(q, Codec!Set(l, v), {l}) /\ Has(q, Codec!Set(r, v), {r})
    BY OneSet
  <1>2. Codec!Both(l, r, v) = Then(Codec!Set(l, v), Codec!Set(r, v))
    BY DEF Codec!Both, Then
  <1>3. Has(q, Codec!Both(l, r, v), {l} \cup {r})
    BY <1>1, <1>2, PartsJoin
  <1>4. {l} \cup {r} = {l, r}
    OBVIOUS
  <1> QED
    BY <1>3, <1>4

\* The registers named need not be all.
LEMMA Fewer ==
  ASSUME NEW q, NEW s, NEW R, NEW T, Has(q, s, R), T \subseteq R
  PROVE  Has(q, s, T)
  BY DEF Has

(* The parts of es8388_cfg_audio, in their order.  The first set nothing that is compared. *)
LEMMA Inputs ==
  ASSUME NEW q
  PROVE  Has(q, Codec!set_input_ctrl, {}) /\ Has(q, Codec!set_input_volume, {})
  <1>1. /\ Has(q, Codec!Both("left_input", "right_input", "input2"), {"left_input", "right_input"})
        /\ Has(q, Codec!Both("left_in_power", "right_in_power", "up"), {"left_in_power", "right_in_power"})
        /\ Has(q, Codec!Both("left_adc_power", "right_adc_power", "up"), {"left_adc_power", "right_adc_power"})
        /\ Has(q, Codec!Both("left_gain", "right_gain", "0dB"), {"left_gain", "right_gain"})
        /\ Has(q, Codec!Both("left_adc_volume", "right_adc_volume", "0dB"),
               {"left_adc_volume", "right_adc_volume"})
    BY BothSides DEF Compared
  <1>2. Has(q, Codec!Set("adc_mute", "off"), {"adc_mute"})
    BY OneSet DEF Compared
  <1>3. /\ Codec!set_input_ctrl = Then(Then(Codec!Both("left_input", "right_input", "input2"),
                                     Codec!Both("left_in_power", "right_in_power", "up")),
                                Codec!Both("left_adc_power", "right_adc_power", "up"))
        /\ Codec!set_input_volume = Then(Then(Codec!Both("left_gain", "right_gain", "0dB"),
                                       Codec!Both("left_adc_volume", "right_adc_volume", "0dB")),
                                  Codec!Set("adc_mute", "off"))
    BY DEF Codec!set_input_ctrl, Codec!set_input_volume, Then
  <1>4. \E R : Has(q, Then(Codec!Both("left_input", "right_input", "input2"),
                            Codec!Both("left_in_power", "right_in_power", "up")), R)
    BY <1>1, PartsJoin
  <1>5. \E R : Has(q, Then(Codec!Both("left_gain", "right_gain", "0dB"),
                            Codec!Both("left_adc_volume", "right_adc_volume", "0dB")), R)
    BY <1>1, PartsJoin
  <1>6. \E R : Has(q, Codec!set_input_ctrl, R)
    BY <1>1, <1>3, <1>4, PartsJoin
  <1>7. \E R : Has(q, Codec!set_input_volume, R)
    BY <1>2, <1>3, <1>5, PartsJoin
  <1> QED
    BY <1>6, <1>7, Fewer

\* A mode, rate or width that the code refuses ends the set-up.
LEMMA Refused ==
  ASSUME NEW q
  PROVE  Has(q, Codec!NotSupported, {"refused"})
  BY OneSet DEF Compared, Codec!NotSupported

LEMMA ClockMode ==
  ASSUME NEW q
  PROVE  \/ Has(q, Codec!set_clk_mode(q.mode, q.rate), {"refused"})
         \/ /\ Supported(q)
            /\ Has(q, Codec!set_clk_mode(q.mode, q.rate), Compared(q) \cap {"clock", "dac_ratio"})
  <1>1. CASE ~ Codec!SocIsSlave(q.mode)
    <2>1. Has(q, Codec!Set("clock", "slave"), {"clock"})
      BY <1>1, OneSet DEF Expected
    <2>2. Codec!set_clk_mode(q.mode, q.rate) = Codec!Set("clock", "slave")
      BY <1>1 DEF Codec!set_clk_mode
    <2>3. Compared(q) \cap {"clock", "dac_ratio"} \subseteq {"clock"}
      BY <1>1 DEF Compared
    <2> QED
      BY <1>1, <2>1, <2>2, <2>3, Fewer DEF Supported
  <1>2. CASE Codec!SocIsSlave(q.mode) /\ Codec!get_clk_ratio(q.rate) = 0
    BY <1>2, Refused DEF Codec!set_clk_mode
  <1>3. CASE Codec!SocIsSlave(q.mode) /\ Codec!get_clk_ratio(q.rate) # 0
    <2>1. Has(q, Codec!Set("bclk_ratio", 4), {"bclk_ratio"})
      BY OneSet DEF Compared
    <2>2. Has(q, Codec!Both("adc_ratio", "dac_ratio", Codec!get_clk_ratio(q.rate)), {"adc_ratio", "dac_ratio"})
      <3>1. "dac_ratio" \in Compared(q) => Codec!get_clk_ratio(q.rate) = Expected(q, "dac_ratio")
        BY DEF Expected
      <3>2. "adc_ratio" \notin Compared(q)
        BY DEF Compared
      <3> QED
        BY <3>1, <3>2, BothSides
    <2>3. Has(q, Codec!Set("clock", "master"), {"clock"})
      BY <1>3, OneSet DEF Expected
    <2>4. Codec!set_clk_mode(q.mode, q.rate) =
            Then(Then(Codec!Set("bclk_ratio", 4),
                      Codec!Both("adc_ratio", "dac_ratio", Codec!get_clk_ratio(q.rate))),
                 Codec!Set("clock", "master"))
      BY <1>3 DEF Codec!set_clk_mode, Then
    <2>5. Has(q, Then(Codec!Set("bclk_ratio", 4),
                      Codec!Both("adc_ratio", "dac_ratio", Codec!get_clk_ratio(q.rate))),
              {"bclk_ratio"} \cup {"adc_ratio", "dac_ratio"})
      BY <2>1, <2>2, PartsJoin
    <2>6. Has(q, Codec!set_clk_mode(q.mode, q.rate),
              ({"bclk_ratio"} \cup {"adc_ratio", "dac_ratio"}) \cup {"clock"})
      BY <2>3, <2>4, <2>5, PartsJoin
    <2>7. Compared(q) \cap {"clock", "dac_ratio"}
            \subseteq ({"bclk_ratio"} \cup {"adc_ratio", "dac_ratio"}) \cup {"clock"}
      OBVIOUS
    <2> QED
      BY <1>3, <2>6, <2>7, Fewer DEF Supported
  <1> QED
    BY <1>1, <1>2, <1>3

LEMMA Polarity ==
  ASSUME NEW q
  PROVE  Has(q, Codec!set_clk_polarity(q.mode), {"adc_polarity", "dac_polarity"})
  <1> DEFINE v == CASE q.mode \in {"pcm_master_std", "pcm_slave_std"} -> "offset_2nd"
                    [] q.mode \in {"pcm_master_non_std", "pcm_slave_non_std"} -> "offset_1st"
                    [] OTHER -> "normal"
             d == IF q.mode \in {"i2s_master", "i2s_slave"} THEN "normal" ELSE "invert"
  <1>1. v = Expected(q, "adc_polarity") /\ v = Expected(q, "dac_polarity")
    BY DEF Expected
  <1>2. Codec!set_clk_polarity(q.mode) =
          Then(Codec!Both("adc_polarity", "dac_polarity", v), Codec!Set("bclk_dir", d))
    BY DEF Codec!set_clk_polarity, Then
  <1> HIDE DEF v, d
  <1>3. Has(q, Codec!Both("adc_polarity", "dac_polarity", v), {"adc_polarity", "dac_polarity"})
    BY <1>1, BothSides
  <1>4. Has(q, Codec!Set("bclk_dir", d), {"bclk_dir"})
    BY OneSet DEF Compared
  <1>5. Has(q, Codec!set_clk_polarity(q.mode), {"adc_polarity", "dac_polarity"} \cup {"bclk_dir"})
    BY <1>2, <1>3, <1>4, PartsJoin
  <1> QED
    BY <1>5, Fewer

Formats == {"adc_format", "dac_format", "adc_width", "dac_width"}

LEMMA DataFormat ==
  ASSUME NEW q
  PROVE  \/ Has(q, Codec!set_data_ctrl(q.mode, q.width), {"refused"})
         \/ Has(q, Codec!set_data_ctrl(q.mode, q.width), Formats)
  <1> DEFINE f == IF q.mode \in {"i2s_master", "i2s_slave"} THEN "i2s" ELSE "pcm"
             w == IF q.width \in {16, 24} THEN Codec!Both("adc_width", "dac_width", q.width) ELSE Codec!NotSupported
  <1>1. f = Expected(q, "adc_format") /\ f = Expected(q, "dac_format")
    BY DEF Expected
  <1>2. Codec!set_data_ctrl(q.mode, q.width) = Then(Codec!Both("adc_format", "dac_format", f), w)
    BY DEF Codec!set_data_ctrl, Then
  <1>3. Has(q, w, {"refused"}) \/ Has(q, w, {"adc_width", "dac_width"})
    <2>1. CASE q.width \in {16, 24}
      <3>1. q.width = Expected(q, "adc_width") /\ q.width = Expected(q, "dac_width")
        BY <2>1 DEF Expected
      <3>2. Has(q, Codec!Both("adc_width", "dac_width", q.width), {"adc_width", "dac_width"})
        BY <3>1, BothSides
      <3> QED
        BY <2>1, <3>2
    <2>2. CASE q.width \notin {16, 24}
      BY <2>2, Refused
    <2> QED
      BY <2>1, <2>2
  <1> HIDE DEF f, w
  <1>4. Has(q, Codec!Both("adc_format", "dac_format", f), {"adc_format", "dac_format"})
    BY <1>1, BothSides
  <1>5. CASE Has(q, w, {"refused"})
    <2>1. Has(q, Codec!set_data_ctrl(q.mode, q.width), {"adc_format", "dac_format"} \cup {"refused"})
      BY <1>2, <1>4, <1>5, PartsJoin
    <2> QED
      BY <2>1, Fewer
  <1>6. CASE Has(q, w, {"adc_width", "dac_width"})
    <2>1. Has(q, Codec!set_data_ctrl(q.mode, q.width), {"adc_format", "dac_format"} \cup {"adc_width", "dac_width"})
      BY <1>2, <1>4, <1>6, PartsJoin
    <2>2. Formats \subseteq {"adc_format", "dac_format"} \cup {"adc_width", "dac_width"}
      BY DEF Formats
    <2> QED
      BY <2>1, <2>2, Fewer
  <1> QED
    BY <1>3, <1>5, <1>6

LEMMA Outputs ==
  ASSUME NEW q
  PROVE  Has(q, Codec!set_output_ctrl, {"left_dac_power", "right_dac_power"})
  <1>1. Has(q, Codec!Both("left_dac_power", "right_dac_power", "up"), {"left_dac_power", "right_dac_power"})
    BY BothSides DEF Expected
  <1>2. /\ Has(q, Codec!Both("left_out1", "right_out1", "on"), {"left_out1", "right_out1"})
        /\ Has(q, Codec!Both("left_out2", "right_out2", "on"), {"left_out2", "right_out2"})
    BY BothSides DEF Compared
  <1>3. Codec!set_output_ctrl = Then(Then(Codec!Both("left_dac_power", "right_dac_power", "up"),
                                    Codec!Both("left_out1", "right_out1", "on")),
                               Codec!Both("left_out2", "right_out2", "on"))
    BY DEF Codec!set_output_ctrl, Then
  <1>4. Has(q, Codec!set_output_ctrl, ({"left_dac_power", "right_dac_power"} \cup {"left_out1", "right_out1"})
                                   \cup {"left_out2", "right_out2"})
    BY <1>1, <1>2, <1>3, PartsJoin
  <1> QED
    BY <1>4, Fewer

Volumes == {"left_dac_volume", "right_dac_volume"}

\* set_output_volume but for its last call, the only one that ends the mute.
VolumeCalls == Then(Then(Codec!Both("left_out1_volume", "right_out1_volume", "0dB"),
                         Codec!Both("left_out2_volume", "right_out2_volume", "0dB")),
                    Codec!Both("left_dac_volume", "right_dac_volume", "0dB"))

LEMMA OutputVolume ==
  ASSUME NEW q
  PROVE  /\ Has(q, VolumeCalls, Volumes)
         /\ Codec!set_output_volume = Then(VolumeCalls, Codec!Set("dac_mute", "off"))
  <1>1. /\ Has(q, Codec!Both("left_out1_volume", "right_out1_volume", "0dB"),
               {"left_out1_volume", "right_out1_volume"})
        /\ Has(q, Codec!Both("left_out2_volume", "right_out2_volume", "0dB"),
               {"left_out2_volume", "right_out2_volume"})
    BY BothSides DEF Compared
  <1>2. Has(q, Codec!Both("left_dac_volume", "right_dac_volume", "0dB"), Volumes)
    BY BothSides DEF Expected, Volumes
  <1>3. Has(q, Then(Codec!Both("left_out1_volume", "right_out1_volume", "0dB"),
                    Codec!Both("left_out2_volume", "right_out2_volume", "0dB")),
            {"left_out1_volume", "right_out1_volume"} \cup {"left_out2_volume", "right_out2_volume"})
    BY <1>1, PartsJoin
  <1>4. \E R : Has(q, VolumeCalls, R \cup Volumes)
    BY <1>2, <1>3, PartsJoin DEF VolumeCalls
  <1>5. Has(q, VolumeCalls, Volumes)
    BY <1>4, Fewer
  <1>6. Codec!set_output_volume = Then(VolumeCalls, Codec!Set("dac_mute", "off"))
    BY DEF Codec!set_output_volume, VolumeCalls, Then
  <1> QED
    BY <1>5, <1>6

-----------------------------------------------------------------------------
\* A set-up as far as s goes: it starts with the only reset.
Opening(q, s, R) ==
  /\ Fits(q, s) /\ R \subseteq Names(s) /\ s # <<>> /\ s[1].register = "reset"
  /\ \A i \in DOMAIN s : i # 1 => s[i].register \notin {"reset", "dac_mute"}

\* A whole set-up: the mute ends last, when it has written all that is compared, unless it is refused before.
SetUp(q, s) ==
  /\ Fits(q, s) /\ s # <<>> /\ s[1].register = "reset"
  /\ \A i \in DOMAIN s : i # 1 => s[i].register # "reset"
  /\ \A i \in DOMAIN s : s[i].register = "dac_mute" =>
        /\ i = Len(s)
        /\ "refused" \in Names(s) \/ (Supported(q) /\ Compared(q) \subseteq Names(s))

\* es8388_disable, and the first call of each set-up.
LEMMA FirstCall ==
  ASSUME NEW q
  PROVE  Opening(q, Codec!soft_reset, {})
  <1> DEFINE c == [register |-> "reset", value |-> 1]
  <1>1. c.register = "reset"
    OBVIOUS
  <1> HIDE DEF c
  <1>2. <<c>> \in Seq({c}) /\ DOMAIN <<c>> = {1} /\ <<c>>[1] = c /\ <<c>> # <<>>
    OBVIOUS
  <1>3. Codec!soft_reset = <<c>>
    BY DEF Codec!soft_reset, Codec!Set, c
  <1>4. "reset" \notin Compared(q)
    BY DEF Compared
  <1>5. Opening(q, <<c>>, {})
    BY <1>1, <1>2, <1>4 DEF Opening, Fits, IsList
  <1> QED
    BY <1>3, <1>5

\* A set-up goes on with a part.
LEMMA OpeningJoins ==
  ASSUME NEW q, NEW s, NEW t, NEW R, NEW T, Opening(q, s, R), Has(q, t, T)
  PROVE  Opening(q, Then(s, t), R \cup T)
  <1>1. IsList(s) /\ IsList(t)
    BY DEF Has, Part, Fits, Opening
  <1>2. PICK u : u = Then(s, t)
    OBVIOUS
  <1>3. /\ IsList(u) /\ Names(u) = Names(s) \cup Names(t) /\ Len(s) \in Nat /\ Len(t) \in Nat
        /\ DOMAIN s = 1 .. Len(s) /\ DOMAIN u = 1 .. Len(s) + Len(t)
        /\ \A i \in DOMAIN u : \/ i \in DOMAIN s /\ u[i] = s[i]
                               \/ i - Len(s) \in DOMAIN t /\ u[i] = t[i - Len(s)]
        /\ \A i \in DOMAIN s : i \in DOMAIN u /\ u[i] = s[i]
    BY <1>1, <1>2, Joining DEF Then
  <1>4. 1 \in DOMAIN s
    <2>1. PICK S : s \in Seq(S)
      BY <1>1 DEF IsList
    <2>2. s # <<>>
      BY DEF Opening
    <2> QED
      BY <2>1, <2>2
  <1>5. Fits(q, u)
    BY <1>3 DEF Has, Part, Fits, Opening
  <1>6. u # <<>> /\ u[1].register = "reset"
    BY <1>3, <1>4 DEF Opening
  <1>7. \A i \in DOMAIN u : i # 1 => u[i].register \notin {"reset", "dac_mute"}
    BY <1>3 DEF Has, Part, Opening
  <1> QED
    BY <1>2, <1>3, <1>5, <1>6, <1>7 DEF Has, Opening

\* The last part and the end of the mute.
LEMMA SetUpEnds ==
  ASSUME NEW q, NEW s, NEW t, NEW R, NEW T, Opening(q, s, R), Has(q, t, T),
         "refused" \in R \/ (Supported(q) /\ Compared(q) \subseteq R \cup T)
  PROVE  SetUp(q, Then(s, Then(t, Codec!Set("dac_mute", "off"))))
  <1>1. PICK o : o = Then(s, t)
    OBVIOUS
  <1> DEFINE c == [register |-> "dac_mute", value |-> "off"]
  <1>2. c.register = "dac_mute" /\ "dac_mute" \notin Compared(q)
    BY DEF Compared
  <1> HIDE DEF c
  <1>3. <<c>> \in Seq({c}) /\ DOMAIN <<c>> = {1} /\ <<c>>[1] = c /\ Len(<<c>>) = 1
    OBVIOUS
  <1>4. IsList(s) /\ IsList(t) /\ IsList(<<c>>)
    BY <1>3 DEF Has, Part, Fits, Opening, IsList
  <1>5. PICK u : u = o \o <<c>>
    OBVIOUS
  <1>6. Then(s, Then(t, Codec!Set("dac_mute", "off"))) = u
    <2>1. PICK S : s \in Seq(S) /\ t \in Seq(S) /\ <<c>> \in Seq(S)
      <3>1. PICK A, B : s \in Seq(A) /\ t \in Seq(B)
        BY <1>4 DEF IsList
      <3>2. s \in Seq(A \cup B \cup {c}) /\ t \in Seq(A \cup B \cup {c}) /\ <<c>> \in Seq(A \cup B \cup {c})
        BY <3>1, <1>3
      <3> QED
        BY <3>2
    <2>2. PICK m : m = <<c>>
      OBVIOUS
    <2>3. m \in Seq(S)
      BY <2>1, <2>2
    <2>4. (s \o t) \o m = s \o (t \o m)
      BY <2>1, <2>3, ConcatAssociative
    <2>5. Codec!Set("dac_mute", "off") = m
      BY <2>2 DEF Codec!Set, c
    <2> QED
      BY <1>1, <1>5, <2>2, <2>4, <2>5 DEF Then
  <1>7. Opening(q, o, R \cup T)
    BY <1>1, OpeningJoins
  <1>8. IsList(o)
    BY <1>7 DEF Opening, Fits
  <1>9. PICK m : m = <<c>>
    OBVIOUS
  <1>10. /\ IsList(m) /\ Len(m) = 1 /\ DOMAIN m = {1} /\ m[1] = c
    BY <1>3, <1>4, <1>9
  <1>11. /\ IsList(u) /\ Names(u) = Names(o) \cup Names(m) /\ Len(o) \in Nat /\ Len(u) = Len(o) + 1
         /\ DOMAIN o = 1 .. Len(o) /\ DOMAIN u = 1 .. Len(o) + 1
         /\ \A i \in DOMAIN o : u[i] = o[i]
         /\ u[Len(o) + 1] = c
    <2>1. u = o \o m
      BY <1>5, <1>9
    <2>2. /\ IsList(u) /\ Len(o) \in Nat /\ Len(u) = Len(o) + 1 /\ Names(u) = Names(o) \cup Names(m)
          /\ DOMAIN o = 1 .. Len(o) /\ DOMAIN u = 1 .. Len(o) + 1
          /\ \A i \in 1 .. Len(o) + 1 : u[i] = IF i <= Len(o) THEN o[i] ELSE m[i - Len(o)]
      BY <1>8, <1>10, <2>1, Joining
    <2>3. u[Len(o) + 1] = c
      <3>1. Len(o) + 1 \in 1 .. Len(o) + 1 /\ ~(Len(o) + 1 <= Len(o)) /\ (Len(o) + 1) - Len(o) = 1
        BY <2>2
      <3> QED
        BY <1>10, <2>2, <3>1
    <2>4. \A i \in DOMAIN o : u[i] = o[i]
      BY <2>2
    <2> QED
      BY <2>2, <2>3, <2>4
  <1>12. 1 \in DOMAIN o
    <2>1. PICK S : o \in Seq(S)
      BY <1>8 DEF IsList
    <2>2. o # <<>>
      BY <1>7 DEF Opening
    <2> QED
      BY <2>1, <2>2
  <1>13. \A i \in DOMAIN u : i \in DOMAIN o \/ i = Len(o) + 1
    BY <1>11
  <1>14. Fits(q, u)
    BY <1>2, <1>7, <1>11, <1>13 DEF Opening, Fits
  <1>15. u[1].register = "reset" /\ u # <<>>
    BY <1>7, <1>11, <1>12 DEF Opening
  <1>16. \A i \in DOMAIN u : i # 1 => u[i].register # "reset"
    BY <1>2, <1>7, <1>11, <1>13 DEF Opening
  <1>17. \A i \in DOMAIN u : u[i].register = "dac_mute" => i = Len(u)
    BY <1>2, <1>7, <1>11, <1>13, <1>15 DEF Opening
  <1>18. "refused" \in Names(u) \/ (Supported(q) /\ Compared(q) \subseteq Names(u))
    BY <1>7, <1>11 DEF Opening
  <1>19. SetUp(q, u)
    <2>1. \A i \in DOMAIN u : u[i].register = "dac_mute" =>
            i = Len(u) /\ ("refused" \in Names(u) \/ (Supported(q) /\ Compared(q) \subseteq Names(u)))
      BY <1>17, <1>18
    <2> QED
      BY <1>14, <1>15, <1>16, <2>1 DEF SetUp
  <1> QED
    BY <1>6, <1>19

(* es8388_cfg_audio and inner_codec_cfg_audio are set-ups, for every request. *)
LEMMA ES8388SetUp ==
  ASSUME NEW q
  PROVE  SetUp(q, Codec!es8388_cfg_audio(q))
  <1> DEFINE p2 == Then(Codec!soft_reset, Codec!set_input_ctrl)
             p3 == Then(p2, Codec!set_clk_mode(q.mode, q.rate))
             p4 == Then(p3, Codec!set_clk_polarity(q.mode))
             p5 == Then(p4, Codec!set_data_ctrl(q.mode, q.width))
             p6 == Then(p5, Codec!set_output_ctrl)
             p7 == Then(p6, Codec!set_input_volume)
  <1>1. Codec!es8388_cfg_audio(q) = Then(p7, Then(VolumeCalls, Codec!Set("dac_mute", "off")))
    <2>1. Codec!es8388_cfg_audio(q) = Then(p7, Codec!set_output_volume)
      BY DEF Codec!es8388_cfg_audio, Then
    <2> QED
      BY <2>1, OutputVolume
  <1> HIDE DEF p2, p3, p4, p5, p6, p7
  <1>2. PICK R2 : Opening(q, p2, R2)
    BY FirstCall, Inputs, OpeningJoins DEF p2
  <1>3. PICK R3 : /\ Opening(q, p3, R3)
                  /\ \/ "refused" \in R3
                     \/ Supported(q) /\ Compared(q) \cap {"clock", "dac_ratio"} \subseteq R3
    <2>1. PICK C : /\ Has(q, Codec!set_clk_mode(q.mode, q.rate), C)
                   /\ \/ "refused" \in C
                      \/ Supported(q) /\ Compared(q) \cap {"clock", "dac_ratio"} \subseteq C
      BY ClockMode
    <2>2. Opening(q, p3, R2 \cup C)
      BY <1>2, <2>1, OpeningJoins DEF p3
    <2> QED
      BY <2>1, <2>2
  <1>4. Opening(q, p4, R3 \cup {"adc_polarity", "dac_polarity"})
    BY <1>3, Polarity, OpeningJoins DEF p4
  <1>5. PICK D : /\ Opening(q, p5, (R3 \cup {"adc_polarity", "dac_polarity"}) \cup D)
                 /\ "refused" \in D \/ Formats \subseteq D
    <2>1. PICK D : Has(q, Codec!set_data_ctrl(q.mode, q.width), D) /\ ("refused" \in D \/ Formats \subseteq D)
      BY DataFormat
    <2>2. Opening(q, p5, (R3 \cup {"adc_polarity", "dac_polarity"}) \cup D)
      BY <1>4, <2>1, OpeningJoins DEF p5
    <2> QED
      BY <2>1, <2>2
  <1>6. PICK R5 : R5 = (R3 \cup {"adc_polarity", "dac_polarity"}) \cup D
    OBVIOUS
  <1>7. Opening(q, p6, R5 \cup {"left_dac_power", "right_dac_power"})
    BY <1>5, <1>6, Outputs, OpeningJoins DEF p6
  <1>8. PICK R : R = (R5 \cup {"left_dac_power", "right_dac_power"}) \cup {}
    OBVIOUS
  <1>9. Opening(q, p7, R)
    BY <1>7, <1>8, Inputs, OpeningJoins DEF p7
  <1>10. "refused" \in R \/ (Supported(q) /\ Compared(q) \subseteq R \cup Volumes)
    BY <1>3, <1>5, <1>6, <1>8 DEF Compared, Formats, Volumes
  <1> QED
    BY <1>1, <1>9, <1>10, OutputVolume, SetUpEnds

\* A set-up that never ends the mute.
LEMMA OpeningIsSetUp ==
  ASSUME NEW q, NEW s, NEW R, Opening(q, s, R)
  PROVE  SetUp(q, s)
  <1>1. \A i \in DOMAIN s : s[i].register # "dac_mute"
    BY DEF Opening
  <1> QED
    BY <1>1 DEF Opening, SetUp

LEMMA InnerSetUp ==
  ASSUME NEW q
  PROVE  SetUp(q, Codec!inner_codec_cfg_audio(q))
  <1>1. \E T : Has(q, Codec!get_i2s_fs(q.rate), T)
    <2>1. Has(q, Codec!Set("i2s_fs", q.rate), {"i2s_fs"})
      BY OneSet DEF Compared
    <2>2. Codec!get_i2s_fs(q.rate) \in {Codec!Set("i2s_fs", q.rate), Codec!NotSupported}
      BY DEF Codec!get_i2s_fs
    <2> QED
      BY <2>1, <2>2, Refused
  <1>2. Has(q, Codec!Set("mixer", "in_d"), {"mixer"})
    BY OneSet DEF Compared
  <1>3. \E R : Opening(q, Then(Codec!soft_reset, Codec!get_i2s_fs(q.rate)), R)
    BY <1>1, FirstCall, OpeningJoins
  <1>4. \E R : Opening(q, Then(Then(Codec!soft_reset, Codec!get_i2s_fs(q.rate)), Codec!Set("mixer", "in_d")), R)
    BY <1>2, <1>3, OpeningJoins
  <1>5. Codec!inner_codec_cfg_audio(q) =
          Then(Then(Codec!soft_reset, Codec!get_i2s_fs(q.rate)), Codec!Set("mixer", "in_d"))
    BY DEF Codec!inner_codec_cfg_audio, Then
  <1> QED
    BY <1>4, <1>5, OpeningIsSetUp

-----------------------------------------------------------------------------
(* The calls, one by one *)

Given(q, g, r) == r \in DOMAIN g /\ g[r] = Expected(q, r)

\* Behind the reset of a set-up, with the calls s to come and g in the registers.
Midway(q, s, g) ==
  /\ Fits(q, s)
  /\ \A i \in DOMAIN s : s[i].register # "reset"
  /\ \A i \in DOMAIN s : s[i].register = "dac_mute" =>
        /\ i = Len(s)
        /\ \/ "refused" \in Names(s)
           \/ Supported(q) /\ \A r \in Compared(q) : r \in Names(s) \/ Given(q, g, r)
  /\ "dac_mute" \in DOMAIN g =>
        s = <<>> /\ Supported(q) /\ \A r \in Compared(q) : Given(q, g, r)

\* The call that is made, and those to come.
LEMMA FirstAndRest ==
  ASSUME NEW s, IsList(s), s # <<>>
  PROVE  /\ IsList(Tail(s)) /\ Head(s) = s[1] /\ Len(s) \in Nat /\ Len(s) > 0 /\ Len(Tail(s)) = Len(s) - 1
         /\ DOMAIN s = 1 .. Len(s) /\ DOMAIN Tail(s) = 1 .. Len(s) - 1
         /\ \A i \in DOMAIN Tail(s) : i + 1 \in DOMAIN s /\ Tail(s)[i] = s[i + 1]
         /\ Names(s) = {s[1].register} \cup Names(Tail(s))
         /\ Len(s) = 1 => Tail(s) = <<>>
  <1>1. PICK S : s \in Seq(S)
    BY DEF IsList
  <1>2. PICK u : u = Tail(s)
    OBVIOUS
  <1>3. /\ u \in Seq(S) /\ Head(s) = s[1] /\ Len(s) \in Nat /\ Len(s) > 0 /\ Len(u) = Len(s) - 1
        /\ DOMAIN s = 1 .. Len(s) /\ DOMAIN u = 1 .. Len(s) - 1
        /\ \A i \in DOMAIN u : u[i] = s[i + 1]
    BY <1>1, <1>2
  <1>4. \A i \in DOMAIN u : i + 1 \in DOMAIN s
    BY <1>3
  <1>5. ASSUME NEW i \in DOMAIN s
        PROVE  i = 1 \/ \E j \in DOMAIN u : s[i] = u[j]
    <2>1. CASE i # 1
      <3>1. i - 1 \in DOMAIN u /\ u[i - 1] = s[i]
        BY <1>3, <2>1
      <3> QED
        BY <3>1
    <2> QED
      BY <2>1
  <1>6. Names(s) = {s[1].register} \cup Names(u)
    <2>1. 1 \in DOMAIN s
      BY <1>3
    <2>2. Names(s) \subseteq {s[1].register} \cup Names(u)
      BY <1>5 DEF Names
    <2>3. s[1].register \in Names(s) /\ Names(u) \subseteq Names(s)
      BY <1>3, <1>4, <2>1 DEF Names
    <2> QED
      BY <2>2, <2>3
  <1>7. Len(s) = 1 => u = <<>>
    BY <1>3
  <1> QED
    BY <1>2, <1>3, <1>4, <1>6, <1>7 DEF IsList

\* Nothing is set, and no call is left.
LEMMA Nothing == DOMAIN <<>> = {} /\ IsList(<<>>)
  <1>1. <<>> \in Seq({})
    OBVIOUS
  <1> QED
    BY <1>1 DEF IsList

\* The reset clears all registers.
LEMMA AfterReset ==
  ASSUME NEW q, NEW s, SetUp(q, s)
  PROVE  Midway(q, Tail(s), <<>>) /\ Head(s).register = "reset"
  <1>1. PICK u : u = Tail(s)
    OBVIOUS
  <1>2. /\ IsList(u) /\ Head(s) = s[1] /\ Len(s) \in Nat /\ Len(u) = Len(s) - 1
        /\ DOMAIN s = 1 .. Len(s) /\ DOMAIN u = 1 .. Len(s) - 1
        /\ \A i \in DOMAIN u : i + 1 \in DOMAIN s /\ u[i] = s[i + 1]
        /\ Names(s) = {s[1].register} \cup Names(u)
    BY <1>1, FirstAndRest DEF SetUp, Fits
  <1>3. Fits(q, u)
    BY <1>2 DEF SetUp, Fits
  <1>4. \A i \in DOMAIN u : u[i].register # "reset"
    BY <1>2 DEF SetUp
  <1>5. s[1].register = "reset" /\ "reset" \notin Compared(q)
    BY DEF SetUp, Compared
  <1>6. ASSUME NEW i \in DOMAIN u, u[i].register = "dac_mute"
        PROVE  /\ i = Len(u)
               /\ "refused" \in Names(u) \/ (Supported(q) /\ Compared(q) \subseteq Names(u))
    <2>1. /\ i + 1 = Len(s)
          /\ "refused" \in Names(s) \/ (Supported(q) /\ Compared(q) \subseteq Names(s))
      BY <1>2, <1>6 DEF SetUp
    <2> QED
      BY <1>2, <1>5, <2>1
  <1> QED
    BY <1>1, <1>2, <1>3, <1>4, <1>5, <1>6, Nothing DEF Midway

\* A call gives its register what is expected; the one that ends the mute is the last.
LEMMA CallKeeps ==
  ASSUME NEW q, NEW s, NEW g, NEW h, Midway(q, s, g), s # <<>>, Head(s).register # "refused",
         h = [r \in DOMAIN g \union {Head(s).register} |-> IF r = Head(s).register THEN Head(s).value ELSE g[r]]
  PROVE  Midway(q, Tail(s), h)
  <1>1. PICK u, c : u = Tail(s) /\ c = Head(s)
    OBVIOUS
  <1>2. /\ IsList(u) /\ c = s[1] /\ Len(s) \in Nat /\ Len(s) > 0 /\ Len(u) = Len(s) - 1
        /\ DOMAIN s = 1 .. Len(s) /\ DOMAIN u = 1 .. Len(s) - 1
        /\ \A i \in DOMAIN u : i + 1 \in DOMAIN s /\ u[i] = s[i + 1]
        /\ Names(s) = {c.register} \cup Names(u)
        /\ Len(s) = 1 => u = <<>>
    BY <1>1, FirstAndRest DEF Midway, Fits
  <1>3. Fits(q, u) /\ \A i \in DOMAIN u : u[i].register # "reset"
    BY <1>2 DEF Midway, Fits
  <1>4. 1 \in DOMAIN s /\ (c.register \in Compared(q) => c.value = Expected(q, c.register))
    BY <1>2 DEF Midway, Fits
  <1>5. /\ DOMAIN h = DOMAIN g \cup {c.register}
        /\ \A r \in DOMAIN h : h[r] = IF r = c.register THEN c.value ELSE g[r]
    BY <1>1
  <1>6. "dac_mute" \notin DOMAIN g
    BY DEF Midway
  <1>7. ASSUME NEW r \in Compared(q), r \in Names(s) \/ Given(q, g, r)
        PROVE  r \in Names(u) \/ Given(q, h, r)
    BY <1>2, <1>4, <1>5, <1>7 DEF Given
  <1>8. ASSUME NEW i \in DOMAIN u, u[i].register = "dac_mute"
        PROVE  /\ i = Len(u)
               /\ \/ "refused" \in Names(u)
                  \/ Supported(q) /\ \A r \in Compared(q) : r \in Names(u) \/ Given(q, h, r)
    <2>1. /\ i + 1 = Len(s)
          /\ \/ "refused" \in Names(s)
             \/ Supported(q) /\ \A r \in Compared(q) : r \in Names(s) \/ Given(q, g, r)
      BY <1>2, <1>8 DEF Midway
    <2>2. i = Len(u)
      BY <1>2, <2>1
    <2>3. c.register # "refused"
      BY <1>1
    <2>4. "refused" \in Names(s) => "refused" \in Names(u)
      BY <1>2, <2>3
    <2> QED
      BY <1>7, <2>1, <2>2, <2>4
  <1>9. ASSUME "dac_mute" \in DOMAIN h
        PROVE  u = <<>> /\ Supported(q) /\ \A r \in Compared(q) : Given(q, h, r)
    <2>1. c.register = "dac_mute"
      BY <1>5, <1>6, <1>9
    <2>2. /\ Len(s) = 1
          /\ \/ "refused" \in Names(s)
             \/ Supported(q) /\ \A r \in Compared(q) : r \in Names(s) \/ Given(q, g, r)
      BY <1>2, <1>4, <2>1 DEF Midway
    <2>3. u = <<>> /\ Names(u) = {}
      BY <1>2, <2>2, Nothing DEF Names
    <2> QED
      BY <1>1, <1>2, <1>7, <2>2, <2>3
  <1> QED
    BY <1>1, <1>3, <1>8, <1>9 DEF Midway

Paired(g) ==
  "dac_mute" \in DOMAIN g =>
     \A p \in Codec!Pairs : p[1] \in DOMAIN g /\ p[2] \in DOMAIN g /\ g[p[1]] = g[p[2]]

(* The inductive invariant: a set-up runs from its reset, or is midway.  Paired *)
(* alone survives a failure, and the start of the next set-up before its reset. *)
CodecInv ==
  /\ result = "running" => SetUp(request, calls) \/ Midway(request, calls, register)
  /\ result = "success" => Midway(request, <<>>, register)
  /\ Paired(register)

\* When the mute ends, both sides are set, and alike.
LEMMA MidwayIsPaired ==
  ASSUME NEW q, NEW s, NEW g, Midway(q, s, g)
  PROVE  Paired(g)
  <1> SUFFICES ASSUME "dac_mute" \in DOMAIN g, NEW p \in Codec!Pairs
               PROVE  /\ p[1] \in DOMAIN g /\ p[2] \in DOMAIN g
                      /\ g[p[1]] = g[p[2]]
    BY DEF Paired
  <1>1. \A r \in Compared(q) : r \in DOMAIN g /\ g[r] = Expected(q, r)
    BY DEF Midway, Given
  <1>2. p[1] \in Compared(q) /\ p[2] \in Compared(q)
    BY DEF Codec!Pairs, Compared
  <1>3. Expected(q, p[1]) = Expected(q, p[2])
    BY DEF Codec!Pairs, Expected
  <1> QED
    BY <1>1, <1>2, <1>3

LEMMA CodecInit == Codec!Init => CodecInv
  BY Nothing DEF Codec!Init, CodecInv, Paired

\* Also when a call fails, or the client configures again with another request.
LEMMA CodecStep ==
  ASSUME CodecInv, [Codec!Next]_Codec!vars
  PROVE  CodecInv'
  <1>1. CASE Codec!Configure
    <2>1. /\ register' = register
          /\ \/ result' = "failure"
             \/ /\ result' = "running"
                /\ calls' \in {Codec!es8388_cfg_audio(request'), Codec!inner_codec_cfg_audio(request')}
      BY <1>1 DEF Codec!Configure
    <2>2. result' = "running" => SetUp(request', calls')
      BY <2>1, ES8388SetUp, InnerSetUp
    <2> QED
      BY <2>1, <2>2 DEF CodecInv, Paired
  <1>2. CASE Codec!Disable
    <2>1. SetUp(request', calls')
      BY <1>2, FirstCall, OpeningIsSetUp DEF Codec!Disable
    <2> QED
      BY <1>2, <2>1 DEF Codec!Disable, CodecInv, Paired
  <1>3. CASE Codec!Call
    <2>1. Midway(request, calls', register')
      <3>1. CASE SetUp(request, calls)
        <4>1. Head(calls).register = "reset" /\ Midway(request, Tail(calls), <<>>)
          BY <3>1, AfterReset
        <4> QED
          BY <1>3, <4>1 DEF Codec!Call
      <3>2. CASE Midway(request, calls, register)
        <4>1. /\ calls # <<>> /\ Head(calls).register # "refused" /\ calls' = Tail(calls)
          BY <1>3 DEF Codec!Call
        <4>2. Head(calls).register # "reset"
          <5>1. 1 \in DOMAIN calls /\ Head(calls) = calls[1]
            BY <3>2, <4>1, FirstAndRest DEF Midway, Fits
          <5> QED
            BY <3>2, <5>1 DEF Midway
        <4>3. register' = [r \in DOMAIN register \union {Head(calls).register} |->
                             IF r = Head(calls).register THEN Head(calls).value ELSE register[r]]
          BY <1>3, <4>2 DEF Codec!Call
        <4> QED
          BY <3>2, <4>1, <4>3, CallKeeps
      <3> QED
        BY <1>3, <3>1, <3>2 DEF CodecInv, Codec!Call
    <2>2. result' = "running" /\ request' = request
      BY <1>3 DEF Codec!Call
    <2>3. Paired(register')
      BY <2>1, MidwayIsPaired
    <2> QED
      BY <2>1, <2>2, <2>3 DEF CodecInv
  <1>4. CASE Codec!CallFails
    BY <1>4 DEF Codec!CallFails, Codec!Return, CodecInv, Paired
  <1>5. CASE Codec!Finish
    <2>1. Midway(request, <<>>, register)
      <3>1. ~ SetUp(request, calls) /\ calls = <<>>
        BY <1>5 DEF Codec!Finish, SetUp
      <3> QED
        BY <1>5, <3>1 DEF Codec!Finish, CodecInv
    <2> QED
      BY <1>5, <2>1 DEF Codec!Finish, Codec!Return, CodecInv, Paired
  <1>6. CASE UNCHANGED Codec!vars
    BY <1>6 DEF Codec!vars, CodecInv, Paired
  <1> QED
    BY <1>1, <1>2, <1>3, <1>4, <1>5, <1>6 DEF Codec!Next

(* For all modes, rates and widths, and all codecs: the output of the ES8388 is   *)
(* open only when both converters are set, and set alike, whichever call of        *)
(* whichever set-up fails; after a success the clock and the width are those        *)
(* of the request, and a codec that drives the clock makes its rate.               *)
THEOREM Spec_AudibleIsConfigured == Codec!Spec => []Codec!AudibleIsConfigured
  <1>1. ASSUME CodecInv
        PROVE  Codec!AudibleIsConfigured
    <2> SUFFICES ASSUME Codec!Holds("dac_mute", "off")
                 PROVE  /\ \A p \in Codec!Pairs : p[1] \in DOMAIN register /\ Codec!Holds(p[2], register[p[1]])
                        /\ result = "success" =>
                             /\ Codec!Holds("clock", IF Codec!SocIsSlave(request.mode) THEN "master" ELSE "slave")
                             /\ Codec!Holds("dac_width", request.width)
                             /\ register["clock"] = "master" => request.rate * register["dac_ratio"] \in {8192, 12288}
      BY DEF Codec!AudibleIsConfigured
    <2>1. \A p \in Codec!Pairs : p[1] \in DOMAIN register /\ Codec!Holds(p[2], register[p[1]])
      BY <1>1 DEF CodecInv, Paired, Codec!Holds
    <2>2. ASSUME result = "success"
          PROVE  /\ Codec!Holds("clock", IF Codec!SocIsSlave(request.mode) THEN "master" ELSE "slave")
                 /\ Codec!Holds("dac_width", request.width)
                 /\ register["clock"] = "master" => request.rate * register["dac_ratio"] \in {8192, 12288}
      <3>1. Supported(request) /\ \A r \in Compared(request) : Codec!Holds(r, Expected(request, r))
        BY <1>1, <2>2 DEF CodecInv, Midway, Given, Codec!Holds
      <3>2. Codec!Holds("clock", IF Codec!SocIsSlave(request.mode) THEN "master" ELSE "slave")
        BY <3>1 DEF Compared, Expected
      <3>3. Codec!Holds("dac_width", request.width)
        BY <3>1 DEF Compared, Expected
      <3>4. ASSUME register["clock"] = "master"
            PROVE  request.rate * register["dac_ratio"] \in {8192, 12288}
        <4>1. Codec!SocIsSlave(request.mode)
          BY <3>2, <3>4 DEF Codec!Holds
        <4>2. register["dac_ratio"] = Codec!get_clk_ratio(request.rate) /\ Codec!get_clk_ratio(request.rate) # 0
          BY <3>1, <4>1 DEF Supported, Compared, Expected, Codec!Holds
        <4> QED
          BY <4>2 DEF Codec!get_clk_ratio
      <3> QED
        BY <3>2, <3>3, <3>4
    <2> QED
      BY <2>1, <2>2
  <1>2. CodecInv /\ [Codec!Next]_Codec!vars => CodecInv'
    BY CodecStep
  <1> QED
    BY <1>1, <1>2, CodecInit, PTL DEF Codec!Spec

(* For all modes, rates and widths: the device file is open exactly while a set-up  *)
(* or es8388_disable runs, on every path out of it.                                *)
THEOREM Codec_Types == Codec!Spec => []Codec!TypeOK
  <1>1. Codec!Init => Codec!TypeOK
    BY DEF Codec!Init, Codec!TypeOK
  <1>2. Codec!TypeOK /\ [Codec!Next]_Codec!vars => Codec!TypeOK'
    <2> SUFFICES ASSUME Codec!TypeOK, [Codec!Next]_Codec!vars
                 PROVE  Codec!TypeOK'
      OBVIOUS
    <2>1. CASE Codec!Configure
      <3>1. codec' = codec /\ request' \in Codec!Requests /\ file = FALSE
        BY <2>1 DEF Codec!Configure, Codec!TypeOK
      <3>2. \/ file' = TRUE /\ result' = "running"
            \/ file' = file /\ result' = "failure"
        BY <2>1 DEF Codec!Configure
      <3> QED
        BY <3>1, <3>2 DEF Codec!TypeOK
    <2>2. CASE Codec!Disable
      BY <2>2 DEF Codec!Disable, Codec!TypeOK
    <2>3. CASE Codec!Call
      BY <2>3 DEF Codec!Call, Codec!TypeOK
    <2>4. CASE Codec!CallFails \/ Codec!Finish
      BY <2>4 DEF Codec!CallFails, Codec!Finish, Codec!Return, Codec!TypeOK
    <2>5. CASE UNCHANGED Codec!vars
      BY <2>5 DEF Codec!vars, Codec!TypeOK
    <2> QED
      BY <2>1, <2>2, <2>3, <2>4, <2>5 DEF Codec!Next
  <1> QED
    BY <1>1, <1>2, PTL DEF Codec!Spec

=============================================================================
