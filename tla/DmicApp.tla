------------------------------- MODULE DmicApp -------------------------------
(***************************************************************************)
(* app/main.cpp: records the digital microphones, one file per channel.      *)
(* main starts the audio library, the input device and its channels, then a   *)
(* worker per channel; it waits for ENTER twice and stops all again.  A       *)
(* SIGINT or SIGTERM only sets g_app_exit, which main reads before and after   *)
(* getchar.  Any call of the library and any fopen may fail.                 *)
(***************************************************************************)
EXTENDS AudioThreads

CONSTANT Channels   \* the channels 1 .. Channels of the device; App is this set

DmicChannels == Channels \in Nat \ {0} /\ App = 1 .. Channels

VARIABLES main,      \* next step of main
          library,   \* the audio library is initialised
          device,    \* the input device is enabled
          enabled,   \* its enabled channels
          next,      \* channel that a loop of main is at
          appExit    \* g_app_exit

mainVars == <<main, library, device, enabled, next, appExit>>
vars == <<threadVars, mainVars>>

AppInit == /\ InitThreads
           /\ main = "init" /\ library = FALSE /\ device = FALSE /\ enabled = {}
           /\ next = 1 /\ appExit = FALSE

\* main is at a step of its own, not inside app_destroy_thread.
At(step) == main = step /\ ctl = "idle"

LibraryInit == /\ At("init")
               /\ \/ library' = TRUE /\ main' = "enable"
                  \/ library' = FALSE /\ main' = "end"
               /\ UNCHANGED <<threadVars, device, enabled, next, appExit>>

\* comm_audio_start_ai: a failure leaves what was enabled so far.
StartDevice == /\ At("enable")
               /\ \/ device' = TRUE /\ main' = "enable_chn"
                  \/ device' = FALSE /\ main' = "exit"
               /\ UNCHANGED <<threadVars, library, enabled, next, appExit>>

StartChannel == /\ At("enable_chn")
                /\ \/ /\ enabled' = enabled \union {next}
                      /\ IF next = Channels THEN main' = "gain" /\ next' = 1
                         ELSE next' = next + 1 /\ UNCHANGED main
                   \/ main' = "exit" /\ UNCHANGED <<enabled, next>>
                /\ UNCHANGED <<threadVars, library, device, appExit>>

SetGain == /\ At("gain")
           /\ main' \in {"start", "stop_ai"}
           /\ UNCHANGED <<threadVars, library, device, enabled, next, appExit>>

\* app_start: open the file of a channel and create its worker.
StartWorker == /\ At("start")
               /\ CreateThread(next)
               /\ IF next = Channels THEN main' = "wait" /\ next' = 1
                  ELSE next' = next + 1 /\ UNCHANGED main
               /\ UNCHANGED <<library, device, enabled, appExit>>

\* fopen fails: the workers created so far are destroyed again, and main, which
\* does not look at the result, waits for ENTER all the same.
StartFails == /\ At("start")
              /\ IF next = 1 THEN UNCHANGED threadVars
                 ELSE DestroyCall([i \in 1 .. next - 1 |-> i])
              /\ main' = "wait" /\ next' = 1
              /\ UNCHANGED <<library, device, enabled, appExit>>

\* app_getchar: look at g_app_exit, wait for ENTER or a signal, look again.
Wait == /\ At("wait") \/ At("wait_again")
        /\ main' = IF appExit THEN "abort" ELSE IF main = "wait" THEN "key" ELSE "key_again"
        /\ UNCHANGED <<threadVars, library, device, enabled, next, appExit>>

Key == /\ At("key") \/ At("key_again")
       /\ main' = IF appExit THEN "abort" ELSE IF main = "key" THEN "wait_again" ELSE "stop"
       /\ UNCHANGED <<threadVars, library, device, enabled, next, appExit>>

\* app_stop, and the first half of app_exit_proc.
StopWorkers == /\ At("stop") \/ At("abort")
               /\ DestroyCall([i \in 1 .. Channels |-> i])
               /\ main' = IF main = "stop" THEN "stop_ai" ELSE "exit"
               /\ UNCHANGED <<library, device, enabled, next, appExit>>

\* comm_audio_stop_ai gives up at the first call that fails.
StopChannel == /\ At("stop_ai") /\ next <= Channels
               /\ \/ enabled' = enabled \ {next} /\ next' = next + 1 /\ UNCHANGED main
                  \/ main' = "exit" /\ UNCHANGED <<enabled, next>>
               /\ UNCHANGED <<threadVars, library, device, appExit>>

StopDevice == /\ At("stop_ai") /\ next > Channels
              /\ device' \in BOOLEAN
              /\ main' = "exit"
              /\ UNCHANGED <<threadVars, library, enabled, next, appExit>>

\* comm_audio_exit resets the library, its devices and channels included.
LibraryExit == /\ At("exit")
               /\ library' = FALSE /\ device' = FALSE /\ enabled' = {}
               /\ main' = "end"
               /\ UNCHANGED <<threadVars, next, appExit>>

Signal == /\ main # "end" /\ ~ appExit
          /\ appExit' = TRUE
          /\ UNCHANGED <<threadVars, main, library, device, enabled, next>>

Main == \/ LibraryInit \/ StartDevice \/ StartChannel \/ SetGain \/ StartWorker \/ StartFails
        \/ Wait \/ Key \/ StopWorkers \/ StopChannel \/ StopDevice \/ LibraryExit
        \/ (Destroy /\ UNCHANGED mainVars)

Workers == \E s \in App : Worker(s) /\ UNCHANGED mainVars

Ended == main = "end" /\ UNCHANGED vars

AppNext == Main \/ Workers \/ Signal \/ Ended

\* The user presses ENTER, and a worker's select returns within a second.
AppSpec == /\ AppInit /\ [][AppNext]_vars
           /\ WF_vars(Main)
           /\ \A s \in App : WF_vars(Worker(s) /\ UNCHANGED mainVars)

-----------------------------------------------------------------------------
AppTypeOK == /\ TypeOK
             /\ main \in {"init", "enable", "enable_chn", "gain", "start", "wait", "key",
                          "wait_again", "key_again", "stop", "abort", "stop_ai", "exit", "end"}
             /\ library \in BOOLEAN /\ device \in BOOLEAN /\ appExit \in BOOLEAN
             /\ enabled \subseteq App /\ next \in 1 .. Channels + 1

\* A worker that calls the library finds it initialised and its channel enabled:
\* whatever failed or whoever interrupted, workers end before their device.
ChannelOutlivesWorker ==
    \A s \in App : pc[s] \in {"setup", "select", "get", "release"} => library /\ s \in enabled

\* When the process ends the library is off, no worker is left and each file is closed.
NothingLeftOn == main = "end" => /\ ~ library /\ ~ device /\ enabled = {}
                                 /\ \A s \in App : pc[s] = "gone" /\ ~ opened[s]
=============================================================================
