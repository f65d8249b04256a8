----------------------------- MODULE MCOdaslive -----------------------------
(***************************************************************************)
(* One run for the two sequential machines of odaslive, which share no        *)
(* state: the life of the program in each configuration (Odaslive), and what  *)
(* separation and classification remember of the sources (SourceMemory).      *)
(* Init picks one of them; the variables of the other stay as they were.      *)
(***************************************************************************)
EXTENDS Odaslive

VARIABLES part, id, slot, published, tracksNow, demixing, noise, speech, category
memory == <<id, slot, published, tracksNow, demixing, noise, speech, category>>

Memory ==
    INSTANCE SourceMemory WITH
        out <- published, nTracksMax <- 2, TargetLists <- {<<>>, <<"door">>}, nPots <- 1,
        N_prob <- 1, N_inactive <- [n \in 1 .. 2 |-> 1], theta_prob <- 1, theta_inactive <- 1,
        ActivityMax <- 1, MaxId <- 3, L <- 1, MaxAge <- 8

ASSUME MemoryAssumption == Memory!MemoryParameters

-----------------------------------------------------------------------------
(* The configurations: config/odaslive/*.cfg with small sizes, and            *)
(*   Blackholes: every choice of the sinks that are used;                     *)
(*   Methods:    every method of tracking, separation and post-filtering;      *)
(*   SampleRates: rates that make the resamplers repeat, pass or skip hops;     *)
(*   Interfaces: for one endpoint after the other, every interface with every  *)
(*               format, the ones its constructor refuses included.            *)
Base == [raw  |-> [fS |-> 2, hopSize |-> 4, nChannels |-> 2, nBits |-> 16, interface |-> "file"],
         map  |-> <<1, 2>>,
         general |-> [fS |-> 2, hopSize |-> 4, frameSize |-> 8, nMics |-> 2, nThetas |-> 3,
                      nFilters |-> 1],
         sne  |-> [b |-> 3],
         ssl  |-> [interpRate |-> 2, levels |-> <<0, 1>>, nPots |-> 2, tau |-> 2, delta |-> 1,
                   format |-> "json", interface |-> "file"],
         sst  |-> [mode |-> "kalman", add |-> "dynamic", nTracks |-> 2, nTargets |-> 1,
                   active |-> 2, inactive |-> 1, nParticles |-> 2, format |-> "json", interface |-> "file", tag |-> 8],
         sss  |-> [mode_sep |-> "dds", mode_pf |-> "ms", winSize |-> 3],
         sep  |-> [fS |-> 2, hopSize |-> 4, nBits |-> 16, interface |-> "file"],
         pf   |-> [fS |-> 4, hopSize |-> 4, nBits |-> 16, interface |-> "file"],
         classify |-> [frameSize |-> 8, winSize |-> 3, format |-> "json", interface |-> "file"]]

Json(interface) == IF interface = "blackhole" THEN "undefined" ELSE "json"
Blackholes ==
    {[Base EXCEPT !.ssl.interface = p, !.ssl.format = Json(p),
                  !.sst.interface = t, !.sst.format = Json(t),
                  !.sep.interface = s, !.pf.interface = f,
                  !.classify.interface = k, !.classify.format = Json(k)] :
        p, t, s, f, k \in {"file", "blackhole"}}
Methods ==
    {[Base EXCEPT !.sst.mode = t, !.sss.mode_sep = s, !.sss.mode_pf = f] :
        t \in {"kalman", "particle"}, s \in {"dds", "dgss", "dmvdr"}, f \in {"ms", "ss"}}
SampleRates == {[Base EXCEPT !.raw.fS = r, !.pf.fS = o] : r, o \in {1, 2, 4}}
Inputs   == {"file", "socket", "soundcard", "soundcard_name", "uacin", "pulseaudio", "blackhole"}
Outputs  == {"file", "socket", "terminal", "blackhole"}
Widths   == {8, 16, 24, 32}
Formats  == {"json", "binary", "undefined"}
Interfaces ==
    {[Base EXCEPT !.raw.interface = i, !.raw.nBits = w] :
        <<i, w>> \in (Inputs \X Widths) \ {<<"uacin", 32>>}}
    \cup {[Base EXCEPT !.ssl.interface = i, !.ssl.format = f] : i \in Outputs, f \in Formats}
    \cup {[Base EXCEPT !.sst.interface = i, !.sst.format = f] : i \in Outputs, f \in Formats}
    \cup {[Base EXCEPT !.sep.interface = i, !.sep.nBits = w] : i \in Outputs \cup {"uacout"}, w \in Widths}
    \cup {[Base EXCEPT !.pf.interface = i, !.pf.nBits = w] : i \in Outputs, w \in Widths}
    \cup {[Base EXCEPT !.classify.interface = i, !.classify.format = f] :
            i \in Outputs, f \in {"json", "undefined"}}
MCConfigs == Blackholes \cup Methods \cup SampleRates \cup Interfaces

-----------------------------------------------------------------------------
MCInit ==
    /\ Init /\ Memory!SourceInit
    /\ \/ part = "program"
       \/ part = "memory" /\ c = Base /\ ~multi

MCNext ==
    /\ UNCHANGED part
    /\ \/ part = "program" /\ Next /\ UNCHANGED memory
       \/ part = "memory" /\ Memory!MemoryFrame /\ UNCHANGED vars

MCSpec == MCInit /\ [][MCNext]_<<part, vars, memory>>

-----------------------------------------------------------------------------
(* The variables of both machines have their types.                          *)
TypesOK == TypeOK /\ Memory!MemoryTypeOK

(* What separation and classification use for a source comes from this source *)
(* alone, over the windows that the code sets for it.                         *)
SourceMemoryIsOwn == Memory!StateFollowsIdentity /\ Memory!NoiseWindow

=============================================================================
