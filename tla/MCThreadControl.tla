-------------------------- MODULE MCThreadControl --------------------------
(* Small instances of ThreadControl: the source and a few of the 37 other threads. *)
EXTENDS ThreadControl

ThreeWorkers == <<"acon_hops", "amod_stft", "asnk_pots">>

\* As soon as signal() has returned.
FromTheStart == {"start", "clear", "create", "unlock", "join"}
\* From the first join on, until main has returned.
UntilTheEnd == {"join", "destroy", "configs", "return"}
=============================================================================
