--------------------------- MODULE ThreadPrograms ---------------------------
(***************************************************************************)
(* What each kind of thread of the library does to its message pools.      *)
(*                                                                         *)
(* A pool (amsg_*_obj) is a pair of FIFOs of message objects, `filled' and *)
(* `empty'.  A thread function is an endless loop over pool operations; it *)
(* is written here as the sequence of the operations of one iteration, in  *)
(* the order of the source.  "process" is everything between them that     *)
(* touches only the messages the thread holds.                             *)
(***************************************************************************)
EXTENDS Naturals, Sequences

LOCAL Op(do, pool) == [do |-> do, pool |-> pool]

TakeFilled(p)  == Op("filled_pop", p)     \* amsg_*_filled_pop: take a message
GiveEmpty(p)  == Op("empty_push", p)     \* amsg_*_empty_push: give it back
TakeEmpty(p)   == Op("empty_pop", p)      \* amsg_*_empty_pop: get a free message
GiveFilled(p) == Op("filled_push", p)    \* amsg_*_filled_push: publish it
Process       == Op("process", "-")
Check         == Op("check", "-")        \* rtnValue == -1 || thread_askedToStop

(***************************************************************************)
(* The two loop shapes.  A module takes its inputs and gets its outputs in *)
(* argument order, processes, returns the inputs and publishes the         *)
(* outputs.  A connector copies its input, returns it, and then serves its *)
(* outputs one after the other.                                            *)
(***************************************************************************)
LOCAL Each(Operation(_), pools) == [i \in DOMAIN pools |-> Operation(pools[i])]

Module(ins, outs) ==
  [kind |-> "relay",
   ops  |-> Each(TakeFilled, ins) \o Each(TakeEmpty, outs) \o <<Process>>
              \o Each(GiveEmpty, ins) \o Each(GiveFilled, outs)]

Connector(in, outs) ==
  [kind |-> "relay",
   ops  |-> <<TakeFilled(in), Process, GiveEmpty(in)>>
              \o [i \in 1 .. 2 * Len(outs) |->
                    IF i % 2 = 1 THEN TakeEmpty(outs[(i + 1) \div 2])
                                 ELSE GiveFilled(outs[i \div 2])]]

Sink(in) == [kind |-> "sink", ops |-> <<TakeFilled(in), Process, GiveEmpty(in)>>]

(***************************************************************************)
(* asource: operations 5 and 6 send the final "0" message.                 *)
(***************************************************************************)
asrc_hops_thread(out) ==
  [kind |-> "source",
   ops  |-> <<TakeEmpty(out), Process, GiveFilled(out), Check,
              TakeEmpty(out), GiveFilled(out)>>]

(***************************************************************************)
(* aconnector                                                              *)
(***************************************************************************)
acon_hops_thread(in, outs)       == Connector(in, outs)
acon_spectra_thread(in, outs)    == Connector(in, outs)
acon_powers_thread(in, outs)     == Connector(in, outs)
acon_pots_thread(in, outs)       == Connector(in, outs)
acon_targets_thread(in, outs)    == Connector(in, outs)
acon_tracks_thread(in, outs)     == Connector(in, outs)
acon_categories_thread(in, outs) == Connector(in, outs)

(***************************************************************************)
(* ainjector, amodule                                                      *)
(***************************************************************************)
ainj_targets_thread(in, out)             == Module(<<in>>, <<out>>)
amod_mapping_thread(in, out)             == Module(<<in>>, <<out>>)
amod_stft_thread(in, out)                == Module(<<in>>, <<out>>)
amod_noise_thread(in, out)               == Module(<<in>>, <<out>>)
amod_ssl_thread(in, out)                 == Module(<<in>>, <<out>>)
amod_istft_thread(in, out)               == Module(<<in>>, <<out>>)
amod_volume_thread(in, out)              == Module(<<in>>, <<out>>)
amod_sst_thread(in1, in2, out)           == Module(<<in1, in2>>, <<out>>)
amod_classify_thread(in1, in2, out)      == Module(<<in1, in2>>, <<out>>)
amod_sss_thread(in1, in2, in3, out1, out2) ==
  Module(<<in1, in2, in3>>, <<out1, out2>>)

\* Operations 1, 2, 4 and 5 are conditional; 6 and 7 follow the last pass.
amod_resample_thread(in, out) ==
  [kind |-> "resampler",
   ops  |-> <<TakeFilled(in), TakeEmpty(out), Process,
              GiveEmpty(in), GiveFilled(out), GiveEmpty(in), GiveFilled(out)>>]

(***************************************************************************)
(* asink                                                                   *)
(***************************************************************************)
asnk_hops_thread(in)       == Sink(in)
asnk_pots_thread(in)       == Sink(in)
asnk_tracks_thread(in)     == Sink(in)
asnk_categories_thread(in) == Sink(in)

=============================================================================
