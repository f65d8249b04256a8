------------------------------ MODULE Hop2Hop -------------------------------
(***************************************************************************)
(* The sample counts of src/system/hop2hop.c (hop2hop_buffer_obj), with    *)
(* which src/module/mod_resample.c adapts the length of the hops.          *)
(*                                                                         *)
(* The code counts input samples in doubles: intervalOut = hopSizeOut /    *)
(* ratio with ratio = fSout / fSin.  Here every count is multiplied by     *)
(* fSout, so that all of them are integers; the contents of the buffer and *)
(* the rounding of doubles are left out.                                   *)
(***************************************************************************)
EXTENDS Naturals

IntervalIn(r)  == r.hopSizeIn * r.fSout
IntervalOut(r) == r.hopSizeOut * r.fSin

\* Mutant: room for one hop only.
BufferSize_OneHop(r) ==
  LET once == IF IntervalIn(r) >= IntervalOut(r) THEN IntervalIn(r) ELSE IntervalOut(r)
  IN  r.fSout * ((once + r.fSout - 1) \div r.fSout)

\* (unsigned int) ceilf(2.0f * the larger interval), a whole number of samples
BufferSize(r) ==
  LET twice == IF IntervalIn(r) >= IntervalOut(r) THEN 2 * IntervalIn(r)
                                                  ELSE 2 * IntervalOut(r)
  IN  r.fSout * ((twice + r.fSout - 1) \div r.fSout)

isFull(r, intervalSize)  == intervalSize + IntervalIn(r) > BufferSize(r)
isEmpty(r, intervalSize) == IntervalOut(r) > intervalSize

\* hop2hop_buffer_push and hop2hop_buffer_pop: no-ops when full or empty
AfterPush(r, intervalSize) ==
  IF isFull(r, intervalSize) THEN intervalSize ELSE intervalSize + IntervalIn(r)

AfterPop(r, intervalSize) ==
  IF isEmpty(r, intervalSize) THEN intervalSize ELSE intervalSize - IntervalOut(r)

=============================================================================
