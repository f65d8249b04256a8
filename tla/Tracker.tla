------------------------------ MODULE Tracker -------------------------------
(***************************************************************************)
(* src/module/mod_sst.c: the life cycle of the tracked sources.  A tracker *)
(* has nTracksMax slots.  A slot is free, holds a target that the injector *)
(* asks for (tag of the target, type "T"), or a dynamic source, which is   *)
(* first on probation (type "P") and then active (type "A").               *)
(*                                                                         *)
(* One step is one call of mod_sst_process.  The Kalman or particle        *)
(* filters and the mixture probabilities are inputs: how active each slot  *)
(* is, and how many potential sources look like a new source.              *)
(***************************************************************************)
EXTENDS Naturals, Sequences, FiniteSets

CONSTANTS nTracksMax,
          TargetLists,     \* the lists of target tags that the injector may send
          nPots,           \* potential sources per frame
          N_prob,          \* frames of probation
          N_inactive,      \* N_inactive[n]: frames of silence, with n tracks
          theta_prob, theta_inactive, ActivityMax,  \* activities are 0 .. ActivityMax
          MaxId            \* bound on the identifiers given out

Slots == 1 .. nTracksMax
Free == ""                 \* tag of a free slot

ASSUME TrackerAssumption ==
  /\ nTracksMax \in Nat \ {0} /\ nPots \in Nat /\ MaxId \in Nat
  /\ N_prob \in Nat \ {0}
  /\ N_inactive \in [Slots -> Nat \ {0}]
  /\ theta_prob \in Nat /\ theta_inactive \in Nat /\ ActivityMax \in Nat
  /\ \A l \in TargetLists :
       /\ l \in Seq(STRING)
       /\ \A i \in DOMAIN l : l[i] \notin {Free, "dynamic"}

VARIABLES id,   \* last identifier given out
          slot, \* slot[s]: ids, tags, type; n_prob frames on probation and mean_prob,
                \* the sum of their activities; n_inactive frames of silence in a row;
                \* activity in the last frame
          out   \* out[s]: identifier published for slot s, 0 if none

vars == <<id, slot, out>>

EmptySlot == [ids |-> 0, tags |-> Free, type |-> "I", n_prob |-> 0, mean_prob |-> 0,
              n_inactive |-> 0, activity |-> 0]

Init == /\ id = 0
        /\ slot = [s \in Slots |-> EmptySlot]
        /\ out = [s \in Slots |-> 0]

(***************************************************************************)
(* The stages of a frame, in the order of mod_sst_process.  Each maps f, a *)
(* record of the two fields id and slot, to what it makes of them.         *)
(***************************************************************************)
Occupied(f) == {s \in Slots : f.slot[s].ids # 0}
FreeSlots(f) == Slots \ Occupied(f)
FirstFree(f) == CHOOSE s \in FreeSlots(f) : \A r \in FreeSlots(f) : s <= r

\* A target that no slot has yet gets the first free slot, if there is one.
AddTarget(f, tag) ==
  IF (\E s \in Slots : f.slot[s].tags = tag) \/ FreeSlots(f) = {} THEN f
  ELSE [id |-> f.id + 1,
        slot |-> [f.slot EXCEPT ![FirstFree(f)] =
                    [@ EXCEPT !.ids = f.id + 1, !.tags = tag, !.type = "T",
                              !.n_prob = 0, !.mean_prob = 0]]]

Wanted(c, targets) == c.tags = "dynamic" \/ \E i \in DOMAIN targets : targets[i] = c.tags

\* Mutant: the identifier of a target that is gone stays.
RemoveTargets_KeepsId(f, targets) ==
  [f EXCEPT !.slot = [s \in Slots |->
     IF Wanted(@[s], targets) THEN @[s]
     ELSE [@[s] EXCEPT !.tags = Free, !.type = "I", !.n_prob = 0, !.mean_prob = 0]]]

\* Every slot but the dynamic ones whose tag is no target is freed.
RemoveTargets(f, targets) ==
  [f EXCEPT !.slot = [s \in Slots |->
     IF Wanted(@[s], targets) THEN @[s]
     ELSE [@[s] EXCEPT !.ids = 0, !.tags = Free, !.type = "I", !.n_prob = 0,
                       !.mean_prob = 0]]]

\* Mutant: the slots of unwanted targets are freed before the new ones are added.
AddTargets_Last(f, targets) ==
  LET added[i \in 0 .. Len(targets)] ==
        IF i = 0 THEN RemoveTargets(f, targets) ELSE AddTarget(added[i - 1], targets[i])
  IN  added[Len(targets)]

AddTargets(f, targets) ==
  LET added[i \in 0 .. Len(targets)] ==
        IF i = 0 THEN f ELSE AddTarget(added[i - 1], targets[i])
  IN  added[Len(targets)]

\* Mutant: silence is not counted.
Counted_NeverSilent(c, a) ==
  CASE c.type = "P" -> [c EXCEPT !.activity = a, !.n_prob = @ + 1, !.mean_prob = @ + a]
    [] OTHER -> [c EXCEPT !.activity = a]

\* One slot after a frame in which it was active with activity a.
Counted(c, a) ==
  CASE c.type = "P" -> [c EXCEPT !.activity = a, !.n_prob = @ + 1, !.mean_prob = @ + a]
    [] c.type = "A" -> [c EXCEPT !.activity = a,
                          !.n_inactive = IF a >= theta_inactive THEN 0 ELSE @ + 1]
    [] OTHER -> [c EXCEPT !.activity = a]

Activity(f, act) ==
  [f EXCEPT !.slot = [s \in Slots |->
     IF @[s].ids = 0 THEN [@[s] EXCEPT !.activity = 0] ELSE Counted(@[s], act[s])]]

EndOfProbation(c) == c.type = "P" /\ c.n_prob = N_prob
Convinced(c)      == c.mean_prob >= theta_prob * N_prob

\* Mutant: a source is confirmed without waiting for the end of its probation.
Transitions_Early(f) ==
  [f EXCEPT !.slot = [s \in Slots |->
     IF @[s].ids # 0 /\ @[s].type = "P" /\ Convinced(@[s])
     THEN [@[s] EXCEPT !.type = "A", !.n_inactive = 0] ELSE @[s]]]

\* Mutant: the silence counter is left as the last source in this slot had it.
Transitions_OldCounter(f) ==
  [f EXCEPT !.slot = [s \in Slots |->
     IF @[s].ids # 0 /\ EndOfProbation(@[s]) /\ Convinced(@[s])
     THEN [@[s] EXCEPT !.type = "A"] ELSE @[s]]]

Transitions(f) ==
  [f EXCEPT !.slot = [s \in Slots |->
     IF @[s].ids # 0 /\ EndOfProbation(@[s]) /\ Convinced(@[s])
     THEN [@[s] EXCEPT !.type = "A", !.n_inactive = 0] ELSE @[s]]]

\* Mutant: a source that fails its probation stays.
Departing_SilentOnly(c, nTracks) == c.type = "A" /\ c.n_inactive >= N_inactive[nTracks]

\* Mutant: only the sources that fail their probation leave.
Departing_FailedOnly(c, nTracks) == EndOfProbation(c) /\ ~Convinced(c)

Departing(c, nTracks) ==
  \/ EndOfProbation(c) /\ ~Convinced(c)
  \/ c.type = "A" /\ c.n_inactive >= N_inactive[nTracks]

NewSource(c, n) == [c EXCEPT !.ids = n, !.tags = "dynamic", !.type = "P", !.n_prob = 0,
                             !.mean_prob = 0]

\* Mutant: all free slots get the new source.
UpdateDynamic_AllSlots(f, new, nTracks) ==
  [id |-> IF FreeSlots(f) # {} THEN f.id + new ELSE f.id,
   slot |-> [s \in Slots |->
     IF new > 0 /\ s \in FreeSlots(f) THEN NewSource(f.slot[s], f.id + new)
     ELSE IF s \in Occupied(f) /\ Departing(f.slot[s], nTracks)
     THEN [f.slot[s] EXCEPT !.ids = 0, !.tags = Free]
     ELSE f.slot[s]]]

\* Mutant: the new source gets the identifier last given out.
UpdateDynamic_ReusesId(f, new, nTracks) ==
  [id |-> f.id,
   slot |-> [s \in Slots |->
     IF new > 0 /\ FreeSlots(f) # {} /\ s = FirstFree(f) THEN NewSource(f.slot[s], f.id)
     ELSE IF s \in Occupied(f) /\ Departing(f.slot[s], nTracks)
     THEN [f.slot[s] EXCEPT !.ids = 0, !.tags = Free]
     ELSE f.slot[s]]]

\* The new sources of one frame all go to the same slot, the first free one:
\* `ids' is written only after the loop over the potential sources, so each
\* of them finds this slot free again, and the last one has it.
UpdateDynamic(f, new, nTracks) ==
  [id |-> IF FreeSlots(f) # {} THEN f.id + new ELSE f.id,
   slot |-> [s \in Slots |->
     IF new > 0 /\ FreeSlots(f) # {} /\ s = FirstFree(f)
     THEN NewSource(f.slot[s], f.id + new)
     ELSE IF s \in Occupied(f) /\ Departing(f.slot[s], nTracks)
     THEN [f.slot[s] EXCEPT !.ids = 0, !.tags = Free]
     ELSE f.slot[s]]]

\* The identifiers of active sources and targets are published.
Published(f) ==
  [s \in Slots |-> IF f.slot[s].ids # 0 /\ f.slot[s].type \in {"A", "T"}
                   THEN f.slot[s].ids ELSE 0]

(***************************************************************************)
(* mod_sst_process, enabled, on a message that is not the "0" one; add is  *)
(* "d" (dynamic), as in every configuration file of the repository.  (The  *)
(* quantifiers over one value are LETs that TLC evaluates once.)           *)
(***************************************************************************)
Frame ==
  \E targets \in TargetLists, new \in 0 .. nPots :
  \E f1 \in {AddTargets([id |-> id, slot |-> slot], targets)} :
  \E f2 \in {RemoveTargets(f1, targets)} :
  \E act \in [Occupied(f2) -> 0 .. ActivityMax] :
  \E f3 \in {Activity(f2, act)} :
  \E f4 \in {Transitions(f3)} :
  \E f5 \in {UpdateDynamic(f4, new, Cardinality(Occupied(f2)))} :
    /\ f5.id <= MaxId
    /\ id' = f5.id
    /\ slot' = f5.slot
    /\ out' = Published(f5)

\* Disabled, or the "0" message: nothing is published and nothing else happens.
Blank == /\ out' = [s \in Slots |-> 0]
         /\ UNCHANGED <<id, slot>>

Next == Frame \/ Blank

Spec == Init /\ [][Next]_vars

\* Frames keep coming.
FairSpec == Spec /\ WF_vars(Frame)

(***************************************************************************)
(* Invariants                                                              *)
(***************************************************************************)
TypeOK ==
  /\ id \in 0 .. MaxId
  /\ DOMAIN slot = Slots
  /\ \A s \in Slots :
       /\ slot[s].ids \in 0 .. id
       /\ slot[s].type \in {"I", "P", "A", "T"}
       /\ slot[s].n_prob \in 0 .. N_prob
       /\ slot[s].mean_prob \in 0 .. N_prob * ActivityMax
       /\ slot[s].n_inactive \in Nat
       /\ slot[s].activity \in 0 .. ActivityMax
  /\ out \in [Slots -> 0 .. id]

Tracked == {s \in Slots : slot[s].ids # 0}

\* The tag and the type of a slot always agree with its identifier.  The code
\* keeps them in three arrays and exits ("Predict: Unknown state.") when an
\* occupied slot has no type; a slot with an identifier and no tag would be
\* wiped by the removal of targets.
SlotsConsistent ==
  /\ \A s \in Slots : slot[s].ids = 0 <=> slot[s].tags = Free
  /\ \A s \in Tracked : IF slot[s].tags = "dynamic" THEN slot[s].type \in {"P", "A"}
                                                    ELSE slot[s].type = "T"

\* No two slots have the same identifier, and no target has two slots.
NoSharedIdentity ==
  \A r, s \in Tracked : r # s =>
    /\ slot[r].ids # slot[s].ids
    /\ slot[r].tags = slot[s].tags => slot[r].tags = "dynamic"

\* A dynamic source is either on probation, for less than N_prob frames, or was
\* confirmed at the end of all N_prob frames with enough activity.
ProbationServed ==
  \A s \in Tracked : slot[s].tags = "dynamic" =>
    CASE slot[s].type = "P" -> slot[s].n_prob < N_prob
      [] slot[s].type = "A" -> /\ slot[s].n_prob = N_prob
                               /\ slot[s].mean_prob >= theta_prob * N_prob

\* A source that is shown has not been silent for the longest silence allowed.
SilenceBounded ==
  \A s \in Tracked : slot[s].type = "A" =>
    \E n \in Slots : slot[s].n_inactive < N_inactive[n]

\* An identifier is given to one source in the lifetime of the tracker: a slot
\* that gets another one gets one that was never used.
FreshIdentity ==
  [][\A s \in Slots : slot'[s].ids \notin {0, slot[s].ids} => slot'[s].ids > id]_vars

\* What the sinks see in a slot is one source until they have seen the slot
\* empty: a published identifier is never followed by another one at once.
NoIdentitySwitch ==
  [][\A s \in Slots : out[s] # 0 => out'[s] \in {0, out[s]}]_vars

\* A source that ends its probation well is published in the same frame: what
\* the slot's last source left behind cannot remove it at once.
ConfirmedIsPublished ==
  [][\A s \in Slots : slot[s].ids # 0 /\ slot[s].type = "P" /\ slot'[s].type = "A"
                      => slot'[s].ids = slot[s].ids /\ out'[s] = slot[s].ids]_vars

(***************************************************************************)
(* Liveness                                                                *)
(***************************************************************************)
Silent == \A s \in Slots : slot[s].activity = 0

\* A source that stays silent disappears, whatever else happens: no dynamic
\* source keeps its slot for ever.
SilentSourcesLeave ==
  <>[]Silent => \A i \in 1 .. MaxId :
                  <>[](\A s \in Slots : slot[s].ids = i => slot[s].tags # "dynamic")

=============================================================================
