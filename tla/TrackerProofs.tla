--------------------------- MODULE TrackerProofs ----------------------------
(***************************************************************************)
(* The safety properties of Tracker for any number of slots, any lists of   *)
(* targets, any probation, any silences and any activities.                 *)
(*                                                                         *)
(* A frame takes the tracker through five stages, each of which maps f, the *)
(* record of the last identifier and the slots, to the next one.  So each   *)
(* stage has a lemma, and most of a lemma is about one slot: what it may be  *)
(* between frames (Settled) and what is counted during probation (Probing). *)
(***************************************************************************)
EXTENDS SourceMemory, FiniteSetTheorems, WellFoundedInduction, TLAPS

-----------------------------------------------------------------------------
(* Numbers.  The theorems of the library that have the hypothesis as an      *)
(* operator are out of the provers' reach; these have it as a set.           *)

(* Every set of numbers that is not empty has a least one.                   *)
LEMMA LeastNumber ==
  ASSUME NEW S \in SUBSET Nat, S # {}
  PROVE  \E x \in S : \A y \in S : x <= y
<1>1. PICK x \in S : \A y \in S : ~ (<<y, x>> \in OpToRel(<, Nat))
  BY NatLessThanWellFounded, WFMin
<1>2. ASSUME NEW y \in S PROVE x <= y
  <2>1. x \in Nat /\ y \in Nat
    OBVIOUS
  <2>2. SUFFICES ASSUME y < x PROVE FALSE
    BY <2>1
  <2>3. <<y, x>> \in OpToRel(<, Nat)
    <3> DEFINE ss == <<y, x>>
    <3>1. ss \in Nat \X Nat /\ ss[1] < ss[2]
      BY <2>1, <2>2
    <3> QED BY <3>1 DEF OpToRel
  <2> QED BY <2>3, <1>1
<1> QED BY <1>2

(* Induction.                                                                *)
LEMMA SetInduction ==
  ASSUME NEW S \in SUBSET Nat, 0 \in S, \A n \in Nat : n \in S => n + 1 \in S
  PROVE  S = Nat
<1>1. SUFFICES ASSUME Nat \ S # {} PROVE FALSE
  OBVIOUS
<1>2. PICK x \in Nat \ S : \A y \in Nat \ S : x <= y
  BY <1>1, LeastNumber
<1>3. x \in Nat /\ x # 0
  BY <1>2
<1>4. x - 1 \in Nat /\ (x - 1) + 1 = x /\ ~ (x <= x - 1)
  BY <1>3
<1> QED BY <1>2, <1>4

-----------------------------------------------------------------------------
(* The loops over targets and over slots are recursive functions.  There is    *)
(* one for every step, and a property of the value before and after each       *)
(* round (a set per round) holds of its last value.                            *)
LoopFcn(f, step, n, h) ==
  h = [i \in 0 .. n |-> IF i = 0 THEN f ELSE step[i][h[i - 1]]]

LEMMA LoopExists ==
  ASSUME NEW f, NEW step
  PROVE  \A n \in Nat : \E h : LoopFcn(f, step, n, h)
<1> DEFINE S == {n \in Nat : \E h : LoopFcn(f, step, n, h)}
<1>1. 0 \in S
  <2> DEFINE h == [i \in 0 .. 0 |-> f]
  <2>1. h = [i \in 0 .. 0 |-> IF i = 0 THEN f ELSE step[i][h[i - 1]]]
    OBVIOUS
  <2> QED BY <2>1 DEF LoopFcn
<1>2. ASSUME NEW n \in Nat, n \in S
      PROVE  n + 1 \in S
  <2>1. PICK h : LoopFcn(f, step, n, h)
    BY <1>2
  <2> DEFINE next == step[n + 1][h[n]]
             g == [i \in 0 .. (n + 1) |-> IF i = n + 1 THEN next ELSE h[i]]
  <2>2. ASSUME NEW i \in 0 .. (n + 1)
        PROVE  g[i] = IF i = 0 THEN f ELSE step[i][g[i - 1]]
    <3>1. CASE i = n + 1
      <4>1. g[i] = next /\ n \in 0 .. (n + 1) /\ n # n + 1 /\ i - 1 = n /\ i # 0
        BY <3>1
      <4>2. g[n] = h[n]
        BY <4>1
      <4> QED BY <4>1, <4>2, <3>1
    <3>2. CASE i = 0
      <4>1. g[i] = h[0] /\ 0 \in 0 .. n
        BY <3>2
      <4> QED BY <4>1, <3>2, <2>1 DEF LoopFcn
    <3>3. CASE i # n + 1 /\ i # 0
      <4>1. i \in 0 .. n /\ i - 1 \in 0 .. (n + 1) /\ i - 1 # n + 1
        BY <3>3
      <4>2. g[i] = h[i] /\ g[i - 1] = h[i - 1]
        BY <3>3, <4>1
      <4>3. h[i] = step[i][h[i - 1]]
        BY <2>1, <4>1, <3>3 DEF LoopFcn
      <4> QED BY <4>2, <4>3, <3>3
    <3> QED BY <3>1, <3>2, <3>3
  <2> HIDE DEF next
  <2>3. g = [i \in 0 .. (n + 1) |-> IF i = 0 THEN f ELSE step[i][g[i - 1]]]
    BY <2>2
  <2>4. LoopFcn(f, step, n + 1, g)
    BY <2>3 DEF LoopFcn
  <2> QED BY <2>4
<1>3. S = Nat
  <2> HIDE DEF S
  <2> QED BY <1>1, <1>2, SetInduction DEF S
<1> QED BY <1>3

LEMMA LoopKeeps ==
  ASSUME NEW n \in Nat, NEW h, NEW G, h[0] \in G[0],
         \A i \in 1 .. n : h[i - 1] \in G[i - 1] => h[i] \in G[i]
  PROVE  \A i \in 0 .. n : h[i] \in G[i]
<1> DEFINE S == {i \in Nat : i <= n => h[i] \in G[i]}
<1>1. 0 \in S
  OBVIOUS
<1>2. ASSUME NEW i \in Nat, i \in S
      PROVE  i + 1 \in S
  <2>1. CASE i + 1 <= n
    <3>1. i + 1 \in 1 .. n /\ (i + 1) - 1 = i /\ i <= n
      BY <2>1
    <3> QED BY <3>1, <1>2
  <2>2. CASE ~ (i + 1 <= n)
    BY <2>2
  <2> QED BY <2>1, <2>2
<1>3. S = Nat
  <2> HIDE DEF S
  <2> QED BY <1>1, <1>2, SetInduction DEF S
<1>4. ASSUME NEW i \in 0 .. n PROVE h[i] \in G[i]
  BY <1>3
<1> QED BY <1>4

LEMMA AddTargetsKeep ==
  ASSUME NEW targets \in Seq(STRING), NEW F, NEW f \in F,
         \A g \in F, i \in DOMAIN targets : AddTarget(g, targets[i]) \in F
  PROVE  AddTargets(f, targets) \in F
<1> DEFINE n == Len(targets)
           IsAdded(h) == h = [i \in 0 .. n |->
                                IF i = 0 THEN f ELSE AddTarget(h[i - 1], targets[i])]
           added == CHOOSE h : IsAdded(h)
           G == [i \in 0 .. n |-> F]
           step == [i \in 1 .. n |-> [g \in F |-> AddTarget(g, targets[i])]]
<1>1. n \in Nat /\ DOMAIN targets = 1 .. n
  OBVIOUS
<1>2. AddTargets(f, targets) = added[n]
  BY DEF AddTargets
<1>3. \E h : IsAdded(h)
  <2>1. PICK h : LoopFcn(f, step, n, h)
    BY <1>1, LoopExists
  <2> HIDE DEF n
  <2>2. h[0] = f /\ h = [i \in 0 .. n |-> h[i]]
    BY <1>1, <2>1 DEF LoopFcn
  <2>3. ASSUME NEW i \in 1 .. n, h[i - 1] \in F
        PROVE  h[i] = AddTarget(h[i - 1], targets[i])
    <3>1. i \in 0 .. n /\ i # 0 /\ step[i] = [g \in F |-> AddTarget(g, targets[i])]
      BY <1>1
    <3>2. h[i] = step[i][h[i - 1]]
      <4> HIDE DEF step
      <4> QED BY <2>1, <3>1 DEF LoopFcn
    <3> QED BY <2>3, <3>1, <3>2
  <2>4. \A i \in 0 .. n : h[i] \in F
    <3>1. ASSUME NEW i \in 1 .. n, h[i - 1] \in G[i - 1]
          PROVE  h[i] \in G[i]
      <4>1. i \in 0 .. n /\ i - 1 \in 0 .. n
        BY <1>1
      <4> QED BY <1>1, <2>3, <3>1, <4>1
    <3>2. h[0] \in G[0]
      BY <1>1, <2>2
    <3> HIDE DEF G
    <3>3. \A i \in 0 .. n : h[i] \in G[i]
      BY <1>1, <3>1, <3>2, LoopKeeps
    <3> QED BY <3>3 DEF G
  <2>5. ASSUME NEW i \in 0 .. n
        PROVE  h[i] = IF i = 0 THEN f ELSE AddTarget(h[i - 1], targets[i])
    <3>1. i # 0 => i \in 1 .. n /\ i - 1 \in 0 .. n
      BY <1>1
    <3> QED BY <2>2, <2>3, <2>4, <3>1
  <2> QED BY <2>2, <2>5
<1>4. IsAdded(added)
  BY <1>3
<1> HIDE DEF added, n
<1>5. ASSUME NEW i \in 1 .. n, added[i - 1] \in G[i - 1]
      PROVE  added[i] \in G[i]
  <2>1. i \in 0 .. n /\ i - 1 \in 0 .. n /\ i # 0
    BY <1>1
  <2> QED BY <1>1, <1>4, <1>5, <2>1
<1>6. added[0] \in G[0]
  BY <1>1, <1>4
<1>7. \A i \in 0 .. n : added[i] \in G[i]
  <2> HIDE DEF G, IsAdded
  <2> QED BY <1>1, <1>5, <1>6, LoopKeeps
<1>8. n \in 0 .. n
  BY <1>1
<1> QED BY <1>2, <1>7, <1>8

-----------------------------------------------------------------------------
(* The inductive invariant.  SlotRecord gives types.  Settled is what holds   *)
(* of a slot at any time within a frame, when n is the last identifier: its  *)
(* identifier, tag and type agree, and an active source has served its        *)
(* probation.  Probing is what holds between frames as well: who is on        *)
(* probation has not come to its end.                                        *)

Tags == {Free, "dynamic"} \cup UNION {{l[i] : i \in DOMAIN l} : l \in TargetLists}
SlotRecord ==
  [ids : Nat, tags : Tags, type : {"I", "P", "A", "T"}, n_prob : 0 .. N_prob,
   mean_prob : Nat, n_inactive : Nat, activity : 0 .. ActivityMax]
Frames == [id : Nat, slot : [Slots -> SlotRecord]]

Settled(c, n) ==
  /\ c.ids <= n
  /\ c.ids = 0 <=> c.tags = Free
  /\ c.ids # 0 => IF c.tags = "dynamic" THEN c.type \in {"P", "A"} ELSE c.type = "T"
  /\ c.ids # 0 /\ c.type = "A" => c.n_prob = N_prob /\ Convinced(c)
  /\ c.mean_prob <= c.n_prob * ActivityMax
Probing(c) == c.ids # 0 /\ c.type = "P" => c.n_prob < N_prob

Distinct(f) ==
  \A r, s \in Slots : f.slot[r].ids # 0 /\ f.slot[s].ids # 0 /\ r # s =>
    /\ f.slot[r].ids # f.slot[s].ids
    /\ f.slot[r].tags = f.slot[s].tags => f.slot[r].tags = "dynamic"

Orderly(f) ==
  /\ f \in Frames
  /\ \A s \in Slots : Settled(f.slot[s], f.id)
  /\ Distinct(f)

(* What the slots of f have become in g: the source is the same, or it has   *)
(* left, or the slot has a source with an identifier never used before.       *)
Follows(f, g) ==
  /\ f.id <= g.id
  /\ \A s \in Slots : g.slot[s].ids \in {0, f.slot[s].ids} \/ g.slot[s].ids > f.id

Now == [id |-> id, slot |-> slot]

IInv ==
  /\ Orderly(Now)
  /\ id <= MaxId
  /\ \A s \in Slots : Probing(slot[s])
  /\ SilenceBounded
  /\ out \in [Slots -> Nat]
  /\ \A s \in Slots : out[s] # 0 => out[s] = slot[s].ids

-----------------------------------------------------------------------------
(* Slots                                                                     *)

LEMMA SlotsAreNumbers == Slots \in SUBSET Nat
BY TrackerAssumption DEF Slots

LEMMA FirstFreeIsFree ==
  ASSUME NEW f, FreeSlots(f) # {}
  PROVE  FirstFree(f) \in FreeSlots(f)
<1>1. FreeSlots(f) \in SUBSET Nat
  BY SlotsAreNumbers DEF FreeSlots
<1>2. \E s \in FreeSlots(f) : \A r \in FreeSlots(f) : s <= r
  BY <1>1, LeastNumber
<1> QED BY <1>2 DEF FirstFree

(* The number of tracks, when there are any, is a number of slots.           *)
LEMMA TracksAreCounted ==
  ASSUME NEW T \in SUBSET Slots, T # {}
  PROVE  Cardinality(T) \in Slots
<1>1. nTracksMax \in Nat
  BY TrackerAssumption
<1>2. IsFiniteSet(Slots) /\ Cardinality(Slots) = nTracksMax
  BY <1>1, FS_Interval DEF Slots
<1>3. IsFiniteSet(T) /\ Cardinality(T) \in Nat /\ Cardinality(T) <= nTracksMax
  BY <1>2, FS_Subset, FS_CardinalityType
<1>4. Cardinality(T) # 0
  BY <1>3, FS_EmptySet
<1> QED BY <1>1, <1>3, <1>4 DEF Slots

-----------------------------------------------------------------------------
(* One slot, in each of the ways in which a stage changes it.                *)

LEMMA SlotFields ==
  ASSUME NEW c \in SlotRecord
  PROVE  /\ c.ids \in Nat /\ c.tags \in Tags /\ c.type \in {"I", "P", "A", "T"}
         /\ c.n_prob \in Nat /\ c.n_prob <= N_prob /\ c.mean_prob \in Nat
         /\ c.n_inactive \in Nat /\ c.activity \in 0 .. ActivityMax
BY TrackerAssumption DEF SlotRecord

TargetIn(c, n, tag) ==
  [c EXCEPT !.ids = n, !.tags = tag, !.type = "T", !.n_prob = 0, !.mean_prob = 0]

LEMMA TargetSlot ==
  ASSUME NEW c \in SlotRecord, NEW n \in Nat \ {0}, NEW tag \in Tags,
         tag \notin {Free, "dynamic"}
  PROVE  LET d == TargetIn(c, n, tag)
         IN /\ d \in SlotRecord /\ Settled(d, n) /\ Probing(d)
            /\ d.ids = n /\ d.tags = tag /\ d.type = "T"
<1> DEFINE d == TargetIn(c, n, tag)
<1>1. /\ 0 \in 0 .. N_prob /\ 0 <= 0 * ActivityMax
  BY TrackerAssumption
<1>2. d \in SlotRecord
  BY <1>1 DEF SlotRecord, TargetIn
<1>3. d.ids = n /\ d.tags = tag /\ d.type = "T" /\ d.n_prob = 0 /\ d.mean_prob = 0
  BY DEF SlotRecord, TargetIn
<1> HIDE DEF d
<1>4. Settled(d, n) /\ Probing(d)
  BY <1>1, <1>3 DEF Settled, Probing
<1> QED BY <1>2, <1>3, <1>4 DEF d

LEMMA FreedSlot ==
  ASSUME NEW c \in SlotRecord, NEW n \in Nat
  PROVE  LET d == [c EXCEPT !.ids = 0, !.tags = Free, !.type = "I", !.n_prob = 0,
                            !.mean_prob = 0]
         IN d \in SlotRecord /\ Settled(d, n) /\ Probing(d) /\ d.ids = 0
<1> DEFINE d == [c EXCEPT !.ids = 0, !.tags = Free, !.type = "I", !.n_prob = 0,
                          !.mean_prob = 0]
<1>1. /\ 0 \in 0 .. N_prob /\ 0 <= 0 * ActivityMax
  BY TrackerAssumption
<1>2. d \in SlotRecord
  <2>1. Free \in Tags
    BY DEF Tags
  <2> QED BY <1>1, <2>1 DEF SlotRecord
<1>3. d.ids = 0 /\ d.tags = Free /\ d.type = "I" /\ d.n_prob = 0 /\ d.mean_prob = 0
  BY DEF SlotRecord
<1> HIDE DEF d
<1>4. Settled(d, n) /\ Probing(d)
  BY <1>1, <1>3 DEF Settled, Probing
<1> QED BY <1>2, <1>3, <1>4 DEF d

(* n times the greatest activity.                                            *)
LEMMA OneMoreFrame ==
  ASSUME NEW A \in Nat, NEW n \in Nat, NEW m \in Nat, NEW a \in 0 .. A, m <= n * A
  PROVE  m + a <= (n + 1) * A
<1>1. (n + 1) * A = n * A + A
  OBVIOUS
<1>2. n * A \in Nat
  OBVIOUS
<1> DEFINE p == n * A
<1> HIDE DEF p
<1> QED BY <1>1, <1>2 DEF p

LEMMA MoreFrames ==
  ASSUME NEW A \in Nat, NEW n \in Nat, NEW m \in Nat, n <= m
  PROVE  n * A <= m * A
<1> DEFINE d == m - n
<1>1. d \in Nat /\ m = n + d
  OBVIOUS
<1> HIDE DEF d
<1>2. (n + d) * A = n * A + d * A /\ n * A \in Nat /\ d * A \in Nat
  BY <1>1
<1> DEFINE p == n * A
           r == d * A
<1>3. m * A = p + r
  BY <1>1, <1>2
<1>4. p \in Nat /\ r \in Nat
  BY <1>2
<1> HIDE DEF p, r
<1>5. p <= p + r
  BY <1>4
<1> QED BY <1>3, <1>5 DEF p

LEMMA CountedSlot ==
  ASSUME NEW c \in SlotRecord, NEW n \in Nat, NEW a \in 0 .. ActivityMax,
         Settled(c, n), Probing(c), c.ids # 0
  PROVE  LET d == Counted(c, a)
         IN /\ d \in SlotRecord /\ Settled(d, n)
            /\ d.ids = c.ids /\ d.tags = c.tags /\ d.type = c.type
<1> DEFINE d == Counted(c, a)
<1> USE TrackerAssumption
<1>1. CASE c.type = "P"
  <2>1. d = [c EXCEPT !.activity = a, !.n_prob = c.n_prob + 1, !.mean_prob = c.mean_prob + a]
    BY <1>1 DEF Counted
  <2>2. c.n_prob + 1 \in 0 .. N_prob /\ c.mean_prob + a \in Nat
    BY <1>1, SlotFields DEF Probing
  <2>3. d \in SlotRecord
    BY <2>1, <2>2 DEF SlotRecord
  <2>4. /\ d.ids = c.ids /\ d.tags = c.tags /\ d.type = "P"
        /\ d.n_prob = c.n_prob + 1 /\ d.mean_prob = c.mean_prob + a
    BY <1>1, <2>1 DEF SlotRecord
  <2>5. d.mean_prob <= d.n_prob * ActivityMax
    BY <2>4, OneMoreFrame, SlotFields DEF Settled
  <2> HIDE DEF d
  <2>6. Settled(d, n)
    BY <1>1, <2>4, <2>5 DEF Settled
  <2> QED BY <1>1, <2>3, <2>4, <2>6 DEF d
<1>2. CASE c.type = "A"
  <2> DEFINE q == IF a >= theta_inactive THEN 0 ELSE c.n_inactive + 1
  <2>1. d = [c EXCEPT !.activity = a, !.n_inactive = q]
    BY <1>2 DEF Counted
  <2>2. q \in Nat
    BY SlotFields
  <2> HIDE DEF q
  <2>3. d \in SlotRecord
    BY <2>1, <2>2 DEF SlotRecord
  <2>4. /\ d.ids = c.ids /\ d.tags = c.tags /\ d.type = c.type
        /\ d.n_prob = c.n_prob /\ d.mean_prob = c.mean_prob
    BY <2>1 DEF SlotRecord
  <2> HIDE DEF d
  <2>5. Settled(d, n)
    BY <2>4 DEF Settled, Convinced
  <2> QED BY <2>3, <2>4, <2>5 DEF d
<1>3. CASE c.type \notin {"P", "A"}
  <2>1. d = [c EXCEPT !.activity = a]
    BY <1>3 DEF Counted
  <2>2. d \in SlotRecord
    BY <2>1 DEF SlotRecord
  <2>3. /\ d.ids = c.ids /\ d.tags = c.tags /\ d.type = c.type
        /\ d.n_prob = c.n_prob /\ d.mean_prob = c.mean_prob
    BY <2>1 DEF SlotRecord
  <2> HIDE DEF d
  <2>4. Settled(d, n)
    BY <2>3 DEF Settled, Convinced
  <2> QED BY <2>2, <2>3, <2>4 DEF d
<1> QED BY <1>1, <1>2, <1>3

LEMMA QuietSlot ==
  ASSUME NEW c \in SlotRecord, NEW n \in Nat, Settled(c, n)
  PROVE  LET d == [c EXCEPT !.activity = 0]
         IN /\ d \in SlotRecord /\ Settled(d, n)
            /\ d.ids = c.ids /\ d.tags = c.tags /\ d.type = c.type
<1> DEFINE d == [c EXCEPT !.activity = 0]
<1>1. 0 \in 0 .. ActivityMax
  BY TrackerAssumption
<1>2. d \in SlotRecord
  BY <1>1 DEF SlotRecord
<1>3. /\ d.ids = c.ids /\ d.tags = c.tags /\ d.type = c.type
      /\ d.n_prob = c.n_prob /\ d.mean_prob = c.mean_prob
  BY DEF SlotRecord
<1> HIDE DEF d
<1>4. Settled(d, n)
  BY <1>3 DEF Settled, Convinced
<1> QED BY <1>2, <1>3, <1>4 DEF d

LEMMA ConfirmedSlot ==
  ASSUME NEW c \in SlotRecord, NEW n \in Nat, Settled(c, n), c.ids # 0,
         EndOfProbation(c), Convinced(c)
  PROVE  LET d == [c EXCEPT !.type = "A", !.n_inactive = 0]
         IN /\ d \in SlotRecord /\ Settled(d, n)
            /\ d.ids = c.ids /\ d.tags = c.tags /\ d.type = "A" /\ d.n_inactive = 0
<1> DEFINE d == [c EXCEPT !.type = "A", !.n_inactive = 0]
<1>1. d \in SlotRecord
  BY DEF SlotRecord
<1>2. /\ d.ids = c.ids /\ d.tags = c.tags /\ d.type = "A" /\ d.n_inactive = 0
      /\ d.n_prob = c.n_prob /\ d.mean_prob = c.mean_prob
  BY DEF SlotRecord
<1>3. c.type = "P" /\ c.n_prob = N_prob
  BY DEF EndOfProbation
<1> HIDE DEF d
<1>4. Settled(d, n)
  BY <1>2, <1>3 DEF Settled, Convinced
<1> QED BY <1>1, <1>2, <1>4 DEF d

LEMMA NewSourceSlot ==
  ASSUME NEW c \in SlotRecord, NEW n \in Nat \ {0}
  PROVE  LET d == NewSource(c, n)
         IN /\ d \in SlotRecord /\ Settled(d, n) /\ Probing(d)
            /\ d.ids = n /\ d.tags = "dynamic" /\ d.type = "P"
<1> DEFINE d == NewSource(c, n)
<1>1. /\ 0 \in 0 .. N_prob /\ 0 <= 0 * ActivityMax /\ 0 < N_prob
  BY TrackerAssumption
<1>2. d \in SlotRecord
  <2>1. "dynamic" \in Tags
    BY DEF Tags
  <2> QED BY <1>1, <2>1 DEF SlotRecord, NewSource
<1>3. d.ids = n /\ d.tags = "dynamic" /\ d.type = "P" /\ d.n_prob = 0 /\ d.mean_prob = 0
  BY DEF SlotRecord, NewSource
<1>4. "dynamic" # Free
  BY DEF Free
<1> HIDE DEF d
<1>5. Settled(d, n) /\ Probing(d)
  BY <1>1, <1>3, <1>4 DEF Settled, Probing
<1> QED BY <1>2, <1>3, <1>5 DEF d

LEMMA DepartedSlot ==
  ASSUME NEW c \in SlotRecord, NEW n \in Nat, Settled(c, n)
  PROVE  LET d == [c EXCEPT !.ids = 0, !.tags = Free]
         IN d \in SlotRecord /\ Settled(d, n) /\ Probing(d) /\ d.ids = 0 /\ d.type = c.type
<1> DEFINE d == [c EXCEPT !.ids = 0, !.tags = Free]
<1>1. d \in SlotRecord
  <2>1. Free \in Tags
    BY DEF Tags
  <2> QED BY <2>1 DEF SlotRecord
<1>2. /\ d.ids = 0 /\ d.tags = Free /\ d.type = c.type
      /\ d.n_prob = c.n_prob /\ d.mean_prob = c.mean_prob
  BY DEF SlotRecord
<1> HIDE DEF d
<1>3. Settled(d, n) /\ Probing(d)
  BY <1>2 DEF Settled, Probing
<1> QED BY <1>1, <1>2, <1>3 DEF d

-----------------------------------------------------------------------------
(* The stages of a frame.                                                    *)

LEMMA FrameTypes ==
  ASSUME NEW f \in Frames
  PROVE  /\ f.id \in Nat /\ \A s \in Slots : f.slot[s] \in SlotRecord
         /\ f = [id |-> f.id, slot |-> f.slot] /\ DOMAIN f.slot = Slots
BY DEF Frames

(* A stage that gives no identifier keeps them distinct; so does one that      *)
(* gives slot q a new one, for a new source or a target that has no slot.     *)
LEMMA DistinctKept ==
  ASSUME NEW f, NEW g, Distinct(f),
         \A s \in Slots : g.slot[s].ids # 0 =>
           g.slot[s].ids = f.slot[s].ids /\ g.slot[s].tags = f.slot[s].tags
  PROVE  Distinct(g)
BY DEF Distinct

LEMMA DistinctGiven ==
  ASSUME NEW f \in Frames, NEW g, Orderly(f), NEW q \in Slots,
         \A s \in Slots \ {q} : g.slot[s].ids # 0 =>
           g.slot[s].ids = f.slot[s].ids /\ g.slot[s].tags = f.slot[s].tags,
         g.slot[q].ids \in Nat, g.slot[q].ids > f.id,
         \/ g.slot[q].tags = "dynamic"
         \/ \A s \in Slots : f.slot[s].tags # g.slot[q].tags
  PROVE  Distinct(g)
<1>1. \A s \in Slots : f.slot[s].ids # g.slot[q].ids
  BY FrameTypes, SlotFields DEF Orderly, Settled
<1>2. Distinct(f)
  BY DEF Orderly
<1> QED BY <1>1, <1>2 DEF Distinct

LEMMA SettledLater ==
  ASSUME NEW c \in SlotRecord, NEW m \in Nat, NEW n \in Nat, Settled(c, m), m <= n
  PROVE  Settled(c, n)
BY SlotFields DEF Settled

LEMMA FollowsTransitive ==
  ASSUME NEW f \in Frames, NEW g \in Frames, NEW h \in Frames, Follows(f, g), Follows(g, h)
  PROVE  Follows(f, h)
BY FrameTypes, SlotFields DEF Follows

(* What the targets leave of f: occupied slots are as they were.              *)
Added(f) ==
  {g \in Frames : /\ Orderly(g) /\ Follows(f, g)
                  /\ \A s \in Slots : Probing(g.slot[s])
                  /\ \A s \in Slots : f.slot[s].ids # 0 => g.slot[s] = f.slot[s]}

LEMMA AddTargetKeeps ==
  ASSUME NEW f \in Frames, NEW g \in Added(f), NEW tag \in Tags, tag \notin {Free, "dynamic"}
  PROVE  AddTarget(g, tag) \in Added(f)
<1> DEFINE h == AddTarget(g, tag)
<1>1. CASE (\E s \in Slots : g.slot[s].tags = tag) \/ FreeSlots(g) = {}
  BY <1>1 DEF AddTarget
<1>2. CASE ~ ((\E s \in Slots : g.slot[s].tags = tag) \/ FreeSlots(g) = {})
  <2> DEFINE q == FirstFree(g)
             c == g.slot[q]
             d == TargetIn(c, g.id + 1, tag)
  <2>1. q \in Slots /\ c.ids = 0
    BY <1>2, FirstFreeIsFree DEF FreeSlots, Occupied
  <2>2. h = [id |-> g.id + 1, slot |-> [g.slot EXCEPT ![q] = d]]
    BY <1>2 DEF AddTarget, TargetIn
  <2>3. /\ g \in Frames /\ Orderly(g) /\ Follows(f, g)
        /\ \A s \in Slots : Probing(g.slot[s])
        /\ \A s \in Slots : f.slot[s].ids # 0 => g.slot[s] = f.slot[s]
    BY DEF Added
  <2>4. g.id \in Nat /\ g.id + 1 \in Nat \ {0} /\ c \in SlotRecord
    BY <2>1, <2>3, FrameTypes
  <2>5. /\ d \in SlotRecord /\ Settled(d, g.id + 1) /\ Probing(d)
        /\ d.ids = g.id + 1 /\ d.tags = tag
    BY <2>4, TargetSlot
  <2> HIDE DEF q, d
  <2>6. /\ h \in Frames /\ h.id = g.id + 1 /\ h.slot[q] = d
        /\ \A s \in Slots : s # q => h.slot[s] = g.slot[s]
    BY <2>1, <2>2, <2>3, <2>4, <2>5 DEF Frames
  <2> HIDE DEF h, c
  <2>7. \A s \in Slots : Settled(h.slot[s], h.id) /\ Probing(h.slot[s])
    <3>1. \A s \in Slots : g.slot[s] \in SlotRecord /\ Settled(g.slot[s], g.id)
      BY <2>3, FrameTypes DEF Orderly
    <3>2. g.id <= g.id + 1
      BY <2>4
    <3>3. \A s \in Slots : Settled(g.slot[s], g.id + 1)
      BY <2>4, <3>1, <3>2, SettledLater
    <3> QED BY <2>3, <2>5, <2>6, <3>3
  <2>8. Distinct(h)
    <3>1. h.slot[q].ids \in Nat /\ h.slot[q].ids > g.id /\ h.slot[q].tags = tag
      BY <2>4, <2>5, <2>6
    <3>2. \A s \in Slots : g.slot[s].tags # h.slot[q].tags
      BY <1>2, <3>1
    <3> QED BY <2>1, <2>3, <2>6, <3>1, <3>2, DistinctGiven
  <2>9. Follows(g, h)
    <3>1. g.id <= h.id /\ h.slot[q].ids > g.id
      BY <2>4, <2>5, <2>6
    <3> QED BY <2>6, <3>1 DEF Follows
  <2>10. Follows(f, h)
    BY <2>3, <2>6, <2>9, FollowsTransitive
  <2>11. \A s \in Slots : f.slot[s].ids # 0 => h.slot[s] = f.slot[s]
    BY <2>1, <2>3, <2>6 DEF c
  <2> QED BY <2>6, <2>7, <2>8, <2>10, <2>11 DEF Added, Orderly, h
<1> QED BY <1>1, <1>2

LEMMA AddTargetsStage ==
  ASSUME NEW f \in Frames, Orderly(f), \A s \in Slots : Probing(f.slot[s]),
         NEW targets \in TargetLists
  PROVE  AddTargets(f, targets) \in Added(f)
<1>1. f \in Added(f)
  BY FrameTypes DEF Added, Follows
<1>2. targets \in Seq(STRING)
  BY TrackerAssumption
<1>3. ASSUME NEW g \in Added(f), NEW i \in DOMAIN targets
      PROVE  AddTarget(g, targets[i]) \in Added(f)
  <2>1. targets[i] \notin {Free, "dynamic"}
    BY TrackerAssumption
  <2>2. targets[i] \in Tags
    BY DEF Tags
  <2> QED BY <2>1, <2>2, AddTargetKeeps
<1> QED BY <1>1, <1>2, <1>3, AddTargetsKeep

LEMMA RemoveTargetsStage ==
  ASSUME NEW f \in Frames, Orderly(f), \A s \in Slots : Probing(f.slot[s]), NEW targets
  PROVE  LET g == RemoveTargets(f, targets)
         IN /\ g \in Frames /\ Orderly(g) /\ g.id = f.id
            /\ \A s \in Slots : Probing(g.slot[s])
            /\ \A s \in Slots : g.slot[s].ids \in {0, f.slot[s].ids}
            /\ \A s \in Slots : f.slot[s].tags = "dynamic" => g.slot[s] = f.slot[s]
<1> DEFINE g == RemoveTargets(f, targets)
           D(c) == [c EXCEPT !.ids = 0, !.tags = Free, !.type = "I", !.n_prob = 0,
                             !.mean_prob = 0]
<1>1. f.id \in Nat /\ \A s \in Slots : f.slot[s] \in SlotRecord /\ Settled(f.slot[s], f.id)
  BY FrameTypes DEF Orderly
<1>2. \A c \in SlotRecord : /\ D(c) \in SlotRecord /\ Settled(D(c), f.id) /\ Probing(D(c))
                            /\ D(c).ids = 0
  BY <1>1, FreedSlot
<1>3. g = [f EXCEPT !.slot = [s \in Slots |->
             IF Wanted(f.slot[s], targets) THEN f.slot[s] ELSE D(f.slot[s])]]
  BY DEF RemoveTargets
<1> HIDE DEF D
<1>4. /\ g.id = f.id
      /\ g.slot = [s \in Slots |-> IF Wanted(f.slot[s], targets) THEN f.slot[s] ELSE D(f.slot[s])]
      /\ g = [id |-> g.id, slot |-> g.slot]
  BY <1>3 DEF Frames
<1> HIDE DEF g
<1>5. g \in Frames
  BY <1>1, <1>2, <1>4 DEF Frames
<1>6. \A s \in Slots : /\ Settled(g.slot[s], g.id) /\ Probing(g.slot[s])
                       /\ g.slot[s].ids # 0 => g.slot[s] = f.slot[s]
                       /\ f.slot[s].tags = "dynamic" => g.slot[s] = f.slot[s]
  BY <1>1, <1>2, <1>4 DEF Wanted
<1>7. Distinct(g)
  BY <1>6, DistinctKept DEF Orderly
<1> QED BY <1>4, <1>5, <1>6, <1>7 DEF Orderly, g

LEMMA ActivityStage ==
  ASSUME NEW f \in Frames, Orderly(f), \A s \in Slots : Probing(f.slot[s]),
         NEW act \in [Occupied(f) -> 0 .. ActivityMax]
  PROVE  LET g == Activity(f, act)
         IN /\ g \in Frames /\ Orderly(g) /\ g.id = f.id
            /\ \A s \in Slots : /\ g.slot[s].ids = f.slot[s].ids
                                /\ g.slot[s].tags = f.slot[s].tags
                                /\ g.slot[s].type = f.slot[s].type
<1> DEFINE g == Activity(f, act)
           D(c) == [c EXCEPT !.activity = 0]
<1>1. f.id \in Nat /\ \A s \in Slots : f.slot[s] \in SlotRecord /\ Settled(f.slot[s], f.id)
  BY FrameTypes DEF Orderly
<1>2. \A c \in SlotRecord : Settled(c, f.id) =>
        /\ D(c) \in SlotRecord /\ Settled(D(c), f.id)
        /\ D(c).ids = c.ids /\ D(c).tags = c.tags /\ D(c).type = c.type
  BY <1>1, QuietSlot
<1>3. g = [f EXCEPT !.slot = [s \in Slots |->
             IF f.slot[s].ids = 0 THEN D(f.slot[s]) ELSE Counted(f.slot[s], act[s])]]
  BY DEF Activity
<1> HIDE DEF D
<1>4. /\ g.id = f.id
      /\ g.slot = [s \in Slots |->
                    IF f.slot[s].ids = 0 THEN D(f.slot[s]) ELSE Counted(f.slot[s], act[s])]
      /\ g = [id |-> g.id, slot |-> g.slot]
  BY <1>3 DEF Frames
<1> HIDE DEF g
<1>5. ASSUME NEW s \in Slots
      PROVE  /\ g.slot[s] \in SlotRecord /\ Settled(g.slot[s], f.id)
             /\ g.slot[s].ids = f.slot[s].ids
             /\ g.slot[s].tags = f.slot[s].tags
             /\ g.slot[s].type = f.slot[s].type
  <2>1. CASE f.slot[s].ids = 0
    BY <1>1, <1>2, <1>4, <2>1
  <2>2. CASE f.slot[s].ids # 0
    <3>1. act[s] \in 0 .. ActivityMax
      BY <2>2 DEF Occupied
    <3>2. g.slot[s] = Counted(f.slot[s], act[s])
      BY <1>4, <2>2
    <3> QED BY <1>1, <2>2, <3>1, <3>2, CountedSlot
  <2> QED BY <2>1, <2>2
<1>6. g \in Frames
  BY <1>1, <1>4, <1>5 DEF Frames
<1>7. Distinct(g)
  BY <1>5, DistinctKept DEF Orderly
<1> QED BY <1>4, <1>5, <1>6, <1>7 DEF Orderly, g

LEMMA TransitionsStage ==
  ASSUME NEW f \in Frames, Orderly(f)
  PROVE  LET g == Transitions(f)
         IN /\ g \in Frames /\ Orderly(g) /\ g.id = f.id
            /\ \A s \in Slots : /\ g.slot[s].ids = f.slot[s].ids
                                /\ g.slot[s].tags = f.slot[s].tags
            /\ \A s \in Slots : f.slot[s].ids # 0 /\ f.slot[s].type = "P" =>
                 IF g.slot[s].type = "A" THEN g.slot[s].n_inactive = 0
                 ELSE g.slot[s].type = "P"
            /\ \A s \in Slots : g.slot[s].ids # 0 /\ EndOfProbation(g.slot[s]) =>
                 ~ Convinced(g.slot[s])
<1> DEFINE g == Transitions(f)
           D(c) == [c EXCEPT !.type = "A", !.n_inactive = 0]
           Confirmed(c) == c.ids # 0 /\ EndOfProbation(c) /\ Convinced(c)
<1>1. f.id \in Nat /\ \A s \in Slots : f.slot[s] \in SlotRecord /\ Settled(f.slot[s], f.id)
  BY FrameTypes DEF Orderly
<1>2. \A c \in SlotRecord : Settled(c, f.id) /\ Confirmed(c) =>
        /\ D(c) \in SlotRecord /\ Settled(D(c), f.id)
        /\ D(c).ids = c.ids /\ D(c).tags = c.tags /\ D(c).type = "A" /\ D(c).n_inactive = 0
  BY <1>1, ConfirmedSlot
<1>3. g = [f EXCEPT !.slot = [s \in Slots |->
             IF Confirmed(f.slot[s]) THEN D(f.slot[s]) ELSE f.slot[s]]]
  BY DEF Transitions
<1> HIDE DEF D
<1>4. /\ g.id = f.id
      /\ g.slot = [s \in Slots |-> IF Confirmed(f.slot[s]) THEN D(f.slot[s]) ELSE f.slot[s]]
      /\ g = [id |-> g.id, slot |-> g.slot]
  BY <1>3 DEF Frames
<1> HIDE DEF g
<1>5. ASSUME NEW s \in Slots
      PROVE  /\ g.slot[s] \in SlotRecord /\ Settled(g.slot[s], f.id)
             /\ g.slot[s].ids = f.slot[s].ids
             /\ g.slot[s].tags = f.slot[s].tags
             /\ f.slot[s].ids # 0 /\ f.slot[s].type = "P" =>
                  IF g.slot[s].type = "A" THEN g.slot[s].n_inactive = 0
                  ELSE g.slot[s].type = "P"
             /\ g.slot[s].ids # 0 /\ EndOfProbation(g.slot[s]) => ~ Convinced(g.slot[s])
  <2>1. CASE Confirmed(f.slot[s])
    <3>1. g.slot[s] = D(f.slot[s])
      BY <1>4, <2>1
    <3>2. /\ g.slot[s] \in SlotRecord /\ Settled(g.slot[s], f.id)
          /\ g.slot[s].ids = f.slot[s].ids /\ g.slot[s].tags = f.slot[s].tags
          /\ g.slot[s].type = "A" /\ g.slot[s].n_inactive = 0
      BY <1>1, <1>2, <2>1, <3>1
    <3> QED BY <3>2 DEF EndOfProbation
  <2>2. CASE ~ Confirmed(f.slot[s])
    <3>1. g.slot[s] = f.slot[s]
      BY <1>4, <2>2
    <3> QED BY <1>1, <2>2, <3>1
  <2> QED BY <2>1, <2>2
<1> HIDE DEF Confirmed
<1>6. g \in Frames
  BY <1>1, <1>4, <1>5 DEF Frames
<1>7. Distinct(g)
  BY <1>5, DistinctKept DEF Orderly
<1> QED BY <1>4, <1>5, <1>6, <1>7 DEF Orderly, g

LEMMA UpdateDynamicStage ==
  ASSUME NEW f \in Frames, Orderly(f), NEW new \in Nat, NEW nTracks,
         \A s \in Slots : f.slot[s].ids # 0 /\ EndOfProbation(f.slot[s]) =>
           ~ Convinced(f.slot[s])
  PROVE  LET g == UpdateDynamic(f, new, nTracks)
         IN /\ g \in Frames /\ Orderly(g) /\ Follows(f, g)
            /\ \A s \in Slots : Probing(g.slot[s])
            /\ \A s \in Slots : g.slot[s].type # "P" =>
                 /\ g.slot[s].ids \in {0, f.slot[s].ids}
                 /\ g.slot[s].type = f.slot[s].type
            /\ \A s \in Slots : f.slot[s].ids # 0 /\ ~ Departing(f.slot[s], nTracks) =>
                 g.slot[s] = f.slot[s]
            /\ \A s \in Slots : f.slot[s].ids # 0 /\ Departing(f.slot[s], nTracks) =>
                 g.slot[s].ids = 0
<1> DEFINE g == UpdateDynamic(f, new, nTracks)
           D(c) == [c EXCEPT !.ids = 0, !.tags = Free]
           q == FirstFree(f)
           given == new > 0 /\ FreeSlots(f) # {}
           n == f.id + new
           Leaves(s) == s \in Occupied(f) /\ Departing(f.slot[s], nTracks)
<1>1. f.id \in Nat /\ \A s \in Slots : f.slot[s] \in SlotRecord /\ Settled(f.slot[s], f.id)
  BY FrameTypes DEF Orderly
<1>2. \A c \in SlotRecord, m \in Nat : Settled(c, m) =>
        /\ D(c) \in SlotRecord /\ Settled(D(c), m) /\ Probing(D(c))
        /\ D(c).ids = 0 /\ D(c).type = c.type
  BY DepartedSlot
<1>3. given => /\ q \in Slots /\ f.slot[q].ids = 0
               /\ n \in Nat \ {0} /\ n > f.id
  BY <1>1, FirstFreeIsFree DEF FreeSlots, Occupied
<1>4. g = [id |-> IF FreeSlots(f) # {} THEN n ELSE f.id,
           slot |-> [s \in Slots |->
             IF given /\ s = q THEN NewSource(f.slot[s], n)
             ELSE IF Leaves(s) THEN D(f.slot[s]) ELSE f.slot[s]]]
  BY DEF UpdateDynamic
<1> HIDE DEF D, q
<1>5. /\ g.id \in Nat /\ f.id <= g.id
      /\ given => g.id = n
      /\ g.slot = [s \in Slots |->
             IF given /\ s = q THEN NewSource(f.slot[s], n)
             ELSE IF Leaves(s) THEN D(f.slot[s]) ELSE f.slot[s]]
      /\ g = [id |-> g.id, slot |-> g.slot]
  BY <1>1, <1>4
<1> HIDE DEF g, n
<1>6. ASSUME NEW s \in Slots, given, s = q
      PROVE  /\ g.slot[s] \in SlotRecord /\ Settled(g.slot[s], g.id) /\ Probing(g.slot[s])
             /\ g.slot[s].ids = n /\ g.slot[s].type = "P" /\ g.slot[s].tags = "dynamic"
             /\ f.slot[s].ids = 0
  BY <1>1, <1>3, <1>5, <1>6, NewSourceSlot
<1>7. ASSUME NEW s \in Slots, ~ (given /\ s = q), Leaves(s)
      PROVE  /\ g.slot[s] \in SlotRecord /\ Settled(g.slot[s], g.id) /\ Probing(g.slot[s])
             /\ g.slot[s].ids = 0 /\ g.slot[s].type = f.slot[s].type
  <2>1. Settled(f.slot[s], g.id)
    BY <1>1, <1>5, SettledLater
  <2>2. g.slot[s] = D(f.slot[s])
    BY <1>5, <1>7
  <2> QED BY <1>1, <1>2, <1>5, <2>1, <2>2
<1>8. ASSUME NEW s \in Slots, ~ (given /\ s = q), ~ Leaves(s)
      PROVE  /\ g.slot[s] = f.slot[s] /\ Settled(g.slot[s], g.id) /\ Probing(g.slot[s])
  <2>1. g.slot[s] = f.slot[s]
    BY <1>5, <1>8
  <2>2. Settled(g.slot[s], g.id)
    BY <1>1, <1>5, <2>1, SettledLater
  <2>3. Probing(f.slot[s])
    <3>1. SUFFICES ASSUME f.slot[s].ids # 0, f.slot[s].type = "P"
                   PROVE  f.slot[s].n_prob < N_prob
      BY DEF Probing
    <3>2. ~ EndOfProbation(f.slot[s])
      BY <1>8, <3>1 DEF Occupied, Departing
    <3>3. f.slot[s].n_prob \in Nat /\ f.slot[s].n_prob <= N_prob /\ N_prob \in Nat
      BY <1>1, SlotFields, TrackerAssumption
    <3> QED BY <3>1, <3>2, <3>3 DEF EndOfProbation
  <2> QED BY <2>1, <2>2, <2>3
<1>9. \A s \in Slots : /\ g.slot[s] \in SlotRecord /\ Settled(g.slot[s], g.id)
                       /\ Probing(g.slot[s])
  BY <1>1, <1>6, <1>7, <1>8
<1>10. g \in Frames
  BY <1>5, <1>9 DEF Frames
<1>11. Distinct(g)
  <2>1. CASE given
    <3>1. q \in Slots /\ n \in Nat /\ n > f.id /\ g.slot[q].ids = n /\ g.slot[q].tags = "dynamic"
      BY <2>1, <1>3, <1>6
    <3>2. \A s \in Slots \ {q} : g.slot[s].ids # 0 =>
            g.slot[s].ids = f.slot[s].ids /\ g.slot[s].tags = f.slot[s].tags
      BY <1>7, <1>8
    <3> QED BY <3>1, <3>2, DistinctGiven
  <2>2. CASE ~ given
    <3>1. \A s \in Slots : g.slot[s].ids # 0 =>
            g.slot[s].ids = f.slot[s].ids /\ g.slot[s].tags = f.slot[s].tags
      BY <2>2, <1>7, <1>8
    <3> QED BY <3>1, DistinctKept DEF Orderly
  <2> QED BY <2>1, <2>2
<1>12. \A s \in Slots : g.slot[s].ids \in {0, f.slot[s].ids} \/ g.slot[s].ids > f.id
  BY <1>3, <1>6, <1>7, <1>8
<1>13. ASSUME NEW s \in Slots, f.slot[s].ids # 0
       PROVE  IF Departing(f.slot[s], nTracks) THEN g.slot[s].ids = 0
                                               ELSE g.slot[s] = f.slot[s]
  <2>1. ~ (given /\ s = q)
    BY <1>13, <1>3
  <2>2. Leaves(s) <=> Departing(f.slot[s], nTracks)
    BY <1>13 DEF Occupied
  <2> QED BY <2>1, <2>2, <1>7, <1>8
<1>14. \A s \in Slots : g.slot[s].type # "P" =>
         /\ g.slot[s].ids \in {0, f.slot[s].ids}
         /\ g.slot[s].type = f.slot[s].type
  BY <1>6, <1>7, <1>8
<1> QED BY <1>5, <1>9, <1>10, <1>11, <1>12, <1>13, <1>14 DEF Orderly, Follows, g

-----------------------------------------------------------------------------
(* The steps.  FrameFacts relates the state before a frame to the one after.  *)

FrameFacts ==
  /\ Follows(Now, Now')
  /\ \A s \in Slots : slot[s].ids # 0 =>
       slot'[s].ids \in {0, slot[s].ids} \/ slot'[s].type = "P"
  /\ \A s \in Slots : slot[s].ids # 0 /\ slot[s].type = "P" /\ slot'[s].type = "A" =>
       slot'[s].ids = slot[s].ids
  /\ out' = [s \in Slots |-> IF slot'[s].ids # 0 /\ slot'[s].type \in {"A", "T"}
                             THEN slot'[s].ids ELSE 0]

LEMMA FrameStep ==
  ASSUME IInv, Frame
  PROVE  IInv' /\ FrameFacts
<1> DEFINE f0 == Now
           before(t) == RemoveTargets(AddTargets(f0, t), t)
           after(t, n, a) == UpdateDynamic(Transitions(Activity(before(t), a)), n,
                                           Cardinality(Occupied(before(t))))
<1>1. \E targets \in TargetLists, new \in 0 .. nPots :
      \E act \in [Occupied(before(targets)) -> 0 .. ActivityMax] :
        LET f5 == after(targets, new, act)
        IN  f5.id <= MaxId /\ id' = f5.id /\ slot' = f5.slot /\ out' = Published(f5)
  BY DEF Frame, Now
<1>2. PICK targets \in TargetLists, new \in 0 .. nPots :
      \E act \in [Occupied(before(targets)) -> 0 .. ActivityMax] :
        LET f5 == after(targets, new, act)
        IN  f5.id <= MaxId /\ id' = f5.id /\ slot' = f5.slot /\ out' = Published(f5)
  BY <1>1
<1> DEFINE f1 == AddTargets(f0, targets)
           f2 == RemoveTargets(f1, targets)
           N == Cardinality(Occupied(f2))
<1>3. PICK act \in [Occupied(f2) -> 0 .. ActivityMax] :
        LET f5 == after(targets, new, act)
        IN  f5.id <= MaxId /\ id' = f5.id /\ slot' = f5.slot /\ out' = Published(f5)
  BY <1>2
<1> DEFINE f3 == Activity(f2, act)
           f4 == Transitions(f3)
           f5 == UpdateDynamic(f4, new, N)
<1>4. f5.id <= MaxId /\ id' = f5.id /\ slot' = f5.slot /\ out' = Published(f5)
  BY <1>3
<1> HIDE DEF f0
<1>5. /\ f0 \in Frames /\ Orderly(f0) /\ \A s \in Slots : Probing(f0.slot[s])
      /\ f0.slot = slot /\ f0.id = id
  BY DEF IInv, Orderly, Now, f0
<1>6. /\ f1 \in Frames /\ Orderly(f1) /\ Follows(f0, f1) /\ \A s \in Slots : Probing(f1.slot[s])
      /\ \A s \in Slots : f0.slot[s].ids # 0 => f1.slot[s] = f0.slot[s]
  BY <1>5, AddTargetsStage DEF Added
<1> HIDE DEF f1
<1>7. /\ f2 \in Frames /\ Orderly(f2) /\ f2.id = f1.id
      /\ \A s \in Slots : Probing(f2.slot[s])
      /\ \A s \in Slots : f2.slot[s].ids \in {0, f1.slot[s].ids}
      /\ \A s \in Slots : f1.slot[s].tags = "dynamic" => f2.slot[s] = f1.slot[s]
  BY <1>6, RemoveTargetsStage
<1> HIDE DEF f2
<1>8. /\ f3 \in Frames /\ Orderly(f3) /\ f3.id = f2.id
      /\ \A s \in Slots : /\ f3.slot[s].ids = f2.slot[s].ids
                          /\ f3.slot[s].tags = f2.slot[s].tags
                          /\ f3.slot[s].type = f2.slot[s].type
  BY <1>7, ActivityStage
<1> HIDE DEF f3
<1>9. /\ f4 \in Frames /\ Orderly(f4) /\ f4.id = f3.id
      /\ \A s \in Slots : /\ f4.slot[s].ids = f3.slot[s].ids
                          /\ f4.slot[s].tags = f3.slot[s].tags
      /\ \A s \in Slots : f3.slot[s].ids # 0 /\ f3.slot[s].type = "P" =>
           IF f4.slot[s].type = "A" THEN f4.slot[s].n_inactive = 0
           ELSE f4.slot[s].type = "P"
      /\ \A s \in Slots : f4.slot[s].ids # 0 /\ EndOfProbation(f4.slot[s]) =>
           ~ Convinced(f4.slot[s])
  BY <1>8, TransitionsStage
<1> HIDE DEF f4
<1>10. /\ f5 \in Frames /\ Orderly(f5) /\ Follows(f4, f5)
       /\ \A s \in Slots : Probing(f5.slot[s])
       /\ \A s \in Slots : f5.slot[s].type # "P" =>
            /\ f5.slot[s].ids \in {0, f4.slot[s].ids}
            /\ f5.slot[s].type = f4.slot[s].type
       /\ \A s \in Slots : f4.slot[s].ids # 0 /\ ~ Departing(f4.slot[s], N) =>
            f5.slot[s] = f4.slot[s]
       /\ \A s \in Slots : f4.slot[s].ids # 0 /\ Departing(f4.slot[s], N) =>
            f5.slot[s].ids = 0
  <2>1. new \in Nat
    OBVIOUS
  <2> HIDE DEF N
  <2> QED BY <1>9, <2>1, UpdateDynamicStage
<1> HIDE DEF f5, N
<1>11. f5.id <= MaxId /\ id' = f5.id /\ slot' = f5.slot /\ out' = Published(f5) /\ Now' = f5
  <2>1. f5 = [id |-> f5.id, slot |-> f5.slot]
    BY <1>10, FrameTypes
  <2> QED BY <1>4, <2>1 DEF Now
<1>12. \A s \in Slots : /\ f0.slot[s].ids \in Nat /\ f4.slot[s].ids \in Nat
                        /\ f4.slot[s].n_inactive \in Nat /\ f5.slot[s].ids \in Nat
  BY <1>5, <1>9, <1>10, FrameTypes, SlotFields
<1>13. Follows(f0, f5)
  <2>1. Follows(f1, f4)
    BY <1>6, <1>7, <1>8, <1>9, FrameTypes DEF Follows
  <2> QED BY <1>5, <1>6, <1>9, <1>10, <2>1, FollowsTransitive
<1>14. ASSUME NEW s \in Slots, slot[s].ids # 0
       PROVE  slot'[s].ids \in {0, slot[s].ids} \/ slot'[s].type = "P"
  BY <1>5, <1>6, <1>7, <1>8, <1>9, <1>10, <1>11, <1>14
<1>15. ASSUME NEW s \in Slots, slot[s].ids # 0, slot[s].type = "P", slot'[s].type = "A"
       PROVE  slot'[s].ids = slot[s].ids
  <2>1. slot[s].tags = "dynamic"
    BY <1>5, <1>15 DEF Orderly, Settled
  <2>2. f2.slot[s] = slot[s]
    BY <1>5, <1>6, <1>7, <1>15, <2>1
  <2>3. f4.slot[s].ids = slot[s].ids /\ f4.slot[s].type = "A" /\ f4.slot[s].n_inactive = 0
    BY <1>8, <1>9, <1>10, <1>11, <1>15, <2>2
  <2>4. N \in Slots
    <3>1. s \in Occupied(f2)
      BY <1>15, <2>2 DEF Occupied
    <3> QED BY <3>1, TracksAreCounted DEF Occupied, N
  <2>5. ~ Departing(f4.slot[s], N)
    <3>1. N_inactive[N] \in Nat \ {0}
      BY <2>4, TrackerAssumption
    <3> QED BY <2>3, <3>1 DEF Departing, EndOfProbation
  <2> QED BY <1>10, <1>11, <1>15, <2>3, <2>5
<1>16. SilenceBounded'
  <2>1. SUFFICES ASSUME NEW s \in Slots, f5.slot[s].ids # 0, f5.slot[s].type = "A"
                 PROVE  \E n \in Slots : f5.slot[s].n_inactive < N_inactive[n]
    BY <1>11 DEF SilenceBounded, Tracked
  <2>2. f4.slot[s].ids # 0
    BY <1>10, <2>1
  <2>3. ~ Departing(f4.slot[s], N) /\ f5.slot[s] = f4.slot[s]
    <3>1. ASSUME Departing(f4.slot[s], N) PROVE f5.slot[s].ids = 0
      BY <1>10, <2>2, <3>1
    <3>2. ~ Departing(f4.slot[s], N)
      BY <2>1, <3>1
    <3> QED BY <1>10, <2>2, <3>2
  <2>4. N \in Slots
    <3>1. s \in Occupied(f2)
      BY <1>8, <1>9, <2>2 DEF Occupied
    <3> QED BY <3>1, TracksAreCounted DEF Occupied, N
  <2>5. N_inactive[N] \in Nat
    BY <2>4, TrackerAssumption
  <2> QED BY <1>12, <2>1, <2>3, <2>4, <2>5 DEF Departing
<1>17. out' = [s \in Slots |-> IF slot'[s].ids # 0 /\ slot'[s].type \in {"A", "T"}
                              THEN slot'[s].ids ELSE 0]
  BY <1>11 DEF Published
<1>18. out' \in [Slots -> Nat] /\ \A s \in Slots : out'[s] # 0 => out'[s] = slot'[s].ids
  BY <1>11, <1>12, <1>17
<1>19. IInv'
  <2>1. Orderly(Now)' /\ (id <= MaxId)' /\ (\A s \in Slots : Probing(slot[s]))'
    BY <1>10, <1>11
  <2> QED BY <2>1, <1>16, <1>18 DEF IInv
<1>20. Follows(Now, Now')
  BY <1>11, <1>13 DEF f0
<1> QED BY <1>14, <1>15, <1>17, <1>19, <1>20 DEF FrameFacts

LEMMA Initially ==
  Init => IInv
<1> SUFFICES ASSUME Init PROVE IInv
  OBVIOUS
<1>4. /\ Now = [id |-> 0, slot |-> [s \in Slots |-> EmptySlot]]
      /\ id = 0 /\ slot = [s \in Slots |-> EmptySlot] /\ out = [s \in Slots |-> 0]
  BY DEF Init, Now
<1>5. EmptySlot \in SlotRecord
  <2>1. 0 \in 0 .. N_prob /\ 0 \in 0 .. ActivityMax
    BY TrackerAssumption
  <2>2. Free \in Tags
    BY DEF Tags
  <2> QED BY <2>1, <2>2 DEF EmptySlot, SlotRecord
<1>6. /\ EmptySlot.ids = 0 /\ EmptySlot.tags = Free /\ EmptySlot.n_prob = 0
      /\ EmptySlot.mean_prob = 0
  BY DEF EmptySlot
<1>7. 0 <= 0 * ActivityMax /\ 0 <= MaxId
  BY TrackerAssumption
<1> HIDE DEF EmptySlot
<1>8. Settled(EmptySlot, 0) /\ Probing(EmptySlot)
  BY <1>6, <1>7 DEF Settled, Probing
<1>9. Orderly(Now)
  BY <1>4, <1>5, <1>6, <1>8 DEF Orderly, Distinct, Frames
<1>10. SilenceBounded
  BY <1>4, <1>6 DEF SilenceBounded, Tracked
<1> QED BY <1>4, <1>6, <1>7, <1>8, <1>9, <1>10 DEF IInv

LEMMA BlankStep ==
  ASSUME IInv, Blank
  PROVE  IInv'
<1>4. Now' = Now /\ slot' = slot /\ id' = id /\ out' = [s \in Slots |-> 0]
  BY DEF Blank, Now
<1>5. Orderly(Now)' /\ SilenceBounded'
  BY <1>4 DEF IInv, SilenceBounded, Tracked
<1> QED BY <1>4, <1>5 DEF IInv

LEMMA StutterStep ==
  ASSUME IInv, UNCHANGED vars
  PROVE  IInv'
<1>4. Now' = Now /\ slot' = slot /\ id' = id /\ out' = out
  BY DEF vars, Now
<1>5. Orderly(Now)' /\ SilenceBounded'
  BY <1>4 DEF IInv, SilenceBounded, Tracked
<1> QED BY <1>4, <1>5 DEF IInv

(* The invariant is inductive.                                               *)
THEOREM Inductive ==
  Spec => []IInv
<1>1. IInv /\ [Next]_vars => IInv'
  BY FrameStep, BlankStep, StutterStep DEF Next
<1> QED BY Initially, <1>1, PTL DEF Spec

-----------------------------------------------------------------------------
(* The properties.                                                           *)

LEMMA SlotsNow ==
  ASSUME IInv
  PROVE  /\ id \in Nat /\ id <= MaxId /\ DOMAIN slot = Slots
         /\ \A s \in Slots : slot[s] \in SlotRecord /\ Settled(slot[s], id)
         /\ \A s \in Slots : slot[s].ids \in Nat /\ slot[s].ids <= id
<1>1. Now \in Frames /\ Now.id = id /\ Now.slot = slot
  BY DEF IInv, Orderly, Now
<1>2. \A s \in Slots : Settled(slot[s], id)
  BY <1>1 DEF IInv, Orderly
<1>3. \A s \in Slots : slot[s].ids \in Nat
  BY <1>1, FrameTypes, SlotFields
<1> QED BY <1>1, <1>2, <1>3, FrameTypes DEF IInv, Settled

(* Every field of every slot stays in its range: no probation is counted      *)
(* beyond N_prob and no sum of activities exceeds what N_prob frames give.    *)
THEOREM TypesCorrect ==
  Spec => []TypeOK
<1>1. IInv => TypeOK
  <2> SUFFICES ASSUME IInv PROVE TypeOK
    OBVIOUS
  <2>1. id \in 0 .. MaxId /\ MaxId \in Nat
    BY SlotsNow, TrackerAssumption
  <2>2. ASSUME NEW s \in Slots
        PROVE  slot[s].mean_prob \in 0 .. N_prob * ActivityMax
    <3>1. /\ slot[s].mean_prob \in Nat /\ slot[s].n_prob \in Nat /\ slot[s].n_prob <= N_prob
          /\ slot[s].mean_prob <= slot[s].n_prob * ActivityMax
      BY SlotsNow, SlotFields DEF Settled
    <3>2. slot[s].n_prob * ActivityMax <= N_prob * ActivityMax
      BY <3>1, MoreFrames, TrackerAssumption
    <3>3. /\ slot[s].n_prob * ActivityMax \in Nat
          /\ N_prob * ActivityMax \in Nat
      BY <3>1, TrackerAssumption
    <3> DEFINE a == slot[s].n_prob * ActivityMax
               b == N_prob * ActivityMax
    <3> HIDE DEF a, b
    <3> QED BY <3>1, <3>2, <3>3 DEF a, b
  <2>3. ASSUME NEW s \in Slots
        PROVE  /\ slot[s].ids \in 0 .. id
               /\ slot[s].type \in {"I", "P", "A", "T"}
               /\ slot[s].n_prob \in 0 .. N_prob
               /\ slot[s].n_inactive \in Nat
               /\ slot[s].activity \in 0 .. ActivityMax
    BY SlotsNow, SlotFields, TrackerAssumption
  <2>4. out \in [Slots -> 0 .. id]
    BY SlotsNow DEF IInv
  <2> QED BY <2>1, <2>2, <2>3, <2>4, SlotsNow DEF TypeOK
<1> QED BY Inductive, <1>1, PTL

(* The three arrays ids, tags and type of mod_sst.c always agree.             *)
THEOREM SlotsAreConsistent ==
  Spec => []SlotsConsistent
<1>1. IInv => SlotsConsistent
  BY SlotsNow DEF SlotsConsistent, Tracked, Settled
<1> QED BY Inductive, <1>1, PTL

(* No identifier and no target has two slots.                                *)
THEOREM IdentitiesAreOwn ==
  Spec => []NoSharedIdentity
<1>1. IInv => NoSharedIdentity
  BY DEF IInv, Orderly, Distinct, Now, NoSharedIdentity, Tracked
<1> QED BY Inductive, <1>1, PTL

(* Nobody is confirmed before the end of all N_prob frames of probation.      *)
THEOREM ProbationIsServed ==
  Spec => []ProbationServed
<1>1. IInv => ProbationServed
  <2> SUFFICES ASSUME IInv, NEW s \in Tracked, slot[s].tags = "dynamic"
               PROVE  CASE slot[s].type = "P" -> slot[s].n_prob < N_prob
                        [] slot[s].type = "A" -> /\ slot[s].n_prob = N_prob
                                                 /\ slot[s].mean_prob >= theta_prob * N_prob
    BY DEF ProbationServed
  <2>1. s \in Slots /\ slot[s].ids # 0
    BY DEF Tracked
  <2>2. slot[s].type \in {"P", "A"}
    BY <2>1, SlotsNow DEF Settled
  <2>3. CASE slot[s].type = "P"
    BY <2>1, <2>3 DEF IInv, Probing
  <2>4. CASE slot[s].type = "A"
    BY <2>1, <2>4, SlotsNow DEF Settled, Convinced
  <2> QED BY <2>2, <2>3, <2>4
<1> QED BY Inductive, <1>1, PTL

(* No active source outlives the longest silence allowed.                    *)
THEOREM SilenceIsBounded ==
  Spec => []SilenceBounded
<1>1. IInv => SilenceBounded
  BY DEF IInv
<1> QED BY Inductive, <1>1, PTL

(* An identifier names one source in the lifetime of the tracker.             *)
THEOREM IdentitiesAreFresh ==
  Spec => FreshIdentity
<1>1. ASSUME IInv, [Next]_vars
      PROVE  [\A s \in Slots : slot'[s].ids \notin {0, slot[s].ids} => slot'[s].ids > id]_vars
  <2>1. CASE Frame
    BY <1>1, <2>1, FrameStep DEF FrameFacts, Follows, Now
  <2>2. CASE Blank \/ UNCHANGED vars
    BY <2>2 DEF Blank, vars
  <2> QED BY <1>1, <2>1, <2>2 DEF Next
<1> QED BY Inductive, <1>1, PTL DEF Spec, FreshIdentity

(* What is published in a slot is one source until the slot is seen empty.    *)
THEOREM IdentitiesDoNotSwitch ==
  Spec => NoIdentitySwitch
<1>1. ASSUME IInv, [Next]_vars
      PROVE  [\A s \in Slots : out[s] # 0 => out'[s] \in {0, out[s]}]_vars
  <2>1. CASE Frame
    <3>1. FrameFacts
      BY <1>1, <2>1, FrameStep
    <3>2. ASSUME NEW s \in Slots, out[s] # 0
          PROVE  out'[s] \in {0, out[s]}
      <4>1. out[s] = slot[s].ids
        BY <1>1, <3>2 DEF IInv
      <4> QED BY <3>1, <3>2, <4>1 DEF FrameFacts
    <3> QED BY <3>2
  <2>2. CASE Blank \/ UNCHANGED vars
    BY <2>2 DEF Blank, vars
  <2> QED BY <1>1, <2>1, <2>2 DEF Next
<1> QED BY Inductive, <1>1, PTL DEF Spec, NoIdentitySwitch

(* A source that ends its probation well is published in the same frame.      *)
THEOREM ConfirmedArePublished ==
  Spec => ConfirmedIsPublished
<1>1. ASSUME IInv, [Next]_vars
      PROVE  [\A s \in Slots : slot[s].ids # 0 /\ slot[s].type = "P" /\ slot'[s].type = "A"
                => slot'[s].ids = slot[s].ids /\ out'[s] = slot[s].ids]_vars
  <2>1. CASE Frame
    <3>1. FrameFacts
      BY <1>1, <2>1, FrameStep
    <3> QED BY <3>1 DEF FrameFacts
  <2>2. CASE Blank \/ UNCHANGED vars
    BY <2>2 DEF Blank, vars
  <2> QED BY <1>1, <2>1, <2>2 DEF Next
<1> QED BY Inductive, <1>1, PTL DEF Spec, ConfirmedIsPublished

-----------------------------------------------------------------------------
(* What separation and classification remember (SourceMemory).  The tracker    *)
(* publishes 0 between two sources of a slot (IdentitiesDoNotSwitch), and so    *)
(* every memory that forgets when it sees a free slot follows one source.       *)

Ids == 1 .. MaxId
NoiseRecord == [idsPrev : Nat, l : 0 .. L + 1, from : SUBSET Ids, Smin : Nat, Stmp : Nat]
CategoryRecord == [cat : {0, 1}, rs : SUBSET Ids, tausNow : Nat, tausPrev : Nat]

(* The ages in the first window, when both minima began with the source, and    *)
(* in the later ones, where the minimum goes back to the window before.          *)
Windows(n) ==
  \/ n.Smin = n.l /\ n.Stmp = n.l
  \/ n.Stmp = n.l + 1 /\ n.Smin \in {n.l + L + 2, n.l + L + 3}

OwnNoise(n, i) ==
  /\ n \in NoiseRecord /\ n.idsPrev = i
  /\ i # 0 => n.from = {i} /\ Windows(n)
OwnCategory(k, i) ==
  /\ k \in CategoryRecord
  /\ IF i = 0 THEN k.cat = 0 /\ k.rs = {} /\ k.tausNow = 0 ELSE k.rs = {i} /\ k.tausNow = i

Followed(i) == IF i = 0 THEN {} ELSE {i}
Own ==
  /\ tracksNow = out /\ out \in [Slots -> 0 .. MaxId]
  /\ \A s \in Slots :
       /\ demixing[s] \subseteq Ids /\ (out[s] # 0 => demixing[s] = {out[s]})
       /\ speech[s] = Followed(out[s])
       /\ OwnNoise(noise[s], out[s])
       /\ OwnCategory(category[s], out[s])
  /\ category \in [Slots -> CategoryRecord]
MemoryInv == IInv /\ Own

(* The next identifiers: those of before, or of nobody, or new where nobody was. *)
NextIds(ids) == ids \in [Slots -> 0 .. MaxId] /\ \A s \in Slots : out[s] # 0 => ids[s] \in {0, out[s]}

(* One slot of the noise estimate, with the same source, another or none.        *)
LEMMA NoiseFollows ==
  ASSUME MemoryParameters, NEW i \in Nat, NEW j \in 0 .. MaxId, NEW n, OwnNoise(n, i),
         i # 0 => j \in {0, i}
  PROVE  OwnNoise(Noise(n, j), j)
<1> USE DEF MemoryParameters
<1>1. /\ n \in NoiseRecord /\ n.idsPrev = i /\ n.l \in 0 .. L + 1 /\ n.from \in SUBSET Ids
      /\ n.Smin \in Nat /\ n.Stmp \in Nat
      /\ i # 0 => n.from = {i} /\ Windows(n)
  BY DEF OwnNoise, NoiseRecord
<1>2. CASE j = 0
  <2>1. Noise(n, j) = [n EXCEPT !.idsPrev = 0]
    BY <1>2 DEF Noise
  <2> QED BY <1>1, <1>2, <2>1 DEF OwnNoise, NoiseRecord
<1>3. CASE j # 0
  <2> DEFINE begun == IF n.idsPrev = 0 THEN Reset(n) ELSE n
             m == [[begun EXCEPT !.idsPrev = j] EXCEPT !.from = @ \cup {j}]
  <2>1. Noise(n, j) = Windowed(m)
    BY <1>3 DEF Noise
  <2>2. m \in NoiseRecord /\ m.idsPrev = j /\ m.from = {j} /\ Windows(m)
    <3>1. j \in Ids
      BY <1>3 DEF Ids
    <3>2. CASE n.idsPrev = 0
      <4>1. begun = Reset(n)
        BY <3>2
      <4>2. /\ begun \in NoiseRecord /\ begun.l = 0 /\ begun.from = {}
            /\ begun.Smin = 0 /\ begun.Stmp = 0
        <5>1. 0 \in 0 .. L + 1 /\ 0 \in Nat /\ {} \in SUBSET Ids
          OBVIOUS
        <5> QED BY <1>1, <4>1, <5>1 DEF Reset, NoiseRecord
      <4> HIDE DEF begun
      <4>3. {} \cup {j} = {j} /\ {j} \in SUBSET Ids /\ j \in Nat
        BY <3>1
      <4>4. /\ m \in NoiseRecord /\ m.idsPrev = j /\ m.from = {j}
            /\ m.l = 0 /\ m.Smin = 0 /\ m.Stmp = 0
        BY <4>2, <4>3 DEF NoiseRecord
      <4> QED BY <4>4 DEF Windows
    <3>3. CASE n.idsPrev # 0
      <4>1. begun = n /\ i # 0 /\ i = j /\ n.from = {j}
        BY <1>1, <1>3, <3>3
      <4> HIDE DEF begun
      <4>2. m \in NoiseRecord /\ m.idsPrev = j /\ m.from = {j}
        BY <1>1, <3>1, <4>1 DEF NoiseRecord
      <4>3. m.l = n.l /\ m.Smin = n.Smin /\ m.Stmp = n.Stmp /\ Windows(n)
        BY <1>1, <4>1 DEF NoiseRecord
      <4> QED BY <4>2, <4>3 DEF Windows
    <3> QED BY <3>2, <3>3
  <2> HIDE DEF m
  <2>3. /\ m.l \in 0 .. L + 1 /\ m.Smin \in Nat /\ m.Stmp \in Nat
        /\ m.l <= L => Older(m.Smin) = m.Smin + 1
        /\ m.Stmp < MaxAge
    BY <2>2 DEF NoiseRecord, Windows, Older
  <2>4. Older(m.Stmp) = m.Stmp + 1
    BY <2>3 DEF Older
  <2>5. CASE m.l <= L
    <3> DEFINE w == [m EXCEPT !.l = @ + 1, !.Smin = Older(@), !.Stmp = Older(@)]
    <3>1. Windowed(m) = w
      BY <2>5 DEF Windowed
    <3>2. /\ w.l = m.l + 1 /\ w.Smin = m.Smin + 1 /\ w.Stmp = m.Stmp + 1
          /\ w.idsPrev = j /\ w.from = {j} /\ w \in NoiseRecord
      <4>1. /\ w = [m EXCEPT !.l = m.l + 1, !.Smin = m.Smin + 1, !.Stmp = m.Stmp + 1]
            /\ m.l + 1 \in 0 .. L + 1 /\ m.Smin + 1 \in Nat /\ m.Stmp + 1 \in Nat
        <5>1. Older(m.Smin) = m.Smin + 1
          BY <2>3, <2>5
        <5>2. /\ m.l + 1 \in 0 .. L + 1 /\ m.Smin + 1 \in Nat
              /\ m.Stmp + 1 \in Nat
          BY <2>3, <2>5
        <5> QED BY <2>4, <5>1, <5>2
      <4> HIDE DEF w
      <4> QED BY <2>2, <4>1 DEF NoiseRecord
    <3> HIDE DEF w
    <3>3. Windows(w)
      BY <2>2, <2>3, <3>2 DEF Windows
    <3> QED BY <2>1, <3>1, <3>2, <3>3 DEF OwnNoise
  <2>6. CASE m.l > L
    <3> DEFINE w == [m EXCEPT !.l = 0, !.Smin = Older(m.Stmp), !.Stmp = 1]
    <3>1. Windowed(m) = w
      BY <2>3, <2>6 DEF Windowed
    <3>2. /\ w.l = 0 /\ w.Smin = m.Stmp + 1 /\ w.Stmp = 1
          /\ w.idsPrev = j /\ w.from = {j} /\ w \in NoiseRecord
      <4>1. /\ w = [m EXCEPT !.l = 0, !.Smin = m.Stmp + 1, !.Stmp = 1]
            /\ 0 \in 0 .. L + 1 /\ m.Stmp + 1 \in Nat /\ 1 \in Nat
        BY <2>3, <2>4
      <4> HIDE DEF w
      <4> QED BY <2>2, <4>1 DEF NoiseRecord
    <3> HIDE DEF w
    <3>3. Windows(w)
      BY <2>2, <2>3, <2>6, <3>2 DEF Windows
    <3> QED BY <2>1, <3>1, <3>2, <3>3 DEF OwnNoise
  <2> QED BY <2>3, <2>5, <2>6
<1> QED BY <1>2, <1>3

(* The rows of the demixing matrix are put back where they came from: two active  *)
(* slots have two numbers among the active ones.                                 *)
LEMMA RowsAreNumbered ==
  ASSUME NEW ids, NEW r \in Active(ids), NEW s \in Active(ids),
         iActiveSource(ids, r) = iActiveSource(ids, s)
  PROVE  r = s
<1>1. ASSUME NEW p \in Active(ids), NEW q \in Active(ids), p < q
      PROVE  iActiveSource(ids, p) # iActiveSource(ids, q)
  <2> DEFINE P == {t \in Active(ids) : t < p}
             Q == {t \in Active(ids) : t < q}
  <2>1. Active(ids) \subseteq Slots /\ IsFiniteSet(Slots) /\ Slots \in SUBSET Nat
    <3>1. nTracksMax \in Nat
      BY TrackerAssumption
    <3>2. IsFiniteSet(1 .. nTracksMax)
      BY <3>1, FS_Interval
    <3> QED BY <3>2, SlotsAreNumbers DEF Active, Slots
  <2>2. P \subseteq Q /\ p \in Q /\ p \notin P
    <3>1. p \in Nat /\ q \in Nat
      BY <2>1
    <3>2. ASSUME NEW t \in Active(ids), t < p
          PROVE  t < q
      <4>1. t \in Nat
        BY <2>1
      <4> QED BY <1>1, <3>1, <3>2, <4>1
    <3>3. ~ (p < p)
      BY <3>1
    <3> QED BY <1>1, <3>2, <3>3
  <2>3. IsFiniteSet(Q)
    BY <2>1, FS_Subset
  <2> QED BY <2>2, <2>3, FS_Subset DEF iActiveSource
<1>2. r \in Nat /\ s \in Nat
  BY TrackerAssumption DEF Active, Slots
<1> QED BY <1>1, <1>2

LEMMA RowsFollow ==
  ASSUME Own, NEW ids, NextIds(ids), NEW s \in Slots, steer2demixing_gss_process(ids, tracksNow)
  PROVE  /\ demixing'[s] \subseteq Ids
         /\ ids[s] # 0 => demixing'[s] = {ids[s]}
<1>1. demixing'[s] = IF ids[s] = 0 THEN demixing[s] ELSE PutBack(ids, Wnp1(ids, tracksNow), s)
  BY DEF steer2demixing_gss_process
<1>2. CASE ids[s] = 0
  BY <1>1, <1>2 DEF Own
<1>3. CASE ids[s] # 0
  <2> DEFINE i == iActiveSource(ids, s)
             q == CHOOSE r \in Active(ids) : iActiveSource(ids, r) = i
  <2>1. s \in Active(ids)
    BY <1>3 DEF Active
  <2>2. q \in Active(ids) /\ iActiveSource(ids, q) = i
    BY <2>1
  <2>3. q = s
    BY <2>1, <2>2, RowsAreNumbered
  <2>4. PutBack(ids, Wnp1(ids, tracksNow), s) = Loaded(ids, tracksNow, q) \cup {ids[q]}
    BY <2>1 DEF PutBack, Wnp1
  <2>5. Loaded(ids, tracksNow, s) \in {{}, {ids[s]}}
    BY <1>3 DEF Loaded, Own, NextIds
  <2>6. ids[s] \in Ids
    BY <1>3 DEF NextIds, Ids
  <2> HIDE DEF i, q
  <2> QED BY <1>1, <1>3, <2>3, <2>4, <2>5, <2>6
<1> QED BY <1>2, <1>3

(* One round of the loop of pitch2category_process: slot s follows the new         *)
(* identifiers, and the others lose no more than tausPrev.                       *)
LEMMA RoundFollows ==
  ASSUME NEW ids, NextIds(ids), NEW isSpeech, NEW s \in Slots,
         NEW f \in [Slots -> CategoryRecord], NEW before, \A r \in Slots : OwnCategory(f[r], before[r]),
         before[s] = out[s], \A r \in Slots : out[r] \in Nat /\ before[r] \in Nat
  PROVE  /\ Classified(f, s, ids, isSpeech) \in [Slots -> CategoryRecord]
         /\ \A r \in Slots : OwnCategory(Classified(f, s, ids, isSpeech)[r],
                                         IF r = s THEN ids[s] ELSE before[r])
<1>0. /\ \A r \in Slots : f[r] \in CategoryRecord
      /\ ids[s] # 0 => ids[s] \in Ids
      /\ ids[s] \in Nat
  BY TrackerAssumption DEF OwnCategory, NextIds, Ids
<1>1. CASE ids[s] = 0
  <2>1. Classified(f, s, ids, isSpeech) =
          [f EXCEPT ![s] = [@ EXCEPT !.tausNow = 0, !.rs = {}, !.cat = 0]]
    BY <1>1 DEF Classified
  <2>2. OwnCategory([f[s] EXCEPT !.tausNow = 0, !.rs = {}, !.cat = 0], 0)
    BY <1>0 DEF OwnCategory, CategoryRecord
  <2> DEFINE k == [f[s] EXCEPT !.tausNow = 0, !.rs = {}, !.cat = 0]
  <2> HIDE DEF k
  <2>3. Classified(f, s, ids, isSpeech) = [f EXCEPT ![s] = k] /\ OwnCategory(k, 0)
    BY <2>1, <2>2 DEF k
  <2> QED BY <1>1, <2>3 DEF OwnCategory
<1>2. CASE ids[s] # 0 /\ f[s].cat = 1
  <2>1. Classified(f, s, ids, isSpeech) = f
    BY <1>2 DEF Classified
  <2>2. before[s] # 0
    BY <1>2 DEF OwnCategory
  <2>3. ids[s] = before[s]
    BY <1>2, <2>2 DEF NextIds
  <2> QED BY <2>1, <2>3
<1>3. CASE ids[s] # 0 /\ f[s].cat # 1
  <2> DEFINE k == [f[s] EXCEPT !.tausNow = ids[s], !.rs = @ \cup {ids[s]},
                               !.cat = IF s \in isSpeech THEN 1 ELSE 0]
             now == [f EXCEPT ![s] = k]
             g == [r \in Slots |-> [now[r] EXCEPT !.tausPrev = now[r].tausNow]]
  <2>1. Classified(f, s, ids, isSpeech) = g
    BY <1>3 DEF Classified
  <2>2. f[s].rs \in {{}, {ids[s]}}
    BY <1>3 DEF OwnCategory, NextIds
  <2>3. OwnCategory(k, ids[s])
    BY <1>0, <1>3, <2>2 DEF OwnCategory, CategoryRecord
  <2> HIDE DEF k
  <2>4. \A r \in Slots : OwnCategory(now[r], IF r = s THEN ids[s] ELSE before[r])
    BY <2>3
  <2> HIDE DEF now
  <2>5. ASSUME NEW r \in Slots, NEW i \in Nat, OwnCategory(now[r], i)
        PROVE  OwnCategory(g[r], i)
    <3>1. g[r] = [now[r] EXCEPT !.tausPrev = now[r].tausNow]
      OBVIOUS
    <3> HIDE DEF g
    <3> QED BY <2>5, <3>1 DEF OwnCategory, CategoryRecord
  <2>6. g = [r \in Slots |-> g[r]]
    OBVIOUS
  <2> HIDE DEF g
  <2>7. ASSUME NEW r \in Slots
        PROVE  OwnCategory(g[r], IF r = s THEN ids[s] ELSE before[r])
    BY <1>0, <2>4, <2>5
  <2>8. \A r \in Slots : g[r] \in CategoryRecord
    BY <2>7 DEF OwnCategory
  <2> QED BY <2>1, <2>6, <2>7, <2>8
<1> QED BY <1>1, <1>2, <1>3

(* All rounds.                                                                   *)
LEMMA CategoriesFollow ==
  ASSUME IInv, Own, NEW ids, NextIds(ids), NEW isSpeech, pitch2category_process(ids, isSpeech)
  PROVE  /\ category' \in [Slots -> CategoryRecord]
         /\ \A s \in Slots : OwnCategory(category'[s], ids[s])
<1> DEFINE n == nTracksMax
           F == [Slots -> CategoryRecord]
           upto(i) == [r \in Slots |-> IF r <= i THEN ids[r] ELSE out[r]]
           G == [i \in 0 .. n |-> {f \in F : \A r \in Slots : OwnCategory(f[r], upto(i)[r])}]
           IsLoop(h) == h = [i \in 0 .. n |-> IF i = 0 THEN category
                                              ELSE Classified(h[i - 1], i, ids, isSpeech)]
           loop == CHOOSE h : IsLoop(h)
           step == [i \in 1 .. n |-> [g \in F |-> Classified(g, i, ids, isSpeech)]]
<1>1. n \in Nat /\ Slots = 1 .. n
  BY TrackerAssumption DEF Slots
<1>2. category' = loop[n]
  BY DEF pitch2category_process
<1>3. ASSUME NEW i \in 1 .. n, NEW g \in G[i - 1]
      PROVE  Classified(g, i, ids, isSpeech) \in G[i]
  <2>1. i - 1 \in 0 .. n /\ i \in 0 .. n /\ i \in Slots /\ ~ (i <= i - 1)
    BY <1>1
  <2>2. g \in F /\ \A r \in Slots : OwnCategory(g[r], upto(i - 1)[r])
    BY <2>1
  <2>3. upto(i - 1)[i] = out[i]
    BY <2>1
  <2>4. \A r \in Slots : out[r] \in Nat /\ ids[r] \in Nat
    BY TrackerAssumption DEF Own, NextIds
  <2>5. ASSUME NEW r \in Slots
        PROVE  /\ upto(i - 1)[r] \in Nat
               /\ upto(i)[r] = IF r = i THEN ids[i] ELSE upto(i - 1)[r]
    <3>1. r <= i <=> r = i \/ r <= i - 1
      BY <1>1
    <3> QED BY <2>4, <3>1
  <2> HIDE DEF upto, G
  <2>6. /\ Classified(g, i, ids, isSpeech) \in F
        /\ \A r \in Slots : OwnCategory(Classified(g, i, ids, isSpeech)[r],
                                        IF r = i THEN ids[i] ELSE upto(i - 1)[r])
    BY <2>1, <2>2, <2>3, <2>4, <2>5, RoundFollows
  <2>7. \A r \in Slots : OwnCategory(Classified(g, i, ids, isSpeech)[r], upto(i)[r])
    BY <2>5, <2>6
  <2> QED BY <2>1, <2>6, <2>7 DEF G
<1>4. category \in G[0]
  <2>1. \A r \in Slots : upto(0)[r] = out[r] /\ 0 \in 0 .. n
    BY <1>1
  <2>2. category \in F /\ \A r \in Slots : OwnCategory(category[r], out[r])
    BY DEF Own
  <2>3. \A r \in Slots : OwnCategory(category[r], upto(0)[r])
    <3> HIDE DEF upto
    <3> QED BY <2>1, <2>2
  <2>4. 0 \in 0 .. n
    BY <1>1
  <2> HIDE DEF upto, F
  <2> QED BY <2>2, <2>3, <2>4
<1>5. \A i \in 0 .. n : G[i] \subseteq F
  OBVIOUS
<1>6. \A f \in G[n], r \in Slots : OwnCategory(f[r], ids[r])
  <2>1. \A r \in Slots : upto(n)[r] = ids[r]
    BY <1>1
  <2>2. n \in 0 .. n
    BY <1>1
  <2> HIDE DEF upto
  <2> QED BY <2>1, <2>2
<1> HIDE DEF G
<1>7. \E h : IsLoop(h)
  <2>1. PICK h : LoopFcn(category, step, n, h)
    BY <1>1, LoopExists
  <2> HIDE DEF n
  <2>2. h[0] = category /\ h = [i \in 0 .. n |-> h[i]]
    BY <1>1, <2>1 DEF LoopFcn
  <2>3. ASSUME NEW i \in 1 .. n, h[i - 1] \in F
        PROVE  h[i] = Classified(h[i - 1], i, ids, isSpeech)
    <3>1. i \in 0 .. n /\ i # 0 /\ step[i] = [g \in F |-> Classified(g, i, ids, isSpeech)]
      BY <1>1
    <3>2. h[i] = step[i][h[i - 1]]
      <4> HIDE DEF step
      <4> QED BY <2>1, <3>1 DEF LoopFcn
    <3> QED BY <2>3, <3>1, <3>2
  <2> HIDE DEF F, step
  <2>4. \A i \in 0 .. n : h[i] \in G[i]
    <3>1. ASSUME NEW i \in 1 .. n, h[i - 1] \in G[i - 1]
          PROVE  h[i] \in G[i]
      <4>1. i - 1 \in 0 .. n
        BY <1>1
      <4> QED BY <1>3, <1>5, <2>3, <3>1, <4>1
    <3> QED BY <1>1, <1>4, <2>2, <3>1, LoopKeeps
  <2>5. ASSUME NEW i \in 0 .. n
        PROVE  h[i] = IF i = 0 THEN category ELSE Classified(h[i - 1], i, ids, isSpeech)
    <3>1. i # 0 => i \in 1 .. n /\ i - 1 \in 0 .. n
      BY <1>1
    <3> QED BY <1>5, <2>2, <2>3, <2>4, <3>1
  <2> QED BY <2>2, <2>5
<1>8. IsLoop(loop)
  BY <1>7
<1> HIDE DEF loop, n, F
<1>9. loop[0] = category
  BY <1>1, <1>8
<1>10. ASSUME NEW i \in 1 .. n, loop[i - 1] \in G[i - 1]
       PROVE  loop[i] \in G[i]
  <2>1. i \in 0 .. n /\ i # 0
    BY <1>1
  <2>2. loop[i] = Classified(loop[i - 1], i, ids, isSpeech)
    BY <1>8, <2>1
  <2> QED BY <1>3, <1>10, <2>2
<1> HIDE DEF IsLoop
<1>11. \A i \in 0 .. n : loop[i] \in G[i]
  BY <1>1, <1>4, <1>9, <1>10, LoopKeeps
<1>12. n \in 0 .. n
  BY <1>1
<1> QED BY <1>2, <1>5, <1>6, <1>11, <1>12 DEF F

(* What the tracker publishes is what NextIds says.                              *)
LEMMA PublishedFollow ==
  ASSUME IInv, Frame
  PROVE  NextIds(out')
<1>1. IInv' /\ FrameFacts
  BY FrameStep
<1>2. ASSUME NEW s \in Slots, out[s] # 0
      PROVE  out'[s] \in {0, out[s]}
  <2>1. out[s] = slot[s].ids
    BY <1>2 DEF IInv
  <2> QED BY <1>1, <1>2, <2>1 DEF FrameFacts
<1>3. /\ id' \in Nat /\ id' <= MaxId
      /\ \A s \in Slots : slot'[s].ids \in Nat /\ slot'[s].ids <= id'
  <2>1. Now' \in Frames /\ Now'.id = id' /\ Now'.slot = slot' /\ id' <= MaxId
    BY <1>1 DEF IInv, Orderly, Now
  <2>2. \A s \in Slots : Settled(Now'.slot[s], Now'.id)
    BY <1>1 DEF IInv, Orderly
  <2> QED BY <2>1, <2>2, FrameTypes, SlotFields DEF Settled
<1>4. out' \in [Slots -> 0 .. MaxId]
  BY <1>1, <1>3, TrackerAssumption DEF FrameFacts
<1> QED BY <1>2, <1>4 DEF NextIds

(* A frame of the tracker and then of separation and classification.             *)
LEMMA MemoryStep ==
  ASSUME MemoryParameters, MemoryInv, [MemoryFrame]_<<vars, memory>>
  PROVE  MemoryInv'
<1>1. CASE MemoryFrame
  <2>1. Frame /\ mod_sss_process(out') /\ mod_classify_process(out')
    BY <1>1 DEF MemoryFrame
  <2>2. IInv' /\ NextIds(out')
    BY <2>1, FrameStep, PublishedFollow DEF MemoryInv
  <2>3. PICK isSpeech \in SUBSET Slots : pitch2category_process(out', isSpeech)
    BY <2>1 DEF mod_classify_process
  <2>4. /\ category' \in [Slots -> CategoryRecord]
        /\ \A s \in Slots : OwnCategory(category'[s], out'[s])
    BY <2>2, <2>3, CategoriesFollow DEF MemoryInv
  <2>5. \A s \in Slots : /\ demixing'[s] \subseteq Ids
                         /\ out'[s] # 0 => demixing'[s] = {out'[s]}
    BY <2>1, <2>2, RowsFollow DEF mod_sss_process, MemoryInv
  <2>6. \A s \in Slots : OwnNoise(noise'[s], out'[s])
    <3>1. ASSUME NEW s \in Slots
          PROVE  OwnNoise(Noise(noise[s], out'[s]), out'[s])
      <4>1. /\ out[s] \in Nat /\ out'[s] \in 0 .. MaxId /\ OwnNoise(noise[s], out[s])
            /\ out[s] # 0 => out'[s] \in {0, out[s]}
        <5>1. out[s] \in 0 .. MaxId /\ OwnNoise(noise[s], out[s])
          BY DEF MemoryInv, Own
        <5>2. out'[s] \in 0 .. MaxId /\ (out[s] # 0 => out'[s] \in {0, out[s]})
          BY <2>2 DEF NextIds
        <5> QED BY <5>1, <5>2
      <4> QED BY <4>1, NoiseFollows
    <3>2. \A s \in Slots : noise'[s] = Noise(noise[s], out'[s])
      BY <2>1 DEF mod_sss_process, env2env_mcra_process
    <3> QED BY <3>1, <3>2
  <2>7. \A s \in Slots : speech'[s] = Followed(out'[s])
    <3>1. ASSUME NEW s \in Slots
          PROVE  Smoothed(s, out'[s]) = Followed(out'[s])
      <4>1. speech[s] \in {{}, {out[s]}} /\ (out[s] = 0 => speech[s] = {})
        BY DEF MemoryInv, Own, Followed
      <4> QED BY <2>2, <4>1 DEF Smoothed, NextIds, Followed
    <3>2. \A s \in Slots : speech'[s] = Smoothed(s, out'[s])
      BY <2>1 DEF mod_sss_process, env2env_speech_process
    <3> QED BY <3>1, <3>2
  <2>8. tracksNow' = out' /\ out' \in [Slots -> 0 .. MaxId]
    BY <2>1, <2>2 DEF mod_sss_process, NextIds
  <2>9. Own'
    <3>1. \A s \in Slots : OwnNoise(noise[s], out[s])' /\ OwnCategory(category[s], out[s])'
      BY <2>4, <2>6 DEF OwnNoise, OwnCategory
    <3>2. (\A s \in Slots : /\ demixing[s] \subseteq Ids
                            /\ out[s] # 0 => demixing[s] = {out[s]}
                            /\ speech[s] = Followed(out[s]))'
      BY <2>5, <2>7
    <3> QED BY <2>4, <2>8, <3>1, <3>2 DEF Own
  <2> QED BY <2>2, <2>9 DEF MemoryInv
<1>2. CASE UNCHANGED <<vars, memory>>
  <2>1. IInv'
    BY <1>2, StutterStep DEF MemoryInv
  <2>2. Own'
    BY <1>2 DEF MemoryInv, Own, memory, vars
  <2> QED BY <2>1, <2>2 DEF MemoryInv
<1> QED BY <1>1, <1>2

LEMMA MemoryInitially ==
  ASSUME MemoryParameters, SourceInit
  PROVE  MemoryInv
<1>1. IInv
  BY Initially DEF SourceInit
<1>2. out = [s \in Slots |-> 0] /\ 0 \in 0 .. MaxId
  BY TrackerAssumption DEF SourceInit, Init
<1>3. OwnNoise(NoNoise, 0)
  <2>1. 0 \in 0 .. L + 1 /\ 0 \in Nat /\ {} \in SUBSET Ids
    BY DEF MemoryParameters
  <2> QED BY <2>1 DEF OwnNoise, NoNoise, NoiseRecord
<1>4. NoCategory \in CategoryRecord /\ OwnCategory(NoCategory, 0)
  BY DEF OwnCategory, NoCategory, CategoryRecord
<1> QED BY <1>1, <1>2, <1>3, <1>4 DEF SourceInit, MemoryInit, MemoryInv, Own, Followed

(* What separation and classification keep of each slot follows what the tracker  *)
(* publishes, frame by frame, for every tracker and every length of the window.   *)
THEOREM MemoryIsInductive ==
  ASSUME MemoryParameters
  PROVE  MemorySpec => []MemoryInv
<1>1. SourceInit => MemoryInv
  BY MemoryInitially
<1>2. MemoryInv /\ [MemoryFrame]_<<vars, memory>> => MemoryInv'
  BY MemoryStep
<1> QED BY <1>1, <1>2, PTL DEF MemorySpec

(* The arrays of mod_sss and mod_classify hold identifiers the tracker gave out,   *)
(* and the frames counted in a window of the noise never exceed L + 1.            *)
THEOREM MemoryTypesCorrect ==
  ASSUME MemoryParameters
  PROVE  MemorySpec => []MemoryTypeOK
<1>1. MemoryInv => MemoryTypeOK
  <2> SUFFICES ASSUME MemoryInv PROVE MemoryTypeOK
    OBVIOUS
  <2>1. ASSUME NEW s \in Slots
        PROVE  /\ demixing[s] \subseteq Ids /\ speech[s] \subseteq Ids
               /\ noise[s].l \in 0 .. L + 1
               /\ category[s].cat \in {0, 1} /\ category[s].rs \subseteq Ids
    <3>1. /\ out[s] \in 0 .. MaxId /\ demixing[s] \subseteq Ids
          /\ speech[s] = Followed(out[s])
          /\ noise[s] \in NoiseRecord /\ category[s] \in CategoryRecord
      BY DEF MemoryInv, Own, OwnNoise, OwnCategory
    <3>2. speech[s] \subseteq Ids
      BY <3>1, TrackerAssumption DEF Ids, Followed
    <3> QED BY <3>1, <3>2 DEF NoiseRecord, CategoryRecord
  <2> QED BY <2>1 DEF MemoryInv, Own, MemoryTypeOK, Ids
<1> QED BY MemoryIsInductive, <1>1, PTL

(* What separation and classification use for a published source was computed     *)
(* from this source alone, although only the demixing rows compare identifiers.   *)
THEOREM SourcesAreTheirOwn ==
  ASSUME MemoryParameters
  PROVE  MemorySpec => []StateFollowsIdentity
<1>1. MemoryInv => StateFollowsIdentity
  BY DEF MemoryInv, Own, OwnNoise, OwnCategory, Followed, StateFollowsIdentity, Active
<1> QED BY MemoryIsInductive, <1>1, PTL

(* The minimum that stands for the noise of a source is taken over two windows     *)
(* at most, and over one at least once the source has been here so long.          *)
THEOREM NoiseIsWindowed ==
  ASSUME MemoryParameters
  PROVE  MemorySpec => []NoiseWindow
<1>1. MemoryInv => NoiseWindow
  <2> SUFFICES ASSUME MemoryInv, NEW s \in Active(out)
               PROVE  /\ noise[s].Smin <= 2 * (L + 2)
                      /\ noise[s].Stmp <= noise[s].Smin
                      /\ noise[s].Stmp < noise[s].Smin => noise[s].Smin >= L + 2
    BY DEF NoiseWindow
  <2>1. noise[s] \in NoiseRecord /\ Windows(noise[s])
    BY DEF MemoryInv, Own, OwnNoise, Active
  <2>2. /\ noise[s].l \in 0 .. L + 1 /\ noise[s].Smin \in Nat /\ noise[s].Stmp \in Nat
    BY <2>1 DEF NoiseRecord
  <2> QED BY <2>1, <2>2 DEF Windows, MemoryParameters
<1> QED BY MemoryIsInductive, <1>1, PTL

=============================================================================
