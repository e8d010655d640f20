---------------------------- MODULE DiscoveryProofs ----------------------------
(***************************************************************************)
(* Proofs about Discovery, for every number of ancestors.                  *)
(***************************************************************************)
EXTENDS Discovery, TLAPS

(* While a walk is on, what has been there all along is not below it; and   *)
(* where it has ended is above nothing that has been there all along.       *)
Placed ==
    /\ walk # 0 => base = 0 /\ \A mark \in steady : mark[1] >= walk
    /\ ~Unlocated => steady \subseteq marks /\ marks \subseteq ever
    /\ NeverAboveRepo

PlaceStep == Discover \/ Ascend \/ Leave \/ Move \/ UNCHANGED placeVars

LEMMA PlacedInit ==
  ASSUME marks \subseteq Marks, DiscoveryInit
  PROVE  DiscoveryTypeOK /\ Placed
BY DiscoveryAssumption
   DEF DiscoveryInit, DiscoveryTypeOK, Placed, Unlocated, NeverAboveRepo

LEMMA PlacedAscend ==
  ASSUME DiscoveryTypeOK, Placed, Ascend
  PROVE  DiscoveryTypeOK' /\ Placed'
<1>1. /\ Depth \in Nat \ {0} /\ walk \in 1..Depth /\ base = 0
      /\ steady \subseteq marks /\ marks \subseteq ever
      /\ \A mark \in steady : mark[1] >= walk
      /\ UNCHANGED <<marks, steady, ever>>
  BY DiscoveryAssumption DEF Ascend, Placed, DiscoveryTypeOK, Unlocated
<1>2. \A mark \in steady : mark[1] \in 1..Depth
  BY DEF DiscoveryTypeOK, Marks
<1>3. CASE \E mark \in marks : mark[1] = walk
  <2>1. walk' = 0 /\ base' = walk
    BY <1>3 DEF Ascend
  <2>2. \E mark \in ever' : mark[1] = base'
    BY <1>1, <1>3, <2>1
  <2> QED
    BY <1>1, <2>1, <2>2 DEF Placed, NeverAboveRepo, Unlocated, DiscoveryTypeOK
<1>4. CASE ~\E mark \in marks : mark[1] = walk
  <2>1. \A mark \in steady : mark[1] >= walk + 1
    BY <1>1, <1>2, <1>4
  <2>2. CASE walk < Depth
    <3>1. walk' = walk + 1 /\ base' = 0
      BY <1>1, <1>4, <2>2 DEF Ascend
    <3>2. \A mark \in steady' : mark[1] >= walk'
      BY <1>1, <2>1, <3>1
    <3> QED
      BY <1>1, <2>2, <3>1, <3>2 DEF Placed, NeverAboveRepo, Unlocated, DiscoveryTypeOK
  <2>3. CASE ~(walk < Depth)
    <3>1. walk' = 0 /\ base' = 1
      BY <1>4, <2>3 DEF Ascend
    <3>2. steady = {}
      BY <1>1, <1>2, <2>1, <2>3
    <3> QED
      BY <1>1, <3>1, <3>2 DEF Placed, NeverAboveRepo, Unlocated, DiscoveryTypeOK
  <2> QED
    BY <2>2, <2>3
<1> QED
  BY <1>3, <1>4

LEMMA PlacedMove ==
  ASSUME DiscoveryTypeOK, Placed, Move
  PROVE  DiscoveryTypeOK' /\ Placed'
<1>1. UNCHANGED <<walk, base>> /\ marks' \subseteq Marks
  BY DEF Move, DiscoveryTypeOK
<1>2. CASE Unlocated
  BY <1>1, <1>2 DEF Move, Unlocated, Placed, NeverAboveRepo, DiscoveryTypeOK
<1>3. CASE ~Unlocated
  <2>1. steady' = steady \cap marks' /\ ever' = ever \cup marks'
    BY <1>3 DEF Move
  <2>2. DiscoveryTypeOK'
    BY <1>1, <2>1 DEF DiscoveryTypeOK
  <2>3. NeverAboveRepo'
    BY <1>1, <2>1 DEF Placed, NeverAboveRepo
  <2> QED
    BY <1>1, <2>1, <2>2, <2>3 DEF Placed, Unlocated
<1> QED
  BY <1>2, <1>3

(* Whatever a step does to the place, the walk keeps its promise. *)
LEMMA PlacedStep ==
  ASSUME DiscoveryTypeOK, Placed, PlaceStep
  PROVE  DiscoveryTypeOK' /\ Placed'
<1>1. CASE Discover
  <2>1. /\ walk' = 1 /\ base' = 0 /\ steady' = marks /\ ever' = marks /\ marks' = marks
    BY <1>1 DEF Discover, Unlocated
  <2>2. \A mark \in marks : mark[1] >= 1
    BY DEF DiscoveryTypeOK, Marks
  <2> QED
    BY <2>1, <2>2, DiscoveryAssumption DEF DiscoveryTypeOK, Placed, Unlocated, NeverAboveRepo
<1>2. CASE Leave
  BY <1>2, DiscoveryAssumption DEF Leave, DiscoveryTypeOK, Placed, Unlocated, NeverAboveRepo
<1>3. CASE UNCHANGED placeVars
  BY <1>3 DEF placeVars, DiscoveryTypeOK, Placed, Unlocated, NeverAboveRepo
<1> QED
  BY <1>1, <1>2, <1>3, PlacedAscend, PlacedMove DEF PlaceStep
=============================================================================
