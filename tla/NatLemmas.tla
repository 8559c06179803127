------------------------------ MODULE NatLemmas ------------------------------
(* What the scans of server and RAM disk rely on: a least element exists.  *)
EXTENDS Integers, WellFoundedInduction, TLAPS

\* Every set of natural numbers has a smallest element; the scans for the oldest
\* and for the next completion (udp_server.cxx, 160-166 and 275-281) find it.
LEMMA NatHasMinimum ==
  ASSUME NEW S \in SUBSET Nat, S # {}
  PROVE  \E m \in S : \A n \in S : m <= n
PROOF
  <1> DEFINE Less == {p \in Nat \X Nat : p[1] < p[2]}
  <1>1. Less = OpToRel(<, Nat)
    BY DEF OpToRel
  <1>2. IsWellFoundedOn(Less, Nat)
    BY <1>1, NatLessThanWellFounded
  <1>3. PICK m \in S : \A n \in S : ~ (<<n, m>> \in Less)
    BY <1>2, WFMin
  <1>4. ASSUME NEW n \in S PROVE m <= n
    <2>1. m \in Nat /\ n \in Nat
      OBVIOUS
    <2>2. n < m => <<n, m>> \in Less
      BY <2>1
    <2> QED BY <1>3, <2>1, <2>2
  <1> QED BY <1>4

\* A scan of an array with a strict comparison finds the first of the smallest:
\* of the indices in S, the one with the least time, the lowest among equals.
LEMMA FirstOfSmallest ==
  ASSUME NEW S \in SUBSET Nat, S # {}, NEW time, \A c \in S : time[c] \in Nat
  PROVE  \E c \in S : \A d \in S : time[c] < time[d] \/ (time[c] = time[d] /\ c <= d)
PROOF
  <1>1. PICK t \in {time[c] : c \in S} : \A u \in {time[c] : c \in S} : t <= u
    <2>1. {time[c] : c \in S} \in SUBSET Nat /\ {time[c] : c \in S} # {}
      OBVIOUS
    <2> QED BY <2>1, NatHasMinimum
  <1>2. PICK c \in {e \in S : time[e] = t} : \A d \in {e \in S : time[e] = t} : c <= d
    <2>1. {e \in S : time[e] = t} \in SUBSET Nat /\ {e \in S : time[e] = t} # {}
      BY <1>1
    <2> QED BY <2>1, NatHasMinimum
  <1>3. c \in S /\ time[c] = t
    BY <1>2
  <1>4. ASSUME NEW d \in S PROVE time[c] < time[d] \/ (time[c] = time[d] /\ c <= d)
    <2>1. t <= time[d]
      BY <1>1
    <2>2. CASE time[d] = t
      BY <1>2, <1>3, <2>2
    <2>3. CASE time[d] # t
      <3>1. time[d] \in Nat /\ time[c] \in Nat
        BY <1>3
      <3> QED BY <1>3, <2>1, <2>3, <3>1
    <2> QED BY <2>2, <2>3
  <1> QED BY <1>3, <1>4
==============================================================================
