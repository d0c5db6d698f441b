---------------------------- MODULE Places_proofs ---------------------------
(***************************************************************************)
(* Places in a strict total order of a finite set, by which the fused      *)
(* chunks (Fusion) and the listed drafts (Delivery) are put in sequence.   *)
(***************************************************************************)
EXTENDS Integers, FiniteSets, Functions, FiniteSetTheorems, TLAPS

StrictlyOrders(R, S) ==
    /\ \A c \in S : <<c, c>> \notin R
    /\ \A c, d \in S : c # d => <<c, d>> \in R \/ <<d, c>> \in R
    /\ \A b, c, d \in S : <<b, c>> \in R /\ <<c, d>> \in R => <<b, d>> \in R

PlaceIn(R, S, c) == 1 + Cardinality({d \in S : <<d, c>> \in R})

\* An element has a place within the set, after those before it.
LEMMA PlacesIncrease ==
  ASSUME NEW S, IsFiniteSet(S), NEW R, StrictlyOrders(R, S), NEW c \in S
  PROVE  /\ PlaceIn(R, S, c) \in 1..Cardinality(S)
         /\ \A d \in S : <<c, d>> \in R => PlaceIn(R, S, c) < PlaceIn(R, S, d)
<1> DEFINE Below(d) == {e \in S : <<e, d>> \in R}
<1>1. \A d \in S : /\ IsFiniteSet(Below(d)) /\ Cardinality(Below(d)) \in Nat
                   /\ Cardinality(Below(d)) <= Cardinality(S) - 1
  <2> TAKE d \in S
  <2>1. IsFiniteSet(S \ {d}) /\ Cardinality(S \ {d}) = Cardinality(S) - 1
    BY FS_RemoveElement
  <2>2. Below(d) \subseteq S \ {d}
    BY DEF StrictlyOrders
  <2>3. IsFiniteSet(Below(d)) /\ Cardinality(Below(d)) <= Cardinality(S \ {d})
    BY <2>1, <2>2, FS_Subset
  <2> QED  BY <2>1, <2>3, FS_CardinalityType
<1>2. Cardinality(S) \in Nat
  BY FS_CardinalityType
<1>3. ASSUME NEW d \in S, <<c, d>> \in R PROVE Cardinality(Below(c)) < Cardinality(Below(d))
  <2>1. Below(c) \subseteq Below(d)
    BY <1>3 DEF StrictlyOrders
  <2>2. c \in Below(d) /\ c \notin Below(c)
    BY <1>3 DEF StrictlyOrders
  <2>3. Cardinality(Below(c)) <= Cardinality(Below(d))
        /\ (Cardinality(Below(d)) = Cardinality(Below(c)) => Below(d) = Below(c))
    BY <1>1, <2>1, FS_Subset
  <2>4. Cardinality(Below(c)) # Cardinality(Below(d))
    BY <2>2, <2>3
  <2> HIDE DEF Below
  <2> QED  BY <1>1, <2>3, <2>4
<1>4. \A d \in S : PlaceIn(R, S, d) = 1 + Cardinality(Below(d))
  BY DEF PlaceIn
<1> HIDE DEF Below
<1>5. PlaceIn(R, S, c) \in 1..Cardinality(S)
  BY <1>1, <1>2, <1>4
<1>6. ASSUME NEW d \in S, <<c, d>> \in R PROVE PlaceIn(R, S, c) < PlaceIn(R, S, d)
  BY <1>1, <1>3, <1>4, <1>6
<1> QED  BY <1>5, <1>6

\* Every place is taken, by one element.
LEMMA PlacesAreTaken ==
  ASSUME NEW S, IsFiniteSet(S), NEW R, StrictlyOrders(R, S), NEW i \in 1..Cardinality(S)
  PROVE  \E c \in S : PlaceIn(R, S, c) = i /\ \A d \in S : PlaceIn(R, S, d) = i => d = c
<1>1. Cardinality(S) \in Nat
  BY FS_CardinalityType
<1>2. \A c, d \in S : PlaceIn(R, S, c) = PlaceIn(R, S, d) => c = d
  <2> SUFFICES ASSUME NEW c \in S, NEW d \in S, PlaceIn(R, S, c) = PlaceIn(R, S, d), c # d
               PROVE  FALSE
    OBVIOUS
  <2>1. PlaceIn(R, S, c) \in Int /\ PlaceIn(R, S, d) \in Int
    BY <1>1, PlacesIncrease
  <2>2. PlaceIn(R, S, c) < PlaceIn(R, S, d) \/ PlaceIn(R, S, d) < PlaceIn(R, S, c)
    BY PlacesIncrease DEF StrictlyOrders
  <2> QED  BY <2>1, <2>2
<1> DEFINE f == [c \in S |-> PlaceIn(R, S, c)]
<1>3. f \in [S -> 1..Cardinality(S)]
  BY PlacesIncrease
<1>4. f \in Injection(S, 1..Cardinality(S))
  BY <1>2, <1>3 DEF Injection, IsInjective
<1>5. IsFiniteSet(1..Cardinality(S)) /\ Cardinality(1..Cardinality(S)) = Cardinality(S)
  BY <1>1, FS_Interval
<1>6. f \in Surjection(S, 1..Cardinality(S))
  BY <1>4, <1>5, FS_Injection
<1>7. \E c \in S : f[c] = i
  BY <1>6 DEF Surjection
<1> QED  BY <1>2, <1>7

-----------------------------------------------------------------------------
\* What holds of the first place, and of each that follows one of which it
\* holds, holds of all up to the last.
LEMMA StepByStep ==
  ASSUME NEW last \in Nat, NEW S, 0 \in S,
         \A n \in 0..last : n < last /\ n \in S => n + 1 \in S
  PROVE  \A n \in 0..last : n \in S
<1> DEFINE T == (0..last) \ S
           Below == {p \in T \X T : p[1] < p[2]}
<1> SUFFICES ASSUME T # {} PROVE FALSE
  OBVIOUS
<1>1. IsFiniteSet(T) /\ Cardinality(T) \in Nat /\ Cardinality(T) # 0
  <2>1. IsFiniteSet(0..last)
    BY FS_Interval
  <2>2. IsFiniteSet(T)
    BY <2>1, FS_Subset
  <2> QED  BY <2>2, FS_CardinalityType, FS_EmptySet
<1>2. \A m, n \in T : <<m, n>> \in Below <=> m < n
  OBVIOUS
<1>3. T \subseteq Int
  OBVIOUS
<1> HIDE DEF T, Below
<1>4. StrictlyOrders(Below, T)
  BY <1>2, <1>3 DEF StrictlyOrders
<1>5. 1 \in 1..Cardinality(T)
  BY <1>1
<1>6. PICK n \in T : PlaceIn(Below, T, n) = 1
  BY <1>1, <1>4, <1>5, PlacesAreTaken
<1>7. \A m \in T : ~(m < n)
  <2>1. IsFiniteSet({m \in T : <<m, n>> \in Below})
    BY <1>1, FS_Subset
  <2>2. Cardinality({m \in T : <<m, n>> \in Below}) = 0
    BY <1>6, <2>1, FS_CardinalityType DEF PlaceIn
  <2>3. {m \in T : <<m, n>> \in Below} = {}
    BY <2>1, <2>2, FS_EmptySet
  <2> QED  BY <1>2, <2>3
<1> QED
  <2>1. n \in 0..last /\ n \notin S /\ n # 0
    BY DEF T
  <2>2. n - 1 \in 0..last /\ n - 1 < n /\ n - 1 < last /\ n - 1 + 1 = n
    BY <2>1
  <2>3. n - 1 \in S
    BY <1>7, <2>2 DEF T
  <2> QED  BY <2>1, <2>2, <2>3
=============================================================================
