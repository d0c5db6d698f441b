---------------------------- MODULE Fusion_proofs ---------------------------
(***************************************************************************)
(* Reciprocal rank fusion is a ranking: the chunks found are totally       *)
(* ordered, each has one place, and the first top_k of them are returned   *)
(* in that order, for every depth of retrieval and every constant k.       *)
(***************************************************************************)
EXTENDS Fusion, Places_proofs

-----------------------------------------------------------------------------
(***************************************************************************)
(* Rankings.                                                               *)
(***************************************************************************)
\* A ranking names no chunk twice and is no longer than candidate_k.
LEMMA RankingFacts ==
  ASSUME NEW S, NEW s \in Rankings(S)
  PROVE  /\ Len(s) \in 0..CandidateK /\ DOMAIN s = 1..Len(s) /\ s \in [1..Len(s) -> S]
         /\ Range(s) \subseteq S /\ IsInjective(s)
         /\ IsFiniteSet(Range(s))
         /\ \A c \in Range(s) : Rank(c, s) \in 1..Len(s) /\ s[Rank(c, s)] = c
         /\ \A i \in 1..Len(s) : Rank(s[i], s) = i
<1>1. PICK n \in 0..CandidateK : s \in [1..n -> S]
  BY DEF Rankings, SeqOf
<1>2. n \in Nat /\ Len(s) = n
  BY <1>1, FusionAssumption
<1>3. IsInjective(s)
  BY DEF Rankings
<1>4. Range(s) \subseteq S
  BY <1>1 DEF Range
<1>5. \A c \in Range(s) : Rank(c, s) \in 1..n /\ s[Rank(c, s)] = c
  BY <1>1 DEF Range, Rank
<1>6. \A i \in 1..n : Rank(s[i], s) = i
  BY <1>1, <1>3, <1>5 DEF IsInjective, Range
<1>7. IsFiniteSet(Range(s))
  <2>1. IsFiniteSet(1..n)
    BY <1>2, FS_Interval
  <2>2. s \in Surjection(1..n, Range(s))
    BY <1>1 DEF Surjection, Range
  <2> QED  BY <2>1, <2>2, FS_Surjection
<1> QED  BY <1>1, <1>2, <1>3, <1>4, <1>5, <1>6, <1>7

\* The least of two numbers.
LEMMA MinOfTwo ==
  ASSUME NEW a \in Nat, NEW b \in Nat
  PROVE  Min({a, b}) = IF a <= b THEN a ELSE b
<1>1. \E x \in {a, b} : \A y \in {a, b} : x <= y
  OBVIOUS
<1>2. Min({a, b}) \in {a, b} /\ \A y \in {a, b} : Min({a, b}) <= y
  BY <1>1 DEF Min
<1> QED  BY <1>2

-----------------------------------------------------------------------------
(***************************************************************************)
(* Scores.                                                                 *)
(***************************************************************************)
Fractions == [num : Nat, den : Nat \ {0}]

\* What is written over a common denominator is a fraction.
LEMMA PlusIsAFraction ==
  ASSUME NEW x \in Fractions, NEW y \in Fractions
  PROVE  Plus(x, y) \in Fractions
<1>1. x.num \in Nat /\ x.den \in Nat \ {0} /\ y.num \in Nat /\ y.den \in Nat \ {0}
  BY DEF Fractions
<1>2. \A a, b \in Nat : a * b \in Nat
  OBVIOUS
<1>3. \A a, b \in Nat \ {0} : a * b # 0
  OBVIOUS
<1>4. x.num * y.den \in Nat /\ y.num * x.den \in Nat /\ x.den * y.den \in Nat
  BY <1>1, <1>2
<1>5. x.den * y.den # 0
  BY <1>1, <1>3
<1> HIDE <1>2, <1>3
<1>6. x.num * y.den + y.num * x.den \in Nat
  BY <1>4
<1> QED  BY <1>4, <1>5, <1>6 DEF Plus, Fractions

\* Being greater is a strict weak order.
LEMMA ExceedsOrders ==
  ASSUME NEW x \in Fractions, NEW y \in Fractions, NEW z \in Fractions
  PROVE  /\ Exceeds(x, y) => ~Exceeds(y, x)
         /\ ~Exceeds(x, y) /\ ~Exceeds(y, z) => ~Exceeds(x, z)
<1>1. /\ x.num \in Nat /\ x.den \in Nat \ {0}
      /\ y.num \in Nat /\ y.den \in Nat \ {0}
      /\ z.num \in Nat /\ z.den \in Nat \ {0}
  BY DEF Fractions
<1>2. Exceeds(x, y) => ~Exceeds(y, x)
  <2>1. \A a, b \in Nat : a * b \in Nat
    OBVIOUS
  <2>2. x.num * y.den \in Nat /\ y.num * x.den \in Nat
    BY <1>1, <2>1
  <2> QED  BY <2>2 DEF Exceeds
<1>3. ASSUME ~Exceeds(x, y), ~Exceeds(y, z) PROVE ~Exceeds(x, z)
  <2>1. \A a, b, c, d, e, f \in Nat :
           b > 0 /\ d > 0 /\ f > 0 /\ a * d <= c * b /\ c * f <= e * d => a * f <= e * b
    <3> TAKE a, b, c, d, e, f \in Nat
    <3> HAVE b > 0 /\ d > 0 /\ f > 0 /\ a * d <= c * b /\ c * f <= e * d
    <3>1. (a * d) * f <= (c * b) * f
      OBVIOUS
    <3>2. (c * f) * b <= (e * d) * b
      OBVIOUS
    <3>3. (a * f) * d <= (e * b) * d
      BY <3>1, <3>2
    <3> QED  BY <3>3
  <2>2. x.num * y.den <= y.num * x.den /\ y.num * z.den <= z.num * y.den
    <3>1. \A a, b, c, d \in Nat : ~(a * b > c * d) => a * b <= c * d
      OBVIOUS
    <3> QED  BY <1>1, <1>3, <3>1 DEF Exceeds
  <2>3. x.num * z.den <= z.num * x.den
    BY <1>1, <2>1, <2>2
  <2>4. \A a, b, c, d \in Nat : a * b <= c * d => ~(a * b > c * d)
    OBVIOUS
  <2> QED  BY <1>1, <2>3, <2>4 DEF Exceeds
<1> QED  BY <1>2, <1>3

\* A sum of two terms none of which is greater is not greater.
LEMMA PlusMonotone ==
  ASSUME NEW x \in Fractions, NEW y \in Fractions, NEW v \in Fractions, NEW w \in Fractions,
         ~Exceeds(x, v), ~Exceeds(y, w)
  PROVE  ~Exceeds(Plus(x, y), Plus(v, w))
<1>1. /\ x.num \in Nat /\ x.den \in Nat /\ y.num \in Nat /\ y.den \in Nat
      /\ v.num \in Nat /\ v.den \in Nat /\ w.num \in Nat /\ w.den \in Nat
  BY DEF Fractions
<1>2. \A a, b, c, d, e, f, g, h \in Nat :
         a * f <= e * b /\ c * h <= g * d
            => (a * d + c * b) * (f * h) <= (e * h + g * f) * (b * d)
  <2> TAKE a, b, c, d, e, f, g, h \in Nat
  <2> HAVE a * f <= e * b /\ c * h <= g * d
  <2>1. (a * f) * (d * h) <= (e * b) * (d * h)
    OBVIOUS
  <2>2. (c * h) * (b * f) <= (g * d) * (b * f)
    OBVIOUS
  <2>3. (a * d + c * b) * (f * h) = (a * f) * (d * h) + (c * h) * (b * f)
    OBVIOUS
  <2>4. (e * h + g * f) * (b * d) = (e * b) * (d * h) + (g * d) * (b * f)
    OBVIOUS
  <2> QED  BY <2>1, <2>2, <2>3, <2>4
<1>3. \A a, b, c, d \in Nat : ~(a * b > c * d) => a * b <= c * d
  OBVIOUS
<1>4. x.num * v.den <= v.num * x.den /\ y.num * w.den <= w.num * y.den
  BY <1>1, <1>3 DEF Exceeds
<1>5. (x.num * y.den + y.num * x.den) * (v.den * w.den)
         <= (v.num * w.den + w.num * v.den) * (x.den * y.den)
  BY <1>1, <1>2, <1>4
<1>6. Plus(x, y).num * Plus(v, w).den <= Plus(v, w).num * Plus(x, y).den
  BY <1>5 DEF Plus
<1>7. \A p, q \in Fractions : p.num * q.den <= q.num * p.den => ~Exceeds(p, q)
  <2> TAKE p, q \in Fractions
  <2>1. p.num \in Nat /\ p.den \in Nat /\ q.num \in Nat /\ q.den \in Nat
    BY DEF Fractions
  <2>2. \A a, b, c, d \in Nat : a * b <= c * d => ~(a * b > c * d)
    OBVIOUS
  <2> QED  BY <2>1, <2>2 DEF Exceeds
<1> QED  BY <1>6, <1>7, PlusIsAFraction

-----------------------------------------------------------------------------
(***************************************************************************)
(* The order of the chunks found.                                          *)
(***************************************************************************)
Found(dense, sparse) == Range(dense) \union Range(sparse)

\* The score of a chunk in one ranking, and in both.
LEMMA ScoresAreFractions ==
  ASSUME NEW S, NEW dense \in Rankings(S), NEW sparse \in Rankings(S), NEW c
  PROVE  /\ ScoreIn(c, dense) \in Fractions /\ ScoreIn(c, sparse) \in Fractions
         /\ Score(c, dense, sparse) \in Fractions
<1>1. ASSUME NEW s \in Rankings(S)
      PROVE  ScoreIn(c, s) \in Fractions
  <2>1. c \in Range(s) => Rank(c, s) \in 1..Len(s) /\ Len(s) \in Nat
    BY <1>1, RankingFacts, FusionAssumption
  <2>2. CASE c \in Range(s)
    <3>1. RrfK + Rank(c, s) \in Nat \ {0}
      BY <2>1, <2>2, FusionAssumption
    <3> QED  BY <2>2, <3>1 DEF ScoreIn, LegScore, Fractions
  <2>3. CASE c \notin Range(s)
    BY <2>3 DEF ScoreIn, Fractions
  <2> QED  BY <2>2, <2>3
<1> QED  BY <1>1, PlusIsAFraction DEF Score

\* No two chunks were first seen at the same place.
LEMMA FirstSeenOnce ==
  ASSUME NEW S, NEW dense \in Rankings(S), NEW sparse \in Rankings(S),
         NEW c \in Found(dense, sparse), NEW d \in Found(dense, sparse)
  PROVE  /\ FirstSeen(c, dense, sparse) \in Nat
         /\ FirstSeen(c, dense, sparse) = FirstSeen(d, dense, sparse) => c = d
<1>1. Len(dense) \in Nat /\ Len(sparse) \in Nat
  BY RankingFacts, FusionAssumption
<1>2. \A x \in Range(dense) : Rank(x, dense) \in 1..Len(dense) /\ dense[Rank(x, dense)] = x
  BY RankingFacts
<1>3. \A x \in Range(sparse) : Rank(x, sparse) \in 1..Len(sparse) /\ sparse[Rank(x, sparse)] = x
  BY RankingFacts
<1> QED  BY <1>1, <1>2, <1>3 DEF FirstSeen, Found

\* Sorting by score and first appearance leaves no tie.
LEMMA BeforeOrders ==
  ASSUME NEW S, NEW dense \in Rankings(S), NEW sparse \in Rankings(S)
  PROVE  StrictlyOrders({p \in Found(dense, sparse) \X Found(dense, sparse) :
                            Before(p[1], p[2], dense, sparse)},
                        Found(dense, sparse))
<1> DEFINE found == Found(dense, sparse)
           score(c) == Score(c, dense, sparse)
           seen(c) == FirstSeen(c, dense, sparse)
           above(b, c) == \/ Exceeds(score(b), score(c))
                          \/ ~Exceeds(score(c), score(b)) /\ seen(b) < seen(c)
<1>1. \A b, c \in found : Before(b, c, dense, sparse) <=> above(b, c)
  BY DEF Before
<1>2. \A c \in found : score(c) \in Fractions
  BY ScoresAreFractions
<1>3. \A b, c \in found : /\ seen(b) \in Nat
                          /\ b # c => seen(b) # seen(c)
  BY FirstSeenOnce
<1>4. \A b, c \in found : Exceeds(score(b), score(c)) => ~Exceeds(score(c), score(b))
  BY <1>2, ExceedsOrders
<1>5. \A b, c, d \in found :
         ~Exceeds(score(b), score(c)) /\ ~Exceeds(score(c), score(d))
            => ~Exceeds(score(b), score(d))
  BY <1>2, ExceedsOrders
<1> HIDE DEF found, score, seen
<1>6. \A c \in found : ~above(c, c)
  BY <1>3, <1>4
<1>7. \A b, c \in found : b # c => above(b, c) \/ above(c, b)
  BY <1>3
<1>8. ASSUME NEW b \in found, NEW c \in found, NEW d \in found, above(b, c), above(c, d)
      PROVE  above(b, d)
  <2>1. ~Exceeds(score(c), score(b)) /\ ~Exceeds(score(d), score(c))
    BY <1>4, <1>8
  <2>2. ~Exceeds(score(d), score(b))
    BY <1>5, <2>1
  <2>3. CASE Exceeds(score(b), score(c)) \/ Exceeds(score(c), score(d))
    BY <1>5, <2>1, <2>3
  <2>4. CASE seen(b) < seen(c) /\ seen(c) < seen(d)
    BY <1>3, <2>2, <2>4
  <2> QED  BY <1>8, <2>3, <2>4
<1> HIDE DEF above
<1> DEFINE R == {p \in found \X found : Before(p[1], p[2], dense, sparse)}
<1>9. \A b, c \in found : <<b, c>> \in R <=> above(b, c)
  BY <1>1
<1> HIDE DEF R
<1>10. StrictlyOrders(R, found)
  BY <1>6, <1>7, <1>8, <1>9 DEF StrictlyOrders
<1> QED  BY <1>10 DEF R, found

\* reciprocal_rank_fusion and the cut at top_k: a ranking of the chunks either
\* leg found, each once and at most top_k of them, empty only when both legs
\* came back empty; a chunk that sorts before one that was taken was taken too,
\* and stands before it.
THEOREM FusionTakesTheTop ==
  ASSUME NEW S, NEW dense \in Rankings(S), NEW sparse \in Rankings(S)
  PROVE  /\ Fuse(dense, sparse) \in Rankings(S)
         /\ Range(Fuse(dense, sparse)) \subseteq Found(dense, sparse)
         /\ Fuse(dense, sparse) = <<>> <=> Found(dense, sparse) = {}
         /\ Len(Fuse(dense, sparse)) \in 0..TopK
         /\ \A b \in Found(dense, sparse), w \in Range(Fuse(dense, sparse)) :
               Before(b, w, dense, sparse)
                  => /\ b \in Range(Fuse(dense, sparse))
                     /\ Rank(b, Fuse(dense, sparse)) < Rank(w, Fuse(dense, sparse))
<1> DEFINE found == Found(dense, sparse)
           R == {p \in found \X found : Before(p[1], p[2], dense, sparse)}
           place(c) == PlaceIn(R, found, c)
           n == Min({TopK, Cardinality(found)})
           merged == Fuse(dense, sparse)
<1>1. IsFiniteSet(found) /\ found \subseteq S
  BY RankingFacts, FS_Union DEF Found
<1>2. StrictlyOrders(R, found)
  BY BeforeOrders
<1>3. Cardinality(found) \in Nat
  BY <1>1, FS_CardinalityType
<1>4. n \in Nat /\ n <= TopK /\ n <= Cardinality(found)
  BY <1>3, MinOfTwo, FusionAssumption
<1>5. \A c \in found : place(c) = 1 + Cardinality({d \in found : Before(d, c, dense, sparse)})
  <2> TAKE c \in found
  <2>1. {d \in found : <<d, c>> \in R} = {d \in found : Before(d, c, dense, sparse)}
    OBVIOUS
  <2> QED  BY <2>1 DEF PlaceIn
<1>6. \A c \in found : /\ place(c) \in 1..Cardinality(found)
                       /\ \A d \in found : Before(c, d, dense, sparse) => place(c) < place(d)
  <2> TAKE c \in found
  <2>1. place(c) \in 1..Cardinality(found)
    BY <1>1, <1>2, PlacesIncrease
  <2>2. \A d \in found : <<c, d>> \in R => place(c) < place(d)
    BY <1>1, <1>2, PlacesIncrease
  <2> QED  BY <2>1, <2>2
<1>7. \A i \in 1..Cardinality(found) :
         \E c \in found : place(c) = i /\ \A d \in found : place(d) = i => d = c
  BY <1>1, <1>2, PlacesAreTaken
<1>8. merged = [i \in 1..n |-> CHOOSE c \in found :
                   1 + Cardinality({d \in found : Before(d, c, dense, sparse)}) = i]
  BY DEF Fuse, Found
<1> HIDE DEF place, R, n, merged, found
<1>9. /\ merged \in [1..n -> found]
      /\ \A i \in 1..n : place(merged[i]) = i
      /\ \A c \in found : place(c) <= n => place(c) \in 1..n /\ merged[place(c)] = c
  <2>1. \A i \in 1..n : merged[i] \in found /\ place(merged[i]) = i
    <3> TAKE i \in 1..n
    <3>1. i \in 1..Cardinality(found)
      BY <1>3, <1>4
    <3>2. \E c \in found : 1 + Cardinality({d \in found : Before(d, c, dense, sparse)}) = i
      BY <1>5, <1>7, <3>1
    <3>3. merged[i] \in found
          /\ 1 + Cardinality({d \in found : Before(d, merged[i], dense, sparse)}) = i
      BY <1>8, <3>2
    <3> QED  BY <1>5, <3>3
  <2>2. ASSUME NEW c \in found, place(c) <= n PROVE place(c) \in 1..n /\ merged[place(c)] = c
    <3>1. place(c) \in 1..n /\ place(c) \in 1..Cardinality(found)
      BY <1>3, <1>4, <1>6, <2>2
    <3>2. merged[place(c)] \in found /\ place(merged[place(c)]) = place(c)
      BY <2>1, <3>1
    <3> QED  BY <1>7, <3>1, <3>2
  <2>3. merged \in [1..n -> found]
    BY <1>8, <2>1
  <2> QED  BY <2>1, <2>2, <2>3
<1>10. DOMAIN merged = 1..n /\ Len(merged) = n
  BY <1>4, <1>9
<1>11. IsInjective(merged)
  BY <1>9, <1>10 DEF IsInjective
<1>12. n \in 0..CandidateK
  BY <1>4, FusionAssumption
<1>13. merged \in [1..n -> S]
  BY <1>1, <1>9
<1>14. merged \in Rankings(S)
  BY <1>11, <1>12, <1>13 DEF Rankings, SeqOf
<1>15. Range(merged) \subseteq found
  BY <1>9, <1>10 DEF Range
<1>16. \A c \in Range(merged) : Rank(c, merged) = place(c) /\ place(c) \in 1..n
  <2> TAKE c \in Range(merged)
  <2>1. PICK i \in 1..n : merged[i] = c
    BY <1>10 DEF Range
  <2>2. Rank(merged[i], merged) = i
    BY <1>10, <1>14, RankingFacts
  <2> QED  BY <1>9, <2>1, <2>2
<1>17. ASSUME NEW b \in found, NEW w \in Range(merged), Before(b, w, dense, sparse)
       PROVE  b \in Range(merged) /\ Rank(b, merged) < Rank(w, merged)
  <2>1. place(b) < place(w) /\ place(w) <= n /\ place(b) \in Nat /\ place(w) \in Nat
    BY <1>3, <1>4, <1>6, <1>15, <1>16, <1>17
  <2>2. place(b) \in 1..n /\ merged[place(b)] = b
    BY <1>4, <1>9, <2>1
  <2>3. b \in Range(merged)
    BY <1>10, <2>2 DEF Range
  <2> QED  BY <1>16, <2>1, <2>3
<1>18. merged = <<>> <=> found = {}
  <2>1. n = 0 <=> Cardinality(found) = 0
    BY <1>3, <1>4, MinOfTwo, FusionAssumption DEF n
  <2>2. Cardinality(found) = 0 <=> found = {}
    BY <1>1, FS_EmptySet
  <2>3. merged = <<>> <=> n = 0
    BY <1>4, <1>9, <1>10
  <2> QED  BY <2>1, <2>2, <2>3
<1> QED  BY <1>4, <1>10, <1>14, <1>15, <1>17, <1>18 DEF found, merged
=============================================================================
