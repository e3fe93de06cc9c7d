--------------------------- MODULE AnsweringProofs ---------------------------
(***************************************************************************)
(* What a query computes, for results, rankings and answers of any length: *)
(* the fusion sorts the candidates by a strict total order, and the        *)
(* evidence package is as full as its limits allow.                        *)
(***************************************************************************)
EXTENDS Answering, FiniteSetTheorems, FunctionTheorems, WellFoundedInduction, TLAPS

Positive == Nat \ {0}
ChunkId == Nat \X Nat

LEMMA Least ==
    ASSUME NEW T, T \subseteq Nat, T # {}
    PROVE  \E x \in T : \A y \in T : x <= y
<1>1. PICK x \in T : \A y \in T : ~ (<<y, x>> \in OpToRel(<, Nat))
  BY NatLessThanWellFounded, WFMin
<1>2. \A y \in T : ~ (y < x)
  BY <1>1 DEF OpToRel
<1> QED BY <1>2

LEMMA MinIsLeast ==
    ASSUME NEW T, T \subseteq Nat, T # {}
    PROVE  Min(T) \in T /\ \A y \in T : Min(T) <= y
BY Least DEF Min

-----------------------------------------------------------------------------
(***************************************************************************)
(* The order of the candidates                                             *)
(***************************************************************************)
LEMMA RankFacts ==
    ASSUME NEW S, NEW hits \in Seq(S), NEW p, Contains(hits, p)
    PROVE  /\ Rank(hits, p) \in 1..Len(hits)
           /\ hits[Rank(hits, p)] = p
           /\ \A i \in 1..Len(hits) : hits[i] = p => Rank(hits, p) <= i
<1> DEFINE T == {i \in DOMAIN hits : hits[i] = p}
<1>1. T \subseteq Nat /\ T # {}
  BY DEF Contains
<1>2. Min(T) \in T /\ \A y \in T : Min(T) <= y
  <2> HIDE DEF T
  <2> QED BY <1>1, MinIsLeast
<1> QED BY <1>2 DEF Rank

\* Different chunks have different ranks.
LEMMA RanksDiffer ==
    ASSUME NEW S, NEW hits \in Seq(S), NEW p, NEW q, Contains(hits, p), Contains(hits, q),
           p # q
    PROVE  Rank(hits, p) # Rank(hits, q)
BY RankFacts

LEMMA SequencesGrow ==
    ASSUME NEW S, NEW T, S \subseteq T, NEW s \in Seq(S)
    PROVE  s \in Seq(T)
OBVIOUS

\* The hits of a search are a sequence of what it may find, if that is finitely much.
LEMMA HitsTyped ==
    ASSUME NEW S, IsFiniteSet(S), NEW hits \in SetToAllKPermutations(S)
    PROVE  hits \in Seq(S)
<1>1. PICK s \in SUBSET S : hits \in [1..Cardinality(s) -> s]
  BY DEF SetToAllKPermutations, SetToSeqs
<1>2. Cardinality(s) \in Nat
  BY FS_Subset, FS_CardinalityType
<1>3. hits \in Seq(s)
  BY <1>1, <1>2
<1> QED BY <1>3, SequencesGrow

LEMMA CandidatesAreRanked ==
    ASSUME NEW S, NEW dense \in Seq(S), NEW sparse \in Seq(S)
    PROVE  /\ Candidates(dense, sparse) \subseteq S
           /\ \A p : p \in Candidates(dense, sparse) <=> Contains(dense, p) \/ Contains(sparse, p)
BY DEF Candidates, ToSet, Contains

LEMMA SequencesAreFinite ==
    ASSUME NEW S, NEW s \in Seq(S)
    PROVE  IsFiniteSet(ToSet(s))
<1>1. s \in Surjection(1..Len(s), ToSet(s))
  <2>1. s \in [1..Len(s) -> ToSet(s)]
    BY DEF ToSet
  <2> QED BY <2>1 DEF Surjection, ToSet
<1>2. IsFiniteSet(1..Len(s))
  BY FS_Interval
<1> QED BY <1>1, <1>2, FS_Surjection

LEMMA CandidatesAreFinite ==
    ASSUME NEW S, NEW dense \in Seq(S), NEW sparse \in Seq(S)
    PROVE  IsFiniteSet(Candidates(dense, sparse))
BY SequencesAreFinite, FS_Union DEF Candidates

\* The score of a candidate, by the results it is in.
LEMMA ScoreCases ==
    ASSUME NEW dense, NEW sparse, NEW p
    PROVE  LET a == RrfK + Rank(dense, p)
               b == RrfK + Rank(sparse, p)
           IN /\ Contains(dense, p) /\ Contains(sparse, p) =>
                    Score(dense, sparse, p) = <<a + b, a * b>>
              /\ Contains(dense, p) /\ ~Contains(sparse, p) => Score(dense, sparse, p) = <<1, a>>
              /\ ~Contains(dense, p) => Score(dense, sparse, p) = <<1, b>>
BY DEF Score

LEMMA ProductsArePositive ==
    ASSUME NEW a \in Positive, NEW b \in Positive
    PROVE  a * b \in Positive /\ a + b \in Positive
BY DEF Positive

LEMMA WeightIsPositive ==
    ASSUME NEW S, NEW hits \in Seq(S), NEW p, Contains(hits, p)
    PROVE  RrfK + Rank(hits, p) \in Positive
<1>1. Rank(hits, p) \in Nat
  BY RankFacts
<1> QED BY <1>1, AnsweringAssumption DEF Positive

LEMMA ScoreIsPositive ==
    ASSUME NEW S, NEW dense \in Seq(S), NEW sparse \in Seq(S),
           NEW p \in Candidates(dense, sparse)
    PROVE  Score(dense, sparse, p)[1] \in Positive /\ Score(dense, sparse, p)[2] \in Positive
<1> DEFINE a == RrfK + Rank(dense, p)
           b == RrfK + Rank(sparse, p)
<1>1. Contains(dense, p) => a \in Positive
  BY WeightIsPositive
<1>2. Contains(sparse, p) => b \in Positive
  BY WeightIsPositive
<1>3. Contains(dense, p) \/ Contains(sparse, p)
  BY CandidatesAreRanked
<1>4. CASE Contains(dense, p) /\ Contains(sparse, p)
  <2>1. Score(dense, sparse, p) = <<a + b, a * b>>
    BY <1>4, ScoreCases
  <2>2. a + b \in Positive /\ a * b \in Positive
    <3> HIDE DEF a, b
    <3> QED BY <1>1, <1>2, <1>4, ProductsArePositive
  <2> HIDE DEF a, b
  <2> QED BY <2>1, <2>2
<1>5. CASE Contains(dense, p) /\ ~Contains(sparse, p)
  BY <1>1, <1>5, ScoreCases DEF Positive
<1>6. CASE ~Contains(dense, p)
  BY <1>2, <1>3, <1>6, ScoreCases DEF Positive
<1> QED BY <1>4, <1>5, <1>6

LEMMA ProductOrder ==
    ASSUME NEW a \in Positive, NEW x \in Nat, NEW y \in Nat
    PROVE  /\ x < y <=> a * x < a * y
           /\ x = y <=> a * x = a * y
<1>1. x < y => a * x < a * y
  BY DEF Positive
<1>2. y < x => a * y < a * x
  BY DEF Positive
<1>3. a * x \in Nat /\ a * y \in Nat
  BY DEF Positive
<1> QED BY <1>1, <1>2, <1>3

LEMMA ProductsCommute ==
    ASSUME NEW a \in Nat, NEW b \in Nat, NEW c \in Nat
    PROVE  /\ a * b \in Nat /\ a * b = b * a
           /\ a * (b * c) = (a * b) * c
           /\ a * (b + c) = a * b + a * c
OBVIOUS

\* The comparison of two fractions, a / b > c / d and c / d >= e / f.
LEMMA FractionsCompare ==
    ASSUME NEW a \in Positive, NEW b \in Positive, NEW c \in Positive,
           NEW d \in Positive, NEW e \in Positive, NEW f \in Positive
    PROVE  /\ a * d > c * b /\ c * f >= e * d => a * f > e * b
           /\ a * d >= c * b /\ c * f > e * d => a * f > e * b
           /\ a * d = c * b /\ c * f = e * d => a * f = e * b
<1>1. /\ a \in Nat /\ b \in Nat /\ c \in Nat /\ d \in Nat /\ e \in Nat /\ f \in Nat
      /\ a * d \in Nat /\ c * b \in Nat /\ c * f \in Nat /\ e * d \in Nat
      /\ a * f \in Nat /\ e * b \in Nat
  BY ProductsCommute DEF Positive
<1>2. d * (a * f) = f * (a * d) /\ d * (e * b) = b * (e * d)
  <2>1. d * (a * f) = (d * a) * f /\ (d * a) * f = f * (d * a) /\ d * a = a * d
    BY <1>1, ProductsCommute
  <2>2. d * (e * b) = (d * e) * b /\ (d * e) * b = b * (d * e) /\ d * e = e * d
    BY <1>1, ProductsCommute
  <2> QED BY <2>1, <2>2
<1>3. f * (c * b) = b * (c * f)
  <2>1. f * (c * b) = (f * c) * b /\ (f * c) * b = b * (f * c) /\ f * c = c * f
    BY <1>1, ProductsCommute
  <2> QED BY <2>1
<1> DEFINE ad == a * d
           cb == c * b
           cf == c * f
           ed == e * d
           af == a * f
           eb == e * b
<1>4. /\ cb < ad => f * cb < f * ad
      /\ cb = ad => f * cb = f * ad
      /\ ed < cf => b * ed < b * cf
      /\ ed = cf => b * ed = b * cf
  <2> HIDE DEF ad, cb, cf, ed
  <2>1. ad \in Nat /\ cb \in Nat /\ cf \in Nat /\ ed \in Nat
    BY <1>1 DEF ad, cb, cf, ed
  <2> QED BY <2>1, ProductOrder
<1>5. /\ eb < af <=> d * eb < d * af
      /\ eb = af <=> d * eb = d * af
  <2> HIDE DEF af, eb
  <2>1. af \in Nat /\ eb \in Nat
    BY <1>1 DEF af, eb
  <2> QED BY <2>1, ProductOrder
<1>6. d * af = f * ad /\ d * eb = b * ed /\ f * cb = b * cf
  BY <1>2, <1>3
<1>7. f * ad \in Nat /\ f * cb \in Nat /\ b * cf \in Nat /\ b * ed \in Nat
  <2> HIDE DEF ad, cb, cf, ed
  <2>1. ad \in Nat /\ cb \in Nat /\ cf \in Nat /\ ed \in Nat
    BY <1>1 DEF ad, cb, cf, ed
  <2> QED BY <1>1, <2>1, ProductsCommute
<1>8. ad \in Nat /\ cb \in Nat /\ cf \in Nat /\ ed \in Nat /\ af \in Nat /\ eb \in Nat
  BY <1>1
<1>9. /\ ad > cb /\ cf >= ed => af > eb
      /\ ad >= cb /\ cf > ed => af > eb
      /\ ad = cb /\ cf = ed => af = eb
  <2> DEFINE x1 == f * ad
             x2 == f * cb
             x3 == b * cf
             x4 == b * ed
  <2>1. /\ cb < ad => x2 < x1
        /\ cb = ad => x2 = x1
        /\ ed < cf => x4 < x3
        /\ ed = cf => x4 = x3
        /\ eb < af <=> x4 < x1
        /\ eb = af <=> x4 = x1
        /\ x2 = x3
    BY <1>4, <1>5, <1>6
  <2>2. x1 \in Nat /\ x2 \in Nat /\ x3 \in Nat /\ x4 \in Nat
    BY <1>7
  <2> HIDE DEF ad, cb, cf, ed, af, eb, x1, x2, x3, x4
  <2> QED BY <1>8, <2>1, <2>2
<1> QED BY <1>9

\* A score made of two ranks against one of one worse rank, or of two.
LEMMA OneIsBetter ==
    ASSUME NEW a \in Positive, NEW b \in Positive, NEW c \in Positive, a < c
    PROVE  (a + b) * c > 1 * (a * b)
<1>1. b * a < b * c
  BY ProductOrder DEF Positive
<1>2. (a + b) * c = a * c + b * c /\ b * a = a * b
  BY DEF Positive
<1>3. a * c \in Nat /\ b * c \in Nat /\ a * b \in Nat
  BY ProductsCommute DEF Positive
<1> DEFINE x == a * c
           y == b * c
           z == a * b
<1>4. z < y /\ (a + b) * c = x + y /\ x \in Nat /\ y \in Nat /\ z \in Nat
  BY <1>1, <1>2, <1>3
<1>5. (a + b) * c > z
  <2> HIDE DEF x, y, z
  <2> QED BY <1>4
<1> QED BY <1>3, <1>5

LEMMA BothAreBetter ==
    ASSUME NEW a \in Positive, NEW b \in Positive, NEW c \in Positive, NEW d \in Positive,
           a < c, b < d
    PROVE  (a + b) * (c * d) > (c + d) * (a * b)
<1> DEFINE cd == c * d
           ab == a * b
<1>1. ab \in Positive /\ cd \in Positive
  BY ProductsArePositive
<1>2. (a + b) * cd = a * cd + b * cd /\ (c + d) * ab = c * ab + d * ab
  <2> HIDE DEF ab, cd
  <2> QED BY <1>1 DEF Positive
<1>3. c * ab < a * cd
  <2>1. c * ab = (a * c) * b /\ a * cd = (a * c) * d
    <3>1. c * (a * b) = (c * a) * b /\ c * a = a * c /\ a * (c * d) = (a * c) * d
      BY ProductsCommute DEF Positive
    <3> QED BY <3>1
  <2>2. a * c \in Positive
    BY ProductsArePositive
  <2>3. (a * c) * b < (a * c) * d
    BY <2>2, ProductOrder DEF Positive
  <2> QED BY <2>1, <2>3
<1>4. d * ab < b * cd
  <2>1. d * ab = (b * d) * a /\ b * cd = (b * d) * c
    <3>1. d * (a * b) = (d * a) * b /\ (d * a) * b = b * (d * a) /\ b * (d * a) = (b * d) * a
      BY ProductsCommute DEF Positive
    <3>2. c * d = d * c /\ b * (d * c) = (b * d) * c
      BY ProductsCommute DEF Positive
    <3> QED BY <3>1, <3>2
  <2>2. b * d \in Positive
    BY ProductsArePositive
  <2>3. (b * d) * a < (b * d) * c
    BY <2>2, ProductOrder DEF Positive
  <2> QED BY <2>1, <2>3
<1>5. /\ c * ab \in Nat /\ a * cd \in Nat /\ d * ab \in Nat /\ b * cd \in Nat
  <2> HIDE DEF ab, cd
  <2> QED BY <1>1, ProductsCommute DEF Positive
<1> DEFINE x == c * ab
           y == a * cd
           z == d * ab
           w == b * cd
<1>6. /\ x < y /\ z < w /\ x \in Nat /\ y \in Nat /\ z \in Nat /\ w \in Nat
      /\ (a + b) * cd = y + w /\ (c + d) * ab = x + z
  BY <1>2, <1>3, <1>4, <1>5
<1>7. (a + b) * cd > (c + d) * ab
  <2> HIDE DEF x, y, z, w, ab, cd
  <2> QED BY <1>6
<1> QED BY <1>7

LEMMA IdsAreOrdered ==
    ASSUME NEW p \in ChunkId, NEW q \in ChunkId, NEW r \in ChunkId
    PROVE  /\ ~IdBefore(p, p)
           /\ IdBefore(p, q) => ~IdBefore(q, p)
           /\ p # q => IdBefore(p, q) \/ IdBefore(q, p)
           /\ IdBefore(p, q) /\ IdBefore(q, r) => IdBefore(p, r)
<1>1. p = <<p[1], p[2]>> /\ q = <<q[1], q[2]>>
  BY DEF ChunkId
<1>2. /\ p[1] \in Nat /\ q[1] \in Nat /\ r[1] \in Nat
      /\ p[2] \in Nat /\ q[2] \in Nat /\ r[2] \in Nat
  BY DEF ChunkId
<1>3. p # q => p[1] # q[1] \/ p[2] # q[2]
  BY <1>1
<1> QED BY <1>2, <1>3 DEF IdBefore

\* The sort key orders the candidates strictly and totally, though scores are equal.
LEMMA PrecedesIsOrder ==
    ASSUME NEW dense \in Seq(ChunkId), NEW sparse \in Seq(ChunkId),
           NEW p \in Candidates(dense, sparse), NEW q \in Candidates(dense, sparse),
           NEW r \in Candidates(dense, sparse)
    PROVE  /\ ~Precedes(dense, sparse, p, p)
           /\ Precedes(dense, sparse, p, q) => ~Precedes(dense, sparse, q, p)
           /\ p # q => Precedes(dense, sparse, p, q) \/ Precedes(dense, sparse, q, p)
           /\ Precedes(dense, sparse, p, q) /\ Precedes(dense, sparse, q, r) =>
                 Precedes(dense, sparse, p, r)
<1> DEFINE a == Score(dense, sparse, p)[1]
           b == Score(dense, sparse, p)[2]
           c == Score(dense, sparse, q)[1]
           d == Score(dense, sparse, q)[2]
           e == Score(dense, sparse, r)[1]
           f == Score(dense, sparse, r)[2]
<1>1. p \in ChunkId /\ q \in ChunkId /\ r \in ChunkId
  BY CandidatesAreRanked
<1>2. /\ a \in Positive /\ b \in Positive /\ c \in Positive
      /\ d \in Positive /\ e \in Positive /\ f \in Positive
  BY ScoreIsPositive
<1>3. /\ Precedes(dense, sparse, p, p) <=> a * b > a * b \/ (a * b = a * b /\ IdBefore(p, p))
      /\ Precedes(dense, sparse, p, q) <=> a * d > c * b \/ (a * d = c * b /\ IdBefore(p, q))
      /\ Precedes(dense, sparse, q, p) <=> c * b > a * d \/ (c * b = a * d /\ IdBefore(q, p))
      /\ Precedes(dense, sparse, q, r) <=> c * f > e * d \/ (c * f = e * d /\ IdBefore(q, r))
      /\ Precedes(dense, sparse, p, r) <=> a * f > e * b \/ (a * f = e * b /\ IdBefore(p, r))
  BY DEF Precedes
<1>4. /\ a * b \in Nat /\ a * d \in Nat /\ c * b \in Nat /\ c * f \in Nat /\ e * d \in Nat
      /\ a * f \in Nat /\ e * b \in Nat
  <2> HIDE DEF a, b, c, d, e, f
  <2> QED BY <1>2, ProductsCommute DEF Positive
<1>5. /\ a * d > c * b /\ c * f >= e * d => a * f > e * b
      /\ a * d >= c * b /\ c * f > e * d => a * f > e * b
      /\ a * d = c * b /\ c * f = e * d => a * f = e * b
  <2> HIDE DEF a, b, c, d, e, f
  <2> QED BY <1>2, FractionsCompare
<1> HIDE DEF a, b, c, d, e, f
<1> DEFINE ab == a * b
           ad == a * d
           cb == c * b
           cf == c * f
           ed == e * d
           af == a * f
           eb == e * b
<1>6. /\ ab \in Nat /\ ad \in Nat /\ cb \in Nat /\ cf \in Nat /\ ed \in Nat
      /\ af \in Nat /\ eb \in Nat
  BY <1>4
<1>7. /\ Precedes(dense, sparse, p, p) <=> ab > ab \/ (ab = ab /\ IdBefore(p, p))
      /\ Precedes(dense, sparse, p, q) <=> ad > cb \/ (ad = cb /\ IdBefore(p, q))
      /\ Precedes(dense, sparse, q, p) <=> cb > ad \/ (cb = ad /\ IdBefore(q, p))
      /\ Precedes(dense, sparse, q, r) <=> cf > ed \/ (cf = ed /\ IdBefore(q, r))
      /\ Precedes(dense, sparse, p, r) <=> af > eb \/ (af = eb /\ IdBefore(p, r))
      /\ ad > cb /\ cf >= ed => af > eb
      /\ ad >= cb /\ cf > ed => af > eb
      /\ ad = cb /\ cf = ed => af = eb
  BY <1>3, <1>5
<1> HIDE DEF ab, ad, cb, cf, ed, af, eb
<1> QED BY <1>1, <1>6, <1>7, IdsAreOrdered

\* The sort is stable under an exchange of the two results.
LEMMA ScoreIsSymmetric ==
    ASSUME NEW S, NEW dense \in Seq(S), NEW sparse \in Seq(S),
           NEW p \in Candidates(dense, sparse)
    PROVE  Score(dense, sparse, p) = Score(sparse, dense, p)
<1> DEFINE a == RrfK + Rank(dense, p)
           b == RrfK + Rank(sparse, p)
<1>1. Contains(dense, p) \/ Contains(sparse, p)
  BY CandidatesAreRanked
<1>2. CASE Contains(dense, p) /\ Contains(sparse, p)
  <2>1. a \in Nat /\ b \in Nat
    BY <1>2, WeightIsPositive DEF Positive
  <2>2. a + b = b + a /\ a * b = b * a
    <3> HIDE DEF a, b
    <3> QED BY <2>1, ProductsCommute
  <2>3. Score(dense, sparse, p) = <<a + b, a * b>> /\ Score(sparse, dense, p) = <<b + a, b * a>>
    BY <1>2, ScoreCases
  <2> HIDE DEF a, b
  <2> QED BY <2>2, <2>3
<1>3. CASE ~Contains(dense, p) \/ ~Contains(sparse, p)
  BY <1>1, <1>3, ScoreCases
<1> QED BY <1>2, <1>3

\* A chunk that is nowhere worse than another, and not the same, precedes it.
LEMMA BetterPrecedes ==
    ASSUME NEW dense \in Seq(ChunkId), NEW sparse \in Seq(ChunkId),
           NEW p \in Candidates(dense, sparse), NEW q \in Candidates(dense, sparse), p # q,
           Contains(dense, q) => Contains(dense, p) /\ Rank(dense, p) <= Rank(dense, q),
           Contains(sparse, q) => Contains(sparse, p) /\ Rank(sparse, p) <= Rank(sparse, q)
    PROVE  Precedes(dense, sparse, p, q)
<1> DEFINE a == RrfK + Rank(dense, p)
           b == RrfK + Rank(sparse, p)
           c == RrfK + Rank(dense, q)
           d == RrfK + Rank(sparse, q)
<1>1. /\ Contains(dense, p) => a \in Positive
      /\ Contains(sparse, p) => b \in Positive
      /\ Contains(dense, q) => c \in Positive
      /\ Contains(sparse, q) => d \in Positive
  BY WeightIsPositive
<1>2. /\ Contains(dense, q) => a < c
      /\ Contains(sparse, q) => b < d
  <2>1. ASSUME Contains(dense, q) PROVE a < c
    <3>1. Rank(dense, p) \in Nat /\ Rank(dense, q) \in Nat /\ Rank(dense, p) # Rank(dense, q)
      BY <2>1, RankFacts, RanksDiffer
    <3> QED BY <2>1, <3>1, AnsweringAssumption
  <2>2. ASSUME Contains(sparse, q) PROVE b < d
    <3>1. Rank(sparse, p) \in Nat /\ Rank(sparse, q) \in Nat /\ Rank(sparse, p) # Rank(sparse, q)
      BY <2>2, RankFacts, RanksDiffer
    <3> QED BY <2>2, <3>1, AnsweringAssumption
  <2> QED BY <2>1, <2>2
<1>3. Contains(dense, q) \/ Contains(sparse, q)
  BY CandidatesAreRanked
<1>4. Score(dense, sparse, p)[1] * Score(dense, sparse, q)[2]
        > Score(dense, sparse, q)[1] * Score(dense, sparse, p)[2]
  <2>1. CASE Contains(dense, q) /\ Contains(sparse, q)
    <3>1. /\ Score(dense, sparse, p) = <<a + b, a * b>>
          /\ Score(dense, sparse, q) = <<c + d, c * d>>
      BY <2>1, ScoreCases
    <3>2. a \in Positive /\ b \in Positive /\ c \in Positive /\ d \in Positive /\ a < c /\ b < d
      BY <1>1, <1>2, <2>1
    <3> HIDE DEF a, b, c, d
    <3>3. (a + b) * (c * d) > (c + d) * (a * b)
      BY <3>2, BothAreBetter
    <3> QED BY <3>1, <3>3
  <2>2. CASE Contains(dense, q) /\ ~Contains(sparse, q)
    <3>1. Score(dense, sparse, q) = <<1, c>> /\ a \in Positive /\ c \in Positive /\ a < c
      BY <1>1, <1>2, <2>2, ScoreCases
    <3>2. CASE Contains(sparse, p)
      <4>1. Score(dense, sparse, p) = <<a + b, a * b>> /\ b \in Positive
        BY <1>1, <2>2, <3>2, ScoreCases
      <4> HIDE DEF a, b, c
      <4>2. (a + b) * c > 1 * (a * b)
        BY <3>1, <4>1, OneIsBetter
      <4> QED BY <3>1, <4>1, <4>2
    <3>3. CASE ~Contains(sparse, p)
      <4>1. Score(dense, sparse, p) = <<1, a>>
        BY <2>2, <3>3, ScoreCases
      <4> HIDE DEF a, c
      <4> QED BY <3>1, <4>1 DEF Positive
    <3> QED BY <3>2, <3>3
  <2>3. CASE ~Contains(dense, q) /\ Contains(sparse, q)
    <3>1. Score(dense, sparse, q) = <<1, d>> /\ b \in Positive /\ d \in Positive /\ b < d
      BY <1>1, <1>2, <2>3, ScoreCases
    <3>2. CASE Contains(dense, p)
      <4>1. Score(dense, sparse, p) = <<a + b, a * b>> /\ a \in Positive
        BY <1>1, <2>3, <3>2, ScoreCases
      <4> HIDE DEF a, b, d
      <4>2. (b + a) * d > 1 * (b * a)
        BY <3>1, <4>1, OneIsBetter
      <4>3. b + a = a + b /\ b * a = a * b
        BY <3>1, <4>1, ProductsCommute DEF Positive
      <4> QED BY <3>1, <4>1, <4>2, <4>3
    <3>3. CASE ~Contains(dense, p)
      <4>1. Score(dense, sparse, p) = <<1, b>>
        BY <3>3, ScoreCases
      <4> HIDE DEF b, d
      <4> QED BY <3>1, <4>1 DEF Positive
    <3> QED BY <3>2, <3>3
  <2> QED BY <1>3, <2>1, <2>2, <2>3
<1> QED BY <1>4 DEF Precedes

-----------------------------------------------------------------------------
(***************************************************************************)
(* The fused list                                                          *)
(***************************************************************************)
\* The places are 1, 2, ... in the order of the candidates.
LEMMA PlacesFollowTheOrder ==
    ASSUME NEW dense \in Seq(ChunkId), NEW sparse \in Seq(ChunkId)
    PROVE  /\ Cardinality(Candidates(dense, sparse)) \in Nat
           /\ Place(dense, sparse) \in
                Bijection(Candidates(dense, sparse), 1..Cardinality(Candidates(dense, sparse)))
           /\ \A p, q \in Candidates(dense, sparse) :
                Precedes(dense, sparse, p, q) => Place(dense, sparse)[p] < Place(dense, sparse)[q]
<1> DEFINE C == Candidates(dense, sparse)
           place == Place(dense, sparse)
           Before(p) == {q \in C : Precedes(dense, sparse, q, p)}
           N == Cardinality(C)
<1>1. IsFiniteSet(C) /\ N \in Nat
  BY CandidatesAreFinite, FS_CardinalityType
<1>2. ASSUME NEW p \in C
      PROVE  /\ IsFiniteSet(Before(p)) /\ Cardinality(Before(p)) \in Nat
             /\ place[p] = 1 + Cardinality(Before(p)) /\ place[p] \in 1..N
  <2>1. Before(p) \subseteq C /\ p \notin Before(p)
    BY PrecedesIsOrder
  <2>2. IsFiniteSet(Before(p)) /\ Cardinality(Before(p)) \in Nat
    BY <1>1, <2>1, FS_Subset, FS_CardinalityType
  <2>3. place[p] = 1 + Cardinality(Before(p))
    BY DEF Place
  <2>4. Cardinality(Before(p)) <= N /\ Cardinality(Before(p)) # N
    <3> HIDE DEF C, Before, N
    <3>1. Before(p) \in SUBSET C /\ Before(p) # C
      BY <2>1
    <3> QED BY <1>1, <3>1, FS_Subset DEF N
  <2> HIDE DEF C, Before, N, place
  <2> QED BY <1>1, <2>2, <2>3, <2>4
<1>3. ASSUME NEW p \in C, NEW q \in C, Precedes(dense, sparse, p, q)
      PROVE  place[p] < place[q]
  <2>1. Before(p) \subseteq Before(q) /\ p \in Before(q) /\ p \notin Before(p)
    BY <1>3, PrecedesIsOrder
  <2>2. Cardinality(Before(p)) <= Cardinality(Before(q)) /\ Cardinality(Before(p)) # Cardinality(Before(q))
    <3>1. IsFiniteSet(Before(q))
      BY <1>2
    <3> HIDE DEF Before
    <3> QED BY <2>1, <3>1, FS_Subset
  <2>3. /\ place[p] = 1 + Cardinality(Before(p)) /\ Cardinality(Before(p)) \in Nat
        /\ place[q] = 1 + Cardinality(Before(q)) /\ Cardinality(Before(q)) \in Nat
    BY <1>2
  <2> HIDE DEF Before, place
  <2> QED BY <2>2, <2>3
<1>4. ASSUME NEW p \in C, NEW q \in C, place[p] = place[q]
      PROVE  p = q
  <2>1. place[p] \in Nat /\ place[q] \in Nat
    <3>1. place[p] \in 1..N /\ place[q] \in 1..N
      BY <1>2
    <3> HIDE DEF place, N
    <3> QED BY <3>1
  <2>2. Precedes(dense, sparse, p, q) \/ Precedes(dense, sparse, q, p) \/ p = q
    BY PrecedesIsOrder
  <2> HIDE DEF C, place
  <2> QED BY <1>3, <1>4, <2>1, <2>2
<1>5. place \in [C -> 1..N]
  <2>1. place = [p \in C |-> place[p]]
    BY DEF Place
  <2> HIDE DEF C, place, N
  <2> QED BY <1>2, <2>1
<1>6. place \in Injection(C, 1..N)
  <2> HIDE DEF C, place, N
  <2> QED BY <1>4, <1>5 DEF Injection, IsInjective
<1>7. place \in Surjection(C, 1..N)
  <2>1. IsFiniteSet(1..N) /\ Cardinality(1..N) = N
    BY <1>1, FS_Interval
  <2> HIDE DEF C, place
  <2> QED BY <1>6, <2>1, FS_Injection
<1> QED BY <1>1, <1>3, <1>6, <1>7 DEF Bijection

LEMMA MinOfTwo ==
    ASSUME NEW a \in Nat, NEW b \in Nat
    PROVE  Min({a, b}) = IF b < a THEN b ELSE a
<1>1. Min({a, b}) \in {a, b} /\ \A y \in {a, b} : Min({a, b}) <= y
  BY MinIsLeast
<1> QED BY <1>1

\* A chunk is in the fused list if its place is, and that is its rank there.
LEMMA FusedIsSorted ==
    ASSUME NEW dense \in Seq(ChunkId), NEW sparse \in Seq(ChunkId)
    PROVE  LET candidates == Candidates(dense, sparse)
               place == Place(dense, sparse)
               fused == Fuse(dense, sparse)
           IN /\ fused \in Seq(candidates)
              /\ Len(fused) = Min({FusedTopK, Cardinality(candidates)})
              /\ \A i \in 1..Len(fused) : place[fused[i]] = i
              /\ \A p \in candidates : Contains(fused, p) <=> place[p] <= Len(fused)
              /\ \A p \in candidates : Contains(fused, p) => Rank(fused, p) = place[p]
<1> DEFINE C == Candidates(dense, sparse)
           place == Place(dense, sparse)
           fused == Fuse(dense, sparse)
           N == Cardinality(C)
           all == [n \in 1..N |-> CHOOSE p \in C : place[p] = n]
           K == IF N < FusedTopK THEN N ELSE FusedTopK
<1>1. N \in Nat /\ FusedTopK \in Nat
  BY PlacesFollowTheOrder, AnsweringAssumption
<1>2. ASSUME NEW n \in 1..N
      PROVE  all[n] \in C /\ place[all[n]] = n
  <2>1. \E p \in C : place[p] = n
    <3>1. place \in Surjection(C, 1..N)
      BY PlacesFollowTheOrder DEF Bijection
    <3> QED BY <3>1 DEF Surjection
  <2> HIDE DEF C, place, N
  <2> QED BY <2>1
<1>3. all \in Seq(C) /\ Len(all) = N
  <2>1. all \in [1..N -> C]
    BY <1>2
  <2> HIDE DEF C, N, all
  <2> QED BY <1>1, <2>1
<1>4. fused = SubSeq(all, 1, K)
  <2>1. fused = Prefix(all, FusedTopK)
    BY DEF Fuse
  <2> HIDE DEF all, N, fused
  <2> QED BY <1>3, <2>1 DEF Prefix
<1>5. /\ fused \in Seq(C) /\ Len(fused) = K
      /\ \A i \in 1..K : fused[i] = all[i]
      /\ K \in Nat /\ K <= N
  <2> HIDE DEF C, N, all, fused
  <2> QED BY <1>1, <1>3, <1>4
<1>6. K = Min({FusedTopK, N})
  <2> HIDE DEF N
  <2> QED BY <1>1, MinOfTwo
<1>7. \A i \in 1..K : place[fused[i]] = i
  <2> HIDE DEF all, fused, C, N, place
  <2> QED BY <1>1, <1>2, <1>5
<1>8. ASSUME NEW p \in C
      PROVE  /\ Contains(fused, p) <=> place[p] <= K
             /\ \A i \in 1..K : fused[i] = p => i = place[p]
             /\ place[p] \in 1..N
  <2>1. /\ place[p] \in 1..N
        /\ \A q \in C : place[q] = place[p] => q = p
    <3>1. place \in Bijection(C, 1..N)
      BY PlacesFollowTheOrder
    <3> HIDE DEF C, place, N
    <3> QED BY <3>1 DEF Bijection, Injection, IsInjective
  <2>2. \A i \in 1..K : fused[i] = p => i = place[p]
    BY <1>7
  <2>3. place[p] <= K => fused[place[p]] = p
    <3> HIDE DEF C, place, N, all, fused
    <3> QED BY <1>1, <1>2, <1>5, <2>1
  <2> HIDE DEF C, place, N, all, fused
  <2> QED BY <1>5, <2>1, <2>2, <2>3 DEF Contains
<1>9. ASSUME NEW p \in C, Contains(fused, p)
      PROVE  Rank(fused, p) = place[p]
  <2>1. Rank(fused, p) \in 1..Len(fused) /\ fused[Rank(fused, p)] = p
    <3> HIDE DEF C, fused
    <3> QED BY <1>5, <1>9, RankFacts
  <2> QED BY <1>5, <1>8, <2>1
<1> QED BY <1>5, <1>6, <1>7, <1>8, <1>9

\* Neither result is preferred.
LEMMA FusionIsSymmetric ==
    ASSUME NEW dense \in Seq(ChunkId), NEW sparse \in Seq(ChunkId)
    PROVE  Fuse(dense, sparse) = Fuse(sparse, dense)
<1>1. Candidates(dense, sparse) = Candidates(sparse, dense)
  BY DEF Candidates
<1>2. \A p, q \in Candidates(dense, sparse) :
         Precedes(dense, sparse, p, q) <=> Precedes(sparse, dense, p, q)
  BY ScoreIsSymmetric DEF Precedes
<1>3. \A p \in Candidates(dense, sparse) :
         {q \in Candidates(dense, sparse) : Precedes(dense, sparse, q, p)}
           = {q \in Candidates(sparse, dense) : Precedes(sparse, dense, q, p)}
  BY <1>1, <1>2
<1>4. Place(dense, sparse) = Place(sparse, dense)
  BY <1>1, <1>3 DEF Place
<1> QED BY <1>1, <1>4 DEF Fuse

-----------------------------------------------------------------------------
(***************************************************************************)
(* The evidence package.  The recursive functions of Tokens and Evidence   *)
(* are shown to exist first: the least length at which one did not would   *)
(* extend the one before it.                                               *)
(***************************************************************************)
SolvesIt(f, D, base, n, step) ==
    /\ f \in [0..n -> D] /\ f[0] = base
    /\ \A k \in 1..n : f[k] = step[<<f[k - 1], k>>]

LEMMA Recursion ==
    ASSUME NEW D, NEW base \in D, NEW n \in Nat, NEW step \in [D \X (1..n) -> D]
    PROVE  \E f : SolvesIt(f, D, base, n, step)
<1> DEFINE Solves(f, m) ==
              /\ f \in [0..m -> D] /\ f[0] = base
              /\ \A k \in 1..m : f[k] = step[<<f[k - 1], k>>]
           Unsolved == {m \in 0..n : ~\E f : Solves(f, m)}
<1>1. SUFFICES ASSUME Unsolved # {} PROVE FALSE
  <2>1. n \in 0..n
    OBVIOUS
  <2> QED BY <2>1 DEF SolvesIt
<1>2. PICK m \in Unsolved : \A k \in Unsolved : m <= k
  <2>1. Unsolved \subseteq Nat
    OBVIOUS
  <2> HIDE DEF Unsolved
  <2> QED BY <1>1, <2>1, Least
<1>3. m # 0
  <2>1. Solves([k \in 0..0 |-> base], 0)
    OBVIOUS
  <2> QED BY <2>1
<1>4. PICK f : Solves(f, m - 1)
  <2>1. m - 1 \in 0..n /\ ~(m <= m - 1)
    BY <1>3
  <2>2. m - 1 \notin Unsolved
    BY <1>2, <2>1
  <2> QED BY <2>1, <2>2
<1> DEFINE g == [k \in 0..m |-> IF k = m THEN step[<<f[m - 1], m>>] ELSE f[k]]
<1>5. m \in 1..n /\ m - 1 \in 0..(m - 1)
  BY <1>3
<1>6. f \in [0..(m - 1) -> D] /\ f[0] = base /\ \A k \in 1..(m - 1) : f[k] = step[<<f[k - 1], k>>]
  BY <1>4
<1>7. step[<<f[m - 1], m>>] \in D
  BY <1>5, <1>6
<1>8. g \in [0..m -> D]
  BY <1>5, <1>6, <1>7
<1>9. g[0] = base
  BY <1>5, <1>6
<1>10. ASSUME NEW k \in 1..m PROVE g[k] = step[<<g[k - 1], k>>]
  <2>1. g[k - 1] = f[k - 1]
    BY <1>5
  <2>2. CASE k = m
    <3>1. g[m] = step[<<f[m - 1], m>>]
      BY <1>5
    <3> QED BY <2>1, <2>2, <3>1
  <2>3. CASE k # m
    BY <2>1, <2>3, <1>5, <1>6
  <2> QED BY <2>2, <2>3
<1>11. Solves(g, m)
  <2> HIDE DEF g
  <2> QED BY <1>8, <1>9, <1>10
<1> QED BY <1>11

\* The tokens of the first n chunks of a package, and the package after n candidates.
Use(kept) ==
    CHOOSE used : used = [n \in 0..Len(kept) |->
        IF n = 0 THEN 0 ELSE used[n - 1] + TextSize[kept[n][2]]]

Packed(ranked) ==
    CHOOSE kept : kept = [n \in 0..Len(ranked) |->
        IF n = 0 THEN <<>>
        ELSE IF Fits(kept[n - 1], ranked[n]) THEN Append(kept[n - 1], ranked[n])
        ELSE kept[n - 1]]

LEMMA TokensIsUse == \A kept : Tokens(kept) = Use(kept)[Len(kept)]
BY DEF Tokens, Use

LEMMA EvidenceIsPacked == \A ranked : Evidence(ranked) = Packed(ranked)[Len(ranked)]
BY DEF Evidence, Packed

\* Two functions that agree at 0, and at each number if they do before it.
InStep(f, g, n) ==
    f[0] = g[0] /\ \A k \in 1..n : f[k - 1] = g[k - 1] => f[k] = g[k]

Agree(f, g, n) == \A k \in 0..n : f[k] = g[k]

LEMMA Agreement ==
    ASSUME NEW n \in Nat, NEW f, NEW g, InStep(f, g, n)
    PROVE  Agree(f, g, n)
<1> USE DEF InStep, Agree
<1> DEFINE Differ == {k \in 0..n : f[k] # g[k]}
<1>1. SUFFICES ASSUME Differ # {} PROVE FALSE
  OBVIOUS
<1>2. PICK m \in Differ : \A k \in Differ : m <= k
  <2>1. Differ \subseteq Nat
    OBVIOUS
  <2> HIDE DEF Differ
  <2> QED BY <1>1, <2>1, Least
<1>3. m # 0 /\ m \in 1..n
  OBVIOUS
<1>4. m - 1 \in 0..n /\ ~(m <= m - 1)
  BY <1>3
<1>5. f[m - 1] = g[m - 1]
  BY <1>2, <1>4
<1> QED BY <1>3, <1>5

\* The chunks of S have a text of a size.
Sized(S) == \A p \in S : TextSize[p[2]] \in Nat

SumsUp(used, kept) ==
    /\ used \in [0..Len(kept) -> Nat]
    /\ used[0] = 0
    /\ \A n \in 1..Len(kept) : used[n] = used[n - 1] + TextSize[kept[n][2]]

LEMMA UseIsASum ==
    ASSUME NEW S, Sized(S), NEW kept \in Seq(S)
    PROVE  SumsUp(Use(kept), kept)
<1> DEFINE N == Len(kept)
           Size(n) == TextSize[kept[n][2]]
           step == [z \in Nat \X (1..N) |-> z[1] + Size(z[2])]
           Next(f) == [n \in 0..N |-> IF n = 0 THEN 0 ELSE f[n - 1] + Size(n)]
<1>1. N \in Nat /\ \A n \in 1..N : Size(n) \in Nat
  <2>1. \A n \in 1..N : kept[n] \in S
    OBVIOUS
  <2> QED BY <2>1 DEF Sized
<1>2. step \in [Nat \X (1..N) -> Nat]
  <2> HIDE DEF N, Size
  <2> QED BY <1>1
<1>3. PICK f \in [0..N -> Nat] : f[0] = 0 /\ \A k \in 1..N : f[k] = step[<<f[k - 1], k>>]
  <2> HIDE DEF N, step
  <2>1. 0 \in Nat /\ N \in Nat
    BY <1>1
  <2>2. \E f : SolvesIt(f, Nat, 0, N, step)
    BY <1>2, <2>1, Recursion, Zenon
  <2> QED BY <2>2 DEF SolvesIt
<1>4. ASSUME NEW k \in 1..N PROVE f[k] = f[k - 1] + Size(k)
  <2>1. f[k - 1] \in Nat
    <3> HIDE DEF N
    <3> QED BY <1>1, <1>3
  <2>2. step[<<f[k - 1], k>>] = f[k - 1] + Size(k)
    <3> HIDE DEF N, Size
    <3> QED BY <2>1
  <2> QED BY <1>3, <2>2
<1>5. f = Next(f)
  <2> HIDE DEF N, Size
  <2> QED BY <1>3, <1>4
<1>6. Use(kept) = CHOOSE g : g = Next(g)
  BY DEF Use
<1>7. Use(kept) = Next(Use(kept))
  <2> HIDE DEF Next
  <2> QED BY <1>5, <1>6
<1>8. \A k \in 0..N : Use(kept)[k] = f[k]
  <2> DEFINE u == Use(kept)
  <2>1. u[0] = 0 /\ \A k \in 1..N : u[k] = u[k - 1] + Size(k)
    <3> HIDE DEF N, Size, u
    <3>1. u = Next(u)
      BY <1>7 DEF u
    <3> QED BY <1>1, <3>1
  <2>2. \A k \in 1..N : u[k - 1] = f[k - 1] => u[k] = f[k]
    <3> HIDE DEF N, Size, u
    <3> QED BY <1>4, <2>1
  <2> HIDE DEF N, Size, u
  <2>3. InStep(u, f, N)
    BY <1>3, <2>1, <2>2 DEF InStep
  <2>4. Agree(u, f, N)
    BY <1>1, <2>3, Agreement, Zenon
  <2> QED BY <2>4 DEF u, Agree
<1>9. Use(kept) = f
  <2>1. Use(kept) = [n \in 0..N |-> Use(kept)[n]]
    <3> HIDE DEF N, Size
    <3> QED BY <1>7
  <2> HIDE DEF N
  <2> QED BY <1>3, <1>8, <2>1
<1> QED BY <1>3, <1>4, <1>9 DEF SumsUp

LEMMA TokensTyped ==
    ASSUME NEW S, Sized(S), NEW kept \in Seq(S)
    PROVE  Tokens(kept) \in Nat /\ (kept = <<>> => Tokens(kept) = 0)
<1>1. Use(kept) \in [0..Len(kept) -> Nat] /\ Use(kept)[0] = 0
  <2>1. SumsUp(Use(kept), kept)
    BY UseIsASum, Zenon
  <2> QED BY <2>1 DEF SumsUp
<1>2. Tokens(kept) = Use(kept)[Len(kept)]
  BY TokensIsUse
<1>3. Len(kept) \in 0..Len(kept) /\ (kept = <<>> => Len(kept) = 0)
  OBVIOUS
<1> QED BY <1>1, <1>2, <1>3

LEMMA TokensOfAppend ==
    ASSUME NEW S, Sized(S), NEW kept \in Seq(S), NEW p \in S
    PROVE  Tokens(Append(kept, p)) = Tokens(kept) + TextSize[p[2]]
<1> DEFINE more == Append(kept, p)
           N == Len(kept)
<1>1. /\ more \in Seq(S) /\ Len(more) = N + 1 /\ N \in Nat
      /\ more[N + 1] = p /\ \A k \in 1..N : more[k] = kept[k]
  OBVIOUS
<1> HIDE DEF more
<1>2. /\ Use(more)[0] = 0
      /\ \A n \in 1..(N + 1) : Use(more)[n] = Use(more)[n - 1] + TextSize[more[n][2]]
  <2>1. SumsUp(Use(more), more)
    BY <1>1, UseIsASum, Zenon
  <2> QED BY <1>1, <2>1 DEF SumsUp
<1>3. /\ Use(kept)[0] = 0
      /\ \A n \in 1..N : Use(kept)[n] = Use(kept)[n - 1] + TextSize[kept[n][2]]
  <2>1. SumsUp(Use(kept), kept)
    BY UseIsASum, Zenon
  <2> QED BY <2>1 DEF SumsUp
<1>4. \A n \in 1..N : Use(more)[n - 1] = Use(kept)[n - 1] => Use(more)[n] = Use(kept)[n]
  <2> HIDE DEF N
  <2>1. \A n \in 1..N : n \in 1..(N + 1) /\ more[n] = kept[n]
    BY <1>1
  <2> QED BY <1>2, <1>3, <2>1, Zenon
<1>5. \A n \in 0..N : Use(more)[n] = Use(kept)[n]
  <2> HIDE DEF N
  <2>1. N \in Nat
    BY <1>1
  <2>2. InStep(Use(more), Use(kept), N)
    BY <1>2, <1>3, <1>4 DEF InStep
  <2>3. Agree(Use(more), Use(kept), N)
    BY <2>1, <2>2, Agreement, Zenon
  <2> QED BY <2>3 DEF Agree
<1>6. Use(more)[N + 1] = Use(more)[N] + TextSize[p[2]]
  <2> HIDE DEF N
  <2>1. N + 1 \in 1..(N + 1) /\ (N + 1) - 1 = N
    BY <1>1
  <2> QED BY <1>1, <1>2, <2>1
<1>7. Tokens(more) = Use(more)[N + 1] /\ Tokens(kept) = Use(kept)[N]
  BY <1>1, TokensIsUse
<1>8. Use(more)[N] = Use(kept)[N]
  <2> HIDE DEF N
  <2> QED BY <1>1, <1>5
<1>9. Tokens(more) = Tokens(kept) + TextSize[p[2]]
  BY <1>6, <1>7, <1>8
<1> QED BY <1>9 DEF more

\* Packed is what the loop keeps after each candidate.
PacksUp(kept, S, ranked) ==
    /\ kept \in [0..Len(ranked) -> Seq(S)]
    /\ kept[0] = <<>>
    /\ \A n \in 1..Len(ranked) :
         kept[n] = IF Fits(kept[n - 1], ranked[n]) THEN Append(kept[n - 1], ranked[n])
                   ELSE kept[n - 1]

LEMMA PackedIsALoop ==
    ASSUME NEW S, NEW ranked \in Seq(S)
    PROVE  PacksUp(Packed(ranked), S, ranked)
<1> DEFINE N == Len(ranked)
           More(kept, n) == IF Fits(kept, ranked[n]) THEN Append(kept, ranked[n]) ELSE kept
           step == [z \in Seq(S) \X (1..N) |-> More(z[1], z[2])]
           Next(f) == [n \in 0..N |-> IF n = 0 THEN <<>> ELSE More(f[n - 1], n)]
<1>1. N \in Nat /\ <<>> \in Seq(S)
  OBVIOUS
<1>2. step \in [Seq(S) \X (1..N) -> Seq(S)]
  <2>1. ASSUME NEW kept \in Seq(S), NEW n \in 1..N PROVE More(kept, n) \in Seq(S)
    <3>1. ranked[n] \in S
      OBVIOUS
    <3>2. Append(kept, ranked[n]) \in Seq(S)
      BY <3>1
    <3> QED BY <3>2
  <2> HIDE DEF N, More
  <2> QED BY <2>1
<1>3. PICK f \in [0..N -> Seq(S)] : f[0] = <<>> /\ \A k \in 1..N : f[k] = step[<<f[k - 1], k>>]
  <2> HIDE DEF N, step
  <2>1. \E f : SolvesIt(f, Seq(S), <<>>, N, step)
    BY <1>1, <1>2, Recursion, Zenon
  <2> QED BY <2>1 DEF SolvesIt
<1>4. ASSUME NEW k \in 1..N PROVE f[k] = More(f[k - 1], k)
  <2>1. f[k - 1] \in Seq(S)
    <3> HIDE DEF N
    <3> QED BY <1>1, <1>3
  <2>2. step[<<f[k - 1], k>>] = More(f[k - 1], k)
    <3> HIDE DEF N, More
    <3> QED BY <2>1
  <2> QED BY <1>3, <2>2
<1>5. f = Next(f)
  <2> HIDE DEF N, More
  <2> QED BY <1>3, <1>4
<1>6. Packed(ranked) = CHOOSE g : g = Next(g)
  BY DEF Packed
<1>7. Packed(ranked) = Next(Packed(ranked))
  <2> HIDE DEF Next
  <2> QED BY <1>5, <1>6
<1>8. \A k \in 0..N : Packed(ranked)[k] = f[k]
  <2> DEFINE u == Packed(ranked)
  <2>1. u[0] = <<>> /\ \A k \in 1..N : u[k] = More(u[k - 1], k)
    <3> HIDE DEF N, More, u
    <3>1. u = Next(u)
      BY <1>7 DEF u
    <3> QED BY <1>1, <3>1
  <2>2. \A k \in 1..N : u[k - 1] = f[k - 1] => u[k] = f[k]
    <3> HIDE DEF N, More, u
    <3> QED BY <1>4, <2>1
  <2> HIDE DEF N, More, u
  <2>3. InStep(u, f, N)
    BY <1>3, <2>1, <2>2 DEF InStep
  <2>4. Agree(u, f, N)
    BY <1>1, <2>3, Agreement, Zenon
  <2> QED BY <2>4 DEF u, Agree
<1>9. Packed(ranked) = f
  <2>1. Packed(ranked) = [n \in 0..N |-> Packed(ranked)[n]]
    <3> HIDE DEF N, More
    <3> QED BY <1>7
  <2> HIDE DEF N
  <2> QED BY <1>3, <1>8, <2>1
<1> QED BY <1>3, <1>4, <1>9 DEF PacksUp

\* What holds of the package after n candidates: it is a package of the first n,
\* in their order, and of these nothing that was left out of it would fit.
Packing(kept, ranked, n) ==
    /\ Len(kept) <= MaxItems /\ Tokens(kept) <= TokenBudget
    /\ \A i \in 1..Len(kept) : \E k \in 1..n : kept[i] = ranked[k]
    /\ \A i, j \in 1..Len(kept) : i < j => Rank(ranked, kept[i]) < Rank(ranked, kept[j])
    /\ \A k \in 1..n : ~Fits(kept, ranked[k])

LEMMA PackingBegins ==
    ASSUME NEW S, Sized(S), NEW ranked
    PROVE  Packing(<<>>, ranked, 0)
<1>1. <<>> \in Seq(S)
  OBVIOUS
<1>2. \A kept \in Seq(S) : kept = <<>> => Tokens(kept) = 0
  <2> TAKE kept \in Seq(S)
  <2> QED BY TokensTyped, Zenon
<1>3. Tokens(<<>>) = 0 /\ Len(<<>>) = 0
  BY <1>1, <1>2
<1> QED BY <1>3, AnsweringAssumption DEF Packing

LEMMA RankOfInjective ==
    ASSUME NEW S, NEW ranked \in Seq(S), IsInjective(ranked), NEW k \in 1..Len(ranked)
    PROVE  Rank(ranked, ranked[k]) = k
<1>1. Contains(ranked, ranked[k])
  BY DEF Contains
<1>2. Rank(ranked, ranked[k]) \in 1..Len(ranked) /\ ranked[Rank(ranked, ranked[k])] = ranked[k]
  BY <1>1, RankFacts
<1> QED BY <1>2 DEF IsInjective

LEMMA FitsLess ==
    ASSUME NEW S, Sized(S), NEW kept \in Seq(S),
           NEW p \in S, NEW q \in S, Fits(Append(kept, p), q)
    PROVE  Fits(kept, q)
<1> DEFINE more == Append(kept, p)
<1>1. Len(more) = Len(kept) + 1 /\ Len(kept) \in Nat /\ \A i \in 1..Len(kept) : more[i] = kept[i]
  OBVIOUS
<1>2. Tokens(more) = Tokens(kept) + TextSize[p[2]] /\ Tokens(kept) \in Nat
  BY TokensTyped, TokensOfAppend
<1>3. TextSize[p[2]] \in Nat /\ TextSize[q[2]] \in Nat
  BY DEF Sized
<1>4. Fits(more, q)
  OBVIOUS
<1> HIDE DEF more
<1>5. Contains(kept, q) => Contains(more, q)
  BY <1>1 DEF Contains
<1>6. Len(kept) < MaxItems
  BY <1>1, <1>4, AnsweringAssumption DEF Fits
<1>7. Tokens(kept) + TextSize[q[2]] <= TokenBudget
  <2> DEFINE s == TextSize[p[2]]
             u == TextSize[q[2]]
  <2>1. s \in Nat /\ u \in Nat /\ Tokens(more) + u <= TokenBudget /\ TokenBudget \in Nat
    BY <1>3, <1>4, AnsweringAssumption DEF Fits
  <2>2. Tokens(more) = Tokens(kept) + s
    BY <1>2
  <2> HIDE DEF s, u
  <2>3. Tokens(kept) + u <= TokenBudget
    BY <1>2, <2>1, <2>2
  <2> QED BY <2>3 DEF u
<1>8. ~Contains(kept, q) /\ TextSize[q[2]] > 0
  BY <1>4, <1>5 DEF Fits
<1> QED BY <1>6, <1>7, <1>8 DEF Fits

LEMMA PackingGoesOn ==
    ASSUME NEW S, Sized(S),
           NEW ranked \in Seq(S), IsInjective(ranked),
           NEW n \in 1..Len(ranked), NEW kept \in Seq(S), Packing(kept, ranked, n - 1)
    PROVE  Packing(IF Fits(kept, ranked[n]) THEN Append(kept, ranked[n]) ELSE kept, ranked, n)
<1> DEFINE p == ranked[n]
           more == Append(kept, p)
<1>1. p \in S /\ n \in Nat /\ n >= 1 /\ \A k \in 1..n : ranked[k] \in S
  OBVIOUS
<1>2. CASE ~Fits(kept, p)
  <2>1. \A k \in 1..n : k = n \/ k \in 1..(n - 1)
    OBVIOUS
  <2>2. \A k \in 1..(n - 1) : k \in 1..n
    OBVIOUS
  <2>3. Packing(kept, ranked, n)
    BY <1>2, <2>1, <2>2 DEF Packing
  <2> QED BY <1>2, <2>3
<1>3. CASE Fits(kept, p)
  <2>1. /\ more \in Seq(S) /\ Len(more) = Len(kept) + 1 /\ Len(kept) \in Nat
        /\ more[Len(kept) + 1] = p /\ \A i \in 1..Len(kept) : more[i] = kept[i]
    OBVIOUS
  <2>2. /\ Len(more) <= MaxItems /\ Tokens(more) <= TokenBudget
    <3>1. Tokens(more) = Tokens(kept) + TextSize[p[2]]
      <4> HIDE DEF p
      <4> QED BY <1>1, TokensOfAppend, Zenon
    <3> HIDE DEF more, p
    <3> QED BY <1>3, <2>1, <3>1, AnsweringAssumption DEF Fits
  <2>3. \A i \in 1..Len(more) : \E k \in 1..n : more[i] = ranked[k]
    <3>1. ASSUME NEW i \in 1..Len(more) PROVE \E k \in 1..n : more[i] = ranked[k]
      <4> HIDE DEF more
      <4>1. CASE i = Len(kept) + 1
        BY <1>1, <2>1, <4>1
      <4>2. CASE i \in 1..Len(kept)
        <5>1. PICK k \in 1..(n - 1) : kept[i] = ranked[k]
          BY <4>2 DEF Packing
        <5>2. k \in 1..n
          OBVIOUS
        <5>3. more[i] = kept[i]
          BY <2>1, <4>2
        <5> QED BY <5>1, <5>2, <5>3
      <4> QED BY <2>1, <4>1, <4>2
    <3> QED BY <3>1
  <2>4. ASSUME NEW i \in 1..Len(more), NEW j \in 1..Len(more), i < j
        PROVE  Rank(ranked, more[i]) < Rank(ranked, more[j])
    <3> HIDE DEF more
    <3>1. CASE j \in 1..Len(kept)
      <4>1. i \in 1..Len(kept)
        BY <2>4, <3>1
      <4>2. more[i] = kept[i] /\ more[j] = kept[j]
        BY <2>1, <3>1, <4>1
      <4> QED BY <2>4, <3>1, <4>1, <4>2 DEF Packing
    <3>2. CASE j = Len(kept) + 1
      <4>1. i \in 1..Len(kept) /\ more[i] = kept[i] /\ more[j] = ranked[n]
        BY <2>1, <2>4, <3>2
      <4>2. PICK k \in 1..(n - 1) : kept[i] = ranked[k]
        BY <4>1 DEF Packing
      <4>3. Rank(ranked, ranked[n]) = n /\ Rank(ranked, ranked[k]) = k
        BY RankOfInjective
      <4> QED BY <4>1, <4>2, <4>3
    <3> QED BY <2>1, <3>1, <3>2
  <2>5. \A k \in 1..n : ~Fits(more, ranked[k])
    <3>1. ASSUME NEW k \in 1..n PROVE ~Fits(more, ranked[k])
      <4>1. CASE k = n
        <5>1. Contains(more, ranked[k])
          <6> HIDE DEF more
          <6>1. Len(kept) + 1 \in 1..Len(more)
            BY <2>1
          <6> QED BY <2>1, <4>1, <6>1 DEF Contains
        <5> QED BY <5>1 DEF Fits
      <4>2. CASE k \in 1..(n - 1)
        <5>1. ~Fits(kept, ranked[k])
          BY <4>2 DEF Packing
        <5> QED BY <1>1, <5>1, FitsLess
      <4> QED BY <4>1, <4>2
    <3> QED BY <3>1
  <2>6. Packing(more, ranked, n)
    <3> HIDE DEF more
    <3> QED BY <2>2, <2>3, <2>4, <2>5 DEF Packing
  <2> QED BY <1>3, <2>6
<1> QED BY <1>2, <1>3

\* The evidence package, whatever the ranking: it is full.
LEMMA EvidencePacks ==
    ASSUME NEW S, Sized(S),
           NEW ranked \in Seq(S), IsInjective(ranked)
    PROVE  /\ Evidence(ranked) \in Seq(S)
           /\ Packing(Evidence(ranked), ranked, Len(ranked))
<1> DEFINE N == Len(ranked)
           kept == Packed(ranked)
           Bad == {n \in 0..N : ~Packing(kept[n], ranked, n)}
<1>1. /\ kept \in [0..N -> Seq(S)] /\ kept[0] = <<>> /\ N \in Nat
      /\ \A n \in 1..N :
           kept[n] = IF Fits(kept[n - 1], ranked[n]) THEN Append(kept[n - 1], ranked[n])
                     ELSE kept[n - 1]
  <2>1. PacksUp(kept, S, ranked)
    BY PackedIsALoop, Zenon
  <2> HIDE DEF kept
  <2> QED BY <2>1 DEF PacksUp
<1> HIDE DEF kept
<1>2. Bad = {}
  <2> SUFFICES ASSUME Bad # {} PROVE FALSE
    OBVIOUS
  <2>1. PICK m \in Bad : \A k \in Bad : m <= k
    <3>1. Bad \subseteq Nat
      OBVIOUS
    <3> HIDE DEF Bad
    <3> QED BY <3>1, Least
  <2>2. m # 0
    <3>1. Packing(<<>>, ranked, 0)
      BY PackingBegins
    <3> QED BY <1>1, <3>1
  <2>3. m \in 1..N /\ m - 1 \in 0..N /\ ~(m <= m - 1)
    BY <2>2
  <2>4. Packing(kept[m - 1], ranked, m - 1)
    BY <2>1, <2>3
  <2>5. kept[m - 1] \in Seq(S)
    BY <1>1, <2>3
  <2>6. Packing(kept[m], ranked, m)
    BY <1>1, <2>3, <2>4, <2>5, PackingGoesOn
  <2> QED BY <2>6
<1>3. N \in 0..N
  BY <1>1
<1>4. Packing(kept[N], ranked, N) /\ kept[N] \in Seq(S)
  <2> HIDE DEF N
  <2> QED BY <1>1, <1>2, <1>3
<1>5. Evidence(ranked) = kept[N]
  BY EvidenceIsPacked DEF kept
<1> QED BY <1>4, <1>5
=============================================================================
