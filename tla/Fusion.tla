------------------------------- MODULE Fusion -------------------------------
(***************************************************************************)
(* Reciprocal rank fusion of the two retrieval legs and the retrieval_hits *)
(* rows that record it (services/retrieval.py).  A leg's ranking is the    *)
(* sequence of chunks its query returned, best first.                      *)
(***************************************************************************)
EXTENDS Integers, FiniteSets, SequencesExt

CONSTANTS
    TopK,        \* chunks handed to the model (top_k)
    CandidateK,  \* chunks asked of each leg (candidate_k)
    RrfK         \* the constant k of the fusion formula

\* QueryService.__init__ and reciprocal_rank_fusion refuse anything else.
ASSUME FusionAssumption ==
    /\ TopK \in Nat \ {0}
    /\ CandidateK \in Nat /\ CandidateK >= TopK
    /\ RrfK \in Nat \ {0}

Legs == {"dense", "sparse", "merged"}

\* The rankings a leg can return: no chunk twice (chunk_id is a key).
Rankings(S) == {s \in SeqOf(S, CandidateK) : IsInjective(s)}

\* The dense leg ranks everything it may return and cuts at candidate_k.
DenseRankings(S) ==
    {s \in Rankings(S) : Len(s) = Min({CandidateK, Cardinality(S)})}

(***************************************************************************)
(* Scores.  The sum of 1/(k + rank) over the legs is kept exact, as a      *)
(* fraction; at two legs and the ranks that occur here the code's floating *)
(* point sums order the chunks in the same way.                            *)
(***************************************************************************)
Rank(c, ranking) == CHOOSE r \in DOMAIN ranking : ranking[r] = c

LegScore(rank) == [num |-> 1, den |-> RrfK + rank]

ScoreIn(c, ranking) ==
    IF c \in Range(ranking) THEN LegScore(Rank(c, ranking)) ELSE [num |-> 0, den |-> 1]

Plus(x, y) == [num |-> x.num * y.den + y.num * x.den, den |-> x.den * y.den]

Score(c, dense, sparse) == Plus(ScoreIn(c, dense), ScoreIn(c, sparse))

Exceeds(x, y) == x.num * y.den > y.num * x.den

\* first_seen: the dense ranking is walked before the sparse one.
FirstSeen(c, dense, sparse) ==
    IF c \in Range(dense) THEN Rank(c, dense) ELSE Len(dense) + Rank(c, sparse)

\* Sorted by (-fused_score, first_seen).
Before(c, d, dense, sparse) ==
    LET x == Score(c, dense, sparse)
        y == Score(d, dense, sparse)
    IN  \/ Exceeds(x, y)
        \/ ~Exceeds(y, x) /\ FirstSeen(c, dense, sparse) < FirstSeen(d, dense, sparse)

\* Defect: a chunk both legs found comes twice.
FuseTwice(dense, sparse) == dense \o sparse

\* Defect: the sparse ranking only fills up what the dense one leaves.
ConcatenateLegs(dense, sparse) ==
    LET both == dense \o SelectSeq(sparse, LAMBDA d : d \notin Range(dense))
    IN  SubSeq(both, 1, Min({TopK, Len(both)}))

\* The first top_k of the chunks either leg found.
Fuse(dense, sparse) ==
    LET found == Range(dense) \union Range(sparse)
        Place(c) == 1 + Cardinality({d \in found : Before(d, c, dense, sparse)})
    IN  [i \in 1..Min({TopK, Cardinality(found)}) |-> CHOOSE c \in found : Place(c) = i]

\* Defect: only the fused ranking is recorded.
MergedHits(dense, sparse, merged) ==
    {[leg |-> "merged", rank |-> r, chunk |-> merged[r]] : r \in DOMAIN merged}

\* build_retrieval_hits: one row per leg and rank.
Hits(dense, sparse, merged) ==
    LET LegHits(leg, ranking) ==
            {[leg |-> leg, rank |-> r, chunk |-> ranking[r]] : r \in DOMAIN ranking}
    IN  LegHits("dense", dense) \union LegHits("sparse", sparse) \union LegHits("merged", merged)
=============================================================================
