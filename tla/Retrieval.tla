----------------------------- MODULE Retrieval ------------------------------
(***************************************************************************)
(* Evidence for a question: retrieval/hybrid.py and retrieval/evidence.py. *)
(* The two listings the database returns are fused by reciprocal rank, cut *)
(* to a few candidates per source family, scored by the rerank service and *)
(* trimmed to the evidence.  Candidates are numbered in the order of their *)
(* chunk ids; what the code reads of one is the record about[id]:          *)
(*   source   its source key                                               *)
(*   role     what its text may claim (evidence_claim_role)                *)
(*   article  the parent article of a comment branch, or NoArticle         *)
(*   inScope  it names every job and boss the question names               *)
(*   boost    its quality and anchor boosts, in the unit of Share          *)
(*   title    the rerank score its title alone deserves, 0 but for articles*)
(* A listing is a sequence of at most three different candidates.          *)
(***************************************************************************)
EXTENDS Ordering, ModelServices

CONSTANTS
    NoArticle,      \* a branch whose parent cannot be told
    RerankLimit,    \* candidates sent to the rerank service
    GroupCap,       \* of these, at most so many of one family
    EvidenceLimit,  \* pieces of evidence kept
    MinimumScore    \* rerank score below which a candidate is no evidence

ASSUME RetrievalAssumption ==
    /\ {RerankLimit, GroupCap, EvidenceLimit} \subseteq Nat \ {0}
    /\ MinimumScore \in Nat

Roles == {"answer_with_question_context", "question_only", "community_post"}

-----------------------------------------------------------------------------
(* Families and fusion.                                                    *)

\* Sibling branches of a comment thread are one family; an article and a
\* branch without a parent are families of their own.
Family(c) ==
    IF c.role = "answer_with_question_context" /\ c.article # NoArticle
    THEN <<"comment-thread", c.article>>
    ELSE <<"source", c.source>>

\* 1 / (60 + rank), in units of 1 / (61 * 62 * 63): exact up to rank 3.
Share(rank) == (61 * 62 * 63) \div (60 + rank)

Listed(listing, id) ==
    IF Contains(listing, id)
    THEN Share(CHOOSE rank \in DOMAIN listing : listing[rank] = id)
    ELSE 0

FusionScore(dense, lexical, about, id) ==
    Listed(dense, id) + Listed(lexical, id) + about[id].boost

\* Best fusion score first, then the smaller chunk id.
Fused(dense, lexical, about) ==
    LET score(id) == FusionScore(dense, lexical, about, id)
        before(a, b) == score(a) > score(b) \/ (score(a) = score(b) /\ a < b)
        ids == ToSet(dense) \cup ToSet(lexical)
    IN  InOrder(ids, {p \in ids \X ids : before(p[1], p[2])})

OfFamily(ids, about, id) ==
    {i \in DOMAIN ids : Family(about[ids[i]]) = Family(about[id])}

\* What is sent to the rerank service: the first in scope, few of a family.
Shortlist(fused, about) ==
    LET add(kept, id) ==
            IF /\ Len(kept) < RerankLimit
               /\ about[id].inScope
               /\ Cardinality(OfFamily(kept, about, id)) < GroupCap
            THEN Append(kept, id)
            ELSE kept
    IN  FoldLeft(add, <<>>, fused)

ShortlistOf(dense, lexical, about) == Shortlist(Fused(dense, lexical, about), about)

-----------------------------------------------------------------------------
(* Evidence.                                                               *)

Calibrated(c, score) == IF c.title > score THEN c.title ELSE score

\* Mutant: a family may come twice.
EvidenceUngrouped(ranked, about, score) ==
    LET add(kept, id) ==
            IF score[id] >= MinimumScore /\ Len(kept) < EvidenceLimit
            THEN Append(kept, id)
            ELSE kept
    IN  FoldLeft(add, <<>>, ranked)

Evidence(ranked, about, score) ==
    LET add(kept, id) ==
            IF /\ Len(kept) < EvidenceLimit
               /\ score[id] >= MinimumScore
               /\ OfFamily(kept, about, id) = {}
            THEN Append(kept, id)
            ELSE kept
    IN  FoldLeft(add, <<>>, ranked)

Place(ids, id) == CHOOSE i \in DOMAIN ids : ids[i] = id

Scored(short, about, values) ==
    [id \in ToSet(short) |-> Calibrated(about[id], values[Place(short, id)])]

\* Best score first, then as fused.
Ranked(ids, score, dense, lexical, about) ==
    LET fusion(id) == FusionScore(dense, lexical, about, id)
        before(a, b) ==
            \/ score[a] > score[b]
            \/ score[a] = score[b] /\ fusion(a) > fusion(b)
            \/ score[a] = score[b] /\ fusion(a) = fusion(b) /\ a < b
    IN  InOrder(ids, {p \in ids \X ids : before(p[1], p[2])})

\* hybrid_retrieve, given the rerank service's answers to the attempts.
HybridRetrieve(dense, lexical, about, answers) ==
    LET short == ShortlistOf(dense, lexical, about)
        scores == Rerank(Len(short), answers)
        score == Scored(short, about, scores.values)
    IN  IF short = <<>> \/ scores.failed
        THEN [failed |-> short # <<>>, evidence |-> <<>>]
        ELSE [failed |-> FALSE, evidence |->
                Evidence(Ranked(ToSet(short), score, dense, lexical, about),
                         about, score)]

\* A question asked on the site says what somebody wants to know, and claims
\* nothing.
ClaimBearing(evidence, about) ==
    LET claims(id) == about[id].role # "question_only"
    IN  SelectSeq(evidence, claims)

=============================================================================
