------------------------------ MODULE Retrieval ------------------------------
(***************************************************************************)
(* What RAGRetriever (rag/retrieval.py) may return for a query and what    *)
(* rag/context_builder.py puts in the prompt.  Similarity, text ranks and  *)
(* the scores of the reranking model are free: a search may rank the       *)
(* chunks of its language in any order.  What the code does with the ranks *)
(* - merging, cutting, the gate and parents in the place of children - is  *)
(* translated.                                                             *)
(***************************************************************************)
EXTENDS Naturals, FiniteSets, SequencesExt

CONSTANTS
  English, Spanish, \* the parent passages of the knowledge base
  Children,         \* bound: children of a parent passage
  MaxHits,          \* _TOP_K_SEARCH, 20 in the code
  MaxVectors,       \* bound: query, HyDE passage and variants; 5 in the code
  RerankTopN,       \* _RERANK_TOP_N, 10 in the code
  FinalK            \* _FINAL_K, 5 in the code

ASSUME CutsAreNat == {Children, MaxHits, MaxVectors, RerankTopN, FinalK} \subseteq Nat

\* A row of knowledge_chunks: part 0 of a passage is the parent of the others.
Rows(passages) == passages \X (0..Children)
ParentOf(c)    == <<c[1], 0>>
IsChild(c)     == c[2] # 0

(***************************************************************************)
(* The searches.                                                           *)
(***************************************************************************)
NoRepeats(s) == Cardinality(ToSet(s)) = Len(s)

\* A search returns the best rows of one language - parents have vectors too.
\* An error of the database makes it empty.
Searches(passages) == {s \in BoundedSeq(Rows(passages), MaxHits) : NoRepeats(s)}

\* all_candidates: the rows found, each with the sum of its ranks.
Candidates(hits) == UNION {ToSet(hits[i]) : i \in DOMAIN hits}
RankSum(hits, c) ==
  FoldLeft(LAMBDA sum, s : IF Contains(s, c) THEN sum + SelectInSeq(s, LAMBDA x : x = c) ELSE sum,
           0, hits)
Fallback(hits, other) ==
  [c \in Candidates(hits) \cup ToSet(other) |->
     IF c \in Candidates(hits) THEN RankSum(hits, c) ELSE 100 + SelectInSeq(other, LAMBDA x : x = c)]
Merged(hits, other) ==
  IF Cardinality(Candidates(hits)) < 3 THEN Fallback(hits, other) ELSE Fallback(hits, <<>>)

\* The score falls with the sum; rows with the same sum may come in any order.
Ranked(sums) == {s \in SetToSeqs(DOMAIN sums) :
                   \A i, j \in DOMAIN s : i < j => sums[s[i]] <= sums[s[j]]}
Best(s, n)   == SubSeq(s, 1, IF Len(s) < n THEN Len(s) ELSE n)

-----------------------------------------------------------------------------
(***************************************************************************)
(* The choice.                                                             *)
(***************************************************************************)
\* Only the full path reranks, so on the fast path the best score is still 0,
\* below the threshold, and nothing is returned.
MayPass(path) == path = "full"

\* Few rows are all kept; of many the best one comes first, and how much the
\* next ones differ from it decides which they are.
MmrSelect(s) ==
  IF Len(s) <= FinalK THEN {s}
  ELSE {t \in TupleOf(ToSet(s), FinalK) : NoRepeats(t) /\ t[1] = s[1]}

\* A child is replaced by its parent, when that is found.
InPlaceOf(c, found) == IF IsChild(c) /\ c[1] \in found THEN ParentOf(c) ELSE c

\* Faulty variant: only parents are remembered as seen.
ResolvedUnseen(s, found) ==
  LET taken[n \in 0..Len(s)] ==
        IF n = 0 THEN <<>>
        ELSE IF InPlaceOf(s[n], found) # s[n] /\ Contains(taken[n - 1], ParentOf(s[n]))
             THEN taken[n - 1] ELSE Append(taken[n - 1], InPlaceOf(s[n], found))
  IN  taken[Len(s)]

\* Parents are looked up again: found are those still there, none when the
\* lookup fails.  taken[n] is what the first n rows leave; seen holds exactly
\* what was taken.
Take(taken, r) == IF Contains(taken, r) THEN taken ELSE Append(taken, r)
Resolved(s, found) ==
  LET taken[n \in 0..Len(s)] ==
        IF n = 0 THEN <<>> ELSE Take(taken[n - 1], InPlaceOf(s[n], found))
  IN  taken[Len(s)]

\* The best first, then the lower half, then the rest of the upper half.
LostInMiddle(s) ==
  LET mid == Len(s) \div 2 IN
  IF mid < 2 THEN s
  ELSE <<s[1]>> \o SubSeq(s, mid + 1, Len(s)) \o SubSeq(s, 2, mid)

\* As many of them, in that order, as the budget of the channel holds.
InPrompt(s) == {SubSeq(LostInMiddle(s), 1, n) : n \in 0..Len(s)}

(***************************************************************************)
(* retrieve, for a language: what it may return when the passages found    *)
(* still exist once their children were chosen.                            *)
(***************************************************************************)
Fused(own, others) ==
  UNION {Ranked(Merged(hits, other)) :
           hits \in BoundedSeq(Searches(own), MaxVectors) \ {<<>>}, other \in Searches(others)}
Reranked(own, others) ==
  UNION {SetToSeqs(ToSet(Best(s, RerankTopN))) : s \in Fused(own, others)}
Retrieved(path, own, others, found) ==
  {<<>>} \cup (IF MayPass(path)
              THEN UNION {{Resolved(t, found) : t \in MmrSelect(s)} : s \in Reranked(own, others)}
              ELSE {})
=============================================================================
