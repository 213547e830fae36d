---------------------------- MODULE MCKnowledge -----------------------------
\* The texts of a small knowledge base: sentences that share a chunk, that fill
\* one exactly, and one longer than any chunk may be.
EXTENDS Knowledge

MCSizes == <<<<60, 50>>, <<50, 50, 300, 450>>>>
MCSymmetry == Permutations(Seeds)
=============================================================================
