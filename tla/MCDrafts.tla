------------------------------ MODULE MCDrafts ------------------------------
EXTENDS Drafts, TLC

Symmetric == Permutations(People) \cup Permutations(Workers)
=============================================================================
