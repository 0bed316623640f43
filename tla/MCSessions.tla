----------------------------- MODULE MCSessions -----------------------------
EXTENDS Sessions, TLC
MCSymmetrySessions == Permutations(Workers) \cup Permutations(Links) \cup Permutations(Tokens)
=============================================================================
