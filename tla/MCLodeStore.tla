----------------------------- MODULE MCLodeStore -----------------------------
EXTENDS LodeStoreInv, TLC

Symmetry == Permutations(Appenders) \cup Permutations(Readers)

=============================================================================
