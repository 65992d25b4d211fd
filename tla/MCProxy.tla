------------------------------ MODULE MCProxy -------------------------------
EXTENDS Proxy, TLC

\* Threads and addresses are alike.
MCSymmetry == Permutations(Workers) \cup Permutations(Objects)

=============================================================================
