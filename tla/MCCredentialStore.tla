--------------------------- MODULE MCCredentialStore ---------------------------
EXTENDS CredentialStore, TLC

CONSTANTS p1, p2, p3, i1, i2

\* A process is as good as any other, and so is an instance.
Symmetry == Permutations(Procs) \cup Permutations(Instances)
================================================================================
