------------------------------- MODULE MCFsStore -------------------------------
EXTENDS FsStore, TLC

CONSTANTS c1, c2, c3, h1, h2, k1, k2, short, long

OneHandle == [c \in Callers |-> h1]
TwoHandles == [c \in Callers |-> IF c = c1 THEN h1 ELSE h2]

\* A value of one byte and a longer one, so that a write over an old tail shows.
Lengths == (short :> 1) @@ (long :> 2)

PutDelete == {"put", "delete"}
AllOps    == {"put", "get", "delete", "keys"}
================================================================================
