----------------------------- MODULE MCServeDaemon -----------------------------
EXTENDS ServeDaemon

CONSTANTS r1, r2, r3, i1, i2

\* Two requests race for one instance, a third works on another.
TwoAndOne == [r \in Requests |-> IF r = r3 THEN i2 ELSE i1]
================================================================================
