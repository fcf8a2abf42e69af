------------------------------ MODULE AtLeastOnce ------------------------------
(***************************************************************************)
(* What a polling trigger promises, whatever its source: an item the       *)
(* source has announced is given up by the source only once the consumer   *)
(* has seen it, or once the caller has asked for it to be skipped.         *)
(*                                                                         *)
(* connector/trigger.go describes the contract of Subscribe; the comments  *)
(* in connectors/telegram/updates.go state it as "on crash we may          *)
(* re-deliver the in-flight batch".                                        *)
(***************************************************************************)
CONSTANT Items

VARIABLES arrived,    \* items the source has announced so far
          retained,   \* items the source would still hand out
          delivered,  \* items handed to the consumer at least once
          dismissed   \* items a caller has asked to skip

aloVars == <<arrived, retained, delivered, dismissed>>

TypeOK ==
    /\ arrived \subseteq Items
    /\ retained \subseteq arrived
    /\ delivered \subseteq arrived
    /\ dismissed \subseteq Items

Init ==
    /\ arrived = {}
    /\ retained = {}
    /\ delivered = {}
    /\ dismissed = {}

Arrive(i) ==
    /\ i \notin arrived
    /\ arrived' = arrived \cup {i}
    /\ retained' = retained \cup {i}
    /\ UNCHANGED <<delivered, dismissed>>

\* Delivering again what was delivered before is a stuttering step.
Deliver(i) ==
    /\ i \in arrived
    /\ delivered' = delivered \cup {i}
    /\ UNCHANGED <<arrived, retained, dismissed>>

\* A caller may skip items and, in the same call, have the source drop them.
Dismiss(D) ==
    /\ dismissed' = dismissed \cup D
    /\ retained' \subseteq retained
    /\ retained \ retained' \subseteq delivered \cup dismissed'
    /\ UNCHANGED <<arrived, delivered>>

Forget ==
    /\ retained' \subseteq retained
    /\ retained \ retained' \subseteq delivered \cup dismissed
    /\ UNCHANGED <<arrived, delivered, dismissed>>

Next ==
    \/ \E i \in Items : Arrive(i) \/ Deliver(i)
    \/ \E D \in SUBSET Items : Dismiss(D)
    \/ Forget

Spec == Init /\ [][Next]_aloVars
================================================================================
