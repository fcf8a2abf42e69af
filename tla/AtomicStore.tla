------------------------------ MODULE AtomicStore ------------------------------
(***************************************************************************)
(* What state/store.go promises of Get, Put and Delete: a store "safe for  *)
(* concurrent use" in which every call takes effect at one instant between *)
(* its start and its return, or reports an error, and a process that dies  *)
(* leaves each key with a value some Put wrote.                            *)
(***************************************************************************)
CONSTANTS Callers, Keys, Values, Missing, NoRequest

VARIABLES kv,      \* [Keys -> a value, or Missing]
          req,     \* [Callers -> the call in progress, or NoRequest]
          done,    \* callers whose call has taken effect
          res,     \* [Callers -> the result the call will return, or Missing]
          err      \* callers whose call will return an error

asVars == <<kv, req, done, res, err>>

Requests == [op : {"put"}, key : Keys, value : Values]
            \cup [op : {"delete", "get"}, key : Keys]

Init ==
    /\ kv = [k \in Keys |-> Missing]
    /\ req = [c \in Callers |-> NoRequest]
    /\ done = {}
    /\ res = [c \in Callers |-> Missing]
    /\ err = {}

Call(c, r) ==
    /\ req[c] = NoRequest
    /\ req' = [req EXCEPT ![c] = r]
    /\ UNCHANGED <<kv, done, res, err>>

\* The instant a call takes effect.
Effect(c) ==
    /\ req[c] # NoRequest
    /\ c \notin done
    /\ done' = done \cup {c}
    /\ LET r == req[c] IN
         /\ kv' = CASE r.op = "put"    -> [kv EXCEPT ![r.key] = r.value]
                    [] r.op = "delete" -> [kv EXCEPT ![r.key] = Missing]
                    [] r.op = "get"    -> kv
         /\ res' = [res EXCEPT ![c] = IF r.op = "get" THEN kv[r.key] ELSE Missing]
    /\ UNCHANGED <<req, err>>

\* A Put or a Delete fails, before or after it has taken effect.
Fail(c) ==
    /\ req[c] # NoRequest
    /\ req[c].op \in {"put", "delete"}
    /\ done' = done \cup {c}
    /\ err' = err \cup {c}
    /\ UNCHANGED <<kv, req, res>>

Return(c) ==
    /\ c \in done
    /\ req' = [req EXCEPT ![c] = NoRequest]
    /\ done' = done \ {c}
    /\ res' = [res EXCEPT ![c] = Missing]
    /\ err' = err \ {c}
    /\ UNCHANGED kv

\* A process dies: its calls end, with or without having taken effect.
Crash(C) ==
    /\ req' = [c \in Callers |-> IF c \in C THEN NoRequest ELSE req[c]]
    /\ done' = done \ C
    /\ res' = [c \in Callers |-> IF c \in C THEN Missing ELSE res[c]]
    /\ err' = err \ C
    /\ UNCHANGED kv

Next ==
    \/ \E c \in Callers : Effect(c) \/ Fail(c) \/ Return(c) \/ \E r \in Requests : Call(c, r)
    \/ \E C \in SUBSET Callers : Crash(C)

Spec == Init /\ [][Next]_asVars
================================================================================
