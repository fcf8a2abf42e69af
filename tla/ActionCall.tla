------------------------------ MODULE ActionCall -------------------------------
(***************************************************************************)
(* An agent that runs actions of a connector, one call after the other     *)
(* (pgf run, or a request to pgf serve), on one thing kept by the service: *)
(* parameters and their defaults, the checks of Run, the requests over     *)
(* transport/http with its timeout and its retries on 429, and what the    *)
(* agent is told.  A request the client has given up on may still reach    *)
(* the service, during a later call or never.                              *)
(*                                                                         *)
(* A parameter's value is "zero" (empty, 0, false, or what the accessors   *)
(* of connector.Values make of text they cannot parse), "new", or the      *)
(* schema's "default".                                                     *)
(***************************************************************************)
EXTENDS Naturals, FiniteSets, FiniteSetsExt, ActionRow

CONSTANTS Actions,     \* rows (ActionRow) of the actions to run
          MaxCalls,    \* bound: calls the agent makes
          MaxOptional, \* bound: optional parameters it passes in a call
          MaxAttempts  \* requests RetryOn sends at most

\* What an update carries without having been passed it is a default that the
\* parameter's schema or description shows.
ShowsDefaults(a) ==
    a.always \cup {pq[1] : pq \in a.pairs} \subseteq a.needs \cup a.defaults \cup a.refills

\* Fields of the thing that no body carries.
Marks == {"exists", "followUp", "file"}

ASSUME BoundsAssumption == MaxCalls \in Nat /\ MaxAttempts \in Nat \ {0}
ASSUME RowsAssumption ==
    \A a \in Actions : /\ a.effect \in Effects
                       /\ Carries(a) \cap Marks = {}
                       /\ a.effect = "update" => ShowsDefaults(a)

VARIABLES kind,     \* what this agent works on
          world,    \* the thing: its fields, whether it "exists", whether the
                    \* "followUp" was made, and the local "file"
          late,     \* requests the service has yet to work on although nobody
                    \* waits for it
          n,        \* calls made
          call,     \* the current call, or the last one
          stage,    \* where it is
          attempt,  \* requests it has sent
          reply,    \* what the service answered to the last of them
          result    \* what the agent was told

\* History.
VARIABLES known,    \* what the agent concludes from calls reported as done
          doubts,   \* calls whose outcome it cannot know
          effects   \* [1..MaxCalls -> how often the service did what was asked]

callVars == <<n, call, stage, attempt, reply, result>>
vars == <<kind, world, late, callVars, known, doubts, effects>>

Kinds == {a.kind : a \in Actions}
ActionsOf(k) == {a \in Actions : a.kind = k}
Fields(k) == Marks \cup UNION {Carries(a) : a \in ActionsOf(k)}
Values == {"old", "server", "new", "zero", "default", "yes", "no", "cut"}

(***************************************************************************)
(* Parameters and bodies.                                                  *)
(***************************************************************************)
ValueOf(c, p) ==
    CASE p \in c.given \ c.zeros -> "new"
      [] p \in c.action.refills \ (c.given \ c.zeros) -> "default"
      [] p \in c.zeros \ c.action.refills -> "zero"
      [] OTHER -> IF p \in c.action.defaults THEN "default" ELSE "zero"

Present(c, p) == p \in c.given \cup c.action.defaults
NotZero(c, p) == ValueOf(c, p) # "zero"

\* Mutant: an update sends all it could, not what was passed.
BodyAll(c) == c.action.always \cup c.action.set \cup c.action.has
Body(c) == c.action.always
           \cup {p \in c.action.set : NotZero(c, p)}
           \cup {p \in c.action.has : Present(c, p)}
           \cup {pq[1] : pq \in {r \in c.action.pairs : NotZero(c, r[2])}}
FollowsUp(c) == \E p \in c.action.followUp : NotZero(c, p)

\* The checks of Run; a default of the credential stands in for the scope.
Accepted(c, credentialDefault) ==
    /\ \A p \in c.action.needs : NotZero(c, p)
    /\ credentialDefault \/ \A p \in c.action.scope : NotZero(c, p)
    /\ c.action.oneOf # {} => Cardinality({p \in c.action.oneOf : NotZero(c, p)}) = 1
    /\ c.action.nonempty => Body(c) \ c.action.always # {}

\* The parameters a caller can pass: all that Run needs but one at most, some
\* of the others, one of them at most zero.
Givens(a) == {(a.needs \ out) \cup opt :
                 out \in {{}} \cup {{p} : p \in a.needs},
                 opt \in UNION {kSubset(i, Params(a) \ a.needs) : i \in 0..MaxOptional}}
Calls(a) == UNION {{[action |-> a, given |-> g, zeros |-> z] :
                       z \in {{}} \cup {{p} : p \in g}} : g \in Givens(a)}

\* Those Run accepts, and the kinds whose actions refuse some.
AcceptedCalls == {c \in UNION {Calls(a) : a \in Actions} : Accepted(c, TRUE)}
Refusing == {a.kind : a \in {b \in Actions : \E c \in Calls(b) : ~Accepted(c, FALSE)}}

(***************************************************************************)
(* What a request does to the thing.  A create that finds the thing there  *)
(* makes another one; the agent goes on with the first.                    *)
(***************************************************************************)
There == world["exists"] = "yes"

Fresh(c) == [f \in DOMAIN world |->
               CASE f = "exists"    -> "yes"
                 [] f = "followUp"  -> "no"
                 [] f = "file"      -> world[f]
                 [] f \in Body(c)   -> ValueOf(c, f)
                 [] OTHER           -> "server"]
Changed(c) == [f \in DOMAIN world |-> IF f \in Body(c) THEN ValueOf(c, f) ELSE world[f]]
Gone == [f \in DOMAIN world |-> IF f = "file" THEN world[f] ELSE "no"]

After(c) ==
    CASE c.action.effect \in {"read", "send"} -> world
      [] c.action.effect = "create"  -> IF There THEN world ELSE Fresh(c)
      [] c.action.effect = "update"  -> Changed(c)
      [] c.action.effect = "upsert"  -> IF There THEN Changed(c) ELSE Fresh(c)
      [] c.action.effect = "replace" -> Fresh(c)
      [] c.action.effect = "delete"  -> Gone

\* The service does what the request of call i asks.
Do(i, c) == /\ c.action.effect = "update" => There
            /\ world' = After(c)
            /\ effects' = IF c.action.effect = "read" THEN effects
                          ELSE [effects EXCEPT ![i] = @ + 1]

\* What of the thing a call may change.
Touches(c) ==
    (IF FollowsUp(c) THEN {"followUp"} ELSE {})
    \cup (IF c.action.saves THEN {"file"} ELSE {})
    \cup CASE c.action.effect \in {"read", "send"} -> {}
           [] c.action.effect = "update" -> Body(c)
           [] OTHER                      -> DOMAIN world \ {"file"}

\* What the caller passed, or was shown a default of.
Shown(c) == c.given \cup c.action.defaults \cup c.action.refills

\* What the agent concludes about the thing once the service has done it; of an
\* update, that it changed what was passed or has a default, and nothing else.
Learns(c) ==
    IF reply = "another" THEN known ELSE
    CASE c.action.effect = "send" -> known
      [] c.action.effect = "update" ->
            [f \in DOMAIN known |-> IF f \in Body(c) \cap Shown(c) THEN ValueOf(c, f) ELSE known[f]]
      [] c.action.effect = "upsert" ->
            [f \in DOMAIN known |-> CASE f = "exists"  -> "yes"
                                      [] f = "file"    -> known[f]
                                      [] f \in Body(c) -> ValueOf(c, f)
                                      [] OTHER         -> "unknown"]
      [] c.action.effect \in {"create", "replace"} ->
            [Fresh(c) EXCEPT !["file"] = known["file"]]
      [] c.action.effect = "delete" ->
            [f \in DOMAIN known |-> CASE f = "exists" -> "no"
                                      [] f = "file"   -> known[f]
                                      [] OTHER        -> "unknown"]
      [] OTHER -> IF There THEN [world EXCEPT !["file"] = known["file"]] ELSE known

(***************************************************************************)
(* The call.                                                               *)
(***************************************************************************)
NoCall == [action |-> Read("", {}), given |-> {}, zeros |-> {}]

Init ==
    /\ kind \in Kinds
    /\ \E e \in {"yes", "no"} :
          world = [f \in Fields(kind) |-> IF f \in {"followUp", "file"} THEN "no"
                                          ELSE IF f = "exists" THEN e
                                          ELSE IF e = "yes" THEN "old" ELSE "no"]
    /\ late = {}
    /\ n = 0 /\ call = NoCall
    /\ stage = "done" /\ attempt = 0 /\ reply = "none" /\ result = "none"
    /\ known = [f \in Fields(kind) |-> "unknown"]
    /\ doubts = {}
    /\ effects = [i \in 1..MaxCalls |-> 0]

\* The current call returns.
Return(r) == /\ stage' = "done"
             /\ result' = r
             /\ call' = NoCall /\ attempt' = 0 /\ reply' = "none"
             /\ UNCHANGED n

\* Nobody will know whether the current call had its effect.
Doubt == doubts' = doubts \cup {[nr |-> n, call |-> call]}

Begin(c) ==
    /\ stage = "done" /\ n < MaxCalls /\ c.action.kind = kind
    /\ n' = n + 1 /\ call' = c
    /\ stage' = IF c.action.lookup THEN "lookup" ELSE "send"
    /\ result' = "none"
    /\ UNCHANGED <<kind, world, late, attempt, reply, known, doubts, effects>>

\* Run refuses the parameters before it sends anything.
BeginRefused ==
    /\ stage = "done" /\ n < MaxCalls /\ kind \in Refusing
    /\ n' = n + 1 /\ result' = "error"
    /\ UNCHANGED <<kind, world, late, call, stage, attempt, reply, known, doubts, effects>>

\* The lookups answer, or are not needed because an id was passed.
Lookup == /\ stage = "lookup"
          /\ stage' = "send"
          /\ UNCHANGED <<kind, world, late, n, call, attempt, reply, result, known, doubts, effects>>

LookupFails == /\ stage = "lookup"
               /\ Return("error")
               /\ UNCHANGED <<kind, world, late, known, doubts, effects>>

\* Mutant: attempts are not counted.
SendUncounted == /\ stage = "send"
                 /\ stage' = "wait" /\ reply' = "none"
                 /\ UNCHANGED <<kind, world, late, n, call, attempt, result, known, doubts, effects>>
SendRequest == /\ stage = "send"
               /\ stage' = "wait" /\ attempt' = attempt + 1 /\ reply' = "none"
               /\ UNCHANGED <<kind, world, late, n, call, result, known, doubts, effects>>

(***************************************************************************)
(* The service, for the request somebody waits for.                        *)
(***************************************************************************)
Waiting == stage = "wait" /\ reply = "none"

Serve == /\ Waiting /\ ~call.action.async
         /\ Do(n, call)
         /\ reply' = IF call.action.effect = "create" /\ There THEN "another" ELSE "ok"
         /\ UNCHANGED <<kind, late, n, call, stage, attempt, result, known, doubts>>

\* It queues the work and says so.
ServeLater == /\ Waiting /\ call.action.async
              /\ reply' = "ok"
              /\ late' = late \cup {[nr |-> n, call |-> call]}
              /\ Doubt
              /\ UNCHANGED <<kind, world, n, call, stage, attempt, result, known, effects>>

\* Any status that is no success, 429 among them.
Refuse == /\ Waiting
          /\ reply' \in {"refused", "busy"}
          /\ UNCHANGED <<kind, world, late, n, call, stage, attempt, result, known, doubts, effects>>

(***************************************************************************)
(* The client.                                                             *)
(***************************************************************************)
\* Mutant: the status of the answer is not looked at.
AnySuccess == reply # "none"
Succeeded == reply \in {"ok", "another"}

Receive == /\ stage = "wait" /\ Succeeded
           /\ known' = IF call.action.async THEN known ELSE Learns(call)
           /\ IF FollowsUp(call) \/ call.action.saves
                THEN /\ stage' = IF call.action.saves THEN "create" ELSE "followUp"
                     /\ UNCHANGED <<n, call, attempt, reply, result>>
                ELSE Return("ok")
           /\ UNCHANGED <<kind, world, late, doubts, effects>>

\* Mutant: a retry after a lost answer.
RetryLost == /\ stage = "wait" /\ reply # "refused"
             /\ call.action.retries /\ attempt < MaxAttempts
             /\ stage' = "send"
             /\ UNCHANGED <<kind, world, late, n, call, attempt, reply, result, known, doubts, effects>>
Retry == /\ stage = "wait" /\ reply = "busy"
         /\ call.action.retries /\ attempt < MaxAttempts
         /\ stage' = "send"
         /\ UNCHANGED <<kind, world, late, n, call, attempt, reply, result, known, doubts, effects>>

Refused == /\ stage = "wait" /\ reply \in {"refused", "busy"}
           /\ reply = "busy" => ~(call.action.retries /\ attempt < MaxAttempts)
           /\ Return("error")
           /\ UNCHANGED <<kind, world, late, known, doubts, effects>>

\* The connection breaks, the time is up, or the answer cannot be read or lacks
\* the id that the follow-up needs.  A request the service has not seen may be
\* on its way still.
GiveUp == /\ stage = "wait"
          /\ Return("error")
          /\ IF call.action.effect = "read"
               THEN UNCHANGED <<late, doubts>>
               ELSE /\ Doubt
                    /\ late' \in IF reply = "none" THEN {late, late \cup {[nr |-> n, call |-> call]}}
                                 ELSE {late}
          /\ UNCHANGED <<kind, world, known, effects>>

Late(q) == /\ late' = late \ {q}
           /\ Do(q.nr, q.call)
           /\ UNCHANGED <<kind, callVars, known, doubts>>

LateRefused(q) == /\ late' = late \ {q}
                  /\ UNCHANGED <<kind, world, callVars, known, doubts, effects>>

(***************************************************************************)
(* After the request.                                                      *)
(***************************************************************************)
FollowUp == /\ stage = "followUp"
            /\ IF reply = "another" THEN UNCHANGED <<world, known>>
               ELSE /\ world' = [world EXCEPT !["followUp"] = "yes"]
                    /\ known' = [known EXCEPT !["followUp"] = "yes"]
            /\ Return("ok")
            /\ UNCHANGED <<kind, late, doubts, effects>>

\* Mutant: the second change fails the whole call.
FollowUpFatal ==
    /\ stage = "followUp"
    /\ known' = [known EXCEPT !["followUp"] = "unknown"]
    /\ Return("error")
    /\ UNCHANGED <<kind, world, late, doubts, effects>>
\* It is refused, or its answer is lost after it was done.
FollowUpFails ==
    /\ stage = "followUp"
    /\ world' \in {world} \cup IF reply = "another" THEN {}
                               ELSE {[world EXCEPT !["followUp"] = "yes"]}
    /\ known' = [known EXCEPT !["followUp"] = "unknown"]
    /\ Return("partial")
    /\ UNCHANGED <<kind, late, doubts, effects>>

\* os.Create empties the file before the first byte has arrived.
CreateFile == /\ stage = "create"
              /\ stage' = "copy"
              /\ world' = [world EXCEPT !["file"] = "cut"]
              /\ UNCHANGED <<kind, late, n, call, attempt, reply, result, known, doubts, effects>>

Copy == /\ stage = "copy"
        /\ world' = [world EXCEPT !["file"] = "new"]
        /\ known' = [known EXCEPT !["file"] = "new"]
        /\ Return("ok")
        /\ UNCHANGED <<kind, late, doubts, effects>>

SaveFails == /\ stage \in {"create", "copy"}
             /\ Doubt
             /\ Return("error")
             /\ UNCHANGED <<kind, world, late, known, effects>>

CallStep == \/ Lookup \/ LookupFails \/ SendRequest
            \/ Receive \/ Retry \/ Refused \/ GiveUp
            \/ FollowUp \/ FollowUpFails \/ CreateFile \/ Copy \/ SaveFails

ServiceStep == \/ Serve \/ ServeLater \/ Refuse
               \/ \E q \in late : Late(q) \/ LateRefused(q)

Next == \/ \E c \in AcceptedCalls : Begin(c)
        \/ BeginRefused
        \/ CallStep
        \/ ServiceStep

Spec == Init /\ [][Next]_vars

\* The code goes on, and the client's timeout ends every wait.
FairSpec == Spec /\ WF_vars(CallStep)

(***************************************************************************)
(* Properties.                                                             *)
(***************************************************************************)
Outcomes == {"none", "ok", "partial", "error"}
Stages == {"done", "lookup", "send", "wait", "followUp", "create", "copy"}

WellFormed(c) == /\ c.action.kind = kind
                 /\ c.zeros \subseteq c.given
                 /\ Accepted(c, TRUE)
                 /\ Body(c) \subseteq DOMAIN world

\* The state has the shape the comments above give it, and only a request
\* whose call has returned, or is of a queued kind, is late.
TypeOK ==
    /\ Marks \subseteq DOMAIN world
    /\ world \in [DOMAIN world -> Values]
    /\ known \in [DOMAIN world -> Values \cup {"unknown"}]
    /\ n \in 0..MaxCalls /\ attempt \in 0..MaxAttempts
    /\ stage \in Stages /\ result \in Outcomes
    /\ reply \in {"none", "ok", "another", "refused", "busy"}
    /\ IF stage = "done" THEN call = NoCall ELSE WellFormed(call)
    /\ late \subseteq doubts
    /\ \A q \in doubts : q.nr \in 1..n /\ WellFormed(q.call)
    /\ effects \in [1..MaxCalls -> Nat]

\* Fields that a call of unknown outcome, or the one under way, may change.
Doubtful == (UNION {Touches(q.call) : q \in doubts})
            \cup (IF stage = "done" THEN {} ELSE Touches(call))

\* What the agent concludes from calls reported as done (the fields it passed to
\* an update or a create, that a thing was deleted, a file saved) is so, and
\* stays so through its later calls, refused ones, retries and requests that
\* reach the service late, but for fields that a call of unknown outcome
\* carried.  An update that sent a zero for what its caller left out would undo
\* an earlier one behind the agent's back.
KnownIsTrue == \A f \in DOMAIN world \ Doubtful :
                  known[f] \in {"unknown", world[f]}

\* One call has its effect at most once: RetryOn repeats a request only after
\* the service has refused it, and nothing is repeated after a timeout.
OncePerCall == \A i \in 1..MaxCalls : effects[i] <= 1

\* A call reported as failed has changed nothing, unless its answer was lost
\* or the file could not be written: lookups come before the request with the
\* effect, and what comes after it cannot fail the call.
FailedDidNothing ==
    (stage = "done" /\ result = "error" /\ n \notin {q.nr : q \in doubts})
        => effects[n] = 0

\* Every call returns: each request is answered or timed out, and refusals
\* are retried a bounded number of times.
Returns == stage # "done" ~> stage = "done"
================================================================================
