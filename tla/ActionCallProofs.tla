---------------------------- MODULE ActionCallProofs ---------------------------
(***************************************************************************)
(* For every table of actions that satisfies RowsAssumption, any number of *)
(* calls, optional parameters and attempts: one call has one effect, a     *)
(* failed call none, and what the agent concludes is true.                 *)
(***************************************************************************)
EXTENDS ActionCall, TLAPS

(***************************************************************************)
(* The inductive invariant.                                                *)
(***************************************************************************)
ProperCall(c) == /\ c.action \in Actions
                 /\ c.action.kind = kind
                 /\ c.zeros \subseteq c.given
                 /\ Accepted(c, TRUE)

Types ==
    /\ kind \in Kinds
    /\ world \in [Fields(kind) -> Values]
    /\ known \in [Fields(kind) -> Values \cup {"unknown"}]
    /\ n \in 0..MaxCalls /\ attempt \in 0..MaxAttempts
    /\ stage \in Stages /\ result \in Outcomes
    /\ reply \in {"none", "ok", "another", "refused", "busy"}
    /\ late \subseteq doubts
    /\ effects \in [1..MaxCalls -> Nat]

Calling ==
    /\ IF stage = "done" THEN call = NoCall ELSE ProperCall(call) /\ n \in 1..MaxCalls
    /\ \A q \in doubts : q.nr \in 1..n /\ ProperCall(q.call)
    /\ stage \in {"done", "lookup"} => attempt = 0 /\ reply = "none"
    /\ stage = "send" => attempt < MaxAttempts /\ reply \in {"none", "busy"}
    /\ stage \in {"followUp", "create", "copy"} => Succeeded
    /\ stage = "followUp" => FollowsUp(call)
    /\ stage \in {"create", "copy"} => call.action.saves
    /\ result = "error" => n \in 1..MaxCalls

\* The service has not done, and nothing else can still do, the current call.
Undone == stage \in {"lookup", "send"} \/ (stage = "wait" /\ ~Succeeded)

Counted ==
    /\ \A i \in 1..MaxCalls : effects[i] \in {0, 1}
    /\ \A i \in 1..MaxCalls : i > n => effects[i] = 0
    /\ \A q \in late : effects[q.nr] = 0
    /\ \A q, r \in late : q.nr = r.nr => q = r
    /\ Undone => effects[n] = 0 /\ \A q \in late : q.nr # n
    /\ \A q \in late : stage # "done" /\ q.nr = n => q.call = call
    /\ stage # "done" /\ call.action.effect = "read" => effects[n] = 0
    /\ FailedDidNothing

IInv == Types /\ Calling /\ Counted

(***************************************************************************)
(* Facts about calls.                                                      *)
(***************************************************************************)

\* Every call the agent can begin is of a row of the table.
LEMMA AcceptedIsProper ==
    ASSUME NEW c \in AcceptedCalls, c.action.kind = kind
    PROVE  ProperCall(c)
<1>1. PICK a \in Actions : c \in Calls(a)
  BY DEF AcceptedCalls
<1>2. PICK g \in Givens(a) : \E z \in {{}} \cup {{p} : p \in g} :
                                 c = [action |-> a, given |-> g, zeros |-> z]
  BY <1>1 DEF Calls
<1>3. PICK z \in {{}} \cup {{p} : p \in g} : c = [action |-> a, given |-> g, zeros |-> z]
  BY <1>2
<1>4. z \subseteq g
  BY <1>3
<1>5. Accepted(c, TRUE)
  BY DEF AcceptedCalls
<1> QED
  BY <1>3, <1>4, <1>5 DEF ProperCall

\* A body goes to fields of the thing.
LEMMA BodyFields ==
    ASSUME NEW c, ProperCall(c)
    PROVE  Body(c) \subseteq Fields(kind) /\ Body(c) \cap Marks = {}
<1>1. Body(c) \subseteq Carries(c.action)
  BY DEF Body, Carries
<1>2. c.action \in ActionsOf(kind)
  BY DEF ProperCall, ActionsOf
<1>3. Carries(c.action) \subseteq Fields(kind)
  BY <1>2 DEF Fields
<1>4. Carries(c.action) \cap Marks = {}
  BY RowsAssumption DEF ProperCall
<1> QED
  BY <1>1, <1>3, <1>4

LEMMA ValueIsValue ==
    ASSUME NEW c, NEW p
    PROVE  ValueOf(c, p) \in Values
BY DEF ValueOf, Values

\* What a request makes of the thing is a thing.
LEMMA AfterIsWorld ==
    ASSUME Types, NEW c, ProperCall(c)
    PROVE  After(c) \in [Fields(kind) -> Values]
<1>1. world \in [Fields(kind) -> Values] /\ DOMAIN world = Fields(kind)
  BY DEF Types
<1>2. Fresh(c) \in [Fields(kind) -> Values]
  BY <1>1, ValueIsValue DEF Fresh, Values
<1>3. Changed(c) \in [Fields(kind) -> Values]
  BY <1>1, ValueIsValue DEF Changed
<1>4. Gone \in [Fields(kind) -> Values]
  BY <1>1 DEF Gone, Values
<1>5. c.action.effect \in Effects
  BY RowsAssumption DEF ProperCall
<1> QED
  BY <1>1, <1>2, <1>3, <1>4, <1>5 DEF After, Effects

\* What is concluded is a set of values of the fields.
LEMMA LearnsIsKnown ==
    ASSUME Types, NEW c, ProperCall(c)
    PROVE  Learns(c) \in [Fields(kind) -> Values \cup {"unknown"}]
<1> DEFINE K == [Fields(kind) -> Values \cup {"unknown"}]
<1>1. /\ world \in [Fields(kind) -> Values] /\ DOMAIN world = Fields(kind)
      /\ known \in K /\ DOMAIN known = Fields(kind)
  BY DEF Types
<1>2. Marks \subseteq Fields(kind)
  BY DEF Fields
<1>3. Fresh(c) \in [Fields(kind) -> Values]
  BY <1>1, ValueIsValue DEF Fresh, Values
<1>4. "yes" \in Values /\ "no" \in Values
  BY DEF Values
<1>5. [f \in DOMAIN known |-> IF f \in Body(c) \cap Shown(c) THEN ValueOf(c, f) ELSE known[f]] \in K
  BY <1>1, ValueIsValue
<1>6. [f \in DOMAIN known |-> CASE f = "exists"  -> "yes"
                                [] f = "file"    -> known[f]
                                [] f \in Body(c) -> ValueOf(c, f)
                                [] OTHER         -> "unknown"] \in K
  BY <1>1, <1>4, ValueIsValue
<1>7. [f \in DOMAIN known |-> CASE f = "exists" -> "no"
                                [] f = "file"   -> known[f]
                                [] OTHER        -> "unknown"] \in K
  BY <1>1, <1>4
<1>8. /\ [Fresh(c) EXCEPT !["file"] = known["file"]] \in K
      /\ [world EXCEPT !["file"] = known["file"]] \in K
  BY <1>1, <1>2, <1>3 DEF Marks
<1> QED
  BY <1>1, <1>5, <1>6, <1>7, <1>8 DEF Learns

(***************************************************************************)
(* Every step keeps the types.                                             *)
(***************************************************************************)
LEMMA InitInv == Init => IInv
<1> SUFFICES ASSUME Init PROVE IInv
  OBVIOUS
<1>1. Fields(kind) = DOMAIN world
  BY DEF Init
<1>2. Types
  BY BoundsAssumption DEF Init, Types, Values, Stages, Outcomes
<1>3. Calling
  BY BoundsAssumption DEF Init, Calling
<1>4. Counted
  BY BoundsAssumption DEF Init, Counted, Undone, FailedDidNothing
<1> QED
  BY <1>2, <1>3, <1>4 DEF IInv

LEMMA TypesNext == IInv /\ [Next]_vars => Types'
<1> SUFFICES ASSUME IInv, [Next]_vars PROVE Types'
  OBVIOUS
<1> USE BoundsAssumption DEF IInv, Types, Calling, Return, Doubt, Stages, Outcomes
<1>0. Marks \subseteq Fields(kind) /\ {"yes", "no", "new", "cut"} \subseteq Values
  BY DEF Fields, Values
<1>1. ASSUME NEW c \in AcceptedCalls, Begin(c) PROVE Types'
  BY <1>1 DEF Begin
<1>2. CASE BeginRefused
  BY <1>2 DEF BeginRefused
<1>3. CASE Lookup
  BY <1>3 DEF Lookup
<1>4. CASE LookupFails
  BY <1>4 DEF LookupFails
<1>5. CASE SendRequest
  BY <1>5 DEF SendRequest
<1>6. CASE Serve
  BY <1>6, <1>0, AfterIsWorld DEF Serve, Waiting, Do
<1>7. CASE ServeLater
  BY <1>7 DEF ServeLater, Waiting
<1>8. CASE Refuse
  BY <1>8 DEF Refuse, Waiting
<1>9. CASE Receive
  BY <1>9, LearnsIsKnown DEF Receive
<1>10. CASE Retry
  BY <1>10 DEF Retry
<1>11. CASE Refused
  BY <1>11 DEF Refused
<1>12. CASE GiveUp
  BY <1>12 DEF GiveUp
<1>13. CASE FollowUp
  <2>1. CASE reply = "another"
    BY <1>13, <2>1 DEF FollowUp
  <2>2. CASE reply # "another"
    <3>1. /\ world' = [world EXCEPT !["followUp"] = "yes"]
          /\ known' = [known EXCEPT !["followUp"] = "yes"]
          /\ UNCHANGED <<kind, late, n, doubts, effects>>
      BY <1>13, <2>2 DEF FollowUp
    <3>2. world' \in [Fields(kind) -> Values]
      BY <3>1, <1>0 DEF Marks
    <3>3. known' \in [Fields(kind) -> Values \cup {"unknown"}]
      BY <3>1, <1>0 DEF Marks
    <3> QED
      BY <1>13, <3>1, <3>2, <3>3 DEF FollowUp
  <2> QED
    BY <2>1, <2>2
<1>14. CASE FollowUpFails
  BY <1>14, <1>0 DEF FollowUpFails, Marks
<1>15. CASE CreateFile
  BY <1>15, <1>0 DEF CreateFile, Marks
<1>16. CASE Copy
  BY <1>16, <1>0 DEF Copy, Marks
<1>17. CASE SaveFails
  BY <1>17 DEF SaveFails
<1>18. ASSUME NEW q \in late, Late(q) PROVE Types'
  BY <1>18, AfterIsWorld DEF Late, Do, callVars
<1>19. ASSUME NEW q \in late, LateRefused(q) PROVE Types'
  BY <1>19 DEF LateRefused, callVars
<1>20. CASE UNCHANGED vars
  BY <1>20 DEF vars, callVars
<1> QED
  BY <1>1, <1>2, <1>3, <1>4, <1>5, <1>6, <1>7, <1>8, <1>9, <1>10, <1>11, <1>12, <1>13, <1>14, <1>15, <1>16, <1>17, <1>18, <1>19, <1>20 DEF Next, CallStep, ServiceStep

(***************************************************************************)
(* Every step keeps the relation between the call and where it is.         *)
(***************************************************************************)
LEMMA CallingNext == IInv /\ [Next]_vars => Calling'
<1> SUFFICES ASSUME IInv, [Next]_vars PROVE Calling'
  OBVIOUS
<1>0. kind' = kind /\ (\A c : ProperCall(c)' <=> ProperCall(c))
  <2>1. kind' = kind
    BY DEF Next, CallStep, ServiceStep, vars, callVars, Begin, Late, LateRefused, BeginRefused, Lookup, LookupFails, SendRequest, Serve, ServeLater, Refuse, Receive, Retry, Refused, GiveUp, FollowUp, FollowUpFails, CreateFile, Copy, SaveFails
  <2> QED
    BY <2>1 DEF ProperCall, Accepted, NotZero, ValueOf, Body, Present
<1> USE BoundsAssumption, <1>0 DEF IInv, Types, Calling, Return, Doubt, Succeeded, FollowsUp
<1>1. ASSUME NEW c \in AcceptedCalls, Begin(c) PROVE Calling'
  BY <1>1, AcceptedIsProper DEF Begin
<1>2. CASE BeginRefused
  BY <1>2 DEF BeginRefused
<1>3. CASE Lookup
  BY <1>3 DEF Lookup
<1>4. CASE LookupFails
  BY <1>4 DEF LookupFails
<1>5. CASE SendRequest
  BY <1>5 DEF SendRequest
<1>6. CASE Serve
  BY <1>6 DEF Serve, Waiting, Do
<1>7. CASE ServeLater
  BY <1>7 DEF ServeLater, Waiting
<1>8. CASE Refuse
  BY <1>8 DEF Refuse, Waiting
<1>9. CASE Receive
  BY <1>9 DEF Receive
<1>10. CASE Retry
  BY <1>10 DEF Retry
<1>11. CASE Refused
  BY <1>11 DEF Refused
<1>12. CASE GiveUp
  BY <1>12 DEF GiveUp
<1>13. CASE FollowUp
  BY <1>13 DEF FollowUp
<1>14. CASE FollowUpFails
  BY <1>14 DEF FollowUpFails
<1>15. CASE CreateFile
  BY <1>15 DEF CreateFile
<1>16. CASE Copy
  BY <1>16 DEF Copy
<1>17. CASE SaveFails
  BY <1>17 DEF SaveFails
<1>18. ASSUME NEW q \in late, Late(q) PROVE Calling'
  BY <1>18 DEF Late, Do, callVars
<1>19. ASSUME NEW q \in late, LateRefused(q) PROVE Calling'
  BY <1>19 DEF LateRefused, callVars
<1>20. CASE UNCHANGED vars
  BY <1>20 DEF vars, callVars
<1> QED
  BY <1>1, <1>2, <1>3, <1>4, <1>5, <1>6, <1>7, <1>8, <1>9, <1>10, <1>11, <1>12, <1>13, <1>14, <1>15, <1>16, <1>17, <1>18, <1>19, <1>20 DEF Next, CallStep, ServiceStep

(***************************************************************************)
(* Every step keeps the count of effects.                                  *)
(***************************************************************************)
LEMMA CountedNext == IInv /\ [Next]_vars => Counted'
<1> SUFFICES ASSUME IInv, [Next]_vars PROVE Counted'
  OBVIOUS
<1> USE BoundsAssumption DEF IInv, Types, Calling, Counted, Return, Doubt, Succeeded, Undone, FailedDidNothing
<1>1. ASSUME NEW c \in AcceptedCalls, Begin(c) PROVE Counted'
  BY <1>1 DEF Begin
<1>2. CASE BeginRefused
  BY <1>2 DEF BeginRefused
<1>3. CASE Lookup
  BY <1>3 DEF Lookup
<1>4. CASE LookupFails
  BY <1>4 DEF LookupFails
<1>5. CASE SendRequest
  BY <1>5 DEF SendRequest
<1>6. CASE Serve
  BY <1>6 DEF Serve, Waiting, Do
<1>7. CASE ServeLater
  BY <1>7 DEF ServeLater, Waiting
<1>8. CASE Refuse
  BY <1>8 DEF Refuse, Waiting
<1>9. CASE Receive
  BY <1>9 DEF Receive
<1>10. CASE Retry
  BY <1>10 DEF Retry
<1>11. CASE Refused
  BY <1>11 DEF Refused
<1>12. CASE GiveUp
  <2>1. CASE call.action.effect = "read"
    BY <1>12, <2>1 DEF GiveUp
  <2>2. CASE call.action.effect # "read"
    <3> DEFINE q == [nr |-> n, call |-> call]
    <3>1. /\ q \in doubts' /\ q.nr = n /\ n' = n
          /\ stage' = "done" /\ UNCHANGED effects
          /\ late' = late \/ (late' = late \cup {q} /\ reply = "none")
      BY <1>12, <2>2 DEF GiveUp
    <3>2. n' \in {r.nr : r \in doubts'}
      BY <3>1
    <3>3. stage = "wait"
      BY <1>12 DEF GiveUp
    <3> QED
      BY <3>1, <3>2, <3>3
  <2> QED
    BY <2>1, <2>2
<1>13. CASE FollowUp
  BY <1>13 DEF FollowUp
<1>14. CASE FollowUpFails
  BY <1>14 DEF FollowUpFails
<1>15. CASE CreateFile
  BY <1>15 DEF CreateFile
<1>16. CASE Copy
  BY <1>16 DEF Copy
<1>17. CASE SaveFails
  <2> DEFINE q == [nr |-> n, call |-> call]
  <2>1. q \in doubts' /\ q.nr = n' /\ UNCHANGED <<n, late, effects>> /\ stage' = "done"
    BY <1>17 DEF SaveFails
  <2>2. n' \in {r.nr : r \in doubts'}
    BY <2>1
  <2> QED
    BY <2>1, <2>2
<1>18. ASSUME NEW q \in late, Late(q) PROVE Counted'
  BY <1>18 DEF Late, Do, callVars
<1>19. ASSUME NEW q \in late, LateRefused(q) PROVE Counted'
  BY <1>19 DEF LateRefused, callVars
<1>20. CASE UNCHANGED vars
  BY <1>20 DEF vars, callVars
<1> QED
  BY <1>1, <1>2, <1>3, <1>4, <1>5, <1>6, <1>7, <1>8, <1>9, <1>10, <1>11, <1>12, <1>13, <1>14, <1>15, <1>16, <1>17, <1>18, <1>19, <1>20 DEF Next, CallStep, ServiceStep

LEMMA Inductive == Spec => []IInv
<1>1. IInv /\ [Next]_vars => IInv'
  BY TypesNext, CallingNext, CountedNext DEF IInv
<1> QED
  BY <1>1, InitInv, PTL DEF Spec

(***************************************************************************)
(* Type correctness, one effect a call, no effect of a failed call.        *)
(***************************************************************************)

\* The state keeps its shape; a late request is of a call that returned
\* with its outcome unknown, or was queued.
THEOREM TypeCorrect == Spec => []TypeOK
<1>1. ASSUME IInv PROVE TypeOK
  <2>1. DOMAIN world = Fields(kind) /\ Marks \subseteq Fields(kind)
    BY <1>1 DEF IInv, Types, Fields
  <2>2. \A c : ProperCall(c) => WellFormed(c)
    BY <2>1, BodyFields DEF ProperCall, WellFormed
  <2> QED
    BY <1>1, <2>1, <2>2 DEF IInv, Types, Calling, TypeOK
<1> QED
  BY <1>1, Inductive, PTL

\* The service does what one call asks for at most once, whatever is
\* retried, given up or arrives late.
THEOREM OneEffect == Spec => []OncePerCall
<1>1. ASSUME IInv PROVE OncePerCall
  BY <1>1 DEF IInv, Counted, OncePerCall
<1> QED
  BY <1>1, Inductive, PTL

\* A call reported as failed, and not of unknown outcome, changed nothing.
THEOREM FailureIsClean == Spec => []FailedDidNothing
<1>1. ASSUME IInv PROVE FailedDidNothing
  BY <1>1 DEF IInv, Counted
<1> QED
  BY <1>1, Inductive, PTL

(***************************************************************************)
(* A request changes what it was asked to change.                          *)
(***************************************************************************)

\* What a call changes it touches, and the local file is not the service's.
LEMMA AfterTouches ==
    ASSUME Types, NEW c, ProperCall(c), NEW f \in DOMAIN world, After(c)[f] # world[f]
    PROVE  f \in Touches(c) /\ f # "file"
<1>1. c.action.effect \in Effects /\ Body(c) \cap Marks = {}
  BY RowsAssumption, BodyFields DEF ProperCall
<1>2. CASE c.action.effect \in {"read", "send"}
  BY <1>2 DEF After
<1>3. CASE c.action.effect = "update"
  <2>1. f \in Body(c)
    BY <1>3 DEF After, Changed
  <2> QED
    BY <2>1, <1>1, <1>3 DEF Touches, Marks
<1>4. CASE c.action.effect \in {"create", "upsert", "replace", "delete"}
  <2>1. f # "file"
    <3> SUFFICES ASSUME f = "file" PROVE After(c)[f] = world[f]
      OBVIOUS
    <3>1. f \notin Body(c)
      BY <1>1 DEF Marks
    <3>2. Fresh(c)[f] = world[f] /\ Gone[f] = world[f] /\ Changed(c)[f] = world[f]
      BY <3>1 DEF Fresh, Gone, Changed
    <3> QED
      BY <1>4, <3>2 DEF After
  <2> QED
    BY <2>1, <1>4 DEF Touches
<1> QED
  BY <1>1, <1>2, <1>3, <1>4 DEF Effects

\* An update carries only what its caller passed or was shown a default of.
LEMMA UpdateCarriesShown ==
    ASSUME NEW c, ProperCall(c), c.action.effect = "update"
    PROVE  Body(c) \subseteq Shown(c)
<1> SUFFICES ASSUME NEW f \in Body(c) PROVE f \in Shown(c)
  OBVIOUS
<1>1. ShowsDefaults(c.action)
  BY RowsAssumption DEF ProperCall
<1>2. ASSUME NEW p, NotZero(c, p)
      PROVE  p \in Shown(c)
  BY <1>2 DEF NotZero, ValueOf, Shown
<1>3. ASSUME NEW p \in c.action.needs
      PROVE  p \in Shown(c)
  BY <1>2, <1>3 DEF ProperCall, Accepted
<1>4. CASE f \in c.action.always
  BY <1>1, <1>3, <1>4 DEF ShowsDefaults, Shown
<1>5. CASE f \in c.action.set /\ NotZero(c, f)
  BY <1>2, <1>5
<1>6. CASE f \in c.action.has /\ Present(c, f)
  BY <1>6 DEF Present, Shown
<1>7. ASSUME NEW pq \in c.action.pairs, f = pq[1]
      PROVE  f \in Shown(c)
  BY <1>1, <1>3, <1>7 DEF ShowsDefaults, Shown
<1> QED
  BY <1>4, <1>5, <1>6, <1>7 DEF Body

(***************************************************************************)
(* What the agent concludes is true.                                       *)
(***************************************************************************)

\* Fields that no call of unknown outcome touches.
Settled == DOMAIN world \ UNION {Touches(q.call) : q \in doubts}
Holds(k, f) == k[f] \in {"unknown", world[f]}

\* What is known holds, but for what the call under way touches; between the
\* answer and its reading, what will be known then holds already.
Sound ==
    /\ \A f \in Settled : \/ stage = "copy" /\ f = "file"
                          \/ stage = "wait" /\ Succeeded /\ ~call.action.async
                          \/ Holds(known, f)
    /\ stage = "wait" /\ Succeeded /\ ~call.action.async
         => \A f \in Settled :
               /\ Holds(Learns(call), f)
               /\ (call.action.effect = "read" \/ f \notin Touches(call)) => Holds(known, f)

\* What is learnt from an answer holds once the service has done the request.
LEMMA LearnsHolds ==
    ASSUME Types, NEW c, ProperCall(c), world' = After(c), known' = known,
           c.action.effect = "update" => There,
           reply' = IF c.action.effect = "create" /\ There THEN "another" ELSE "ok",
           NEW f \in DOMAIN world, Holds(known, f)
    PROVE  Holds(Learns(c), f)'
<1>1. /\ c.action.effect \in Effects /\ Body(c) \cap Marks = {}
      /\ f \in Fields(kind) /\ DOMAIN world = Fields(kind) /\ DOMAIN known = Fields(kind)
  BY RowsAssumption, BodyFields DEF ProperCall, Types
<1>2. Body(c)' = Body(c) /\ \A p : ValueOf(c, p)' = ValueOf(c, p)
  BY DEF Body, NotZero, Present, ValueOf
<1>3. reply' # "another" \/ c.action.effect = "create"
  OBVIOUS
<1> DEFINE L == Learns(c)'
<1>4. CASE c.action.effect = "send"
  <2>1. L = known /\ world' = world
    BY <1>4 DEF Learns, After
  <2> QED
    BY <2>1 DEF Holds
<1>5. CASE c.action.effect = "read"
  <2>1. world' = world /\ There' = There
    BY <1>5 DEF After, There
  <2>2. L = IF There THEN [world EXCEPT !["file"] = known["file"]] ELSE known
    BY <1>3, <1>5, <2>1 DEF Learns
  <2>3. L[f] \in {known[f], world[f]}
    BY <2>2, <1>1
  <2> QED
    BY <2>1, <2>3 DEF Holds
<1>6. CASE c.action.effect = "update"
  <2>1. world' = Changed(c)
    BY <1>6 DEF After
  <2>2. L = [g \in DOMAIN known |-> IF g \in Body(c) \cap Shown(c) THEN ValueOf(c, g) ELSE known[g]]
    BY <1>2, <1>3, <1>6 DEF Learns, Shown
  <2>3. Body(c) \cap Shown(c) = Body(c)
    BY <1>6, UpdateCarriesShown
  <2>4. L[f] = (IF f \in Body(c) THEN ValueOf(c, f) ELSE known[f])
    BY <2>2, <2>3, <1>1
  <2>5. world'[f] = (IF f \in Body(c) THEN ValueOf(c, f) ELSE world[f])
    BY <2>1 DEF Changed
  <2> QED
    BY <2>4, <2>5 DEF Holds
<1>7. CASE c.action.effect = "upsert"
  <2>1. world' = IF There THEN Changed(c) ELSE Fresh(c)
    BY <1>7 DEF After
  <2>2. L = [g \in DOMAIN known |-> CASE g = "exists"  -> "yes"
                                     [] g = "file"    -> known[g]
                                     [] g \in Body(c) -> ValueOf(c, g)
                                     [] OTHER         -> "unknown"]
    BY <1>2, <1>3, <1>7 DEF Learns
  <2>3. "exists" \notin Body(c) /\ "followUp" \notin Body(c) /\ "file" \notin Body(c)
    BY <1>1 DEF Marks
  <2>4. CASE f = "exists"
    BY <2>1, <2>2, <2>3, <2>4, <1>1 DEF Changed, Fresh, There, Holds
  <2>5. CASE f = "file"
    BY <2>1, <2>2, <2>3, <2>5, <1>1 DEF Changed, Fresh, Holds
  <2>6. CASE f \in Body(c)
    BY <2>1, <2>2, <2>3, <2>6, <1>1 DEF Changed, Fresh, Holds
  <2>7. CASE f \notin {"exists", "file"} \cup Body(c)
    BY <2>2, <2>7, <1>1 DEF Holds
  <2> QED
    BY <2>4, <2>5, <2>6, <2>7
<1>8. CASE c.action.effect = "replace" \/ (c.action.effect = "create" /\ ~There)
  <2>1. world' = Fresh(c) /\ reply' = "ok"
    BY <1>8 DEF After
  <2>2. "exists" \notin Body(c) /\ "followUp" \notin Body(c) /\ "file" \notin Body(c)
    BY <1>1 DEF Marks
  <2>3. DOMAIN Fresh(c) = DOMAIN world /\ Fresh(c)["file"] = world["file"] /\ DOMAIN world' = DOMAIN world
    BY <2>1, <2>2, <1>1 DEF Fresh, Fields, Marks
  <2>4. L = [Fresh(c)' EXCEPT !["file"] = known["file"]]
    BY <1>8, <2>1 DEF Learns
  <2>5. ASSUME f # "file" PROVE Fresh(c)'[f] = Fresh(c)[f]
    BY <1>1, <1>2, <2>2, <2>3, <2>5 DEF Fresh
  <2>6. L[f] = IF f = "file" THEN known[f] ELSE Fresh(c)[f]
    <3>1. DOMAIN Fresh(c)' = DOMAIN world
      BY <2>3 DEF Fresh
    <3> QED
      BY <2>4, <2>5, <3>1
  <2>7. CASE f = "file"
    BY <2>1, <2>3, <2>6, <2>7 DEF Holds
  <2>8. CASE f # "file"
    <3>1. L[f] = Fresh(c)[f]
      BY <2>6, <2>8
    <3>2. L[f] = world'[f]
      BY <2>1, <3>1
    <3> HIDE DEF L
    <3> QED
      BY <3>2 DEF Holds, L
  <2> QED
    BY <2>7, <2>8
<1>9. CASE c.action.effect = "create" /\ There
  <2>1. L = known /\ world' = world
    BY <1>9 DEF Learns, After
  <2> QED
    BY <2>1 DEF Holds
<1>10. CASE c.action.effect = "delete"
  <2>1. world' = Gone
    BY <1>10 DEF After
  <2>2. L = [g \in DOMAIN known |-> CASE g = "exists" -> "no"
                                     [] g = "file"   -> known[g]
                                     [] OTHER        -> "unknown"]
    BY <1>3, <1>10 DEF Learns
  <2> QED
    BY <2>1, <2>2, <1>1 DEF Gone, Holds
<1> QED
  BY <1>1, <1>4, <1>5, <1>6, <1>7, <1>8, <1>9, <1>10 DEF Effects

\* A request that reaches the service late does not undo it.
LEMMA LearnsStable ==
    ASSUME Types, NEW c, ProperCall(c), NEW d, ProperCall(d),
           world' = After(d), known' = known, reply' = reply,
           NEW f \in DOMAIN world, f \notin Touches(d), Holds(Learns(c), f),
           c.action.effect = "read" => Holds(known, f)
    PROVE  Holds(Learns(c), f)'
<1>1. world'[f] = world[f]
  BY AfterTouches
<1>2. /\ c.action.effect \in Effects /\ Body(c) \cap Marks = {}
      /\ DOMAIN world = Fields(kind) /\ DOMAIN known = Fields(kind)
      /\ DOMAIN world' = DOMAIN world
  BY RowsAssumption, BodyFields, AfterIsWorld DEF ProperCall, Types
<1>3. Body(c)' = Body(c) /\ \A p : ValueOf(c, p)' = ValueOf(c, p)
  BY DEF Body, NotZero, Present, ValueOf
<1> DEFINE L == Learns(c)'
<1>4. CASE reply = "another"
  BY <1>1, <1>4 DEF Learns, Holds
<1>5. CASE reply # "another" /\ c.action.effect = "read"
  <2>1. L = IF There' THEN [world' EXCEPT !["file"] = known["file"]] ELSE known
    BY <1>5 DEF Learns
  <2>2. L[f] \in {world'[f], known[f]}
    BY <2>1, <1>2
  <2> QED
    BY <1>1, <1>5, <2>2 DEF Holds
<1>6. CASE reply # "another" /\ c.action.effect \in {"create", "replace"}
  <2>1. "exists" \notin Body(c) /\ "followUp" \notin Body(c) /\ "file" \notin Body(c)
    BY <1>2 DEF Marks
  <2>2. /\ DOMAIN Fresh(c) = DOMAIN world /\ DOMAIN Fresh(c)' = DOMAIN world
        /\ f # "file" => Fresh(c)'[f] = Fresh(c)[f]
    BY <1>2, <1>3, <2>1 DEF Fresh
  <2>3. /\ Learns(c) = [Fresh(c) EXCEPT !["file"] = known["file"]]
        /\ L = [Fresh(c)' EXCEPT !["file"] = known["file"]]
    BY <1>6 DEF Learns
  <2>4. L[f] = Learns(c)[f]
    BY <2>2, <2>3
  <2> HIDE DEF L
  <2> QED
    BY <1>1, <2>4 DEF Holds, L
<1>7. CASE reply # "another" /\ c.action.effect \in {"send", "update", "upsert", "delete"}
  <2>1. L = Learns(c)
    BY <1>3, <1>7 DEF Learns
  <2> HIDE DEF L
  <2> QED
    BY <1>1, <2>1 DEF Holds, L
<1> QED
  BY <1>2, <1>4, <1>5, <1>6, <1>7 DEF Effects

LEMMA SoundNext == IInv /\ IInv' /\ Sound /\ [Next]_vars => Sound'
<1> SUFFICES ASSUME IInv, IInv', Sound, [Next]_vars PROVE Sound'
  OBVIOUS
<1>0. /\ Types /\ DOMAIN world' = DOMAIN world
      /\ stage # "done" => ProperCall(call)
      /\ \A q \in doubts : ProperCall(q.call)
      /\ \A c : Touches(c)' = Touches(c)
  <2>1. kind' = kind
    BY DEF Next, CallStep, ServiceStep, vars, callVars, Begin, Late, LateRefused, BeginRefused,
           Lookup, LookupFails, SendRequest, Serve, ServeLater, Refuse, Receive, Retry, Refused,
           GiveUp, FollowUp, FollowUpFails, CreateFile, Copy, SaveFails
  <2>2. DOMAIN world' = DOMAIN world
    BY <2>1 DEF IInv, Types, Fields, ActionsOf
  <2>3. \A c : Touches(c)' = Touches(c)
    BY <2>2 DEF Touches, FollowsUp, Body, NotZero, Present, ValueOf
  <2> QED
    BY <2>2, <2>3 DEF IInv, Calling
<1>1. ASSUME doubts' = doubts PROVE Settled' = Settled
  BY <1>0, <1>1 DEF Settled
<1>2. ASSUME Doubt PROVE Settled' = Settled \ Touches(call)
  <2>1. doubts' = doubts \cup {[nr |-> n, call |-> call]}
    BY <1>2 DEF Doubt
  <2> DEFINE T(q) == Touches(q.call)
  <2>2. UNION {T(q) : q \in doubts'} = (UNION {T(q) : q \in doubts}) \cup Touches(call)
    <3> HIDE DEF T
    <3>1. UNION {T(q) : q \in doubts'} = (UNION {T(q) : q \in doubts}) \cup T([nr |-> n, call |-> call])
      BY <2>1
    <3> QED
      BY <3>1 DEF T
  <2>3. \A q : Touches(q.call)' = Touches(q.call)
    BY <1>0
  <2>4. {Touches(q.call) : q \in doubts}' = {T(q) : q \in doubts'}
    BY <2>3
  <2> QED
    BY <1>0, <2>2, <2>4 DEF Settled
<1>3. ASSUME UNCHANGED <<world, known, doubts>>, stage # "copy",
             ~(stage = "wait" /\ Succeeded), ~(stage' = "wait" /\ Succeeded')
      PROVE  Sound'
  BY <1>1, <1>3 DEF Sound, Holds
<1>4. ASSUME NEW c \in AcceptedCalls, Begin(c) PROVE Sound'
  BY <1>3, <1>4 DEF Begin
<1>5. CASE BeginRefused \/ Lookup \/ LookupFails \/ SendRequest \/ Refuse \/ Retry \/ Refused
  BY <1>3, <1>5 DEF BeginRefused, Lookup, LookupFails, SendRequest, Refuse, Waiting, Retry,
                    Refused, Return, Succeeded
<1>6. CASE Serve
  <2>1. PICK c : c = call
    OBVIOUS
  <2>2. /\ Waiting /\ ~c.action.async /\ ProperCall(c) /\ call' = c /\ UNCHANGED <<known, doubts, stage>>
        /\ world' = After(c) /\ (c.action.effect = "update" => There)
        /\ reply' = IF c.action.effect = "create" /\ There THEN "another" ELSE "ok"
    BY <1>0, <1>6, <2>1 DEF Serve, Do, Waiting
  <2>3. \A f \in Settled : Holds(known, f) /\ f \in DOMAIN world
    BY <2>2 DEF Sound, Waiting, Succeeded, Settled
  <2>4. ASSUME NEW f \in Settled PROVE Holds(Learns(c), f)'
    <3>1. f \in DOMAIN world /\ Holds(known, f)
      BY <2>3
    <3>2. Types /\ ProperCall(c) /\ world' = After(c) /\ known' = known
      BY <1>0, <2>2
    <3>3. /\ c.action.effect = "update" => There
          /\ reply' = IF c.action.effect = "create" /\ There THEN "another" ELSE "ok"
      BY <2>2
    <3> QED
      BY ONLY <3>1, <3>2, <3>3, LearnsHolds
  <2>5. ASSUME NEW f \in Settled, c.action.effect = "read" \/ f \notin Touches(c)
        PROVE  Holds(known, f)'
    <3>1. world'[f] = world[f]
      <4>1. CASE c.action.effect = "read"
        BY <2>2, <4>1 DEF After
      <4>2. CASE f \notin Touches(c)
        BY <1>0, <2>2, <2>3, <4>2, AfterTouches
      <4> QED
        BY <2>5, <4>1, <4>2
    <3> QED
      BY <2>2, <2>3, <3>1 DEF Holds
  <2>6. Settled' = Settled /\ Touches(c)' = Touches(c)
    BY <1>0, <1>1, <2>2
  <2>7. stage' = "wait" /\ Succeeded'
    BY <2>2 DEF Waiting, Succeeded
  <2>8. \A f \in Settled : Holds(Learns(call), f)'
    BY <2>2, <2>4 DEF Holds, Learns
  <2> QED
    BY <2>2, <2>5, <2>6, <2>7, <2>8 DEF Sound
<1>7. CASE ServeLater
  <2>1. /\ Settled' = Settled \ Touches(call) /\ ~(stage = "wait" /\ Succeeded) /\ stage = "wait"
        /\ UNCHANGED <<world, known, call, stage>> /\ call.action.async
    BY <1>2, <1>7 DEF ServeLater, Waiting, Succeeded
  <2>2. \A f \in Settled : Holds(known, f)
    BY <2>1 DEF Sound
  <2> QED
    BY <2>1, <2>2 DEF Sound, Holds
<1>8. CASE Receive
  <2>1. /\ Settled' = Settled /\ stage = "wait" /\ Succeeded /\ stage' \notin {"copy", "wait"}
        /\ world' = world
        /\ known' = IF call.action.async THEN known ELSE Learns(call)
    BY <1>1, <1>8 DEF Receive, Return
  <2>2. \A f \in Settled : known'[f] \in {"unknown", world[f]}
    BY <2>1 DEF Sound, Holds
  <2> QED
    BY <2>1, <2>2 DEF Sound, Holds
<1>9. CASE GiveUp
  <2>1. stage = "wait" /\ stage' = "done" /\ UNCHANGED <<world, known>>
    BY <1>9 DEF GiveUp, Return
  <2>2. CASE call.action.effect = "read"
    <3>1. Settled' = Settled
      BY <1>1, <1>9, <2>2 DEF GiveUp
    <3> QED
      BY <2>1, <2>2, <3>1 DEF Sound, Holds
  <2>3. CASE call.action.effect # "read"
    <3>1. Settled' = Settled \ Touches(call)
      BY <1>2, <1>9, <2>3 DEF GiveUp
    <3> QED
      BY <2>1, <3>1 DEF Sound, Holds
  <2> QED
    BY <2>2, <2>3
<1>10. ASSUME NEW q \in late, Late(q) PROVE Sound'
  <2>1. PICK c, d : c = call /\ d = q.call
    OBVIOUS
  <2>2. /\ q \in doubts /\ ProperCall(d) /\ world' = After(d)
        /\ UNCHANGED <<known, doubts, stage, reply, call>>
    BY <1>0, <1>10, <2>1 DEF Late, Do, Types, callVars
  <2>3. Settled' = Settled /\ \A f \in Settled : f \in DOMAIN world /\ f \notin Touches(d)
    BY <1>1, <2>1, <2>2 DEF Settled
  <2>4. \A f \in Settled : world'[f] = world[f]
    BY <1>0, <2>2, <2>3, AfterTouches
  <2>5. ASSUME NEW f \in Settled, Holds(known, f) PROVE Holds(known, f)'
    BY <2>2, <2>4, <2>5 DEF Holds
  <2>6. ASSUME NEW f \in Settled, stage = "wait", Succeeded, ~call.action.async
        PROVE  Holds(Learns(c), f)'
    <3>1. /\ ProperCall(c) /\ Holds(Learns(c), f)
          /\ c.action.effect = "read" => Holds(known, f)
      BY <1>0, <2>1, <2>6 DEF Sound
    <3> QED
      BY <1>0, <2>2, <2>3, <3>1, LearnsStable
  <2>7. c = call'
    BY <2>1, <2>2
  <2>8. Touches(c)' = Touches(c) /\ (Succeeded' <=> Succeeded)
    BY <1>0, <2>2 DEF Succeeded
  <2>9. ASSUME NEW f \in Settled, stage = "wait", Succeeded, ~call.action.async
        PROVE  Holds(Learns(call), f)'
    BY <2>6, <2>7, <2>9 DEF Holds, Learns
  <2>10. \A f \in Settled' : \/ stage' = "copy" /\ f = "file"
                             \/ stage' = "wait" /\ Succeeded' /\ ~call'.action.async
                             \/ Holds(known, f)'
    BY <2>2, <2>3, <2>5, <2>8 DEF Sound
  <2>11. stage' = "wait" /\ Succeeded' /\ ~call'.action.async
           => \A f \in Settled' : call'.action.effect = "read" \/ f \notin Touches(call)'
                                    => Holds(known, f)'
    BY <2>1, <2>2, <2>3, <2>5, <2>7, <2>8 DEF Sound
  <2> QED
    BY <2>2, <2>3, <2>8, <2>9, <2>10, <2>11 DEF Sound
<1>11. ASSUME UNCHANGED <<world, known, doubts, stage, reply, call>> PROVE Sound'
  <2>1. Settled' = Settled /\ (Succeeded' <=> Succeeded)
    BY <1>1, <1>11 DEF Succeeded
  <2>2. \A f : (Holds(known, f)' <=> Holds(known, f)) /\ (Holds(Learns(call), f)' <=> Holds(Learns(call), f))
    <3>1. There' = There /\ Fresh(call)' = Fresh(call) /\ Body(call)' = Body(call)
          /\ \A f : ValueOf(call, f)' = ValueOf(call, f)
      BY <1>11 DEF There, Fresh, Body, NotZero, Present, ValueOf
    <3>2. Learns(call)' = Learns(call)
      BY <1>11, <3>1 DEF Learns
    <3> QED
      BY <1>11, <3>2 DEF Holds
  <2>3. Touches(call)' = Touches(call)
    BY <1>0, <1>11 DEF Touches, FollowsUp, Body, NotZero, Present, ValueOf
  <2> QED
    BY <1>11, <2>1, <2>2, <2>3 DEF Sound
<1>12. CASE FollowUp \/ FollowUpFails
  <2>1. /\ Settled' = Settled /\ stage = "followUp" /\ stage' = "done"
        /\ world' \in {world, [world EXCEPT !["followUp"] = "yes"]}
        /\ \/ world' = world /\ known' = known
           \/ world' = [world EXCEPT !["followUp"] = "yes"] /\ known' = [known EXCEPT !["followUp"] = "yes"]
           \/ known' = [known EXCEPT !["followUp"] = "unknown"]
    BY <1>1, <1>12 DEF FollowUp, FollowUpFails, Return
  <2>2. \A f \in Settled : f \in DOMAIN world /\ f \in DOMAIN known /\ Holds(known, f)
    BY <1>0, <2>1 DEF Sound, Settled, Types
  <2>3. \A f \in Settled : known'[f] \in {"unknown", world'[f]}
    BY <2>1, <2>2 DEF Holds
  <2> QED
    BY <2>1, <2>3 DEF Sound, Holds
<1>13. CASE CreateFile
  <2>1. /\ Settled' = Settled /\ stage = "create" /\ stage' = "copy" /\ known' = known
        /\ world' = [world EXCEPT !["file"] = "cut"]
    BY <1>1, <1>13 DEF CreateFile
  <2>2. \A f \in Settled : Holds(known, f)
    BY <2>1 DEF Sound
  <2>3. \A f \in Settled : f = "file" \/ known'[f] \in {"unknown", world'[f]}
    BY <2>1, <2>2 DEF Holds
  <2> QED
    BY <2>1, <2>3 DEF Sound, Holds
<1>14. CASE Copy
  <2>1. /\ Settled' = Settled /\ stage = "copy" /\ stage' = "done"
        /\ known' = [known EXCEPT !["file"] = "new"]
        /\ world' = [world EXCEPT !["file"] = "new"]
    BY <1>1, <1>14 DEF Copy, Return
  <2>2. \A f \in Settled : f \in DOMAIN world /\ f \in DOMAIN known /\ (f = "file" \/ Holds(known, f))
    BY <1>0, <2>1 DEF Sound, Settled, Types
  <2>3. \A f \in Settled : known'[f] \in {"unknown", world'[f]}
    BY <2>1, <2>2 DEF Holds
  <2> QED
    BY <2>1, <2>3 DEF Sound, Holds
<1>15. CASE SaveFails
  <2>1. /\ Settled' = Settled \ Touches(call) /\ stage \in {"create", "copy"} /\ stage' = "done"
        /\ UNCHANGED <<world, known>>
    BY <1>2, <1>15 DEF SaveFails, Return
  <2>2. "file" \in Touches(call)
    BY <2>1 DEF IInv, Calling, Touches
  <2>3. \A f \in Settled' : Holds(known, f)
    BY <2>1, <2>2 DEF Sound
  <2> QED
    BY <2>1, <2>3 DEF Sound, Holds
<1>16. ASSUME NEW q \in late, LateRefused(q) PROVE Sound'
  BY <1>11, <1>16 DEF LateRefused, callVars
<1>17. CASE UNCHANGED vars
  BY <1>11, <1>17 DEF vars, callVars
<1> QED
  BY <1>4, <1>5, <1>6, <1>7, <1>8, <1>9, <1>10, <1>12, <1>13, <1>14, <1>15, <1>16, <1>17
     DEF Next, CallStep, ServiceStep

\* What the agent concludes from calls reported as done is so, whatever calls
\* fail, are retried or reach the service late: KnownIsTrue of ActionCall.
THEOREM WhatIsKnown == Spec => []KnownIsTrue
<1>1. Init => Sound
  BY DEF Init, Sound, Holds, Settled
<1>2. IInv /\ Sound => KnownIsTrue
  <2> SUFFICES ASSUME IInv, Sound, NEW f \in DOMAIN world \ Doubtful PROVE Holds(known, f)
    BY DEF KnownIsTrue, Holds
  <2>1. f \in Settled /\ (stage # "done" => f \notin Touches(call))
    <3> DEFINE D == UNION {Touches(q.call) : q \in doubts}
    <3>1. Doubtful = D \cup (IF stage = "done" THEN {} ELSE Touches(call)) /\ Settled = DOMAIN world \ D
      BY DEF Doubtful, Settled
    <3> HIDE DEF D
    <3> QED
      BY <3>1
  <2>2. CASE stage = "copy" /\ f = "file"
    BY <2>1, <2>2 DEF IInv, Calling, Touches
  <2> QED
    BY <2>1, <2>2 DEF Sound
<1>3. IInv /\ Sound /\ [Next]_vars /\ IInv' => Sound'
  BY SoundNext
<1>4. Spec => []IInv
  BY Inductive
<1> QED
  BY <1>1, <1>2, <1>3, <1>4, PTL DEF Spec
================================================================================
