---------------------------- MODULE MatrixSyncProofs ---------------------------
(***************************************************************************)
(* For any rooms, number of events, timeline limit, stops and failed loads *)
(* and saves, the matrix trigger is an at-least-once source and each run   *)
(* emits the events of a room in order.                                    *)
(***************************************************************************)
EXTENDS MatrixSync, TLAPS

Looping == {"poll", "emit", "save"}

Types ==
    /\ room \in [Events -> Rooms] /\ wanted \subseteq Events
    /\ last \in 0..MaxEvents /\ stops \in 0..MaxStops
    /\ saved \in None..last /\ since \in None..last /\ next \in None..last
    /\ pc \in {"down", "seed", "seedSave"} \cup Looping
    /\ pc \in {"seedSave"} \cup Looping => saved <= since /\ since # None
    /\ pc \in {"emit", "save"} => since <= next
    /\ todo \subseteq {e \in wanted : since < e /\ e <= next}
    /\ todo # {} <=> pc = "emit"
    /\ in \in 0..MaxEvents
    /\ delivered \subseteq Arrived
    /\ skipped \subseteq 1..last /\ cut \subseteq 1..last
    /\ run \in Seq(Events) /\ \A i \in DOMAIN run : run[i] \in delivered

\* No event up to position p is still to be emitted.
Covered(p) == \A e \in Arrived : e <= p => e \in delivered \cup skipped \cup cut

Positions ==
    /\ Covered(saved)
    /\ pc \in {"seedSave"} \cup Looping => Covered(since)
    /\ pc \in {"emit", "save"} =>
          \A e \in Arrived : e <= next => e \in delivered \cup skipped \cup cut \cup todo

Order ==
    /\ InOrder
    /\ pc \notin Looping => run = <<>>
    /\ pc = "poll" => \A i \in DOMAIN run : run[i] <= since
    /\ pc \in {"emit", "save"} =>
          \A i \in DOMAIN run : /\ run[i] <= next
                                /\ \A d \in todo : room[d] = room[run[i]] => run[i] < d

IInv == Types /\ Positions /\ Order

LEMMA InitInv == Init => IInv
<1> SUFFICES ASSUME Init PROVE IInv
  OBVIOUS
<1>1. Types
  BY ConstAssumption DEF Init, Types, None, Events, Arrived, Looping
<1> QED
  BY <1>1 DEF Init, IInv, Positions, Order, Covered, Arrived, InOrder, Looping

LEMMA TimelineIsAfter == \A p : Timeline(p) \subseteq After(p)
  BY DEF Timeline

LEMMA TypesNext == ASSUME Types, [Next]_vars PROVE Types'
<1> USE ConstAssumption DEF Types, None, Arrived, Looping
<1>1. CASE Arrive
  BY <1>1 DEF Arrive, Events, historyVars
<1>2. CASE Start
  BY <1>2 DEF Start, serverVars, historyVars
<1>3. CASE Seed
  <2>1. After(None) \subseteq 1..last
    BY DEF After, Events
  <2>2. skipped' \subseteq 1..last'
    BY <1>3, <2>1 DEF Seed, serverVars
  <2>3. last \in None..last /\ last # None
    OBVIOUS
  <2>4. since' \in None..last' /\ since' # None /\ saved' <= since'
    BY <1>3, <2>3 DEF Seed, serverVars
  <2>5. pc = "seed" /\ pc' = "seedSave" /\ todo = {} /\ todo' = {}
    BY <1>3 DEF Seed
  <2>6. UNCHANGED <<room, wanted, last, stops, saved, next, in, delivered, cut, run>>
    BY <1>3 DEF Seed, serverVars
  <2> QED
    BY <2>2, <2>4, <2>5, <2>6
<1>4. CASE SeedSave
  BY <1>4 DEF SeedSave, serverVars, historyVars
<1>5. CASE Sync
  <2>1. Timeline(since) \subseteq After(since) /\ After(since) \subseteq {e \in 1..last : since < e}
    BY TimelineIsAfter DEF After, Events
  <2>2. todo' \subseteq {e \in wanted : since < e /\ e <= last}
    BY <1>5, <2>1 DEF Sync
  <2>3. UNCHANGED <<room, wanted, last, saved, since, stops, delivered, skipped, run>>
    BY <1>5 DEF Sync, serverVars
  <2>4. /\ pc = "poll" /\ next' = last /\ in' = 0 /\ pc' \in {"emit", "save"}
        /\ todo' # {} <=> pc' = "emit"
    BY <1>5 DEF Sync
  <2>5. cut' \subseteq 1..last
    BY <1>5, <2>1 DEF Sync
  <2>6. next' \in None..last' /\ since <= next' /\ saved <= since /\ since # None
    BY <2>3, <2>4
  <2> QED
    BY <2>2, <2>3, <2>4, <2>5, <2>6
<1>6. ASSUME NEW e \in Events, Emit(e) PROVE Types'
  <2>1. e \in todo
    BY <1>6 DEF Emit, Due, Oldest, Current
  <2>2. e \in Arrived /\ e \in 1..MaxEvents
    BY <2>1 DEF Events
  <2>3. run' \in Seq(Events) /\ \A i \in DOMAIN run' : run'[i] \in delivered'
    BY <1>6 DEF Emit
  <2>4. todo' # {} <=> pc' = "emit"
    BY <1>6, <2>1 DEF Emit
  <2> QED
    BY <1>6, <2>2, <2>3, <2>4 DEF Emit, serverVars
<1>7. CASE Save
  BY <1>7 DEF Save, serverVars, historyVars
<1>8. CASE Stop
  BY <1>8 DEF Stop, serverVars
<1>9. CASE UNCHANGED vars
  BY <1>9 DEF vars, serverVars, historyVars
<1> QED
  BY <1>1, <1>2, <1>3, <1>4, <1>5, <1>6, <1>7, <1>8, <1>9 DEF Next, Step

LEMMA PositionsNext == ASSUME Types, Positions, [Next]_vars PROVE Positions'
<1> USE DEF Types, Positions, Covered, None, Arrived, Looping
<1>1. CASE Arrive
  BY <1>1 DEF Arrive, historyVars
<1>2. CASE Start
  BY <1>2 DEF Start, serverVars, historyVars
<1>3. CASE Seed
  <2>1. Arrived \subseteq After(None)
    BY DEF After, Events
  <2> QED
    BY <1>3, <2>1 DEF Seed, serverVars
<1>4. CASE SeedSave
  BY <1>4 DEF SeedSave, serverVars, historyVars
<1>5. CASE Sync
  <2>1. \A e \in Arrived : e <= since \/ e \in After(since)
    BY DEF After, Events
  <2>2. \A e \in Arrived : e <= since => e \in delivered \cup skipped \cup cut
    BY <1>5 DEF Sync
  <2>3. /\ UNCHANGED <<delivered, skipped, saved, since, wanted, last>> /\ cut \subseteq cut'
        /\ \A e \in After(since) \cap wanted : e \in todo' \cup cut'
    BY <1>5 DEF Sync, serverVars
  <2> QED
    BY <2>1, <2>2, <2>3
<1>6. ASSUME NEW e \in Events, Emit(e) PROVE Positions'
  BY <1>6 DEF Emit, serverVars
<1>7. CASE Save
  BY <1>7 DEF Save, serverVars, historyVars
<1>8. CASE Stop
  BY <1>8 DEF Stop, serverVars
<1>9. CASE UNCHANGED vars
  BY <1>9 DEF vars, serverVars, historyVars
<1> QED
  BY <1>1, <1>2, <1>3, <1>4, <1>5, <1>6, <1>7, <1>8, <1>9 DEF Next, Step

LEMMA OrderNext == ASSUME Types, Types', Order, [Next]_vars PROVE Order'
<1> USE DEF Order, Looping
<1>1. CASE Arrive
  BY <1>1 DEF Arrive, historyVars, InOrder
<1>2. CASE Start \/ Seed \/ SeedSave
  BY <1>2 DEF Start, Seed, SeedSave, serverVars, historyVars, InOrder
<1>3. CASE Sync
  <2>1. \A d \in todo' : since < d
    BY <1>3, TimelineIsAfter DEF Sync, After
  <2>2. \A i \in DOMAIN run : run[i] <= since /\ run[i] \in 1..last
    BY <1>3 DEF Sync, Types, Arrived
  <2>3. /\ UNCHANGED <<run, room, last, since>> /\ next' = last /\ pc' \in {"emit", "save"}
    BY <1>3 DEF Sync, serverVars
  <2>4. since \in Int /\ last \in Int /\ \A d \in todo' : d \in Int
    BY DEF Types, Events, None
  <2>5. InOrder'
    BY <2>3 DEF InOrder
  <2>6. \A i \in DOMAIN run' : run'[i] <= next' /\ \A d \in todo' : run'[i] < d
    BY <2>1, <2>2, <2>3, <2>4
  <2> QED
    BY <2>3, <2>5, <2>6
<1>4. ASSUME NEW e \in Events, Emit(e) PROVE Order'
  <2>1. e \in todo /\ \A d \in todo : room[d] = room[e] => e <= d
    BY <1>4 DEF Emit, Due, Oldest, Current
  <2>2. /\ run' = Append(run, e) /\ todo' = todo \ {e} /\ UNCHANGED <<room, next>>
        /\ pc = "emit" /\ pc' \in {"emit", "save"} /\ run \in Seq(Events)
    BY <1>4 DEF Emit, serverVars, Types
  <2>3. /\ Len(run') = Len(run) + 1 /\ DOMAIN run' = 1..Len(run') /\ DOMAIN run = 1..Len(run)
        /\ Len(run) \in Nat /\ run'[Len(run')] = e /\ \A i \in DOMAIN run : run'[i] = run[i]
    BY <2>2
  <2>4. \A i \in DOMAIN run : room[e] = room[run[i]] => run[i] < e
    BY <2>1, <2>2
  <2>5. InOrder'
    BY <2>2, <2>3, <2>4 DEF InOrder
  <2>6. e <= next /\ e \in Int /\ \A d \in todo : d \in Int
    BY <2>1 DEF Types, Events
  <2>7. \A i \in DOMAIN run' : /\ run'[i] <= next
                               /\ \A d \in todo' : room[d] = room[run'[i]] => run'[i] < d
    BY <2>1, <2>2, <2>3, <2>6
  <2> QED
    BY <2>2, <2>5, <2>7
<1>5. CASE Save
  BY <1>5 DEF Save, serverVars, historyVars, InOrder
<1>6. CASE Stop
  BY <1>6 DEF Stop, InOrder
<1>7. CASE UNCHANGED vars
  BY <1>7 DEF vars, serverVars, historyVars, InOrder
<1> QED
  BY <1>1, <1>2, <1>3, <1>4, <1>5, <1>6, <1>7 DEF Next, Step

LEMMA Inductive == Spec => []IInv
<1>1. IInv /\ [Next]_vars => IInv'
  BY TypesNext, PositionsNext, OrderNext DEF IInv
<1> QED
  BY <1>1, InitInv, PTL DEF Spec

\* Every reachable state of the trigger has the shape TypeOK of MatrixSync gives it.
THEOREM TypeCorrect == Spec => []TypeOK
<1>1. IInv => TypeOK
  <2> SUFFICES ASSUME Types PROVE TypeOK
    BY DEF IInv
  <2>1. run \in Seq(delivered)
    BY DEF Types
  <2> QED
    BY <2>1 DEF Types, TypeOK, Looping
<1> QED
  BY <1>1, Inductive, PTL

\* A run emits the events of a room in order and once each: InOrder of MatrixSync.
THEOREM RunsAreInOrder == Spec => []InOrder
<1>1. IInv => InOrder
  BY DEF IInv, Order
<1> QED
  BY <1>1, Inductive, PTL

\* The trigger implements AtLeastOnce, also when loads fail: what it gives up
\* was emitted, was there at a seed sync or was left out of a limited timeline.
THEOREM Refinement == Spec => ImplementsAtLeastOnce
<1> DEFINE Excused == skipped \cup cut
           AloNext == [ALO!Next]_ALO!aloVars
<1> USE DEF ALO!Next, ALO!Arrive, ALO!Deliver, ALO!Dismiss, ALO!Forget, ALO!aloVars
<1>1. Init => ALO!Init
  BY DEF Init, ALO!Init, Arrived, Ahead
<1>2. ASSUME IInv, IInv', [Next]_vars PROVE AloNext
  <2> USE <1>2 DEF IInv
  <2>1. CASE Arrive
    <3>1. PICK e : e = last + 1
      OBVIOUS
    <3>2. e \in Events /\ last' = e /\ UNCHANGED <<wanted, saved, delivered, skipped, cut>>
      BY <2>1, <3>1, ConstAssumption DEF Arrive, historyVars, Events, Types
    <3>3. saved < e
      BY <3>1 DEF Types, None
    <3>4. CASE e \in wanted
      <4>1. e \notin Arrived /\ Arrived' = Arrived \cup {e}
        BY <3>1, <3>2, <3>4 DEF Arrived, Types
      <4>2. Ahead' = Ahead \cup {e}
        BY <3>2, <3>3, <4>1 DEF Ahead
      <4>3. ALO!Arrive(e)
        BY <3>2, <4>1, <4>2
      <4> QED
        BY <3>2, <4>3
    <3>5. CASE e \notin wanted
      <4>1. Arrived' = Arrived
        BY <3>1, <3>2, <3>5 DEF Arrived, Types
      <4> QED
        BY <3>2, <4>1 DEF Ahead
    <3> QED
      BY <3>4, <3>5
  <2>2. CASE Start \/ Stop \/ UNCHANGED vars
    BY <2>2 DEF Start, Stop, vars, serverVars, historyVars, Arrived, Ahead
  <2>3. ASSUME NEW D \in SUBSET Events, (skipped \cup cut)' = (skipped \cup cut) \cup D,
               UNCHANGED <<wanted, last, saved, delivered>>
        PROVE  AloNext
    <3>1. ALO!Dismiss(D)
      BY <2>3 DEF Arrived, Ahead
    <3> QED
      BY <3>1
  <2>4. CASE Seed
    BY <2>3, <2>4 DEF Seed, serverVars, After
  <2>5. CASE Sync
    <3>1. After(since) \ Timeline(since) \in SUBSET Events
      BY DEF After
    <3> QED
      BY <2>3, <2>5, <3>1 DEF Sync, serverVars
  <2>6. CASE SeedSave \/ Save
    <3>1. /\ UNCHANGED <<wanted, last, delivered, skipped, cut>>
          /\ saved <= saved' /\ saved \in Int /\ saved' \in Int /\ Arrived \subseteq Int
      BY <2>6 DEF SeedSave, Save, serverVars, historyVars, Types, None, Events, Arrived, Looping
    <3>2. Arrived' = Arrived
      BY <3>1 DEF Arrived
    <3>3. \A e \in Arrived : e <= saved' => e \in delivered \cup skipped \cup cut
      BY <3>1, <3>2 DEF Positions, Covered
    <3>4. Ahead' = {e \in Arrived : e > saved'}
      BY <3>2 DEF Ahead
    <3>5. Ahead' \subseteq Ahead
      <4> SUFFICES ASSUME NEW e \in Arrived, e > saved' PROVE e > saved
        BY <3>4 DEF Ahead
      <4> QED
        BY <3>1
    <3>6. Ahead \ Ahead' \subseteq delivered \cup (skipped \cup cut)
      <4> SUFFICES ASSUME NEW e \in Arrived, ~(e > saved')
                   PROVE  e \in delivered \cup (skipped \cup cut)
        BY <3>4 DEF Ahead
      <4>1. e <= saved'
        BY <3>1
      <4> QED
        BY <3>3, <4>1
    <3>7. ALO!Forget
      BY <3>1, <3>2, <3>5, <3>6
    <3> QED
      BY <3>7
  <2>7. ASSUME NEW e \in Events, Emit(e) PROVE AloNext
    <3>1. e \in todo
      BY <2>7 DEF Emit, Due, Oldest, Current
    <3>2. e \in Arrived
      BY <3>1 DEF Types, Arrived, Events, None
    <3>3. ALO!Deliver(e)
      BY <2>7, <3>2 DEF Emit, serverVars, Arrived, Ahead
    <3> QED
      BY <3>3
  <2> QED
    BY <2>1, <2>2, <2>4, <2>5, <2>6, <2>7 DEF Next, Step
<1> HIDE DEF AloNext
<1> QED
  BY <1>1, <1>2, Inductive, PTL DEF AloNext, Spec, ImplementsAtLeastOnce, ALO!Spec
================================================================================
