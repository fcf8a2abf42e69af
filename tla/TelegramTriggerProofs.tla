------------------------- MODULE TelegramTriggerProofs -------------------------
(***************************************************************************)
(* Proofs about TelegramTrigger, for every number of updates, batch limit, *)
(* set of start offsets and number of stops.                               *)
(***************************************************************************)
EXTENDS TelegramTrigger, SequenceTheorems, FiniteSetTheorems, TLAPS

--------------------------------------------------------------------------------
(* Type correctness.                                                       *)

\* Appending an element of S to a sequence over S: its length and elements.
LEMMA AppendFacts ==
    ASSUME NEW S, NEW s \in Seq(S), NEW e \in S
    PROVE  /\ Append(s, e) \in Seq(S)
           /\ DOMAIN Append(s, e) = 1..(Len(s) + 1)
           /\ Append(s, e)[Len(s) + 1] = e
           /\ \A i \in 1..Len(s) : Append(s, e)[i] = s[i] /\ s[i] \in S
           /\ DOMAIN s = 1..Len(s)
           /\ Len(s) \in Nat
  <1>1. Len(Append(s, e)) = Len(s) + 1 /\ Append(s, e) \in Seq(S)
    BY AppendProperties
  <1>2. QED
    BY <1>1, AppendProperties, LenProperties, ElementOfSeq

LEMMA TypeInit == Init => TypeOK
  BY ConstAssumption DEF Init, TypeOK, Ids, PCs

\* Every step of the trigger, its server and its callers keeps every variable
\* within its type.
LEMMA TypeStep == TypeOK /\ [Next]_vars => TypeOK'
  <1> SUFFICES ASSUME TypeOK, [Next]_vars PROVE TypeOK'
    OBVIOUS
  <1> USE ConstAssumption DEF TypeOK, Ids, PCs, serverVars, historyVars
  <1>1. CASE Arrive
    BY <1>1 DEF Arrive
  <1>2. ASSUME NEW o \in AckOffsets, GetUpdates(o) PROVE TypeOK'
    BY <1>2 DEF GetUpdates, Retained, Larger
  <1>3. CASE Start
    BY <1>3 DEF Start, StartAt, StartDrain, Resume, Larger
  <1>4. CASE DrainPeek
    BY <1>4 DEF DrainPeek, Larger, IsLeast
  <1>5. CASE DrainAck
    BY <1>5 DEF DrainAck, Retained
  <1>6. CASE PollRequest
    BY <1>6 DEF PollRequest, Retained, Batches
  <1>7. CASE PollReply
    BY <1>7 DEF PollReply
  <1>8. CASE PollError
    BY <1>8 DEF PollError
  <1>9. ASSUME NEW u \in Ids, Emit(u) PROVE TypeOK'
    <2>1. run' \in Seq(Ids)
      BY <1>9, AppendFacts DEF Emit
    <2>2. QED
      BY <1>9, <2>1 DEF Emit, Advance
  <1>10. CASE Save
    BY <1>10 DEF Save
  <1>11. CASE Stop
    BY <1>11 DEF Stop
  <1>12. CASE UNCHANGED vars
    BY <1>12 DEF vars
  <1>13. QED
    BY <1>1, <1>2, <1>3, <1>4, <1>5, <1>6, <1>7, <1>8, <1>9, <1>10, <1>11, <1>12
       DEF Next, Drain

\* Type correctness.
THEOREM TypeCorrect == Spec => []TypeOK
  BY TypeInit, TypeStep, PTL DEF Spec

--------------------------------------------------------------------------------
(* The inductive invariant.                                                *)

LEMMA InvInit == Init => IInv
  <1> SUFFICES ASSUME Init PROVE IInv
    OBVIOUS
  <1>1. TypeOK
    BY TypeInit
  <1>2. DOMAIN run = {}
    BY DEF Init
  <1>3. QED
    BY <1>1, <1>2 DEF Init, IInv, NoLoss, PersistedSafe, SafeOffset,
                      BoundedOffset, BatchSafe, RunSafe, InOrder, Dismissed

\* A new id is above every id assigned before, so it cannot fall below an
\* offset or into a gap of the batch.
LEMMA ArriveKeepsInv == IInv /\ TypeOK' /\ Arrive => IInv'
  <1> SUFFICES ASSUME IInv, TypeOK', Arrive PROVE IInv'
    OBVIOUS
  <1> USE DEF IInv, TypeOK, Ids
  <1>1. PICK u \in Ids : /\ u > lastId
                         /\ lastId' = u
                         /\ queue' = queue \cup {u}
                         /\ arrived' = arrived \cup {u}
    BY DEF Arrive
  <1>2. UNCHANGED <<persisted, pc, offset, batch, delivered, dismissed, run>>
    BY DEF Arrive
  <1>3. NoLoss' /\ PersistedSafe' /\ BoundedOffset(persisted)'
    BY <1>1, <1>2 DEF NoLoss, PersistedSafe, SafeOffset, BoundedOffset, Dismissed
  <1>4. SafeOffset(offset)' /\ BoundedOffset(offset)'
    BY <1>1, <1>2 DEF SafeOffset, BoundedOffset, Dismissed
  <1>5. BatchSafe'
    BY <1>1, <1>2 DEF BatchSafe, Dismissed
  <1>6. RunSafe' /\ InOrder'
    BY <1>2 DEF RunSafe, InOrder
  <1>7. QED
    BY <1>1, <1>2, <1>3, <1>4, <1>5, <1>6

\* Appending something larger than every element keeps an increasing sequence so.
LEMMA AppendInOrder ==
    ASSUME NEW S \in SUBSET Int, NEW s \in Seq(S), NEW e \in S,
           \A i \in 1..Len(s) : s[i] < e,
           \A i, j \in 1..Len(s) : i < j => s[i] < s[j]
    PROVE  /\ \A i \in DOMAIN Append(s, e) : Append(s, e)[i] < e + 1
           /\ \A i, j \in DOMAIN Append(s, e) : i < j => Append(s, e)[i] < Append(s, e)[j]
  <1>1. PICK t : t = Append(s, e)
    OBVIOUS
  <1>2. /\ DOMAIN t = 1..(Len(s) + 1) /\ Len(s) \in Nat
        /\ t[Len(s) + 1] = e
        /\ \A i \in 1..Len(s) : t[i] = s[i] /\ s[i] \in S
    <2>1. /\ DOMAIN Append(s, e) = 1..(Len(s) + 1) /\ Len(s) \in Nat
          /\ Append(s, e)[Len(s) + 1] = e
          /\ \A i \in 1..Len(s) : Append(s, e)[i] = s[i] /\ s[i] \in S
      BY AppendFacts
    <2>2. QED
      BY <1>1, <2>1
  <1>3. \A i \in 1..(Len(s) + 1) : i \in 1..Len(s) \/ i = Len(s) + 1
    BY <1>2
  <1>4. ASSUME NEW i \in DOMAIN t PROVE t[i] < e + 1
    <2>1. CASE i \in 1..Len(s)
      <3>1. t[i] = s[i] /\ s[i] < e /\ s[i] \in Int /\ e \in Int
        BY <1>2, <2>1
      <3>2. QED
        BY <3>1
    <2>2. CASE i = Len(s) + 1
      <3>1. t[i] = e /\ e \in Int
        BY <1>2, <2>2
      <3>2. QED
        BY <3>1
    <2>3. QED
      BY <1>2, <1>3, <2>1, <2>2
  <1>5. ASSUME NEW i \in DOMAIN t, NEW j \in DOMAIN t, i < j PROVE t[i] < t[j]
    <2>1. i \in 1..Len(s)
      BY <1>2, <1>5
    <2>2. QED
      BY <1>2, <1>3, <1>5, <2>1
  <1>6. QED
    BY <1>1, <1>4, <1>5

\* Steps that leave the server, the store's offset, the batch and the run alone
\* and never withdraw a dismissal: they keep all of IInv but what it says of
\* the offset.
LEMMA DismissingKeepsInv ==
    ASSUME IInv, TypeOK',
           UNCHANGED <<lastId, arrived, delivered, persisted, run>>,
           batch' = batch, dismissed' >= dismissed,
           queue' \subseteq queue,
           \A u \in queue \ queue' : u \in delivered \/ u < dismissed',
           SafeOffset(offset)', BoundedOffset(offset)',
           \A v \in batch : v >= offset',
           \A i \in DOMAIN run : run[i] < offset',
           pc' \in {"down", "drain", "drainAck"} => run = <<>> /\ batch = {}
    PROVE  IInv'
  <1> USE DEF IInv, TypeOK, Ids
  <1>1. NoLoss'
    BY DEF NoLoss, Dismissed
  <1>2. PersistedSafe' /\ BoundedOffset(persisted)'
    BY DEF PersistedSafe, SafeOffset, BoundedOffset, Dismissed
  <1>3. BatchSafe'
    BY DEF BatchSafe, Dismissed
  <1>4. RunSafe' /\ InOrder'
    BY DEF RunSafe, InOrder
  <1>5. QED
    BY <1>1, <1>2, <1>3, <1>4

\* What the server drops below a safe offset was emitted or dismissed.
LEMMA RetainedSafe ==
    ASSUME IInv, NEW o \in Int, SafeOffset(o)
    PROVE  /\ Retained(o) \subseteq queue
           /\ \A u \in queue \ Retained(o) : u \in delivered \/ u < dismissed
  BY DEF IInv, TypeOK, Ids, SafeOffset, Retained, Dismissed

LEMMA GetUpdatesKeepsInv ==
    ASSUME IInv, TypeOK', NEW o \in AckOffsets, GetUpdates(o)
    PROVE  IInv'
  <1> USE ConstAssumption DEF IInv, TypeOK, Ids
  <1>1. dismissed' >= dismissed /\ dismissed' >= o
    BY DEF GetUpdates, Larger
  <1>2. queue' \subseteq queue
    BY DEF GetUpdates, Retained
  <1>3. \A u \in queue \ queue' : u < dismissed'
    BY <1>1 DEF GetUpdates, Retained
  <1>4. UNCHANGED <<lastId, arrived, delivered, persisted, run, batch, offset, pc>>
    BY DEF GetUpdates
  <1>5. SafeOffset(offset)' /\ BoundedOffset(offset)'
    BY <1>1, <1>4 DEF SafeOffset, BoundedOffset, Dismissed
  <1>6. QED
    BY <1>1, <1>2, <1>3, <1>4, <1>5, DismissingKeepsInv DEF BatchSafe, RunSafe

LEMMA StartKeepsInv == IInv /\ TypeOK' /\ Start => IInv'
  <1> SUFFICES ASSUME IInv, TypeOK', NEW s \in StartOffsets,
                      StartAt(s) \/ StartDrain(s) \/ Resume(s)
               PROVE  IInv'
    BY DEF Start
  <1> USE ConstAssumption DEF IInv, TypeOK, Ids, serverVars, historyVars
  <1>1. /\ UNCHANGED <<serverVars, persisted, batch, arrived, delivered, run>>
        /\ run = <<>> /\ batch = {}
    BY DEF StartAt, StartDrain, Resume, RunSafe
  <1>2. dismissed' >= dismissed
    BY DEF StartAt, StartDrain, Resume, Larger
  <1>3. SafeOffset(offset)' /\ BoundedOffset(offset)'
    <2>1. CASE StartAt(s)
      BY <2>1 DEF StartAt, SafeOffset, BoundedOffset, Dismissed, Larger
    <2>2. CASE StartDrain(s)
      BY <2>2 DEF StartDrain, SafeOffset, BoundedOffset
    <2>3. CASE Resume(s)
      BY <2>3 DEF Resume, SafeOffset, BoundedOffset, PersistedSafe, Dismissed
    <2>4. QED
      BY <2>1, <2>2, <2>3
  <1>4. QED
    BY <1>1, <1>2, <1>3, DismissingKeepsInv

LEMMA DrainKeepsInv == IInv /\ TypeOK' /\ Drain => IInv'
  <1> SUFFICES ASSUME IInv, TypeOK', Drain PROVE IInv'
    OBVIOUS
  <1> USE DEF IInv, TypeOK, Ids, serverVars, historyVars
  <1>1. /\ UNCHANGED <<lastId, arrived, persisted, batch, delivered, run>>
        /\ run = <<>> /\ batch = {}
    BY DEF Drain, DrainPeek, DrainAck, RunSafe
  <1>2. CASE DrainPeek
    <2>1. dismissed' >= dismissed /\ queue' = queue
      BY <1>2 DEF DrainPeek, Larger
    <2>2. \A v \in batch : v >= offset'
      BY <1>1
    <2>3. SafeOffset(offset)' /\ BoundedOffset(offset)'
      <3>1. CASE queue = {} /\ UNCHANGED <<offset, dismissed>>
        BY <1>1, <3>1 DEF SafeOffset, BoundedOffset, Dismissed
      <3>2. CASE \E u \in queue : /\ offset' = u + 1
                                  /\ dismissed' = Larger(dismissed, u + 1)
        BY <1>1, <3>2 DEF SafeOffset, BoundedOffset, Dismissed, Larger
      <3>3. QED
        BY <1>2, <3>1, <3>2 DEF DrainPeek
    <2>4. \A i \in DOMAIN run : run[i] < offset'
      BY <1>1
    <2>5. QED
      BY <1>1, <2>1, <2>2, <2>3, <2>4, DismissingKeepsInv
  <1>3. CASE DrainAck
    <2>1. UNCHANGED <<offset, dismissed>>
      BY <1>3 DEF DrainAck
    <2>2. /\ queue' \subseteq queue
          /\ \A u \in queue \ queue' : u \in delivered \/ u < dismissed
      BY <1>3, RetainedSafe DEF DrainAck
    <2>3. SafeOffset(offset)' /\ BoundedOffset(offset)'
      BY <1>1, <2>1 DEF SafeOffset, BoundedOffset, Dismissed
    <2>4. /\ UNCHANGED <<lastId, arrived, delivered, persisted, run>>
          /\ batch' = batch /\ dismissed' >= dismissed
          /\ \A v \in batch : v >= offset'
          /\ \A i \in DOMAIN run : run[i] < offset'
      BY <1>1, <2>1
    <2>5. \A u \in queue \ queue' : u \in delivered \/ u < dismissed'
      BY <2>1, <2>2
    <2>6. QED
      BY <1>1, <2>2, <2>3, <2>4, <2>5, DismissingKeepsInv
  <1>4. QED
    BY <1>2, <1>3 DEF Drain

\* The poll confirms what is below the offset, all of it seen or dismissed, and
\* the reply starts at the oldest update left.
LEMMA PollRequestKeepsInv == IInv /\ TypeOK' /\ PollRequest => IInv'
  <1> SUFFICES ASSUME IInv, TypeOK', PollRequest PROVE IInv'
    OBVIOUS
  <1> USE DEF IInv, TypeOK, Ids, historyVars
  <1>1. UNCHANGED <<lastId, persisted, offset, arrived, delivered, dismissed, run>>
    BY DEF PollRequest
  <1>2. /\ queue' \subseteq queue
        /\ \A u \in queue \ queue' : u \in delivered \/ u < dismissed
    BY RetainedSafe DEF PollRequest
  <1>3. NoLoss'
    BY <1>1, <1>2 DEF NoLoss, Dismissed
  <1>4. /\ PersistedSafe' /\ BoundedOffset(persisted)'
        /\ SafeOffset(offset)' /\ BoundedOffset(offset)'
    BY <1>1 DEF PersistedSafe, SafeOffset, BoundedOffset, Dismissed
  <1>5. BatchSafe'
    <2>1. /\ batch' \subseteq Retained(offset)
          /\ \A u \in Retained(offset), v \in batch' : u < v => u \in batch'
      BY DEF PollRequest, Batches
    <2>2. batch' \subseteq arrived /\ \A v \in batch' : v >= offset
      BY <2>1 DEF Retained
    <2>3. ASSUME NEW v \in batch', NEW u \in arrived, u < v
          PROVE  u \in batch' \cup delivered \cup Dismissed
      <3>1. CASE u \in Retained(offset)
        BY <2>1, <2>3, <3>1
      <3>2. CASE u \notin Retained(offset)
        BY <3>2 DEF Retained, NoLoss, SafeOffset
      <3>3. QED
        BY <3>1, <3>2
    <2>4. QED
      BY <1>1, <2>2, <2>3 DEF BatchSafe, Dismissed
  <1>6. RunSafe' /\ InOrder'
    BY <1>1 DEF RunSafe, InOrder, PollRequest
  <1>7. QED
    BY <1>1, <1>2, <1>3, <1>4, <1>5, <1>6

LEMMA ReplyKeepsInv == IInv /\ TypeOK' /\ (PollReply \/ PollError) => IInv'
  <1> SUFFICES ASSUME IInv, TypeOK', PollReply \/ PollError PROVE IInv'
    OBVIOUS
  <1> USE DEF IInv, TypeOK, Ids, serverVars, historyVars
  <1>1. /\ UNCHANGED <<serverVars, persisted, offset, arrived, delivered,
                       dismissed, run>>
        /\ batch' \subseteq batch /\ (batch' = batch \/ batch' = {})
        /\ pc' \in {"poll", "emit"}
    BY DEF PollReply, PollError
  <1>2. NoLoss' /\ PersistedSafe' /\ BoundedOffset(persisted)'
    BY <1>1 DEF NoLoss, PersistedSafe, SafeOffset, BoundedOffset, Dismissed
  <1>3. SafeOffset(offset)' /\ BoundedOffset(offset)'
    BY <1>1 DEF SafeOffset, BoundedOffset, Dismissed
  <1>4. BatchSafe' /\ RunSafe' /\ InOrder'
    BY <1>1 DEF BatchSafe, RunSafe, InOrder, Dismissed
  <1>5. QED
    BY <1>1, <1>2, <1>3, <1>4

\* Emitting the oldest update of the batch: everything below the new offset is
\* then seen or dismissed, and the run stays in order.
LEMMA EmitKeepsInv ==
    ASSUME IInv, TypeOK', NEW u \in Ids, Emit(u)
    PROVE  IInv'
  <1>0. /\ \A i \in DOMAIN run' : run'[i] < u + 1
        /\ \A i, j \in DOMAIN run' : i < j => run'[i] < run'[j]
    <2>1. run \in Seq(Ids) /\ run' = Append(run, u)
      BY DEF IInv, TypeOK, Emit
    <2>2. Ids \subseteq Int /\ u \in Int /\ offset \in Int
      BY DEF Ids, IInv, TypeOK
    <2>3. /\ DOMAIN run = 1..Len(run) /\ Len(run) \in Nat
          /\ \A i \in 1..Len(run) : run[i] \in Int
      BY <2>1, <2>2, AppendFacts
    <2>4. offset <= u
      <3>1. BatchSafe /\ u \in batch
        BY DEF IInv, Emit, IsLeast
      <3>2. QED
        BY <3>1 DEF BatchSafe
    <2>5. \A i \in 1..Len(run) : run[i] < u
      <3>1. \A i \in 1..Len(run) : run[i] < offset
        BY <2>3 DEF IInv, RunSafe
      <3>2. QED
        BY <2>2, <2>3, <2>4, <3>1
    <2>6. \A i, j \in 1..Len(run) : i < j => run[i] < run[j]
      BY <2>3 DEF IInv, InOrder
    <2>7. QED
      BY <2>1, <2>2, <2>3, <2>5, <2>6, AppendInOrder
  <1> USE DEF IInv, TypeOK, Ids, serverVars
  <1>1. /\ UNCHANGED <<serverVars, persisted, arrived, dismissed>>
        /\ delivered' = delivered \cup {u}
        /\ batch' = batch \ {u}
        /\ run' = Append(run, u)
        /\ pc' \in {"save", "emit"}
        /\ u \in batch /\ \A v \in batch : u <= v
    BY DEF Emit, IsLeast
  <1>2. offset' = u + 1 /\ u >= offset
    BY <1>1 DEF Emit, Advance, BatchSafe
  <1>3. NoLoss' /\ PersistedSafe' /\ BoundedOffset(persisted)'
    BY <1>1 DEF NoLoss, PersistedSafe, SafeOffset, BoundedOffset, Dismissed
  <1>4. SafeOffset(offset)' /\ BoundedOffset(offset)'
    BY <1>1, <1>2 DEF SafeOffset, BoundedOffset, BatchSafe, Dismissed
  <1>5. BatchSafe'
    BY <1>1, <1>2 DEF BatchSafe, Dismissed
  <1>6. RunSafe' /\ InOrder'
    BY <1>0, <1>1, <1>2 DEF RunSafe, InOrder
  <1>7. delivered' \subseteq arrived'
    BY <1>1 DEF BatchSafe
  <1>8. QED
    BY <1>1, <1>3, <1>4, <1>5, <1>6, <1>7

LEMMA SaveKeepsInv == IInv /\ TypeOK' /\ Save => IInv'
  <1> SUFFICES ASSUME IInv, TypeOK', Save PROVE IInv'
    OBVIOUS
  <1> USE DEF IInv, TypeOK, Ids, serverVars, historyVars
  <1>1. /\ UNCHANGED <<serverVars, offset, batch, arrived, delivered, dismissed, run>>
        /\ persisted' \in {persisted, offset}
        /\ pc' = "poll"
    BY DEF Save
  <1>2. NoLoss' /\ PersistedSafe' /\ BoundedOffset(persisted)'
    BY <1>1 DEF NoLoss, PersistedSafe, SafeOffset, BoundedOffset, Dismissed
  <1>3. SafeOffset(offset)' /\ BoundedOffset(offset)'
    BY <1>1 DEF SafeOffset, BoundedOffset, Dismissed
  <1>4. BatchSafe' /\ RunSafe' /\ InOrder'
    BY <1>1 DEF BatchSafe, RunSafe, InOrder, Dismissed
  <1>5. QED
    BY <1>1, <1>2, <1>3, <1>4

LEMMA StopKeepsInv == IInv /\ TypeOK' /\ Stop => IInv'
  <1> SUFFICES ASSUME IInv, TypeOK', Stop PROVE IInv'
    OBVIOUS
  <1> USE DEF IInv, TypeOK, Ids, serverVars
  <1>1. /\ UNCHANGED <<serverVars, persisted, arrived, delivered, dismissed>>
        /\ offset' = 0 /\ batch' = {} /\ run' = <<>>
    BY DEF Stop
  <1>2. NoLoss' /\ PersistedSafe' /\ BoundedOffset(persisted)'
    BY <1>1 DEF NoLoss, PersistedSafe, SafeOffset, BoundedOffset, Dismissed
  <1>3. SafeOffset(offset)' /\ BoundedOffset(offset)'
    BY <1>1 DEF SafeOffset, BoundedOffset
  <1>4. BatchSafe' /\ RunSafe' /\ InOrder'
    BY <1>1 DEF BatchSafe, RunSafe, InOrder
  <1>5. QED
    BY <1>1, <1>2, <1>3, <1>4

LEMMA InvStep == IInv /\ [Next]_vars => IInv'
  <1> SUFFICES ASSUME IInv, [Next]_vars PROVE IInv'
    OBVIOUS
  <1>1. TypeOK'
    BY TypeStep DEF IInv
  <1>2. CASE UNCHANGED vars
    BY <1>2 DEF vars, serverVars, historyVars, IInv, TypeOK, NoLoss,
                PersistedSafe, SafeOffset, BoundedOffset, BatchSafe, RunSafe,
                InOrder, Dismissed
  <1>3. CASE Next
    BY <1>1, <1>3, ArriveKeepsInv, GetUpdatesKeepsInv, StartKeepsInv,
       DrainKeepsInv, PollRequestKeepsInv, ReplyKeepsInv, EmitKeepsInv,
       SaveKeepsInv, StopKeepsInv DEF Next
  <1>4. QED
    BY <1>2, <1>3

THEOREM Invariance == Spec => []IInv
  BY InvInit, InvStep, PTL DEF Spec

\* No update is lost, whatever the interleaving of stops, lost replies, failed
\* saves and concurrent get-updates calls.
THEOREM NothingIsLost == Spec => []NoLoss
  <1>1. IInv => NoLoss
    BY DEF IInv
  <1>2. QED
    BY <1>1, Invariance, PTL

\* The saved offset never points past an update that was not emitted.
THEOREM SavedOffsetIsSafe == Spec => []PersistedSafe
  <1>1. IInv => PersistedSafe
    BY DEF IInv
  <1>2. QED
    BY <1>1, Invariance, PTL

\* One run emits each update at most once and in the order of the ids.
THEOREM RunsAreInOrder == Spec => []InOrder
  <1>1. IInv => InOrder
    BY DEF IInv
  <1>2. QED
    BY <1>1, Invariance, PTL

--------------------------------------------------------------------------------
(* The trigger implements AtLeastOnce.                                     *)

LEMMA InitRefines == Init => ALO!Init
  BY DEF Init, ALO!Init, Dismissed, Ids

\* Every step of the trigger is a step of AtLeastOnce or leaves its variables
\* alone: polls forget, emits deliver, explicit offsets dismiss.
LEMMA StepRefines == IInv /\ [Next]_vars => [ALO!Next]_(ALO!aloVars)
  <1> SUFFICES ASSUME IInv, [Next]_vars
               PROVE  ALO!Next \/ UNCHANGED ALO!aloVars
    OBVIOUS
  <1> USE ConstAssumption
          DEF IInv, TypeOK, ALO!aloVars, serverVars, historyVars
  <1>a. ASSUME UNCHANGED <<arrived, queue, delivered, dismissed>>
        PROVE  UNCHANGED ALO!aloVars
    BY <1>a DEF Dismissed
  <1>b. ASSUME UNCHANGED <<arrived, delivered>>, dismissed' >= dismissed,
               dismissed' \in Int,
               queue' \subseteq queue,
               \A u \in queue \ queue' : u \in delivered \/ u < dismissed'
        PROVE  ALO!Next
    <2>1. Dismissed' = Dismissed \cup {u \in Ids : u < dismissed'}
      BY <1>b DEF Dismissed, Ids
    <2>2. queue \ queue' \subseteq delivered \cup Dismissed'
      BY <1>b DEF Dismissed
    <2>3. ALO!Dismiss({u \in Ids : u < dismissed'})
      BY <1>b, <2>1, <2>2 DEF ALO!Dismiss
    <2>4. QED
      BY <2>3 DEF ALO!Next
  <1>1. CASE Arrive
    <2>1. PICK u \in Ids : /\ u > lastId
                           /\ queue' = queue \cup {u}
                           /\ arrived' = arrived \cup {u}
      BY <1>1 DEF Arrive
    <2>2. u \notin arrived
      BY <2>1 DEF Ids
    <2>3. ALO!Arrive(u)
      BY <1>1, <2>1, <2>2 DEF Arrive, ALO!Arrive, Dismissed
    <2>4. QED
      BY <2>3 DEF ALO!Next
  <1>2. ASSUME NEW o \in AckOffsets, GetUpdates(o) PROVE ALO!Next
    <2>1. dismissed' >= dismissed /\ dismissed' >= o /\ dismissed' \in Int
      BY <1>2 DEF GetUpdates, Larger
    <2>2. queue' \subseteq queue /\ \A u \in queue \ queue' : u < dismissed'
      BY <1>2, <2>1 DEF GetUpdates, Retained, Ids
    <2>3. QED
      BY <1>2, <1>b, <2>1, <2>2 DEF GetUpdates
  <1>3. CASE Start
    <2>1. /\ UNCHANGED <<arrived, delivered, queue>>
          /\ dismissed' >= dismissed /\ dismissed' \in Int
      BY <1>3 DEF Start, StartAt, StartDrain, Resume, Larger
    <2>2. QED
      BY <2>1, <1>b
  <1>4. CASE Drain
    <2>1. CASE DrainPeek
      <3>1. /\ UNCHANGED <<arrived, delivered, queue>>
            /\ dismissed' >= dismissed /\ dismissed' \in Int
        BY <2>1 DEF DrainPeek, Larger, Ids
      <3>2. QED
        BY <3>1, <1>b
    <2>2. CASE DrainAck
      <3>1. UNCHANGED <<arrived, delivered, dismissed>>
        BY <2>2 DEF DrainAck
      <3>2. /\ queue' \subseteq queue
            /\ \A u \in queue \ queue' : u \in delivered \/ u < dismissed
        BY <2>2, RetainedSafe DEF DrainAck
      <3>3. QED
        BY <1>b, <3>1, <3>2
    <2>3. QED
      BY <1>4, <2>1, <2>2 DEF Drain
  <1>5. CASE PollRequest
    <2>1. UNCHANGED <<arrived, delivered, dismissed>>
      BY <1>5 DEF PollRequest
    <2>2. /\ queue' \subseteq queue
          /\ \A u \in queue \ queue' : u \in delivered \/ u < dismissed
      BY <1>5, RetainedSafe DEF PollRequest
    <2>3. QED
      BY <1>b, <2>1, <2>2
  <1>6. ASSUME NEW u \in Ids, Emit(u) PROVE ALO!Next
    <2>1. u \in arrived
      BY <1>6 DEF Emit, IsLeast, BatchSafe
    <2>2. ALO!Deliver(u)
      BY <1>6, <2>1 DEF Emit, ALO!Deliver, Dismissed
    <2>3. QED
      BY <2>2 DEF ALO!Next
  <1>7. CASE PollReply \/ PollError \/ Save
    BY <1>7, <1>a DEF PollReply, PollError, Save
  <1>8. CASE Stop
    BY <1>8, <1>a DEF Stop
  <1>9. CASE UNCHANGED vars
    BY <1>9, <1>a DEF vars
  <1>10. QED
    BY <1>1, <1>2, <1>3, <1>4, <1>5, <1>6, <1>7, <1>8, <1>9 DEF Next

\* The polling trigger implements at-least-once delivery.
THEOREM TriggerIsAtLeastOnce == Spec => ImplementsAtLeastOnce
  BY InitRefines, StepRefines, Invariance, PTL
  DEF Spec, ImplementsAtLeastOnce, ALO!Spec

--------------------------------------------------------------------------------
(* Redelivery is bounded by one batch.                                     *)

\* A subset of a set of at most Limit ids has at most Limit ids.
LEMMA SubsetFits ==
    ASSUME NEW S \in SUBSET Ids, NEW T \in SUBSET S, Cardinality(S) <= Limit
    PROVE  Cardinality(T) <= Limit
  <1>1. IsFiniteSet(Ids)
    BY FS_Interval, ConstAssumption DEF Ids
  <1>2. IsFiniteSet(S)
    BY <1>1, FS_Subset
  <1>3. /\ IsFiniteSet(T)
        /\ Cardinality(T) <= Cardinality(S)
    BY <1>2, FS_Subset
  <1>4. Cardinality(S) \in Nat /\ Cardinality(T) \in Nat
    BY <1>2, <1>3, FS_CardinalityType
  <1>5. QED
    BY <1>3, <1>4, ConstAssumption

\* Steps that emit nothing and take no new batch: the queue may shrink and the
\* batch may be abandoned.
LEMMA ShrinkKeepsWindow ==
    ASSUME IInv, WindowInv, delivered' = delivered,
           queue' \subseteq queue, batch' \in {batch, {}}
    PROVE  WindowInv'
  <1>1. ((delivered \cup batch) \cap queue)' \in
            SUBSET ((delivered \cup batch) \cap queue)
    OBVIOUS
  <1>2. (delivered \cup batch) \cap queue \in SUBSET Ids
    BY DEF IInv, TypeOK
  <1>3. Cardinality((delivered \cup batch) \cap queue)' <= Limit
    BY <1>1, <1>2, SubsetFits DEF WindowInv
  <1>4. QED
    BY <1>3 DEF WindowInv

\* An update that arrives is newer than everything in the window.
LEMMA ArriveKeepsWindow == IInv /\ WindowInv /\ Arrive => WindowInv'
  <1> SUFFICES ASSUME IInv, WindowInv, Arrive PROVE WindowInv'
    OBVIOUS
  <1>1. PICK u \in Ids : u > lastId /\ queue' = queue \cup {u}
    BY DEF Arrive
  <1>2. delivered' = delivered /\ batch' = batch
    BY DEF Arrive
  <1>3. \A v \in delivered \cup batch \cup queue : v < u
    BY <1>1 DEF IInv, TypeOK, Ids, BatchSafe
  <1>4. ((delivered \cup batch) \cap queue)' = (delivered \cup batch) \cap queue
    <2>1. u \notin delivered \cup batch
      BY <1>3 DEF Ids
    <2>2. QED
      BY <1>1, <1>2, <2>1
  <1>5. /\ \A w \in delivered' \cap queue', v \in queue' : v < w => v \in delivered'
        /\ \A w \in batch', v \in queue' : v < w => v \in batch' \cup delivered'
    BY <1>1, <1>2, <1>3 DEF WindowInv, IInv, TypeOK, Ids
  <1>6. QED
    BY <1>4, <1>5 DEF WindowInv

\* What was delivered and the new batch both start at the oldest update the
\* server holds, so one of them contains the other.
LEMMA PollRequestKeepsWindow ==
    IInv /\ IInv' /\ WindowInv /\ PollRequest => WindowInv'
  <1> SUFFICES ASSUME IInv, IInv', WindowInv, PollRequest PROVE WindowInv'
    OBVIOUS
  <1>1. /\ queue' = Retained(offset) /\ queue' \in SUBSET queue
        /\ batch' \in SUBSET queue'
        /\ delivered' = delivered
    BY DEF PollRequest, Batches, Retained, historyVars
  <1>2. /\ Cardinality(batch') <= Limit
        /\ \A v \in queue', w \in batch' : v < w => v \in batch'
    BY DEF PollRequest, Batches
  <1>3. \A u \in delivered \cap queue', v \in queue' : v < u => v \in delivered
    BY <1>1 DEF WindowInv
  <1>4. queue' \in SUBSET Int /\ queue' \in SUBSET Ids
    BY <1>1 DEF IInv, TypeOK, Ids
  <1>5. \/ delivered \cap queue' \subseteq batch'
        \/ batch' \subseteq delivered \cap queue'
    <2>1. ASSUME NEW u \in delivered \cap queue', u \notin batch',
                 NEW w \in batch'
          PROVE  w \in delivered \cap queue'
      <3>1. u \in Int /\ w \in Int /\ u # w
        BY <1>1, <1>4, <2>1
      <3>2. w < u
        BY <1>2, <2>1, <3>1
      <3>3. QED
        BY <1>1, <1>3, <3>2
    <2>2. QED
      BY <2>1
  <1>6. Cardinality((delivered' \cup batch') \cap queue') <= Limit
    <2>1. CASE delivered \cap queue' \subseteq batch'
      <3>1. (delivered' \cup batch') \cap queue' = batch'
        BY <1>1, <2>1
      <3>2. QED
        BY <1>2, <3>1
    <2>2. CASE batch' \subseteq delivered \cap queue'
      <3>1. (delivered' \cup batch') \cap queue'
                \in SUBSET ((delivered \cup batch) \cap queue)
        BY <1>1, <2>2
      <3>2. (delivered \cup batch) \cap queue \in SUBSET Ids
        BY DEF IInv, TypeOK
      <3>3. QED
        BY <3>1, <3>2, SubsetFits DEF WindowInv
    <2>3. QED
      BY <1>5, <2>1, <2>2
  <1>7. QED
    BY <1>1, <1>2, <1>3, <1>6 DEF WindowInv

\* Emitting moves an update from the batch to the delivered ones: the window is
\* the same, and everything older was delivered before.
LEMMA EmitKeepsWindow ==
    ASSUME IInv, WindowInv, NEW u \in Ids, Emit(u)
    PROVE  WindowInv'
  <1>1. /\ queue' = queue
        /\ delivered' = delivered \cup {u}
        /\ batch' = batch \ {u}
        /\ u \in batch /\ \A v \in batch : u <= v
    BY DEF Emit, IsLeast, serverVars
  <1>2. (delivered' \cup batch') \cap queue' = (delivered \cup batch) \cap queue
    BY <1>1
  <1>3. queue \subseteq Int /\ batch \subseteq Int /\ u \in Int
    BY DEF IInv, TypeOK, Ids
  <1>4. \A v \in queue : v < u => v \in delivered
    BY <1>1, <1>3 DEF WindowInv
  <1>5. QED
    BY <1>1, <1>2, <1>4 DEF WindowInv

LEMMA WindowStep == IInv /\ IInv' /\ WindowInv /\ [Next]_vars => WindowInv'
  <1> SUFFICES ASSUME IInv, IInv', WindowInv, [Next]_vars PROVE WindowInv'
    OBVIOUS
  <1>1. CASE Arrive
    BY <1>1, ArriveKeepsWindow
  <1>2. CASE PollRequest
    BY <1>2, PollRequestKeepsWindow
  <1>3. ASSUME NEW u \in Ids, Emit(u) PROVE WindowInv'
    BY <1>3, EmitKeepsWindow
  <1>4. ASSUME \/ \E o \in AckOffsets : GetUpdates(o)
               \/ Start \/ Drain \/ PollReply \/ PollError \/ Save \/ Stop
               \/ UNCHANGED vars
        PROVE  WindowInv'
    <2>1. /\ delivered' = delivered
          /\ queue' \subseteq queue
          /\ batch' \in {batch, {}}
      BY <1>4 DEF GetUpdates, Start, StartAt, StartDrain, Resume, Drain,
                  DrainPeek, DrainAck, PollReply, PollError, Save, Stop,
                  Retained, vars, serverVars, historyVars
    <2>2. QED
      BY <2>1, ShrinkKeepsWindow
  <1>5. QED
    BY <1>1, <1>2, <1>3, <1>4 DEF Next

\* After a crash at most one batch is emitted again, however many saves failed.
THEOREM RedeliveryIsBounded == Spec => []InFlightWindow
  <1>1. Init => WindowInv
    BY FS_EmptySet, ConstAssumption DEF Init, WindowInv
  <1>2. IInv /\ WindowInv => InFlightWindow
    <2> SUFFICES ASSUME IInv, WindowInv PROVE InFlightWindow
      OBVIOUS
    <2>1. /\ (delivered \cup batch) \cap queue \in SUBSET Ids
          /\ delivered \cap queue \in SUBSET ((delivered \cup batch) \cap queue)
      BY DEF IInv, TypeOK
    <2>2. QED
      BY <2>1, SubsetFits DEF WindowInv, InFlightWindow
  <1>3. QED
    BY <1>1, <1>2, WindowStep, Invariance, PTL DEF Spec
================================================================================
