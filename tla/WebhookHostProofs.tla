--------------------------- MODULE WebhookHostProofs ---------------------------
(***************************************************************************)
(* For every list of mounts, any deliveries and retries: what senders are  *)
(* told matches what was emitted, and what the host undoes on its way out. *)
(***************************************************************************)
EXTENDS WebhookHost, SequenceTheorems, TLAPS

(***************************************************************************)
(* Requests.                                                               *)
(***************************************************************************)
Steps == {"idle", "check", "emit", "respond"}

Counts ==
    /\ req \in [Deliveries -> Steps]
    /\ tries \in [Deliveries -> Nat] /\ failed \in [Deliveries -> Nat]
    /\ emitted \in [Deliveries -> Nat]
    /\ acked \subseteq Deliveries

\* What holds of a delivery at each step of its request.
Told == \A d \in Deliveries :
    /\ req[d] # "idle" => d \notin acked
    /\ req[d] \in {"emit", "respond"} => d \in genuine
    /\ req[d] = "respond" => emitted[d] > 0
    /\ d \in acked => emitted[d] > 0
    /\ emitted[d] > 0 => d \in genuine
    /\ emitted[d] <= failed[d] + (IF d \in acked \/ req[d] = "respond" THEN 1 ELSE 0)

LEMMA AbandonTold == ASSUME Counts, Told, Abandon PROVE Counts' /\ Told'
<1>1. Counts'
  BY DEF Counts, Abandon, Steps
<1>2. \A d \in Deliveries :
         /\ req'[d] = "idle" /\ emitted'[d] = emitted[d]
         /\ failed'[d] = IF req[d] # "idle" THEN failed[d] + 1 ELSE failed[d]
         /\ d \in acked' <=> d \in acked
         /\ d \in genuine' <=> d \in genuine
  BY DEF Abandon, Active, Counts
<1>3. ASSUME NEW d \in Deliveries
      PROVE  emitted'[d] <= failed'[d] + (IF d \in acked' \/ req'[d] = "respond" THEN 1 ELSE 0)
  <2>1. emitted[d] \in Nat /\ failed[d] \in Nat
    BY DEF Counts
  <2> QED
    BY <1>2, <2>1 DEF Told
<1> QED
  BY <1>1, <1>2, <1>3 DEF Told

LEMMA HandlerTold ==
    ASSUME Counts, Told, NEW d \in Deliveries, Request(d) \/ HandlerStep(d)
    PROVE  Counts' /\ Told'
<1> USE DEF Counts, Told, Steps
<1>1. CASE Request(d)
  BY <1>1 DEF Request
<1>2. CASE Pass(d)
  BY <1>2 DEF Pass
<1>3. CASE Reject(d)
  BY <1>3 DEF Reject, Ends
<1>4. CASE Emit(d)
  BY <1>4 DEF Emit
<1>5. CASE EmitFails(d)
  BY <1>5 DEF EmitFails, Ends
<1>6. CASE Respond(d)
  <2>1. PICK success \in BOOLEAN : Ends(d, success)
    BY <1>6 DEF Respond
  <2>2. CASE success
    BY <1>6, <2>1, <2>2 DEF Respond, Ends
  <2>3. CASE ~success
    BY <1>6, <2>1, <2>3 DEF Respond, Ends
  <2> QED
    BY <2>2, <2>3
<1> QED
  BY <1>1, <1>2, <1>3, <1>4, <1>5, <1>6 DEF HandlerStep

\* Senders are told the truth: AcksMatchEmits of WebhookHost, for every list of
\* mounts, whatever checks, output or responses fail and whenever the host ends.
THEOREM SendersAreToldTheTruth == Spec => []AcksMatchEmits
<1>1. Init => Counts /\ Told
  BY DEF Init, Counts, Told, Steps
<1>2. Counts /\ Told /\ [Next]_vars => (Counts /\ Told)'
  <2> SUFFICES ASSUME Counts, Told, [Next]_vars PROVE (Counts /\ Told)'
    OBVIOUS
  <2>1. CASE UNCHANGED reqVars
    BY <2>1 DEF reqVars, Counts, Told
  <2>2. CASE Abandon
    BY <2>2, AbandonTold
  <2>3. ASSUME NEW d \in Deliveries, Request(d) \/ HandlerStep(d) PROVE (Counts /\ Told)'
    BY <2>3, HandlerTold
  <2>4. CASE HostStep \/ EnableFails \/ Signal \/ Die
    <3>1. UNCHANGED reqVars \/ Abandon
      BY <2>4 DEF HostStep, EnableFails, Signal, Die, Resolve, PathTaken, Mount, Listen, Drained,
                  Timeout, Close, Disable, Exit
    <3> QED
      BY <2>1, <2>2, <3>1
  <2>5. CASE UNCHANGED vars
    BY <2>1, <2>5 DEF vars
  <2> QED
    BY <2>3, <2>4, <2>5 DEF Next
<1>3. Counts /\ Told => AcksMatchEmits
  BY DEF Told, AcksMatchEmits
<1> QED
  BY <1>1, <1>2, <1>3, PTL DEF Spec

(***************************************************************************)
(* The host.                                                               *)
(***************************************************************************)
PCs == {"resolve", "enable", "serve", "shutdown", "teardown", "exit", "dead"}
Undoings == {Closing(i) : i \in DOMAIN mounts} \cup {Disabling(i) : i \in DOMAIN mounts}

HostTypes ==
    /\ mounts \in MountLists /\ DOMAIN mounts = 1..Len(mounts) /\ Len(mounts) \in Nat
    /\ pc \in PCs
    /\ k \in 1..(Len(mounts) + 1)
    /\ open \in [DOMAIN mounts -> BOOLEAN]
    /\ teardown \in Seq(Undoings)
    /\ to \in [Deliveries -> DOMAIN mounts]

OnStack(u) == \E j \in DOMAIN teardown : teardown[j] = u

\* The stack holds what is left to undo, a mount's session below its trigger.
Recorded ==
    /\ pc = "resolve" => teardown = <<>> /\ upstream = {} /\ k = 1
    /\ pc \in {"enable", "serve", "shutdown"} => \A i \in DOMAIN mounts : open[i]
    /\ \A i, j \in DOMAIN teardown : teardown[i] = teardown[j] => i = j
    /\ \A j \in DOMAIN teardown : teardown[j].mount < k
    /\ \A j \in DOMAIN teardown : \A i \in DOMAIN mounts :
          teardown[j] = Disabling(i) => \E l \in 1..(j - 1) : teardown[l] = Closing(i)
    /\ pc \notin {"resolve", "dead"} =>
          /\ \A i \in 1..(k - 1) : open[i] <=> OnStack(Closing(i))
          /\ \A i \in upstream : i \in refusals \/ OnStack(Disabling(i))
    /\ pc \in {"serve", "shutdown"} => k = Len(mounts) + 1
    /\ pc = "exit" => teardown = <<>>

HInv == HostTypes /\ Recorded

LEMMA HostInit == Init => HInv
<1> SUFFICES ASSUME Init PROVE HInv
  OBVIOUS
<1>1. mounts \in Seq(Range(mounts)) /\ mounts # <<>>
  BY ConstAssumption DEF Init
<1>2. DOMAIN mounts = 1..Len(mounts) /\ Len(mounts) \in Nat
  BY <1>1
<1>3. HostTypes
  BY <1>2 DEF Init, HostTypes, PCs
<1>4. Recorded
  BY DEF Init, Recorded, OnStack
<1> QED
  BY <1>3, <1>4 DEF HInv

LEMMA FrontOf ==
    ASSUME NEW S, NEW s \in Seq(S), s # <<>>
    PROVE  /\ Front(s) \in Seq(S) /\ Len(Front(s)) = Len(s) - 1
           /\ DOMAIN Front(s) = 1..(Len(s) - 1) /\ Len(s) \in DOMAIN s
           /\ \A j \in 1..(Len(s) - 1) : Front(s)[j] = s[j]
<1>1. Len(s) \in Nat \ {0} /\ DOMAIN s = 1..Len(s) /\ \A j \in DOMAIN s : s[j] \in S
  OBVIOUS
<1>2. Front(s) = SubSeq(s, 1, Len(s) - 1)
  BY DEF Front
<1>3. \A j \in 1..(Len(s) - 1) : s[j] \in S
  BY <1>1
<1>4. /\ Front(s) \in Seq(S) /\ Len(Front(s)) = Len(s) - 1
      /\ \A j \in 1..(Len(s) - 1) : Front(s)[j] = s[j]
  BY <1>1, <1>2, <1>3, SubSeqProperties
<1>5. DOMAIN Front(s) = 1..Len(Front(s))
  BY <1>4
<1> QED
  BY <1>1, <1>4, <1>5

\* Undoing the top of the stack.
LEMMA PopRecorded ==
    ASSUME HInv, pc = "teardown", teardown # <<>>, teardown' = Front(teardown),
           UNCHANGED <<mounts, pc, k, to>>,
           \/ /\ Top.do = "close" /\ open' = [open EXCEPT ![Top.mount] = FALSE]
              /\ UNCHANGED <<upstream, refusals>>
           \/ /\ Top.do = "disable" /\ UNCHANGED open
              /\ upstream' \subseteq upstream /\ refusals \subseteq refusals'
              /\ Top.mount \notin upstream' \/ Top.mount \in refusals'
    PROVE  HInv'
<1> DEFINE N == Len(teardown)
<1>1. /\ teardown' \in Seq(Undoings) /\ Len(teardown') = N - 1 /\ N \in Nat
      /\ DOMAIN teardown = 1..N /\ DOMAIN teardown' = 1..(N - 1) /\ N \in DOMAIN teardown
      /\ \A j \in 1..(N - 1) : teardown'[j] = teardown[j]
  BY FrontOf DEF HInv, HostTypes
<1>2. PICK i \in DOMAIN mounts : \/ Top = Closing(i) /\ Top.do = "close"
                                 \/ Top = Disabling(i) /\ Top.do = "disable"
  BY <1>1 DEF HInv, HostTypes, Undoings, Top, Closing, Disabling
<1>3. Top.mount = i /\ Top = teardown[N] /\ i < k
  BY <1>1, <1>2 DEF Top, Closing, Disabling, HInv, Recorded
<1> HIDE DEF N
<1>4. HostTypes'
  BY <1>1, <1>3 DEF HInv, HostTypes, Undoings, Closing, Disabling
<1>5. \A u : u # Top => (OnStack(u)' <=> OnStack(u))
  BY <1>1, <1>3 DEF OnStack
<1>6. PICK t : t = Top
  OBVIOUS
<1>6a. ~OnStack(t)'
  BY <1>1, <1>3, <1>6 DEF OnStack, HInv, Recorded
<1>7. \A h \in DOMAIN mounts : Closing(h) # Disabling(i) /\ Disabling(h) # Closing(i)
                              /\ (h # i => Closing(h) # Closing(i) /\ Disabling(h) # Disabling(i))
  BY DEF Closing, Disabling
<1>8. 1..(k - 1) \subseteq DOMAIN mounts
  BY DEF HInv, HostTypes
<1>9. \A h \in 1..(k - 1) : open'[h] <=> OnStack(Closing(h))'
  <2>1. CASE Top.do = "close"
    <3>1. Top = Closing(i) /\ open' = [open EXCEPT ![i] = FALSE]
      BY <1>2, <1>3, <2>1 DEF Closing, Disabling
    <3> QED
      BY <1>5, <1>6, <1>6a, <1>7, <1>8, <3>1 DEF HInv, HostTypes, Recorded
  <2>2. CASE Top.do = "disable"
    <3>1. Top = Disabling(i) /\ open' = open
      BY <1>2, <1>3, <2>2 DEF Closing, Disabling
    <3> QED
      BY <1>5, <1>7, <1>8, <3>1 DEF HInv, Recorded
  <2> QED
    BY <1>2, <2>1, <2>2
<1>10. \A h \in upstream' : h \in refusals' \/ OnStack(Disabling(h))'
  <2>1. CASE Top.do = "close"
    <3>1. Top = Closing(i) /\ UNCHANGED <<upstream, refusals>>
      BY <1>2, <2>1
    <3>2. \A h : Disabling(h) # Top
      BY <3>1 DEF Closing, Disabling
    <3> QED
      BY <1>5, <3>1, <3>2 DEF HInv, Recorded
  <2>2. CASE Top.do = "disable"
    <3>1. Top = Disabling(i)
      BY <1>2, <2>2
    <3>2. \A h : h # i => Disabling(h) # Top
      BY <3>1 DEF Disabling
    <3> QED
      BY <1>3, <1>5, <2>2, <3>2 DEF HInv, Recorded
  <2> QED
    BY <1>2, <2>1, <2>2
<1>11. \A j \in DOMAIN teardown' : \A h \in DOMAIN mounts :
          teardown'[j] = Disabling(h) => \E l \in 1..(j - 1) : teardown'[l] = Closing(h)
  <2> SUFFICES ASSUME NEW j \in 1..(N - 1), NEW h \in DOMAIN mounts, teardown[j] = Disabling(h)
               PROVE  \E l \in 1..(j - 1) : teardown'[l] = Closing(h)
    BY <1>1
  <2>1. PICK l \in 1..(j - 1) : teardown[l] = Closing(h)
    BY <1>1 DEF HInv, Recorded
  <2> QED
    BY <1>1, <2>1
<1>12. Recorded'
  BY <1>1, <1>9, <1>10, <1>11 DEF HInv, Recorded, Disabling, Closing
<1> QED
  BY <1>4, <1>12 DEF HInv

\* Enabling the next mount.
LEMMA MountRecorded == ASSUME HInv, Mount PROVE HInv'
<1> DEFINE N == Len(teardown)
<1>1. /\ N \in Nat /\ DOMAIN teardown = 1..N /\ k \in DOMAIN mounts /\ k \in Nat
      /\ pc = "enable" /\ k' = k + 1 /\ open[k] /\ UNCHANGED <<mounts, pc, open, refusals, to>>
  <2>1. k \in 1..(Len(mounts) + 1) /\ k <= Len(mounts) /\ Len(mounts) \in Nat /\ DOMAIN mounts = 1..Len(mounts)
    BY DEF HInv, HostTypes, Mount
  <2>2. k \in DOMAIN mounts /\ k \in Nat
    BY <2>1
  <2>3. pc = "enable" /\ k' = k + 1 /\ UNCHANGED <<mounts, pc, open, refusals, to>>
    BY DEF Mount, reqVars
  <2>4. open[k]
    BY <2>2, <2>3 DEF HInv, Recorded
  <2>5. N \in Nat /\ DOMAIN teardown = 1..N
    BY DEF HInv, HostTypes
  <2> QED
    BY <2>2, <2>3, <2>4, <2>5
<1>2. PICK M \in {N + 1, N + 2} :
          /\ teardown' \in Seq(Undoings) /\ Len(teardown') = M /\ DOMAIN teardown' = 1..M
          /\ \A j \in 1..N : teardown'[j] = teardown[j]
          /\ teardown'[N + 1] = Closing(k)
          /\ M = N + 2 => teardown'[N + 2] = Disabling(k) /\ upstream' = upstream \cup {k}
          /\ M = N + 1 => upstream' = upstream
  <2>1. teardown \in Seq(Undoings) /\ Closing(k) \in Undoings /\ Disabling(k) \in Undoings
    BY <1>1 DEF HInv, HostTypes, Undoings
  <2>2. CASE noRegister
    <3>1. teardown' = Append(teardown, Closing(k)) /\ upstream' = upstream
      BY <2>1, <2>2 DEF Mount
    <3> QED
      BY <1>1, <2>1, <3>1
  <2>3. CASE ~noRegister
    <3>1. teardown' = Append(Append(teardown, Closing(k)), Disabling(k)) /\ upstream' = upstream \cup {k}
      BY <2>1, <2>3 DEF Mount
    <3> QED
      BY <1>1, <2>1, <3>1
  <2> QED
    BY <2>2, <2>3
<1> HIDE DEF N
<1>3. HostTypes'
  BY <1>1, <1>2 DEF HInv, HostTypes, Undoings
<1>4. \A i : /\ Closing(k) # Disabling(i) /\ Disabling(k) # Closing(i)
             /\ i # k => Closing(i) # Closing(k) /\ Disabling(i) # Disabling(k)
             /\ Closing(i).mount = i /\ Disabling(i).mount = i
  BY DEF Closing, Disabling
<1>5. \A j \in 1..N : teardown[j].mount < k /\ teardown[j] # Closing(k) /\ teardown[j] # Disabling(k)
  BY <1>1, <1>4 DEF HInv, Recorded
<1>6. \A i, j \in DOMAIN teardown' : teardown'[i] = teardown'[j] => i = j
  <2> SUFFICES ASSUME NEW i \in 1..M, NEW j \in 1..M, teardown'[i] = teardown'[j], i < j PROVE FALSE
    BY <1>1, <1>2
  <2>1. CASE j \in 1..N
    BY <1>1, <1>2, <2>1 DEF HInv, Recorded
  <2>2. CASE j = N + 1
    BY <1>1, <1>2, <1>5, <2>2
  <2>3. CASE j = N + 2
    BY <1>1, <1>2, <1>4, <1>5, <2>3
  <2> QED
    BY <1>1, <1>2, <2>1, <2>2, <2>3
<1>7. \A j \in DOMAIN teardown' : teardown'[j].mount < k'
  <2> SUFFICES ASSUME NEW j \in 1..M PROVE teardown'[j].mount < k + 1
    BY <1>1, <1>2
  <2>1. CASE j \in 1..N
    <3>1. teardown[j] \in Undoings
      BY <1>1, <2>1 DEF HInv, HostTypes
    <3>2. teardown[j].mount \in Nat
      BY <1>1, <3>1 DEF Undoings, Closing, Disabling, HInv, HostTypes
    <3> QED
      BY <1>1, <1>2, <1>5, <2>1, <3>2
  <2>2. CASE j \in {N + 1, N + 2}
    BY <1>1, <1>2, <1>4, <2>2
  <2> QED
    BY <1>1, <1>2, <2>1, <2>2
<1>8. \A j \in DOMAIN teardown' : \A i \in DOMAIN mounts :
          teardown'[j] = Disabling(i) => \E l \in 1..(j - 1) : teardown'[l] = Closing(i)
  <2> SUFFICES ASSUME NEW j \in 1..M, NEW i \in DOMAIN mounts, teardown'[j] = Disabling(i)
               PROVE  \E l \in 1..(j - 1) : teardown'[l] = Closing(i)
    BY <1>2
  <2>1. CASE j \in 1..N
    <3>1. PICK l \in 1..(j - 1) : teardown[l] = Closing(i)
      BY <1>1, <1>2, <2>1 DEF HInv, Recorded
    <3> QED
      BY <1>1, <1>2, <2>1, <3>1
  <2>2. CASE j = N + 1
    BY <1>2, <1>4, <2>2
  <2>3. CASE j = N + 2
    <3>1. i = k /\ N + 1 \in 1..(j - 1)
      BY <1>1, <1>2, <1>4, <2>3
    <3> QED
      BY <1>2, <3>1
  <2> QED
    BY <1>1, <1>2, <2>1, <2>2, <2>3
<1>9. \A u : OnStack(u) => OnStack(u)'
  BY <1>1, <1>2 DEF OnStack
<1>10. \A i \in 1..k : open[i] <=> OnStack(Closing(i))'
  <2>1. \A i : i = k => OnStack(Closing(i))'
    BY <1>1, <1>2 DEF OnStack
  <2>2. \A i \in 1..(k - 1) : open[i] => OnStack(Closing(i))'
    BY <1>1, <1>9 DEF HInv, Recorded
  <2>3. \A i \in 1..k : open[i]
    BY <1>1 DEF HInv, HostTypes, Recorded
  <2> QED
    BY <1>1, <2>1, <2>2, <2>3
<1>11. \A i \in upstream' : i \in refusals \/ OnStack(Disabling(i))'
  <2>1. \A i \in upstream : i \in refusals \/ OnStack(Disabling(i))'
    BY <1>1, <1>9 DEF HInv, Recorded
  <2>2. M = N + 2 => \A i : i = k => OnStack(Disabling(i))'
    BY <1>1, <1>2 DEF OnStack
  <2> QED
    BY <1>2, <2>1, <2>2
<1>12. Recorded'
  BY <1>1, <1>6, <1>7, <1>8, <1>10, <1>11 DEF HInv, Recorded, Closing, Disabling
<1> QED
  BY <1>3, <1>12 DEF HInv

LEMMA HostNext == HInv /\ [Next]_vars => HInv'
<1> SUFFICES ASSUME HInv, [Next]_vars PROVE HInv'
  OBVIOUS
<1>1. CASE UNCHANGED <<hostVars, to>>
  BY <1>1 DEF hostVars, HInv, HostTypes, Recorded, OnStack, Undoings, Closing, Disabling
<1>2. CASE Resolve
  BY <1>2 DEF Resolve, reqVars, HInv, HostTypes, Recorded, OnStack, Undoings, PCs, Closing, Disabling
<1>3. CASE PathTaken \/ Listen \/ Signal \/ Drained \/ Timeout
  <2>1. /\ UNCHANGED <<mounts, k, open, upstream, teardown, refusals, to>>
        /\ pc \in {"enable", "serve", "shutdown"} /\ pc' \in {"serve", "shutdown", "teardown"}
        /\ pc' = "serve" => pc = "enable" /\ k > Len(mounts)
        /\ pc' = "shutdown" => pc = "serve"
    BY <1>3 DEF PathTaken, Listen, Signal, Drained, Timeout, reqVars
  <2>2. HostTypes'
    BY <2>1 DEF HInv, HostTypes, Undoings, PCs, Closing, Disabling
  <2>3. k > Len(mounts) => k = Len(mounts) + 1
    BY DEF HInv, HostTypes
  <2>4. Recorded'
    BY <2>1, <2>3 DEF HInv, Recorded, OnStack, Closing, Disabling
  <2> QED
    BY <2>2, <2>4 DEF HInv
<1>4. CASE EnableFails \/ Die
  <2>1. UNCHANGED <<mounts, k, open, teardown, to>> /\ pc' = "dead"
    BY <1>4 DEF EnableFails, Die, Abandon, reqVars
  <2>2. HostTypes'
    BY <2>1 DEF HInv, HostTypes, Undoings, PCs, Closing, Disabling
  <2>3. Recorded'
    BY <2>1 DEF HInv, Recorded, OnStack, Closing, Disabling
  <2> QED
    BY <2>2, <2>3 DEF HInv
<1>5. CASE Exit
  BY <1>5 DEF Exit, Abandon, HInv, HostTypes, Recorded, OnStack, Undoings, PCs, Closing, Disabling
<1>6. CASE Mount
  BY <1>6, MountRecorded
<1>7. CASE Close
  BY <1>7, PopRecorded DEF Close, reqVars
<1>8. CASE Disable
  <2>1. /\ teardown # <<>> /\ Top.do = "disable" /\ pc = "teardown" /\ k \in Nat
        /\ DOMAIN teardown = 1..Len(teardown) /\ Len(teardown) \in DOMAIN teardown
    BY <1>8 DEF Disable, HInv, HostTypes
  <2>2. PICK i \in DOMAIN mounts : Top = Disabling(i)
    BY <2>1 DEF HInv, HostTypes, Undoings, Top, Closing
  <2>3. Top.mount = i /\ i \in 1..(k - 1)
    BY <2>1, <2>2 DEF Top, Disabling, HInv, HostTypes, Recorded
  <2>4. OnStack(Closing(i))
    BY <2>1, <2>2 DEF Top, OnStack, HInv, Recorded
  <2>5. open[i]
    BY <2>1, <2>3, <2>4 DEF HInv, Recorded
  <2> QED
    BY <1>8, <2>3, <2>5, PopRecorded DEF Disable, reqVars
<1>9. ASSUME NEW d \in Deliveries, Request(d) \/ HandlerStep(d) PROVE HInv'
  BY <1>1, <1>9 DEF Request, HandlerStep, Pass, Reject, Emit, EmitFails, Respond
<1>10. CASE UNCHANGED vars
  BY <1>1, <1>10 DEF vars, reqVars
<1> QED
  BY <1>2, <1>3, <1>4, <1>5, <1>6, <1>7, <1>8, <1>9, <1>10 DEF Next, HostStep

\* A host that ends leaves nothing registered but what the service refused to
\* give up, and none of its sessions open: LeavesNothing of WebhookHost.
THEOREM NothingIsLeft == Spec => []LeavesNothing
<1>1. HInv => LeavesNothing
  BY DEF HInv, Recorded, LeavesNothing, OnStack
<1> QED
  BY <1>1, HostInit, HostNext, PTL DEF Spec

\* Requests run while the host serves and, past the deadline, while it leaves.
Serving == /\ req \in [Deliveries -> Steps]
           /\ Active # {} => pc \in {"serve", "shutdown"} \/ (pc = "teardown" /\ timedOut)

LEMMA ServingHolds == Spec => []Serving
<1>1. Init => Serving
  BY DEF Init, Serving, Active, Steps
<1>2. Serving /\ [Next]_vars => Serving'
  <2> SUFFICES ASSUME Serving, [Next]_vars PROVE Serving'
    OBVIOUS
  <2>1. CASE UNCHANGED <<pc, timedOut, req>>
    BY <2>1 DEF Serving, Active
  <2>2. CASE Resolve \/ PathTaken \/ Mount \/ EnableFails \/ Listen \/ Signal \/ Drained \/ Timeout
             \/ Close \/ Disable
    BY <2>2 DEF Resolve, PathTaken, Mount, EnableFails, Listen, Signal, Drained, Timeout, Close,
                Disable, reqVars, Serving, Active
  <2>3. CASE Exit \/ Die
    BY <2>3 DEF Exit, Die, Abandon, Serving, Active, Steps
  <2>4. ASSUME NEW d \in Deliveries, Request(d) \/ HandlerStep(d) PROVE Serving'
    <3>1. /\ UNCHANGED <<pc, timedOut>> /\ req' \in [Deliveries -> Steps]
      BY <2>4 DEF Request, HandlerStep, Pass, Reject, Emit, EmitFails, Respond, Ends, hostVars,
                  Serving, Steps
    <3>2. pc \in {"serve", "shutdown"} \/ (pc = "teardown" /\ timedOut)
      <4>1. CASE Request(d)
        BY <4>1 DEF Request
      <4>2. CASE HandlerStep(d)
        BY <4>2 DEF HandlerStep, Pass, Reject, Emit, EmitFails, Respond, Serving, Active
      <4> QED
        BY <2>4, <4>1, <4>2
    <3> QED
      BY <3>1, <3>2 DEF Serving
  <2>5. CASE UNCHANGED vars
    BY <2>1, <2>5 DEF vars, hostVars, reqVars
  <2> QED
    BY <2>2, <2>3, <2>4, <2>5 DEF Next, HostStep
<1> QED
  BY <1>1, <1>2, PTL DEF Spec

\* No request is handled on a closed session, unless it has outlived the time
\* that Shutdown waits: OpenWhileHandled of WebhookHost.
THEOREM SessionsAreOpen == Spec => []OpenWhileHandled
<1>1. HInv /\ Serving => OpenWhileHandled
  BY DEF HInv, HostTypes, Recorded, Serving, OpenWhileHandled, Active
<1> QED
  BY <1>1, ServingHolds, HostInit, HostNext, PTL DEF Spec

(***************************************************************************)
(* Types, and the count of each sender's requests.                         *)
(***************************************************************************)
Tally ==
    /\ req \in [Deliveries -> Steps] /\ acked \subseteq Deliveries
    /\ tries \in [Deliveries -> Nat] /\ failed \in [Deliveries -> Nat]
    /\ broken \in BOOLEAN
    /\ \A d \in Deliveries :
          /\ req[d] # "idle" => d \notin acked
          /\ tries[d] = failed[d] + (IF req[d] # "idle" \/ d \in acked THEN 1 ELSE 0)

LEMMA TallyStep == Tally /\ [Next]_vars => Tally'
<1> SUFFICES ASSUME Tally, [Next]_vars PROVE Tally'
  OBVIOUS
<1>1. CASE UNCHANGED reqVars
  BY <1>1 DEF reqVars, Tally
<1>2. CASE Abandon
  BY <1>2 DEF Abandon, Active, Tally, Steps
<1>3. ASSUME NEW d \in Deliveries, Request(d) \/ HandlerStep(d) PROVE Tally'
  <2> USE DEF Tally, Steps
  <2>1. CASE Request(d)
    BY <2>1 DEF Request
  <2>2. CASE Pass(d) \/ Emit(d)
    BY <2>2 DEF Pass, Emit
  <2>3. ASSUME NEW success \in BOOLEAN, req[d] # "idle", Ends(d, success), broken' \in BOOLEAN,
               UNCHANGED tries
        PROVE  Tally'
    <3>1. CASE success
      BY <2>3, <3>1 DEF Ends
    <3>2. CASE ~success
      BY <2>3, <3>2 DEF Ends
    <3> QED
      BY <3>1, <3>2
  <2>4. CASE Reject(d) \/ EmitFails(d) \/ Respond(d)
    BY <2>3, <2>4 DEF Reject, EmitFails, Respond
  <2> QED
    BY <1>3, <2>1, <2>2, <2>4 DEF HandlerStep
<1>4. CASE HostStep \/ EnableFails \/ Signal \/ Die
  <2>1. UNCHANGED reqVars \/ Abandon
    BY <1>4 DEF HostStep, EnableFails, Signal, Die, Resolve, PathTaken, Mount, Listen, Drained,
                Timeout, Close, Disable, Exit
  <2> QED
    BY <1>1, <1>2, <2>1
<1> QED
  BY <1>1, <1>3, <1>4 DEF Next, vars

Known == upstream \cup refusals \subseteq DOMAIN mounts /\ timedOut \in BOOLEAN

LEMMA KnownStep == HInv /\ Known /\ [Next]_vars => Known'
<1> SUFFICES ASSUME HInv, Known, [Next]_vars PROVE Known'
  OBVIOUS
<1>1. k <= Len(mounts) => k \in DOMAIN mounts
  BY DEF HInv, HostTypes
<1>2. teardown # <<>> => Top.mount \in DOMAIN mounts
  BY DEF Top, HInv, HostTypes, Undoings, Closing, Disabling
<1>3. CASE UNCHANGED hostVars
  BY <1>3 DEF hostVars, Known
<1>4. CASE HostStep \/ EnableFails \/ Signal \/ Die
  BY <1>1, <1>2, <1>4 DEF HostStep, EnableFails, Signal, Die, Resolve, PathTaken, Mount, Listen,
         Drained, Timeout, Close, Disable, Exit, Known
<1>5. ASSUME NEW d \in Deliveries, Request(d) \/ HandlerStep(d) PROVE Known'
  BY <1>3, <1>5 DEF Request, HandlerStep, Pass, Reject, Emit, EmitFails, Respond
<1> QED
  BY <1>3, <1>4, <1>5 DEF Next, vars

\* The state keeps its shape: the stack names mounts only, a host that has left
\* has no request, and a sender has made one request for each failure and one
\* more if it is waiting or was answered: TypeOK of WebhookHost.
THEOREM TypeCorrect == Spec => []TypeOK
<1>1. Init => Tally /\ Known
  <2>1. Init => Tally
    <3> SUFFICES ASSUME Init PROVE Tally
      OBVIOUS
    <3>1. \A d \in Deliveries : req[d] = "idle" /\ tries[d] = 0 /\ failed[d] = 0 /\ d \notin acked
      BY DEF Init
    <3>2. /\ req \in [Deliveries -> Steps] /\ acked \subseteq Deliveries /\ broken \in BOOLEAN
          /\ tries \in [Deliveries -> Nat] /\ failed \in [Deliveries -> Nat]
      BY DEF Init, Steps
    <3> QED
      BY <3>1, <3>2 DEF Tally
  <2>2. Init => Known
    BY DEF Init, Known
  <2> QED
    BY <2>1, <2>2
<1>2. HInv /\ Serving /\ Tally /\ Known => TypeOK
  BY DEF HInv, HostTypes, PCs, Undoings, Serving, Tally, Known, Steps, TypeOK
<1> QED
  BY <1>1, <1>2, HostInit, HostNext, ServingHolds, TallyStep, KnownStep, PTL DEF Spec
================================================================================
