---------------------------- MODULE TelegramTrigger ----------------------------
(***************************************************************************)
(* The "messages" trigger of connectors/telegram/updates.go: Subscribe     *)
(* long-polls getUpdates, emits every update, moves its in-memory offset   *)
(* past it and saves the offset after each batch.  The process can stop at *)
(* any point and be started again; replies can be lost; the state store    *)
(* can fail to load or to save.  The Bot API server is external: it keeps  *)
(* the updates no getUpdates call has confirmed with a higher offset.      *)
(***************************************************************************)
EXTENDS Integers, Sequences, FiniteSets

CONSTANTS MaxId,         \* bound: update ids are 1..MaxId, assigned upwards
          Limit,         \* updates per getUpdates call (100 in the code)
          StartOffsets,  \* start_offset values Subscribe may be called with
          AckOffsets,    \* offsets the get-updates action is called with
          MaxStops       \* bound on the number of times the process stops

ASSUME ConstAssumption ==
    /\ MaxId \in Nat
    /\ Limit \in Nat \ {0}
    /\ StartOffsets \subseteq Int
    /\ AckOffsets \subseteq Int
    /\ MaxStops \in Nat

Ids == 1..MaxId

VARIABLES lastId,     \* server: highest id assigned so far
          queue,      \* server: updates not confirmed yet
          persisted,  \* state store: the saved offset, 0 when there is none
          pc,         \* where Subscribe is; "down" when it is not running
          offset,     \* Subscribe's local offset
          batch,      \* updates of the current reply, not emitted yet
          stops       \* bound counter for Stop

\* History, read by no action of the code.
VARIABLES arrived,    \* ids ever assigned
          delivered,  \* ids emitted at least once, by any run
          dismissed,  \* a caller explicitly skipped everything below this id
          run,        \* ids the current run has emitted, in order
          backlog     \* ids queued when a start_offset = -1 run began

serverVars  == <<lastId, queue>>
historyVars == <<arrived, delivered, dismissed, run, backlog>>
vars == <<serverVars, persisted, pc, offset, batch, stops, historyVars>>

PCs == {"down", "drain", "drainAck", "poll", "wait", "emit", "save"}

TypeOK ==
    /\ lastId \in 0..MaxId
    /\ queue \subseteq Ids
    /\ persisted \in Int
    /\ pc \in PCs
    /\ offset \in Int
    /\ batch \subseteq Ids
    /\ batch # {} => pc \in {"wait", "emit"}
    /\ pc = "emit" => batch # {}
    /\ stops \in 0..MaxStops
    /\ arrived \subseteq Ids
    /\ delivered \subseteq Ids
    /\ dismissed \in Int
    /\ run \in Seq(Ids)
    /\ backlog \subseteq Ids

Init ==
    /\ lastId = 0
    /\ queue = {}
    /\ persisted = 0
    /\ pc = "down"
    /\ offset = 0
    /\ batch = {}
    /\ stops = 0
    /\ arrived = {}
    /\ delivered = {}
    /\ dismissed = 0
    /\ run = <<>>
    /\ backlog = {}

Larger(a, b) == IF a > b THEN a ELSE b

IsLeast(u, S) == u \in S /\ \A v \in S : u <= v

--------------------------------------------------------------------------------
(* The server's side of getUpdates.                                        *)

\* What the server still holds after getUpdates(o).  callGetUpdates leaves the
\* offset out of the request unless it is positive; no id is below 1, so any
\* other value confirms nothing.
Retained(o) == {u \in queue : u >= o}

\* Variant of Batches: no limit.
BatchesNoLimit(o) ==
    {b \in SUBSET Retained(o) :
        /\ b = {} <=> Retained(o) = {}
        /\ \A u \in Retained(o), v \in b : u < v => u \in b}

\* The replies to getUpdates(o): the oldest updates from o on, at most Limit.
Batches(o) ==
    {b \in SUBSET Retained(o) :
        /\ b = {} <=> Retained(o) = {}
        /\ Cardinality(b) <= Limit
        /\ \A u \in Retained(o), v \in b : u < v => u \in b}

Arrive ==
    /\ \E u \in Ids :
        /\ u > lastId
        /\ lastId' = u
        /\ queue' = queue \cup {u}
        /\ arrived' = arrived \cup {u}
    /\ UNCHANGED <<persisted, pc, offset, batch, stops, delivered, dismissed,
                   run, backlog>>

\* get-updates run beside the trigger, from another process or request: a
\* positive offset acknowledges, for the caller, everything below it.
GetUpdates(o) ==
    /\ queue' = Retained(o)
    /\ dismissed' = Larger(dismissed, o)
    /\ UNCHANGED <<lastId, persisted, pc, offset, batch, stops, arrived,
                   delivered, run, backlog>>

--------------------------------------------------------------------------------
(* Subscribe, up to its loop.                                              *)

\* start_offset > 0: the caller's offset wins over the persisted one.
StartAt(s) ==
    /\ pc = "down"
    /\ s > 0
    /\ pc' = "poll"
    /\ offset' = s
    /\ dismissed' = Larger(dismissed, s)
    /\ UNCHANGED <<serverVars, persisted, batch, stops, arrived, delivered,
                   run, backlog>>

\* start_offset = -1: skip what is queued.
StartDrain(s) ==
    /\ pc = "down"
    /\ s = -1
    /\ pc' = "drain"
    /\ offset' = s
    /\ backlog' = queue
    /\ UNCHANGED <<serverVars, persisted, batch, stops, arrived, delivered,
                   dismissed, run>>

\* Any other value resumes from the store; a missing, unreadable or failed
\* load leaves the offset at the caller's value, which confirms nothing.
Resume(s) ==
    /\ pc = "down"
    /\ s <= 0 /\ s # -1
    /\ pc' = "poll"
    /\ \/ persisted # 0 /\ offset' = persisted
       \/ offset' = s
    /\ UNCHANGED <<serverVars, persisted, batch, stops, historyVars>>

\* getUpdates without an offset and with limit 1: the oldest queued update.
\* With nothing queued the offset stays -1.
DrainPeek ==
    /\ pc = "drain"
    /\ pc' = "drainAck"
    /\ \/ queue = {} /\ UNCHANGED <<offset, dismissed>>
       \/ \E u \in queue :
            /\ IsLeast(u, queue)
            /\ offset' = u + 1
            /\ dismissed' = Larger(dismissed, u + 1)
    /\ UNCHANGED <<serverVars, persisted, batch, stops, arrived, delivered,
                   run, backlog>>

\* The acknowledging call; its result and its error are both discarded.
DrainAck ==
    /\ pc = "drainAck"
    /\ pc' = "poll"
    /\ queue' \in {queue, Retained(offset)}
    /\ UNCHANGED <<lastId, persisted, offset, batch, stops, historyVars>>

--------------------------------------------------------------------------------
(* The loop of Subscribe.                                                  *)

\* The request reaches the server.  A request that does not is a stuttering
\* step: Subscribe backs off and polls again with the same offset.
PollRequest ==
    /\ pc = "poll"
    /\ pc' = "wait"
    /\ queue' = Retained(offset)
    /\ batch' \in Batches(offset)
    /\ UNCHANGED <<lastId, persisted, offset, stops, historyVars>>

\* Variant of PollReply: the offset past the batch is saved before it is emitted.
PollReplySavesFirst ==
    /\ pc = "wait"
    /\ pc' = IF batch = {} THEN "poll" ELSE "emit"
    /\ persisted' = IF batch = {} THEN persisted
                    ELSE 1 + CHOOSE u \in batch : \A v \in batch : v <= u
    /\ UNCHANGED <<serverVars, offset, batch, stops, historyVars>>

PollReply ==
    /\ pc = "wait"
    /\ pc' = IF batch = {} THEN "poll" ELSE "emit"
    /\ UNCHANGED <<serverVars, persisted, offset, batch, stops, historyVars>>

\* The reply is lost or refused: back off and poll again.
PollError ==
    /\ pc = "wait"
    /\ pc' = "poll"
    /\ batch' = {}
    /\ UNCHANGED <<serverVars, persisted, offset, stops, historyVars>>

\* Variants of Advance: the update just emitted is fetched again; the next one
\* is skipped.
AdvanceForgetsOne(u) == IF u >= offset THEN u ELSE offset
AdvanceSkipsOne(u) == IF u >= offset THEN u + 2 ELSE offset

\* The offset after emitting update u.
Advance(u) == IF u >= offset THEN u + 1 ELSE offset

Emit(u) ==
    /\ pc = "emit"
    /\ IsLeast(u, batch)
    /\ delivered' = delivered \cup {u}
    /\ run' = Append(run, u)
    /\ offset' = Advance(u)
    /\ batch' = batch \ {u}
    /\ pc' = IF batch = {u} THEN "save" ELSE "emit"
    /\ UNCHANGED <<serverVars, persisted, stops, arrived, dismissed, backlog>>

\* saveOffset after the batch; its error is ignored, so a failed save only
\* leaves the older offset in the store.
Save ==
    /\ pc = "save"
    /\ pc' = "poll"
    /\ persisted' \in {persisted, offset}
    /\ UNCHANGED <<serverVars, offset, batch, stops, historyVars>>

\* Subscribe ends: the context is cancelled, emit or the drain call returns an
\* error, or the process dies.  Nothing is saved on the way out.
Stop ==
    /\ pc # "down"
    /\ stops < MaxStops
    /\ stops' = stops + 1
    /\ pc' = "down"
    /\ offset' = 0
    /\ batch' = {}
    /\ run' = <<>>
    /\ backlog' = {}
    /\ UNCHANGED <<serverVars, persisted, arrived, delivered, dismissed>>

--------------------------------------------------------------------------------

Start == \E s \in StartOffsets : StartAt(s) \/ StartDrain(s) \/ Resume(s)

Drain == DrainPeek \/ DrainAck

Next ==
    \/ Arrive
    \/ \E o \in AckOffsets : GetUpdates(o)
    \/ Start
    \/ Drain
    \/ PollRequest
    \/ PollReply
    \/ PollError
    \/ \E u \in Ids : Emit(u)
    \/ Save
    \/ Stop

Spec == Init /\ [][Next]_vars

\* The process is restarted, its goroutine is scheduled, and a poll that is
\* retried for ever is answered in the end (Subscribe retries without bound).
Fairness ==
    /\ WF_vars(Start)
    /\ WF_vars(Drain)
    /\ WF_vars(PollRequest)
    /\ SF_vars(PollReply)
    /\ WF_vars(\E u \in Ids : Emit(u))
    /\ WF_vars(Save)

FairSpec == Spec /\ Fairness

--------------------------------------------------------------------------------
(* Properties.                                                             *)

Dismissed == {u \in Ids : u < dismissed}

\* An update below offset o that the server has assigned was emitted or
\* dismissed, so confirming everything below o loses nothing.
SafeOffset(o) == \A u \in arrived : u < o => u \in delivered \cup Dismissed

\* No update is lost across stops, lost replies and failed saves: each one is
\* still on the server, has been emitted, or was skipped at a caller's request.
NoLoss == arrived \subseteq queue \cup delivered \cup Dismissed

\* The saved offset never points past an update nobody has seen, so a restart
\* that confirms everything below it is safe (saveOffset runs after emit).
PersistedSafe == SafeOffset(persisted)

\* "On crash we may re-deliver the in-flight batch": the updates a restart
\* could emit a second time never exceed one batch, even if every save failed.
InFlightWindow == Cardinality(delivered \cap queue) <= Limit

\* One run of Subscribe emits each update once, in the order of the ids,
\* through lost replies and concurrent get-updates calls.
InOrder == \A i, j \in DOMAIN run : i < j => run[i] < run[j]

\* The label of start_offset: "-1 = only future updates".
OnlyFuture == \A i \in DOMAIN run : run[i] \notin backlog

\* Every update is eventually emitted or dismissed, as long as the process
\* stops only finitely often and replies keep getting through.
EventuallyDelivered ==
    \A u \in Ids : u \in arrived ~> u \in delivered \cup Dismissed

\* The trigger implements at-least-once delivery.
ALO == INSTANCE AtLeastOnce WITH Items <- Ids, retained <- queue,
                                 dismissed <- Dismissed
ImplementsAtLeastOnce == ALO!Spec

--------------------------------------------------------------------------------
(* NoLoss, PersistedSafe and InOrder are not inductive by themselves: what  *)
(* the next poll confirms depends on the offset Subscribe holds and on the  *)
(* batch it is working through.                                            *)

\* Ids are assigned upwards, so an offset at or below the next id, or one the
\* caller chose, cannot come to cover an update that arrives later.
BoundedOffset(o) == o <= lastId + 1 \/ o <= dismissed

\* The batch runs on from the offset without a gap that is still to be seen.
BatchSafe ==
    /\ batch \subseteq arrived
    /\ \A v \in batch : v >= offset
    /\ \A v \in batch, u \in arrived :
           u < v => u \in batch \cup delivered \cup Dismissed

RunSafe ==
    /\ \A i \in DOMAIN run : run[i] < offset
    /\ pc \in {"down", "drain", "drainAck"} => run = <<>> /\ batch = {}

IInv ==
    /\ TypeOK
    /\ queue \subseteq arrived
    /\ \A u \in arrived : u <= lastId
    /\ delivered \subseteq arrived
    /\ NoLoss
    /\ PersistedSafe /\ BoundedOffset(persisted)
    /\ SafeOffset(offset) /\ BoundedOffset(offset)
    /\ BatchSafe
    /\ RunSafe
    /\ InOrder

(* InFlightWindow: what could be emitted again is the oldest part of the    *)
(* queue, and the current batch only ever extends it up to Limit.           *)

WindowInv ==
    /\ \A u \in delivered \cap queue, v \in queue : v < u => v \in delivered
    /\ \A u \in batch, v \in queue : v < u => v \in batch \cup delivered
    /\ Cardinality((delivered \cup batch) \cap queue) <= Limit
================================================================================
