------------------------------- MODULE MatrixSync ------------------------------
(***************************************************************************)
(* The "messages" trigger of connectors/matrix/trigger.go: Subscribe loads *)
(* the saved next_batch, or mints one with a seed sync that skips what is  *)
(* there, then long-polls /sync, emits the timeline events of the wanted   *)
(* types room by room and saves the new next_batch.  The process can stop  *)
(* anywhere and be started again; syncs fail; loads and saves can fail,    *)
(* and their errors are ignored.                                           *)
(*                                                                         *)
(* The homeserver is external.  Its stream of events gives each a position *)
(* and a next_batch is a position; a sync returns, for each room, the last *)
(* Limit events after since, of whatever type, and the flag that says that *)
(* there were more is read by nobody.                                      *)
(***************************************************************************)
EXTENDS Integers, Sequences, FiniteSets

CONSTANTS Rooms,
          MaxEvents,    \* bound: events are 1..MaxEvents, in stream order
          Limit,        \* events the server puts into one room's timeline
          LoadCanFail,  \* whether reading the saved next_batch can fail
          MaxStops      \* bound on the number of times the process stops

ASSUME ConstAssumption == /\ MaxEvents \in Nat /\ MaxStops \in Nat
                          /\ Limit \in Nat \ {0}
                          /\ LoadCanFail \in BOOLEAN

Events == 1..MaxEvents
None == -1   \* no next_batch

VARIABLES room,    \* server: [Events -> Rooms]
          wanted,  \* events of the types in filter_types
          last,    \* server: the newest event so far
          saved,   \* state store: the saved next_batch
          pc,      \* where Subscribe is; "down" when it is not running
          since,   \* its nextBatch
          next,    \* the next_batch of the reply it works through
          todo,    \* the wanted events of that reply, not emitted yet
          in,      \* the event emitted last in this reply, which tells the
                   \* room being ranged over; 0 before the first
          stops    \* bound counter for Stop

\* History, read by no action of the code.
VARIABLES delivered,  \* events emitted at least once, by any run
          skipped,    \* events that were there at a seed sync
          cut,        \* events that a limited timeline left out
          run         \* events the current run has emitted, in order

serverVars  == <<room, wanted, last>>
historyVars == <<delivered, skipped, cut, run>>
vars == <<serverVars, saved, pc, since, next, todo, in, stops, historyVars>>

Init ==
    /\ room \in [Events -> Rooms] /\ wanted \in SUBSET Events /\ last = 0
    /\ saved = None
    /\ pc = "down" /\ since = None /\ next = None /\ todo = {} /\ in = 0
    /\ stops = 0
    /\ delivered = {} /\ skipped = {} /\ cut = {} /\ run = <<>>

(***************************************************************************)
(* The homeserver.                                                         *)
(***************************************************************************)
Arrive == /\ last < MaxEvents
          /\ last' = last + 1
          /\ UNCHANGED <<room, wanted, saved, pc, since, next, todo, in, stops, historyVars>>

After(p) == {e \in Events : p < e /\ e <= last}

\* The events a sync from p returns.
Timeline(p) == {e \in After(p) :
                   Cardinality({d \in After(p) : d >= e /\ room[d] = room[e]}) <= Limit}

(***************************************************************************)
(* Subscribe, up to its loop.                                              *)
(***************************************************************************)

\* A failed load reads as no next_batch.
Start == /\ pc = "down"
         /\ since' \in {saved} \cup (IF LoadCanFail THEN {None} ELSE {})
         /\ pc' = IF since' = None THEN "seed" ELSE "poll"
         /\ UNCHANGED <<serverVars, saved, next, todo, in, stops, historyVars>>

\* The timeline of the seed sync is limited to no event at all.
Seed == /\ pc = "seed"
        /\ pc' = "seedSave"
        /\ since' = last
        /\ skipped' = skipped \cup After(None)
        /\ UNCHANGED <<serverVars, saved, next, todo, in, stops, delivered, cut, run>>

SeedSave == /\ pc = "seedSave"
            /\ pc' = "poll"
            /\ saved' \in {saved, since}
            /\ UNCHANGED <<serverVars, since, next, todo, in, stops, historyVars>>

(***************************************************************************)
(* The loop.                                                               *)
(***************************************************************************)

\* Mutant: the new next_batch is saved before its events are emitted.
SyncSaves ==
    /\ pc = "poll"
    /\ next' = last
    /\ saved' = last
    /\ todo' = Timeline(since) \cap wanted
    /\ in' = 0
    /\ cut' = cut \cup (After(since) \ Timeline(since))
    /\ pc' = IF todo' = {} THEN "save" ELSE "emit"
    /\ UNCHANGED <<serverVars, since, stops, delivered, skipped, run>>

\* A sync that is answered.  One that is not is a stuttering step: Subscribe
\* backs off and asks again from the same position.
Sync ==
    /\ pc = "poll"
    /\ next' = last
    /\ todo' = Timeline(since) \cap wanted
    /\ in' = 0
    /\ cut' = cut \cup (After(since) \ Timeline(since))
    /\ pc' = IF todo' = {} THEN "save" ELSE "emit"
    /\ UNCHANGED <<serverVars, saved, since, stops, delivered, skipped, run>>

\* The events to emit next: the oldest of the room being ranged over, and of
\* any room once that one is done.
Current == IF in = 0 THEN {} ELSE {e \in todo : room[e] = room[in]}
Oldest(S) == {e \in S : \A d \in S : room[d] = room[e] => e <= d}
Due == Oldest(IF Current = {} THEN todo ELSE Current)

\* Mutant: only one room of the reply is ranged over.
EmitOneRoom(e) ==
    /\ pc = "emit" /\ e \in Due
    /\ delivered' = delivered \cup {e}
    /\ run' = Append(run, e)
    /\ in' = e
    /\ todo' = {d \in todo \ {e} : room[d] = room[e]}
    /\ pc' = IF todo' = {} THEN "save" ELSE "emit"
    /\ UNCHANGED <<serverVars, saved, since, next, stops, skipped, cut>>
Emit(e) ==
    /\ pc = "emit" /\ e \in Due
    /\ delivered' = delivered \cup {e}
    /\ run' = Append(run, e)
    /\ in' = e
    /\ todo' = todo \ {e}
    /\ pc' = IF todo = {e} THEN "save" ELSE "emit"
    /\ UNCHANGED <<serverVars, saved, since, next, stops, skipped, cut>>

\* Mutant: Subscribe goes on from what is in the store.
SaveRereads == /\ pc = "save"
               /\ pc' = "poll"
               /\ saved' \in {saved, next}
               /\ since' = saved'
               /\ UNCHANGED <<serverVars, next, todo, in, stops, historyVars>>

\* The error of saveNextBatch is ignored; the loop goes on from the new
\* position either way.
Save == /\ pc = "save"
        /\ pc' = "poll"
        /\ since' = next
        /\ saved' \in {saved, next}
        /\ UNCHANGED <<serverVars, next, todo, in, stops, historyVars>>

\* Subscribe ends: the context is cancelled, the seed sync fails, emit returns
\* an error, or the process dies.
Stop == /\ pc # "down" /\ stops < MaxStops
        /\ stops' = stops + 1
        /\ pc' = "down" /\ since' = None /\ next' = None /\ todo' = {} /\ in' = 0
        /\ run' = <<>>
        /\ UNCHANGED <<serverVars, saved, delivered, skipped, cut>>

Step == Start \/ Seed \/ SeedSave \/ Sync \/ (\E e \in Events : Emit(e)) \/ Save

Next == Arrive \/ Step \/ Stop

Spec == Init /\ [][Next]_vars

\* The process is started again, its goroutine is scheduled, and a sync that
\* is repeated for ever is answered in the end.
FairSpec == Spec /\ WF_vars(Step)

(***************************************************************************)
(* Properties.                                                             *)
(***************************************************************************)
Arrived == wanted \cap 1..last

\* The state has the shape the comments above give it; the events still to
\* emit lie between the two positions, and the store is never ahead of them.
TypeOK ==
    /\ room \in [Events -> Rooms] /\ wanted \subseteq Events
    /\ last \in 0..MaxEvents
    /\ {saved, since, next} \subseteq None..last
    /\ pc \in {"down", "seed", "seedSave", "poll", "emit", "save"}
    /\ pc \in {"seedSave", "poll", "emit", "save"} => saved <= since /\ since # None
    /\ pc \in {"emit", "save"} => since <= next
    /\ todo \subseteq {e \in wanted : since < e /\ e <= next}
    /\ todo # {} <=> pc = "emit"
    /\ in \in 0..MaxEvents /\ stops \in 0..MaxStops
    /\ delivered \subseteq Arrived
    /\ skipped \subseteq 1..last /\ cut \subseteq 1..last
    /\ run \in Seq(delivered)

\* A run emits the events of a room in the order the server has them in, each
\* once, whatever saves fail, syncs are repeated and rooms come first.
InOrder == \A i, j \in DOMAIN run :
              i < j /\ room[run[i]] = room[run[j]] => run[i] < run[j]

\* What a restart would still be given.
Ahead == {e \in Arrived : e > saved}

\* The trigger delivers at least once: the saved position moves past an event
\* only when it was emitted, but for events there at the first start, which
\* the schema says are skipped, and for those a limited timeline leaves out.
ALO == INSTANCE AtLeastOnce WITH Items <- Events, arrived <- Arrived,
                                 retained <- Ahead, dismissed <- skipped \cup cut
ImplementsAtLeastOnce == ALO!Spec

\* Every event of a wanted type is emitted in the end, with the same exceptions.
EventuallyEmitted ==
    \A e \in Events : e \in Arrived ~> e \in delivered \cup skipped \cup cut
================================================================================
