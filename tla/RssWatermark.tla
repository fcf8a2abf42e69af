------------------------------ MODULE RssWatermark ------------------------------
(***************************************************************************)
(* connectors/rss: the new-items trigger and the list-new, mark-seen and   *)
(* reset actions, which share one watermark in the instance's state store. *)
(* Each of them fetches the feed, reads the watermark, computes what is    *)
(* new (diffItems) and writes the watermark as separate steps, without a   *)
(* lock.  The feed is external: items are numbered in the order they are   *)
(* published, the feed shows the newest ones.                              *)
(***************************************************************************)
EXTENDS Integers, Sequences, FiniteSets

CONSTANTS MaxItem,      \* bound: items are 1..MaxItem
          Window,       \* items the feed shows at a time
          InitialItems, \* items published before anything runs
          Callers,      \* processes running list-new, mark-seen and reset
          Deployments,  \* which of them, and of the trigger, may take part
          Backlog,      \* the include_backlog parameter
          MaxStops,     \* bound on the number of times the trigger stops
          Faults        \* of "load", "save": store calls that may fail

Trigger == "trigger"

ASSUME RssAssumption ==
    /\ MaxItem \in Nat /\ Window \in Nat \ {0}
    /\ InitialItems \in 0..MaxItem
    /\ Trigger \notin Callers
    /\ Deployments \subseteq SUBSET (Callers \cup {Trigger})
    /\ Backlog \in BOOLEAN
    /\ MaxStops \in Nat
    /\ Faults \subseteq {"load", "save"}

Items == 1..MaxItem
Actors == Callers \cup {Trigger}

VARIABLES published,  \* number of items published so far
          wm,         \* the stored watermark; 0 is none, or ""
          pc,         \* where the trigger and each caller are; "absent" for good
                      \* when they take no part
          local,      \* [actor -> the local variables of its poll or call]
          backlog,    \* the trigger's includeBacklog
          stops

\* History.
VARIABLES run,        \* items the trigger emitted, in order, since it started or
                      \* since a save failed
          emitted,    \* items the trigger ever emitted
          shown,      \* items of the feeds whose processing the trigger finished
          excused,    \* items skipped for want of a watermark
          seen,       \* items list-new returned since it was last set by hand
          begun,      \* [actor -> the watermark when its poll or call began]
          alone,      \* the poll or call beside which nothing else has run
          settled     \* the watermark was last written by one of these

triggerHistory == <<run, emitted, shown, excused>>
overlaps       == <<begun, alone, settled>>
vars == <<published, wm, pc, local, backlog, stops, triggerHistory, seen, overlaps>>

\* The feed fetched, the watermark read, the new items not yet surfaced and the
\* watermark diffItems returned.
Locals == [got : SUBSET Items, base : 0..MaxItem, fresh : SUBSET Items, next : 0..MaxItem]
NoLocals == [got |-> {}, base |-> 0, fresh |-> {}, next |-> 0]

TypeOK ==
    /\ published \in 0..MaxItem
    /\ wm \in 0..MaxItem
    /\ pc \in [Actors -> {"absent", "idle", "fetch", "load", "emit", "save", "return"}]
    /\ local \in [Actors -> Locals]
    /\ backlog \in BOOLEAN
    /\ stops \in 0..MaxStops
    /\ run \in Seq(Items)
    /\ emitted \cup shown \cup excused \cup seen \subseteq Items
    /\ begun \in [Actors -> 0..MaxItem]
    /\ alone \subseteq Actors
    /\ settled \in BOOLEAN

Init ==
    /\ published = InitialItems
    /\ wm = 0
    /\ \E D \in Deployments :
           pc = [a \in Actors |-> IF a \in D THEN "idle" ELSE "absent"]
    /\ local = [a \in Actors |-> NoLocals]
    /\ backlog = FALSE
    /\ stops = 0
    /\ run = <<>> /\ emitted = {} /\ shown = {} /\ excused = {}
    /\ seen = {}
    /\ begun = [a \in Actors |-> 0] /\ alone = {} /\ settled = TRUE

--------------------------------------------------------------------------------
(* The feed.                                                               *)

\* What it shows when n items have been published.
FeedAt(n) == {i \in 1..n : i > n - Window}

Feed == FeedAt(published)

Publish ==
    /\ published < MaxItem
    /\ published' = published + 1
    /\ UNCHANGED <<wm, pc, local, backlog, stops, triggerHistory, seen, overlaps>>

--------------------------------------------------------------------------------
(* Watermark logic.                                                        *)

Newest(F) == CHOOSE i \in F : \A j \in F : j <= i
Oldest(F) == CHOOSE i \in F : \A j \in F : i <= j

\* Variants of the walk: it stops one item late; nothing is new when the
\* watermark is not in the feed.
AboveInclusive(F, w) == {i \in F : w \in F => w <= i}
AboveFound(F, w) == {i \in F : w \in F /\ w < i}

\* Walking from the newest item, everything before the watermark is new; all of
\* the feed when the watermark is not in it.
Above(F, w) == {i \in F : w \in F => w < i}

DiffFresh(F, w, all) ==
    IF w = 0 THEN (IF all THEN F ELSE {}) ELSE Above(F, w)

\* Variant of the new watermark: the last item of the feed.
DiffWatermarkOldest(F, w) ==
    IF F = {} \/ (w # 0 /\ Above(F, w) = {}) THEN w ELSE Oldest(F)

DiffWatermark(F, w) ==
    IF F = {} \/ (w # 0 /\ Above(F, w) = {}) THEN w ELSE Newest(F)

Diff(F, w, all) ==
    [got |-> F, base |-> w, fresh |-> DiffFresh(F, w, all), next |-> DiffWatermark(F, w)]

\* The store after the watermark a poll or call computed has been saved: only one
\* that is new and not empty is written.
Saved(l) == IF l.next # 0 /\ l.next # l.base THEN l.next ELSE wm

Goto(a, from, to) ==
    /\ pc[a] = from
    /\ pc' = [pc EXCEPT ![a] = to]

Set(a, l) == local' = [local EXCEPT ![a] = l]

\* Polls and calls in progress.
Working == {a \in Actors : pc[a] \in {"load", "emit", "save", "return"}}

Begins(a) ==
    /\ begun' = [begun EXCEPT ![a] = wm]
    /\ alone' = IF Working = {} THEN {a} ELSE {}
    /\ UNCHANGED settled

Ends(a) ==
    /\ begun' = [begun EXCEPT ![a] = 0]
    /\ alone' = alone \ {a}

\* fetchFeed; a failed fetch is a stuttering step (the trigger backs off, an
\* action returns the error).
Fetch(a, from, to) ==
    /\ Goto(a, from, to)
    /\ Set(a, [got |-> Feed, base |-> 0, fresh |-> {}, next |-> 0])
    /\ Begins(a)

--------------------------------------------------------------------------------
(* The trigger.                                                            *)

\* The trigger and the actions surface new items for each other; the history of
\* what the trigger emits is kept for an instance that is its own.
OwnInstance == \A c \in Callers : pc[c] = "absent"

Noted(items, S) == IF OwnInstance THEN items \cup S ELSE items

Subscribe ==
    /\ Goto(Trigger, "idle", "fetch")
    /\ backlog' = Backlog
    /\ UNCHANGED <<published, wm, local, stops, triggerHistory, seen, overlaps>>

Poll ==
    /\ Fetch(Trigger, "fetch", "load")
    /\ UNCHANGED <<published, wm, backlog, stops, triggerHistory, seen>>

\* Variant of Load: the watermark is saved before the items are emitted.
LoadThenSave ==
    /\ Goto(Trigger, "load", "emit")
    /\ LET F == local[Trigger].got
           l == Diff(F, wm, backlog) IN
         /\ Set(Trigger, l)
         /\ wm' = Saved(l)
         /\ excused' = IF wm = 0 /\ ~Backlog THEN Noted(excused, F) ELSE excused
    /\ UNCHANGED <<published, backlog, stops, run, emitted, shown, seen, overlaps>>

\* A load error is ignored: it reads as "no watermark".
Load ==
    /\ Goto(Trigger, "load", "emit")
    /\ LET F == local[Trigger].got IN
         /\ \E w \in {wm} \cup (IF "load" \in Faults THEN {0} ELSE {}) :
              Set(Trigger, Diff(F, w, backlog))
         /\ excused' = IF wm = 0 /\ ~Backlog THEN Noted(excused, F) ELSE excused
    /\ UNCHANGED <<published, wm, backlog, stops, run, emitted, shown, seen, overlaps>>

\* Oldest first.
Emit ==
    /\ pc[Trigger] = "emit"
    /\ local[Trigger].fresh # {}
    /\ LET i == Oldest(local[Trigger].fresh) IN
         /\ run' = IF OwnInstance THEN Append(run, i) ELSE run
         /\ emitted' = Noted(emitted, {i})
         /\ local' = [local EXCEPT ![Trigger].fresh = @ \ {i}]
    /\ UNCHANGED <<published, wm, pc, backlog, stops, shown, excused, seen, overlaps>>

\* The watermark is saved after the last emit; a save error is ignored.
Save ==
    /\ local[Trigger].fresh = {}
    /\ Goto(Trigger, "emit", "fetch")
    /\ \/ /\ wm' = Saved(local[Trigger])
          /\ settled' = (Trigger \in alone)
          /\ UNCHANGED run
       \/ "save" \in Faults /\ UNCHANGED <<wm, settled>> /\ run' = <<>>
    /\ backlog' = FALSE
    /\ shown' = Noted(shown, local[Trigger].got)
    /\ Set(Trigger, NoLocals)
    /\ Ends(Trigger)
    /\ UNCHANGED <<published, stops, emitted, excused, seen>>

\* The context is cancelled, emit fails, or the process dies.
Stop ==
    /\ pc[Trigger] \notin {"absent", "idle"}
    /\ stops < MaxStops
    /\ stops' = stops + 1
    /\ pc' = [pc EXCEPT ![Trigger] = "idle"]
    /\ Set(Trigger, NoLocals)
    /\ run' = <<>>
    /\ Ends(Trigger)
    /\ UNCHANGED <<published, wm, backlog, emitted, shown, excused, seen, settled>>

--------------------------------------------------------------------------------
(* The actions.                                                            *)

ListNewFetch(c) ==
    /\ Fetch(c, "idle", "load")
    /\ UNCHANGED <<published, wm, backlog, stops, triggerHistory, seen>>

\* Unlike the trigger, list-new gives up when the watermark cannot be read.
ListNewLoad(c) ==
    /\ Goto(c, "load", "save")
    /\ Set(c, Diff(local[c].got, wm, Backlog))
    /\ UNCHANGED <<published, wm, backlog, stops, triggerHistory, seen, overlaps>>

\* The watermark moves before the items are returned.
ListNewSave(c) ==
    /\ Goto(c, "save", "return")
    /\ wm' = Saved(local[c])
    /\ UNCHANGED <<published, local, backlog, stops, triggerHistory, seen, overlaps>>

ListNewReturn(c) ==
    /\ Goto(c, "return", "idle")
    /\ seen' = seen \cup local[c].fresh
    /\ Set(c, NoLocals)
    /\ Ends(c) /\ settled' = (c \in alone)
    /\ UNCHANGED <<published, wm, backlog, stops, triggerHistory>>

\* list-new fails or its process dies; what it has found is not returned.
ListNewDies(c) ==
    /\ pc[c] \notin {"absent", "idle"}
    /\ pc' = [pc EXCEPT ![c] = "idle"]
    /\ Set(c, NoLocals)
    /\ Ends(c) /\ settled' = (settled /\ (c \in alone \/ pc[c] # "return"))
    /\ UNCHANGED <<published, wm, backlog, stops, triggerHistory, seen>>

\* The watermark is set by hand, beside whatever is in progress.
Mark(i) ==
    /\ wm' = i
    /\ seen' = {}
    /\ alone' = {} /\ settled' = (Working = {})
    /\ UNCHANGED begun

\* mark-seen, with an id or with the newest item of the feed it fetches: the
\* caller moves the watermark, so what it returned before may come again.
MarkSeen(c, i) ==
    /\ pc[c] = "idle"
    /\ Mark(i)
    /\ UNCHANGED <<published, pc, local, backlog, stops, triggerHistory>>

Reset(c) ==
    /\ pc[c] = "idle"
    /\ Mark(0)
    /\ UNCHANGED <<published, pc, local, backlog, stops, triggerHistory>>

TriggerStep == Subscribe \/ Poll \/ Load \/ Emit \/ Save

CallerStep(c) ==
    \/ ListNewFetch(c) \/ ListNewLoad(c) \/ ListNewSave(c) \/ ListNewReturn(c)
    \/ ListNewDies(c)
    \/ \E i \in 1..published : MarkSeen(c, i)
    \/ Reset(c)

Next == Publish \/ TriggerStep \/ Stop \/ \E c \in Callers : CallerStep(c)

Spec == Init /\ [][Next]_vars

\* The trigger's goroutine keeps running and is restarted when it stops.
FairSpec == Spec /\ WF_vars(TriggerStep)

--------------------------------------------------------------------------------
(* Properties.                                                             *)

\* "Emits each new item as an Event" (trigger.go): every item of a feed the
\* trigger has finished with was emitted by some run, however often the trigger
\* was stopped and saves failed on the way.  Only without include_backlog, and
\* only while there is no watermark, may it pass over what it finds.
NoSkip == shown \subseteq emitted \cup excused

\* Unless a save failed, a run emits its items once each and oldest first,
\* across polls and when the feed has rolled past the watermark.
InOrder == \A i, j \in DOMAIN run : i < j => run[i] < run[j]

\* An item that stays in the feed of a trigger is emitted in the end, wherever
\* the trigger stops and whichever saves fail.
EventuallyEmitted ==
    OwnInstance =>
        \A i \in Items : i \in Feed /\ pc[Trigger] # "absent"
                             ~> i \in emitted \cup excused \/ i \notin Feed

\* list-new is an "atomic read + advance" (actions.go): no two calls return the
\* same item, unless mark-seen or reset set the watermark back between them.
AtomicAdvance == [][\A c \in Callers : ListNewReturn(c) => local[c].fresh \cap seen = {}]_vars

\* What is left of that when calls and polls may overlap: a call beside which
\* nothing else runs returns nothing that was returned before, provided that the
\* watermark it finds was written by such a call or poll, or by a mark-seen or
\* reset in a quiet moment.  What an overlap has spoilt, the next call or poll by
\* itself repairs.
ReturnedOnce ==
    [][\A c \in alone : ListNewReturn(c) /\ settled => local[c].fresh \cap seen = {}]_vars

\* Only an explicit mark-seen or reset moves the watermark back, or a call or poll
\* that something else runs beside, and that one not behind where the watermark
\* was when it began.
WatermarkForward ==
    [][\/ wm' >= wm
       \/ \E c \in Callers : Reset(c) \/ \E i \in Items : MarkSeen(c, i)
       \/ \E a \in Working \ alone : /\ IF a = Trigger THEN Save ELSE ListNewSave(a)
                                     /\ wm' >= begun[a]]_vars

--------------------------------------------------------------------------------
(* Why ReturnedOnce and WatermarkForward hold whatever runs beside what: the *)
(* feed a poll or call works on was fetched after it began, and what it      *)
(* saves is the end of that feed.  Until something else moves the watermark  *)
(* or returns items, that end is not behind them.                            *)

CallSound(a, n) ==
    /\ local[a].got = FeedAt(n)
    /\ \E lo \in 1..n + 1 : local[a].fresh = lo..n
    /\ pc[a] # "load" => local[a].next = IF n = 0 THEN local[a].base ELSE n
    /\ a \in alone =>
           /\ wm <= n /\ (pc[a] = "return" => wm = n)
           /\ \A i \in seen : i <= n
           /\ pc[a] \in {"emit", "save"} => local[a].base \in {0, wm}
           /\ a # Trigger /\ settled => local[a].fresh \cap seen = {}

\* All that was returned is at or before a watermark that no overlap has touched.
Quiet ==
    settled /\ (\A a \in Working : pc[a] = "return" => a \in alone)
        => \A i \in seen : i <= wm

SharedInv ==
    /\ TypeOK
    /\ pc[Trigger] \in {"absent", "idle", "fetch", "load", "emit"}
    /\ \A c \in Callers : pc[c] \in {"absent", "idle", "load", "save", "return"}
    /\ wm <= published
    /\ \A i \in seen : i <= published
    /\ \A a \in alone : Working = {a}
    /\ \A a \in Working : \E n \in begun[a]..published : CallSound(a, n)
    /\ Quiet

--------------------------------------------------------------------------------
(* Why NoSkip and InOrder hold for a trigger that has the instance to       *)
(* itself, can read its watermark, and runs without include_backlog: all of *)
(* the feed that ended with the watermark has been dealt with, a run is at  *)
(* or before the watermark between polls, and during a poll the items left  *)
(* to emit are the end of the feed fetched.                                 *)

TriggerAlone == Callers = {} /\ "load" \notin Faults /\ Backlog = FALSE

RunUpTo(n) == \A k \in DOMAIN run : run[k] <= n

PollSound(n, l) ==
    /\ l.got = FeedAt(n)
    /\ pc[Trigger] = "load" => RunUpTo(wm)
    /\ pc[Trigger] = "emit" =>
           /\ l.base = wm /\ l.next = n
           /\ l.got \subseteq emitted \cup excused \cup l.fresh
           /\ \E lo \in 1..n + 1 : /\ l.fresh = lo..n
                                  /\ RunUpTo(lo - 1)

TriggerInv ==
    /\ TypeOK
    /\ wm <= published
    /\ FeedAt(wm) \subseteq emitted \cup excused
    /\ NoSkip
    /\ InOrder
    /\ ~backlog
    /\ pc[Trigger] \in {"absent", "idle", "fetch", "load", "emit"}
    /\ pc[Trigger] \in {"absent", "idle", "fetch"} => RunUpTo(wm)
    /\ pc[Trigger] \in {"load", "emit"} =>
           \E n \in wm..published : PollSound(n, local[Trigger])
================================================================================
