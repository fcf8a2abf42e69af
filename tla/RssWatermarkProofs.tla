--------------------------- MODULE RssWatermarkProofs ---------------------------
(***************************************************************************)
(* Proofs about RssWatermark, for every number of items, size of the feed,  *)
(* number of stops and failing store calls: about calls and polls that run  *)
(* beside each other in any number, and about the new-items trigger when it *)
(* has its instance to itself.                                              *)
(***************************************************************************)
EXTENDS RssWatermark, SequenceTheorems, TLAPS

--------------------------------------------------------------------------------
(* The feed and the walk over it.                                          *)

\* A feed of n items ends with item n.
LEMMA NewestOfFeed ==
    ASSUME NEW n \in Nat, n # 0
    PROVE  n \in FeedAt(n) /\ Newest(FeedAt(n)) = n
  <1>1. n \in FeedAt(n) /\ FeedAt(n) \subseteq Int /\ \A j \in FeedAt(n) : j <= n
    BY RssAssumption DEF FeedAt
  <1>2. \A i \in FeedAt(n) : (\A j \in FeedAt(n) : j <= i) <=> i = n
    BY <1>1
  <1>3. QED
    BY <1>1, <1>2 DEF Newest

\* The oldest of the items from lo on is lo.
LEMMA OldestOfRange ==
    ASSUME NEW lo \in Int, NEW n \in Int, lo <= n
    PROVE  Oldest(lo..n) = lo
  <1>1. lo \in lo..n /\ \A i \in lo..n : (\A j \in lo..n : i <= j) <=> i = lo
    OBVIOUS
  <1>2. QED
    BY <1>1 DEF Oldest

\* The new watermark is the newest item of the feed, wherever the old one is; an
\* empty feed leaves it.
LEMMA WatermarkOfAnyFeed ==
    ASSUME NEW n \in Nat, NEW w \in Nat
    PROVE  DiffWatermark(FeedAt(n), w) = IF n = 0 THEN w ELSE n
  <1>1. CASE n = 0
    BY <1>1 DEF DiffWatermark, FeedAt
  <1>2. CASE n # 0
    <2>1. n \in FeedAt(n) /\ Newest(FeedAt(n)) = n /\ \A j \in FeedAt(n) : j <= n
      BY <1>2, NewestOfFeed DEF FeedAt
    <2>2. Above(FeedAt(n), w) = {} => w = n
      BY <2>1 DEF Above
    <2>3. QED
      BY <1>2, <2>1, <2>2 DEF DiffWatermark
  <1>3. QED
    BY <1>1, <1>2

LEMMA WatermarkOfFeed ==
    ASSUME NEW n \in Nat, NEW w \in 0..n
    PROVE  DiffWatermark(FeedAt(n), w) = n
  BY WatermarkOfAnyFeed

\* What is new is in the feed, and after a watermark that is not newer than it.
LEMMA FreshIsAbove ==
    ASSUME NEW n \in Nat, NEW w \in Nat, NEW all \in BOOLEAN
    PROVE  \A i \in DiffFresh(FeedAt(n), w, all) : i \in 1..n /\ (w <= n => w < i)
  <1> SUFFICES ASSUME NEW i \in DiffFresh(FeedAt(n), w, all)
               PROVE  i \in 1..n /\ (w <= n => w < i)
    OBVIOUS
  <1>1. i \in FeedAt(n) /\ (w # 0 => i \in Above(FeedAt(n), w))
    BY DEF DiffFresh, Above
  <1>2. i \in 1..n /\ i > n - Window
    BY <1>1 DEF FeedAt
  <1>3. CASE w # 0 /\ w \in FeedAt(n)
    BY <1>1, <1>2, <1>3 DEF Above
  <1>4. CASE w # 0 /\ w \notin FeedAt(n)
    BY <1>2, <1>4, RssAssumption DEF FeedAt
  <1>5. QED
    BY <1>2, <1>3, <1>4

\* What is new is the end of the feed: all of it, nothing, or what follows the
\* watermark.
LEMMA FreshIsTheEnd ==
    ASSUME NEW n \in Nat, NEW w \in Nat, NEW all \in BOOLEAN
    PROVE  \E lo \in 1..n + 1 : DiffFresh(FeedAt(n), w, all) = lo..n
  <1>1. \E lo \in 1..n + 1 : FeedAt(n) = lo..n
    <2>1. CASE Window >= n
      <3>1. FeedAt(n) = 1..n
        BY <2>1, RssAssumption DEF FeedAt
      <3>2. QED
        BY <3>1
    <2>2. CASE Window < n
      <3>1. FeedAt(n) = n - Window + 1..n
        BY <2>2, RssAssumption DEF FeedAt
      <3>2. n - Window + 1 \in 1..n + 1
        BY <2>2, RssAssumption
      <3>3. QED
        BY <3>1, <3>2
    <2>3. QED
      BY <2>1, <2>2, RssAssumption
  <1>2. CASE w = 0
    <2>1. {} = n + 1..n /\ n + 1 \in 1..n + 1
      OBVIOUS
    <2>2. QED
      BY <1>1, <1>2, <2>1 DEF DiffFresh
  <1>3. CASE w # 0 /\ w \notin FeedAt(n)
    BY <1>1, <1>3 DEF DiffFresh, Above
  <1>4. CASE w # 0 /\ w \in FeedAt(n)
    <2>1. w \in 1..n /\ w > n - Window
      BY <1>4 DEF FeedAt
    <2>2. DiffFresh(FeedAt(n), w, all) = w + 1..n
      BY <1>4, <2>1, RssAssumption DEF DiffFresh, Above, FeedAt
    <2>3. w + 1 \in 1..n + 1
      BY <2>1
    <2>4. QED
      BY <2>2, <2>3
  <1>5. QED
    BY <1>2, <1>3, <1>4

\* Without include_backlog what is new is the end of the feed: it starts after
\* the watermark or, when that has rolled out, with the whole feed.  The rest was
\* in the feed that ended with the watermark.
LEMMA FreshOfFeed ==
    ASSUME NEW n \in Nat, NEW w \in 0..n
    PROVE  /\ \E lo \in w + 1..n + 1 : DiffFresh(FeedAt(n), w, FALSE) = lo..n
           /\ w # 0 => FeedAt(n) \subseteq FeedAt(w) \cup DiffFresh(FeedAt(n), w, FALSE)
  <1>1. CASE w = 0
    <2>1. DiffFresh(FeedAt(n), w, FALSE) = n + 1..n
      BY <1>1 DEF DiffFresh
    <2>2. n + 1 \in w + 1..n + 1
      BY <1>1
    <2>3. QED
      BY <1>1, <2>1, <2>2
  <1>2. CASE w # 0
    <2>1. DiffFresh(FeedAt(n), w, FALSE) = Above(FeedAt(n), w)
      BY <1>2 DEF DiffFresh
    <2>2. CASE w \in FeedAt(n)
      <3>1. Above(FeedAt(n), w) = w + 1..n
        <4>1. Above(FeedAt(n), w) = {i \in FeedAt(n) : w < i}
          BY <2>2 DEF Above
        <4>2. w \in Int /\ w > n - Window /\ n - Window \in Int
          BY <2>2, RssAssumption DEF FeedAt
        <4>3. \A i : i \in FeedAt(n) /\ w < i <=> i \in w + 1..n
          BY <4>2 DEF FeedAt
        <4>4. QED
          BY <4>1, <4>3
      <3>2. FeedAt(n) \subseteq FeedAt(w) \cup Above(FeedAt(n), w)
        <4>1. ASSUME NEW i \in FeedAt(n), i <= w PROVE i \in FeedAt(w)
          BY <4>1, RssAssumption DEF FeedAt
        <4>2. \A i \in FeedAt(n) : i <= w \/ i \in w + 1..n
          BY DEF FeedAt
        <4>3. QED
          BY <3>1, <4>1, <4>2
      <3>3. w + 1 \in w + 1..n + 1
        OBVIOUS
      <3>4. QED
        BY <2>1, <3>1, <3>2, <3>3
    <2>3. CASE w \notin FeedAt(n)
      <3>1. w <= n - Window
        BY <1>2, <2>3, RssAssumption DEF FeedAt
      <3>2. Above(FeedAt(n), w) = FeedAt(n)
        BY <2>3 DEF Above
      <3>3. FeedAt(n) = (n - Window) + 1..n
        <4>1. n - Window \in Int /\ n - Window >= 1
          BY <1>2, <3>1, RssAssumption
        <4>2. \A i : i \in FeedAt(n) <=> i \in (n - Window) + 1..n
          BY <4>1 DEF FeedAt
        <4>3. QED
          BY <4>2
      <3>4. (n - Window) + 1 \in w + 1..n + 1
        BY <3>1, RssAssumption
      <3>5. QED
        BY <2>1, <3>2, <3>3, <3>4
    <2>4. QED
      BY <2>2, <2>3
  <1>3. QED
    BY <1>1, <1>2

\* Appending an item that is newer than the whole run keeps the run in order.
LEMMA AppendKeepsOrder ==
    ASSUME NEW i \in Items, run \in Seq(Items), InOrder, RunUpTo(i - 1),
           run' = Append(run, i)
    PROVE  run' \in Seq(Items) /\ InOrder' /\ RunUpTo(i)'
  <1>1. /\ DOMAIN run' = 1..(Len(run) + 1)
        /\ run'[Len(run) + 1] = i
        /\ \A k \in 1..Len(run) : run'[k] = run[k] /\ run[k] \in Items
        /\ DOMAIN run = 1..Len(run)
        /\ Len(run) \in Nat
    <2>1. Len(run') = Len(run) + 1 /\ run' \in Seq(Items)
      BY AppendProperties
    <2>2. QED
      BY <2>1, AppendProperties, LenProperties, ElementOfSeq
  <1>2. Items \subseteq Int
    BY RssAssumption DEF Items
  <1>3. \A k \in 1..Len(run) : run[k] < i
    <2>1. \A k \in DOMAIN run : run[k] <= i - 1
      BY DEF RunUpTo
    <2>2. ASSUME NEW k \in 1..Len(run) PROVE run[k] < i
      <3>1. run[k] \in Int /\ run[k] <= i - 1 /\ i \in Int
        BY <1>1, <1>2, <2>1
      <3>2. QED
        BY <3>1
    <2>3. QED
      BY <2>2
  <1>4. RunUpTo(i)'
    <2>1. ASSUME NEW k \in 1..(Len(run) + 1) PROVE run'[k] <= i
      <3>1. CASE k \in 1..Len(run)
        <4>1. run'[k] = run[k] /\ run[k] \in Int /\ run[k] < i
          BY <1>1, <1>2, <1>3, <3>1
        <4>2. QED
          BY <1>2, <4>1
      <3>2. CASE k = Len(run) + 1
        BY <1>1, <1>2, <3>2
      <3>3. QED
        BY <1>1, <3>1, <3>2
    <2>2. QED
      BY <1>1, <2>1 DEF RunUpTo
  <1>5. InOrder'
    <2>1. ASSUME NEW k \in 1..(Len(run) + 1), NEW l \in 1..(Len(run) + 1), k < l
          PROVE  run'[k] < run'[l]
      <3>1. k \in 1..Len(run)
        BY <1>1, <2>1
      <3>2. CASE l \in 1..Len(run)
        <4>1. run[k] < run[l]
          BY <1>1, <2>1, <3>1, <3>2 DEF InOrder
        <4>2. QED
          BY <1>1, <3>1, <3>2, <4>1
      <3>3. CASE l = Len(run) + 1
        BY <1>1, <1>3, <3>1, <3>3
      <3>4. QED
        BY <1>1, <3>2, <3>3
    <2>2. QED
      BY <1>1, <2>1 DEF InOrder
  <1>6. QED
    BY <1>4, <1>5, AppendProperties

--------------------------------------------------------------------------------
(* Calls and polls beside each other.                                      *)

LEMMA TypeInit == Init => TypeOK
  <1> SUFFICES ASSUME Init PROVE TypeOK
    OBVIOUS
  <1> USE RssAssumption DEF Init
  <1>1. NoLocals \in Locals
    BY DEF Locals, NoLocals
  <1>2. InitialItems \in 0..MaxItem /\ 0 \in 0..MaxItem /\ 0 \in 0..MaxStops
    OBVIOUS
  <1>3. run \in Seq(Items)
    OBVIOUS
  <1>4. begun \in [Actors -> 0..MaxItem] /\ alone \subseteq Actors /\ settled \in BOOLEAN
    BY <1>2
  <1>5. QED
    BY <1>1, <1>2, <1>3, <1>4 DEF TypeOK

LEMMA SharedInit == Init => SharedInv
  <1> SUFFICES ASSUME Init PROVE SharedInv
    OBVIOUS
  <1>1. TypeOK
    BY TypeInit
  <1>2. PICK D \in Deployments : pc = [a \in Actors |-> IF a \in D THEN "idle" ELSE "absent"]
    BY DEF Init
  <1>3. \A a \in Actors : pc[a] \in {"absent", "idle"}
    BY <1>2
  <1>4. Working = {}
    BY <1>3 DEF Working
  <1>5. wm <= published
    BY RssAssumption DEF Init
  <1>6. seen = {} /\ alone = {}
    BY DEF Init
  <1>7. QED
    BY <1>1, <1>3, <1>4, <1>5, <1>6 DEF SharedInv, Quiet, Actors

\* A poll or call that something runs beside is vouched for by what it holds.
LEMMA BesideSound ==
    ASSUME TypeOK, NEW b \in Actors, b \notin alone', begun'[b] = begun[b],
           pc'[b] = pc[b], local'[b] = local[b],
           published' \in Nat, published' >= published,
           \E n \in begun[b]..published : CallSound(b, n)
    PROVE  \E n \in begun'[b]..published' : CallSound(b, n)'
  <1>1. PICK n \in begun[b]..published : CallSound(b, n)
    OBVIOUS
  <1>2. n \in begun'[b]..published'
    BY RssAssumption DEF TypeOK
  <1>3. CallSound(b, n)'
    BY <1>1 DEF CallSound, FeedAt
  <1>4. QED
    BY <1>2, <1>3

\* Nothing that is in progress moves; the feed may grow.
LEMMA UnmovedKeeps ==
    ASSUME SharedInv, TypeOK', published' >= published, Working' = Working,
           \A b \in Working : pc'[b] = pc[b] /\ local'[b] = local[b] /\ begun'[b] = begun[b],
           UNCHANGED <<wm, seen, alone, settled>>,
           pc'[Trigger] \in {"absent", "idle", "fetch", "load", "emit"},
           \A c \in Callers : pc'[c] \in {"absent", "idle", "load", "save", "return"}
    PROVE  SharedInv'
  <1>1. TypeOK /\ published \in Nat /\ published' \in Nat /\ wm \in Nat
    BY RssAssumption DEF SharedInv, TypeOK
  <1>2. wm' <= published'
    BY <1>1 DEF SharedInv
  <1>3. \A i \in seen' : i <= published'
    BY <1>1, RssAssumption DEF SharedInv, TypeOK, Items
  <1>4. ASSUME NEW b \in Working' PROVE \E n \in begun'[b]..published' : CallSound(b, n)'
    <2>1. b \in Working /\ b \in Actors /\ begun[b] \in Nat
      BY <1>1, RssAssumption DEF Working, TypeOK
    <2>2. PICK n \in begun[b]..published : CallSound(b, n)
      BY <2>1 DEF SharedInv
    <2>3. n \in begun'[b]..published'
      BY <1>1, <2>1, <2>2
    <2>4. CallSound(b, n)'
      BY <2>1, <2>2 DEF CallSound, FeedAt
    <2>5. QED
      BY <2>3, <2>4
  <1>5. Quiet'
    BY DEF SharedInv, Quiet
  <1>6. QED
    BY <1>1, <1>2, <1>3, <1>4, <1>5 DEF SharedInv

\* One poll or call moves, and the others are no longer, or not yet, alone.
LEMMA MovedKeeps ==
    ASSUME SharedInv, TypeOK', NEW a \in Actors, published' = published,
           \A b \in Actors \ {a} : /\ pc'[b] = pc[b] /\ local'[b] = local[b]
                                   /\ begun'[b] = begun[b] /\ b \notin alone',
           wm' <= published, \A i \in seen' : i <= published,
           a \in alone' => Working' = {a},
           a \in Working' => \E n \in begun'[a]..published' : CallSound(a, n)',
           pc'[Trigger] \in {"absent", "idle", "fetch", "load", "emit"},
           \A c \in Callers : pc'[c] \in {"absent", "idle", "load", "save", "return"},
           Quiet'
    PROVE  SharedInv'
  <1>1. TypeOK /\ published' \in Nat /\ published' >= published
    BY RssAssumption DEF SharedInv, TypeOK
  <1>2. ASSUME NEW b \in alone' PROVE Working' = {b}
    <2>1. b \in Actors
      BY DEF TypeOK
    <2>2. QED
      BY <1>2, <2>1
  <1>3. ASSUME NEW b \in Working' PROVE \E n \in begun'[b]..published' : CallSound(b, n)'
    <2>1. CASE b = a
      BY <1>3, <2>1
    <2>2. CASE b # a
      <3>1. b \in Actors \ {a}
        BY <1>3, <2>2 DEF Working
      <3>2. b \in Working
        BY <1>3, <3>1 DEF Working
      <3>3. \E n \in begun[b]..published : CallSound(b, n)
        BY <3>2 DEF SharedInv
      <3>4. QED
        BY <1>1, <3>1, <3>3, BesideSound
    <2>3. QED
      BY <2>1, <2>2
  <1>4. QED
    BY <1>2, <1>3 DEF SharedInv

\* The watermark and what was returned stay as they are, and whoever had written
\* beside another is still at work.
LEMMA StaysQuiet ==
    ASSUME SharedInv, UNCHANGED <<wm, seen>>, settled' => settled,
           settled' => \A b \in Working : pc[b] = "return" /\ b \notin alone =>
                           b \in Working' /\ pc'[b] = "return" /\ b \notin alone'
    PROVE  Quiet'
  <1> SUFFICES ASSUME settled', \A b \in Working' : pc'[b] = "return" => b \in alone'
               PROVE  \A i \in seen' : i <= wm'
    BY DEF Quiet
  <1>1. settled /\ \A b \in Working : pc[b] = "return" => b \in alone
    OBVIOUS
  <1>2. QED
    BY <1>1 DEF SharedInv, Quiet

\* Whoever is alone is so because nothing else is in progress.
LEMMA AloneAtWork ==
    ASSUME SharedInv, NEW a \in Working
    PROVE  alone \subseteq {a} /\ (a \in alone => Working = {a})
  BY DEF SharedInv

\* A poll or call has fetched the feed.
LEMMA FetchKeeps ==
    ASSUME SharedInv, NEW a \in Actors, NEW idle, idle \in {"idle", "fetch"},
           Fetch(a, idle, "load"),
           UNCHANGED <<published, wm, backlog, stops, triggerHistory, seen>>
    PROVE  SharedInv'
  <1> DEFINE l == [got |-> FeedAt(published), base |-> 0, fresh |-> {}, next |-> 0]
  <1>1. /\ pc[a] = idle /\ pc' = [pc EXCEPT ![a] = "load"]
        /\ local' = [local EXCEPT ![a] = l]
        /\ begun' = [begun EXCEPT ![a] = wm]
        /\ alone' = IF Working = {} THEN {a} ELSE {}
        /\ settled' = settled
    BY DEF Fetch, Goto, Set, Feed, Begins
  <1>2. TypeOK /\ published \in Nat /\ published <= MaxItem /\ wm \in 0..MaxItem /\ wm <= published
    BY RssAssumption DEF SharedInv, TypeOK
  <1>3. l \in Locals
    <2>1. FeedAt(published) \in SUBSET Items
      BY <1>2, RssAssumption DEF FeedAt, Items
    <2>2. QED
      BY <2>1, RssAssumption DEF Locals
  <1>4. TypeOK'
    <2>1. alone' \subseteq Actors
      BY <1>1
    <2>2. QED
      BY <1>1, <1>2, <1>3, <2>1 DEF TypeOK, triggerHistory
  <1>5. a \notin Working
    BY <1>1 DEF Working
  <1>6. /\ pc'[a] = "load" /\ local'[a] = l /\ begun'[a] = wm
        /\ \A b \in Actors \ {a} : /\ pc'[b] = pc[b] /\ local'[b] = local[b]
                                   /\ begun'[b] = begun[b] /\ b \notin alone'
    BY <1>1, <1>2 DEF TypeOK
  <1>7. a \in alone' => Working' = {a}
    <2>1. SUFFICES ASSUME Working = {} PROVE Working' = {a}
      BY <1>1
    <2>2. QED
      BY <1>6, <2>1 DEF Working
  <1>8. \E n \in begun'[a]..published' : CallSound(a, n)'
    <2>1. published \in begun'[a]..published'
      BY <1>2, <1>6
    <2>2. /\ local'[a].got = FeedAt(published) /\ local'[a].fresh = {}
          /\ {} = published + 1..published
      BY <1>2, <1>6
    <2>3. \A i \in seen' : i <= published
      BY DEF SharedInv
    <2>4. \E lo \in 1..published + 1 : local'[a].fresh = lo..published
      BY <1>2, <2>2
    <2>6. CallSound(a, published)'
      BY <1>2, <1>6, <2>2, <2>3, <2>4 DEF CallSound, FeedAt
    <2>5. QED
      BY <2>1, <2>6
  <1>9. Quiet'
    <2>1. ASSUME NEW b \in Working, pc[b] = "return", b \notin alone
          PROVE  b \in Working' /\ pc'[b] = "return" /\ b \notin alone'
      BY <1>1, <1>5, <1>6, <2>1 DEF Working
    <2>2. QED
      BY <1>1, <2>1, StaysQuiet
  <1>10. /\ pc'[Trigger] \in {"absent", "idle", "fetch", "load", "emit"}
         /\ \A c \in Callers : pc'[c] \in {"absent", "idle", "load", "save", "return"}
    BY <1>6 DEF SharedInv, Actors
  <1>11. QED
    BY <1>2, <1>4, <1>6, <1>7, <1>8, <1>9, <1>10, MovedKeeps DEF SharedInv

\* What diffItems computes from a feed of n items and any watermark.
LEMMA DiffOfFeed ==
    ASSUME NEW n \in 0..MaxItem, NEW w \in 0..MaxItem, NEW all \in BOOLEAN, NEW l,
           l = Diff(FeedAt(n), w, all)
    PROVE  /\ l \in Locals
           /\ l.got = FeedAt(n) /\ l.base = w
           /\ l.next = IF n = 0 THEN w ELSE n
           /\ \E lo \in 1..n + 1 : l.fresh = lo..n
           /\ \A i \in l.fresh : i \in 1..n /\ (w <= n => w < i)
  <1>1. n \in Nat /\ w \in Nat
    BY RssAssumption
  <1>2. DiffWatermark(FeedAt(n), w) = IF n = 0 THEN w ELSE n
    BY <1>1, WatermarkOfAnyFeed
  <1>3. \A i \in DiffFresh(FeedAt(n), w, all) : i \in 1..n /\ (w <= n => w < i)
    BY <1>1, FreshIsAbove
  <1>4. FeedAt(n) \in SUBSET Items /\ DiffFresh(FeedAt(n), w, all) \in SUBSET Items
    BY <1>1, <1>3, RssAssumption DEF FeedAt, Items
  <1>5. DiffWatermark(FeedAt(n), w) \in 0..MaxItem
    BY <1>2
  <1>6. /\ l.got = FeedAt(n) /\ l.base = w /\ l.next = DiffWatermark(FeedAt(n), w)
        /\ l.fresh = DiffFresh(FeedAt(n), w, all)
    BY DEF Diff
  <1>7. l \in Locals
    BY <1>4, <1>5 DEF Diff, Locals
  <1>8. \E lo \in 1..n + 1 : l.fresh = lo..n
    BY <1>1, <1>6, FreshIsTheEnd
  <1>9. QED
    BY <1>2, <1>3, <1>6, <1>7, <1>8

\* A poll or call has read a watermark and computed what is new.
LEMMA LoadKeeps ==
    ASSUME SharedInv, NEW a \in Actors, NEW w, NEW all \in BOOLEAN, NEW to,
           w \in {0, wm}, a # Trigger => w = wm,
           IF a = Trigger THEN to = "emit" ELSE to = "save",
           Goto(a, "load", to), Set(a, Diff(local[a].got, w, all)),
           UNCHANGED <<published, wm, backlog, stops, run, emitted, shown, seen, overlaps>>,
           excused' \subseteq Items
    PROVE  SharedInv'
  <1>1. /\ pc[a] = "load" /\ pc' = [pc EXCEPT ![a] = to]
        /\ local' = [local EXCEPT ![a] = Diff(local[a].got, w, all)]
        /\ UNCHANGED <<begun, alone, settled>>
    BY DEF Goto, Set, overlaps
  <1>2. a \in Working
    BY <1>1 DEF Working
  <1>3. PICK n \in begun[a]..published : CallSound(a, n)
    BY <1>2 DEF SharedInv
  <1>4. /\ TypeOK /\ n \in 0..MaxItem /\ w \in 0..MaxItem /\ wm \in 0..MaxItem
        /\ published \in 0..MaxItem /\ wm <= published
    BY RssAssumption DEF SharedInv, TypeOK
  <1>5. local[a].got = FeedAt(n)
    BY <1>3 DEF CallSound
  <1>6. PICK l : l = Diff(FeedAt(n), w, all)
    OBVIOUS
  <1>7. /\ l \in Locals
        /\ l.got = FeedAt(n) /\ l.base = w
        /\ l.next = IF n = 0 THEN w ELSE n
        /\ \E lo \in 1..n + 1 : l.fresh = lo..n
        /\ \A i \in l.fresh : i \in 1..n /\ (w <= n => w < i)
    <2>1. n \in 0..MaxItem /\ w \in 0..MaxItem
      BY <1>4
    <2>2. QED
      BY <1>6, <2>1, DiffOfFeed
  <1>8. /\ local' = [local EXCEPT ![a] = l]
        /\ pc'[a] = to /\ local'[a] = l
        /\ \A b \in Actors \ {a} : /\ pc'[b] = pc[b] /\ local'[b] = local[b]
                                   /\ begun'[b] = begun[b] /\ b \notin alone'
    BY <1>1, <1>2, <1>4, <1>5, <1>6, AloneAtWork DEF TypeOK
  <1>9. pc' \in [Actors -> {"absent", "idle", "fetch", "load", "emit", "save", "return"}]
    BY <1>1, <1>4 DEF TypeOK
  <1>10. TypeOK'
    BY <1>1, <1>4, <1>7, <1>8, <1>9 DEF TypeOK
  <1>11. Working' = Working
    BY <1>1, <1>2, <1>4 DEF Working, TypeOK
  <1>12. a \in alone => \A i \in l.fresh : i \notin seen \/ ~settled \/ a = Trigger
    <2>1. SUFFICES ASSUME a \in alone, a # Trigger, settled, NEW i \in l.fresh PROVE i \notin seen
      OBVIOUS
    <2>2. w = wm /\ wm <= n
      BY <1>3, <2>1 DEF CallSound
    <2>3. \A j \in seen : j <= wm
      <3>1. Working = {a}
        BY <1>2, <2>1, AloneAtWork
      <3>2. QED
        BY <1>1, <2>1, <3>1 DEF SharedInv, Quiet
    <2>4. wm < i /\ i \in Int
      BY <1>7, <2>2
    <2>5. QED
      BY <1>4, <2>3, <2>4
  <1>13. CallSound(a, n)'
    <2>1. local'[a].got = FeedAt(n)' /\ \E lo \in 1..n + 1 : local'[a].fresh = lo..n
      BY <1>7, <1>8 DEF FeedAt
    <2>2. local'[a].next = IF n = 0 THEN local'[a].base ELSE n
      BY <1>7, <1>8
    <2>3. a \in alone => wm <= n /\ \A i \in seen : i <= n
      BY <1>3 DEF CallSound
    <2>4. pc'[a] # "return" /\ local'[a].base \in {0, wm}
      BY <1>7, <1>8
    <2>5. a \in alone /\ a # Trigger /\ settled => local'[a].fresh \cap seen = {}
      BY <1>8, <1>12
    <2>6. QED
      BY <1>1, <2>1, <2>2, <2>3, <2>4, <2>5 DEF CallSound
  <1>14. Quiet'
    <2>1. ASSUME NEW b \in Working, pc[b] = "return", b \notin alone
          PROVE  b \in Working' /\ pc'[b] = "return" /\ b \notin alone'
      BY <1>1, <1>8, <1>11, <2>1 DEF Working
    <2>2. QED
      BY <1>1, <2>1, StaysQuiet
  <1>15. /\ pc'[Trigger] \in {"absent", "idle", "fetch", "load", "emit"}
         /\ \A c \in Callers : pc'[c] \in {"absent", "idle", "load", "save", "return"}
    BY <1>8, RssAssumption DEF SharedInv, Actors
  <1>16. \E m \in begun'[a]..published' : CallSound(a, m)'
    BY <1>1, <1>13
  <1>17. a \in alone' => Working' = {a}
    BY <1>1, <1>2, <1>11, AloneAtWork
  <1>18. \A i \in seen' : i <= published
    BY DEF SharedInv
  <1>19. QED
    BY <1>4, <1>8, <1>10, <1>14, <1>15, <1>16, <1>17, <1>18, MovedKeeps

\* The trigger emits the oldest of the items that are left.
LEMMA EmitKeeps == ASSUME SharedInv, Emit PROVE SharedInv'
  <1> DEFINE a == Trigger
  <1>1. a \in Actors /\ a \in Working /\ TypeOK /\ pc[a] = "emit"
    BY DEF Emit, SharedInv, Working, Actors
  <1>2. PICK n \in begun[a]..published : CallSound(a, n)
    BY <1>1 DEF SharedInv
  <1>3. n \in Nat /\ n <= MaxItem
    BY <1>1, RssAssumption DEF TypeOK
  <1>4. PICK lo \in 1..n + 1 : local[a].fresh = lo..n
    BY <1>2 DEF CallSound
  <1>5. lo <= n /\ lo \in Items
    BY <1>3, <1>4, RssAssumption DEF Emit, Items
  <1>6. Oldest(local[a].fresh) = lo
    <2>1. lo \in Int /\ n \in Int
      BY <1>3
    <2>2. QED
      BY <1>4, <1>5, <2>1, OldestOfRange
  <1>7. /\ run' \in {run, Append(run, lo)} /\ emitted' \in {emitted, emitted \cup {lo}}
        /\ local' = [local EXCEPT ![a].fresh = local[a].fresh \ {lo}]
        /\ UNCHANGED <<published, wm, pc, backlog, stops, shown, excused, seen, overlaps>>
    BY <1>6 DEF Emit, Noted
  <1>8. /\ local' \in [Actors -> Locals] /\ \A b \in Actors \ {a} : local'[b] = local[b]
        /\ local'[a].got = local[a].got /\ local'[a].base = local[a].base
        /\ local'[a].next = local[a].next /\ local'[a].fresh = lo + 1..n
    <2>1. local[a] \in Locals
      BY <1>1 DEF TypeOK
    <2>2. lo..n \ {lo} = lo + 1..n
      BY <1>5
    <2>3. QED
      BY <1>1, <1>4, <1>7, <2>1, <2>2 DEF TypeOK, Locals
  <1>9. run' \in Seq(Items)
    <2>1. run \in Seq(Items)
      BY <1>1 DEF TypeOK
    <2>2. Append(run, lo) \in Seq(Items)
      BY <1>5, <2>1, AppendProperties
    <2>3. QED
      BY <1>7, <2>1, <2>2
  <1>10. TypeOK'
    BY <1>1, <1>5, <1>7, <1>8, <1>9 DEF TypeOK, overlaps
  <1>11. CallSound(a, n)'
    <2>1. local'[a].got = FeedAt(n)'
      BY <1>2, <1>8 DEF CallSound, FeedAt
    <2>2. \E m \in 1..n + 1 : local'[a].fresh = m..n
      <3>1. lo + 1 \in 1..n + 1
        BY <1>3, <1>5
      <3>2. QED
        BY <1>8, <3>1
    <2>3. local'[a].next = IF n = 0 THEN local'[a].base ELSE n
      BY <1>1, <1>2, <1>8 DEF CallSound
    <2>4. a \in alone => wm <= n /\ local'[a].base \in {0, wm} /\ \A i \in seen : i <= n
      BY <1>1, <1>2, <1>8 DEF CallSound
    <2>5. QED
      BY <1>1, <1>7, <2>1, <2>2, <2>3, <2>4 DEF CallSound, overlaps
  <1>12. Working' = Working
    BY <1>7 DEF Working
  <1>13. Quiet'
    <2>1. ASSUME NEW b \in Working, pc[b] = "return", b \notin alone
          PROVE  b \in Working' /\ pc'[b] = "return" /\ b \notin alone'
      BY <1>7, <1>12, <2>1 DEF overlaps
    <2>2. QED
      BY <1>7, <2>1, StaysQuiet DEF overlaps
  <1>14. \A b \in Actors \ {a} : /\ pc'[b] = pc[b] /\ local'[b] = local[b]
                                 /\ begun'[b] = begun[b] /\ b \notin alone'
    BY <1>1, <1>7, <1>8, AloneAtWork DEF overlaps
  <1>15. \E m \in begun'[a]..published' : CallSound(a, m)'
    BY <1>7, <1>11 DEF overlaps
  <1>16. a \in alone' => Working' = {a}
    BY <1>1, <1>7, <1>12, AloneAtWork DEF overlaps
  <1>17. wm' <= published /\ \A i \in seen' : i <= published
    BY <1>7 DEF SharedInv
  <1>18. /\ pc'[Trigger] \in {"absent", "idle", "fetch", "load", "emit"}
         /\ \A c \in Callers : pc'[c] \in {"absent", "idle", "load", "save", "return"}
    BY <1>7 DEF SharedInv
  <1>19. QED
    BY <1>1, <1>7, <1>10, <1>13, <1>14, <1>15, <1>16, <1>17, <1>18, MovedKeeps

\* What a poll or call saves: the end of its feed, or nothing.
LEMMA SavedWatermark ==
    ASSUME SharedInv, NEW a \in Working, NEW n \in begun[a]..published, CallSound(a, n),
           pc[a] \in {"emit", "save"}
    PROVE  /\ Saved(local[a]) \in {wm, n}
           /\ a \in alone => Saved(local[a]) = n /\ wm <= n /\ \A i \in seen : i <= n
  <1>1. /\ wm \in Nat /\ n \in Nat
        /\ local[a].next = IF n = 0 THEN local[a].base ELSE n
    BY RssAssumption DEF SharedInv, TypeOK, CallSound, Working
  <1>2. Saved(local[a]) \in {wm, n}
    BY <1>1 DEF Saved
  <1>3. ASSUME a \in alone
        PROVE  Saved(local[a]) = n /\ wm <= n /\ \A i \in seen : i <= n
    <2>1. wm <= n /\ local[a].base \in {0, wm} /\ \A i \in seen : i <= n
      BY <1>3 DEF CallSound
    <2>2. Saved(local[a]) = n
      BY <1>1, <2>1 DEF Saved
    <2>3. QED
      BY <2>1, <2>2
  <1>4. QED
    BY <1>2, <1>3

\* A poll or call has ended.
LEMMA EndKeeps ==
    ASSUME SharedInv, TypeOK', NEW a \in Working, NEW to, to \in {"idle", "fetch"},
           a # Trigger => to = "idle",
           published' = published, pc' = [pc EXCEPT ![a] = to],
           local' = [local EXCEPT ![a] = NoLocals], Ends(a),
           wm' <= published, \A i \in seen' : i <= published, Quiet'
    PROVE  SharedInv'
  <1>1. a \in Actors /\ TypeOK
    BY DEF Working, SharedInv
  <1>2. /\ pc'[a] = to
        /\ \A b \in Actors \ {a} : /\ pc'[b] = pc[b] /\ local'[b] = local[b]
                                   /\ begun'[b] = begun[b] /\ b \notin alone'
    BY <1>1, AloneAtWork DEF Ends, TypeOK
  <1>3. a \notin alone' /\ a \notin Working'
    BY <1>2 DEF Ends, Working
  <1>4. /\ pc'[Trigger] \in {"absent", "idle", "fetch", "load", "emit"}
        /\ \A c \in Callers : pc'[c] \in {"absent", "idle", "load", "save", "return"}
    BY <1>2, RssAssumption DEF SharedInv, Actors
  <1>5. QED
    BY <1>1, <1>2, <1>3, <1>4, MovedKeeps

LEMMA EndTyped ==
    ASSUME TypeOK, NEW a \in Actors, Ends(a), local' = [local EXCEPT ![a] = NoLocals],
           NEW to, to \in {"idle", "fetch"}, pc' = [pc EXCEPT ![a] = to]
    PROVE  /\ begun' \in [Actors -> 0..MaxItem] /\ alone' \subseteq Actors
           /\ local' \in [Actors -> Locals]
           /\ pc' \in [Actors -> {"absent", "idle", "fetch", "load", "emit", "save", "return"}]
  <1>1. NoLocals \in Locals /\ 0 \in 0..MaxItem
    BY RssAssumption DEF Locals, NoLocals
  <1>2. QED
    BY <1>1 DEF TypeOK, Ends

\* Nothing was written: what a call by itself had written may stay.
LEMMA EndsQuiet ==
    ASSUME SharedInv, NEW a \in Working, NEW to, pc' = [pc EXCEPT ![a] = to], Ends(a),
           UNCHANGED <<wm, seen>>, to # "return", settled' => settled,
           settled' => a \in alone \/ pc[a] # "return"
    PROVE  Quiet'
  <1>1. ASSUME settled', NEW b \in Working, pc[b] = "return", b \notin alone
        PROVE  b \in Working' /\ pc'[b] = "return" /\ b \notin alone'
    <2>1. b # a /\ b \in Actors
      BY <1>1 DEF Working
    <2>2. pc'[b] = pc[b]
      BY <2>1 DEF SharedInv, TypeOK
    <2>3. QED
      BY <1>1, <2>1, <2>2 DEF Working, Ends
  <1>2. QED
    BY <1>1, StaysQuiet

\* The trigger has saved its watermark, or failed to.
LEMMA SaveKeeps == ASSUME SharedInv, Save PROVE SharedInv'
  <1> DEFINE a == Trigger
  <1>1. /\ a \in Actors /\ a \in Working /\ TypeOK /\ pc[a] = "emit"
        /\ pc' = [pc EXCEPT ![a] = "fetch"] /\ local' = [local EXCEPT ![a] = NoLocals]
        /\ Ends(a) /\ UNCHANGED <<published, stops, emitted, excused, seen>>
    BY DEF Save, Goto, Set, SharedInv, Working, Actors
  <1>2. PICK n \in begun[a]..published : CallSound(a, n)
    BY <1>1 DEF SharedInv
  <1>3. /\ n \in Nat /\ n <= published /\ wm \in Nat /\ wm <= published
        /\ published \in Nat /\ published <= MaxItem
    BY <1>1, RssAssumption DEF TypeOK, SharedInv
  <1>4. /\ Saved(local[a]) \in {wm, n}
        /\ a \in alone => Saved(local[a]) = n /\ wm <= n /\ \A i \in seen : i <= n
    BY <1>1, <1>2, SavedWatermark
  <1>5. \/ wm' = Saved(local[a]) /\ settled' = (a \in alone) /\ run' = run
        \/ wm' = wm /\ settled' = settled /\ run' = <<>>
    BY DEF Save
  <1>6. wm' \in 0..MaxItem /\ wm' <= published /\ settled' \in BOOLEAN
    <2>1. wm' \in {wm, n}
      BY <1>4, <1>5
    <2>2. settled' \in BOOLEAN
      <3>1. settled \in BOOLEAN
        BY <1>1 DEF TypeOK
      <3>2. settled' = settled \/ settled' = (a \in alone)
        BY <1>5, Zenon
      <3>3. CASE settled' = settled
        BY <3>1, <3>3
      <3>4. CASE settled' = (a \in alone)
        BY <3>4
      <3>5. QED
        BY <3>2, <3>3, <3>4
    <2>3. QED
      BY <1>3, <2>1, <2>2, RssAssumption
  <1>7. TypeOK'
    <2>1. shown' \subseteq Items
      <3>1. local[a].got \subseteq Items /\ shown \subseteq Items
        BY <1>1 DEF TypeOK, Locals
      <3>2. QED
        BY <3>1 DEF Save, Noted
    <2>2. run' \in Seq(Items)
      <3>1. run \in Seq(Items) /\ << >> \in Seq(Items)
        BY <1>1 DEF TypeOK
      <3>2. run' = run \/ run' = << >>
        BY <1>5
      <3>3. QED
        BY <3>1, <3>2
    <2>3. backlog' \in BOOLEAN
      BY Zenon DEF Save
    <2>4. /\ begun' \in [Actors -> 0..MaxItem] /\ alone' \subseteq Actors
          /\ local' \in [Actors -> Locals]
          /\ pc' \in [Actors -> {"absent", "idle", "fetch", "load", "emit", "save", "return"}]
      BY <1>1, EndTyped
    <2>5. QED
      BY <1>1, <1>6, <2>1, <2>2, <2>3, <2>4 DEF TypeOK
  <1>8. Quiet'
    <2>1. CASE wm' = wm /\ settled' = settled
      BY <1>1, <2>1, EndsQuiet
    <2>2. CASE wm' = Saved(local[a]) /\ settled' = (a \in alone)
      BY <1>1, <1>4, <2>2 DEF Quiet
    <2>3. QED
      BY <1>5, <2>1, <2>2
  <1>9. \A i \in seen' : i <= published
    BY <1>1 DEF SharedInv
  <1>10. QED
    BY <1>1, <1>6, <1>7, <1>8, <1>9, EndKeeps

\* list-new has saved its watermark.
LEMMA ListNewSaveKeeps ==
    ASSUME SharedInv, NEW a \in Callers, ListNewSave(a)
    PROVE  SharedInv'
  <1>1. /\ a \in Actors /\ a # Trigger /\ a \in Working /\ TypeOK /\ pc[a] = "save"
        /\ pc' = [pc EXCEPT ![a] = "return"] /\ wm' = Saved(local[a])
        /\ UNCHANGED <<published, local, backlog, stops, triggerHistory, seen, overlaps>>
    BY RssAssumption DEF ListNewSave, Goto, SharedInv, Working, Actors
  <1>2. PICK n \in begun[a]..published : CallSound(a, n)
    BY <1>1 DEF SharedInv
  <1>3. /\ n \in Nat /\ n <= published /\ wm \in Nat /\ wm <= published
        /\ published \in Nat /\ published <= MaxItem
    BY <1>1, RssAssumption DEF TypeOK, SharedInv
  <1>4. /\ wm' \in {wm, n}
        /\ a \in alone => wm' = n /\ wm <= n /\ \A i \in seen : i <= n
    BY <1>1, <1>2, SavedWatermark
  <1>5. wm' \in 0..MaxItem /\ wm' <= published
    BY <1>3, <1>4, RssAssumption
  <1>6. /\ pc'[a] = "return" /\ pc' \in [Actors -> {"absent", "idle", "fetch", "load", "emit", "save", "return"}]
        /\ \A b \in Actors \ {a} : pc'[b] = pc[b]
    BY <1>1 DEF TypeOK
  <1>7. TypeOK'
    BY <1>1, <1>5, <1>6 DEF TypeOK, overlaps, triggerHistory
  <1>8. Working' = Working
    BY <1>1, <1>6 DEF Working
  <1>9. CallSound(a, n)'
    <2>1. local'[a].got = FeedAt(n)' /\ \E lo \in 1..n + 1 : local'[a].fresh = lo..n
      BY <1>1, <1>2 DEF CallSound, FeedAt
    <2>2. local'[a].next = IF n = 0 THEN local'[a].base ELSE n
      BY <1>1, <1>2 DEF CallSound
    <2>3. a \in alone => wm' <= n /\ wm' = n /\ \A i \in seen : i <= n
      BY <1>3, <1>4
    <2>4. a \in alone /\ settled => local'[a].fresh \cap seen = {}
      BY <1>1, <1>2 DEF CallSound
    <2>5. QED
      BY <1>1, <1>6, <2>1, <2>2, <2>3, <2>4 DEF CallSound, overlaps
  <1>10. Quiet'
    <2>1. CASE a \in alone
      BY <1>1, <1>4, <2>1 DEF Quiet
    <2>2. CASE a \notin alone
      BY <1>1, <1>6, <1>8, <2>2 DEF Quiet, overlaps
    <2>3. QED
      BY <2>1, <2>2
  <1>11. \A b \in Actors \ {a} : /\ pc'[b] = pc[b] /\ local'[b] = local[b]
                                 /\ begun'[b] = begun[b] /\ b \notin alone'
    BY <1>1, <1>6, AloneAtWork DEF overlaps
  <1>12. \E m \in begun'[a]..published' : CallSound(a, m)'
    BY <1>1, <1>9 DEF overlaps
  <1>13. a \in alone' => Working' = {a}
    BY <1>1, <1>8, AloneAtWork DEF overlaps
  <1>14. \A i \in seen' : i <= published
    BY <1>1 DEF SharedInv
  <1>15. /\ pc'[Trigger] \in {"absent", "idle", "fetch", "load", "emit"}
         /\ \A c \in Callers : pc'[c] \in {"absent", "idle", "load", "save", "return"}
    <2>1. Trigger \in Actors \ {a}
      BY <1>1 DEF Actors
    <2>2. QED
      BY <1>6, <2>1 DEF SharedInv, Actors
  <1>16. QED
    BY <1>1, <1>5, <1>7, <1>10, <1>11, <1>12, <1>13, <1>14, <1>15, MovedKeeps

\* list-new has returned; what it returned is at or before the watermark when
\* nothing ran beside it.
LEMMA ListNewReturnKeeps ==
    ASSUME SharedInv, NEW a \in Callers, ListNewReturn(a)
    PROVE  SharedInv' /\ (a \in alone /\ settled => local[a].fresh \cap seen = {})
  <1>1. /\ a \in Actors /\ a # Trigger /\ a \in Working /\ TypeOK /\ pc[a] = "return"
        /\ pc' = [pc EXCEPT ![a] = "idle"] /\ local' = [local EXCEPT ![a] = NoLocals]
        /\ Ends(a) /\ settled' = (a \in alone) /\ seen' = seen \cup local[a].fresh
        /\ UNCHANGED <<published, wm, backlog, stops, triggerHistory>>
    BY RssAssumption DEF ListNewReturn, Goto, Set, SharedInv, Working, Actors
  <1>2. PICK n \in begun[a]..published : CallSound(a, n)
    BY <1>1 DEF SharedInv
  <1>3. /\ n \in Nat /\ n <= published /\ published \in Nat /\ published <= MaxItem
        /\ wm <= published
    BY <1>1, RssAssumption DEF TypeOK, SharedInv
  <1>4. \A i \in local[a].fresh : i \in 1..n
    BY <1>2 DEF CallSound
  <1>5. /\ local[a].fresh \subseteq Items
        /\ \A i \in seen' : i <= published
    BY <1>1, <1>3, <1>4, RssAssumption DEF SharedInv, Items
  <1>6. TypeOK'
    <2>1. /\ begun' \in [Actors -> 0..MaxItem] /\ alone' \subseteq Actors
          /\ local' \in [Actors -> Locals]
          /\ pc' \in [Actors -> {"absent", "idle", "fetch", "load", "emit", "save", "return"}]
      BY <1>1, EndTyped
    <2>2. settled' \in BOOLEAN
      BY <1>1
    <2>3. QED
      BY <1>1, <1>5, <2>1, <2>2 DEF TypeOK, triggerHistory
  <1>7. Quiet'
    <2>1. ASSUME a \in alone PROVE \A i \in seen' : i <= wm'
      <3>1. wm = n /\ \A i \in seen : i <= n
        BY <1>1, <1>2, <2>1 DEF CallSound
      <3>2. QED
        BY <1>1, <1>4, <3>1
    <2>2. QED
      BY <1>1, <2>1 DEF Quiet
  <1>8. a \in alone /\ settled => local[a].fresh \cap seen = {}
    BY <1>1, <1>2 DEF CallSound
  <1>9. SharedInv'
    BY <1>1, <1>3, <1>5, <1>6, <1>7, EndKeeps
  <1>10. QED
    BY <1>8, <1>9

LEMMA ListNewDiesKeeps ==
    ASSUME SharedInv, NEW a \in Callers, ListNewDies(a)
    PROVE  SharedInv'
  <1>1. /\ a \in Actors /\ a # Trigger /\ a \in Working /\ TypeOK
        /\ pc' = [pc EXCEPT ![a] = "idle"] /\ local' = [local EXCEPT ![a] = NoLocals]
        /\ Ends(a) /\ settled' = (settled /\ (a \in alone \/ pc[a] # "return"))
        /\ UNCHANGED <<published, wm, backlog, stops, triggerHistory, seen>>
    BY RssAssumption DEF ListNewDies, Set, SharedInv, Working, Actors
  <1>2. TypeOK'
    <2>1. /\ begun' \in [Actors -> 0..MaxItem] /\ alone' \subseteq Actors
          /\ local' \in [Actors -> Locals]
          /\ pc' \in [Actors -> {"absent", "idle", "fetch", "load", "emit", "save", "return"}]
      BY <1>1, EndTyped
    <2>2. settled' \in BOOLEAN
      BY <1>1
    <2>3. QED
      BY <1>1, <2>1, <2>2 DEF TypeOK, triggerHistory
  <1>3. Quiet'
    <2>1. settled' => settled /\ (a \in alone \/ pc[a] # "return")
      BY <1>1, Zenon
    <2>2. QED
      BY <1>1, <2>1, EndsQuiet
  <1>4. wm' <= published /\ \A i \in seen' : i <= published
    BY <1>1 DEF SharedInv
  <1>5. QED
    BY <1>1, <1>2, <1>3, <1>4, EndKeeps

\* The trigger stops, in the middle of a poll or between two of them.
LEMMA StopKeeps == ASSUME SharedInv, Stop PROVE SharedInv'
  <1> DEFINE a == Trigger
  <1>1. /\ a \in Actors /\ TypeOK /\ pc[a] \in {"fetch", "load", "emit"}
        /\ pc' = [pc EXCEPT ![a] = "idle"] /\ local' = [local EXCEPT ![a] = NoLocals]
        /\ Ends(a) /\ run' = <<>> /\ stops < MaxStops /\ stops' = stops + 1
        /\ UNCHANGED <<published, wm, backlog, emitted, shown, excused, seen, settled>>
    BY DEF Stop, Set, SharedInv, Actors
  <1>2. TypeOK'
    <2>1. /\ begun' \in [Actors -> 0..MaxItem] /\ alone' \subseteq Actors
          /\ local' \in [Actors -> Locals]
          /\ pc' \in [Actors -> {"absent", "idle", "fetch", "load", "emit", "save", "return"}]
      BY <1>1, EndTyped
    <2>2. stops' \in 0..MaxStops /\ run' \in Seq(Items)
      BY <1>1, RssAssumption DEF TypeOK
    <2>3. QED
      BY <1>1, <2>1, <2>2 DEF TypeOK
  <1>3. wm' <= published /\ \A i \in seen' : i <= published
    BY <1>1 DEF SharedInv
  <1>4. CASE a \in Working
    <2>1. Quiet'
      BY <1>1, <1>4, EndsQuiet
    <2>2. QED
      BY <1>1, <1>2, <1>3, <1>4, <2>1, EndKeeps
  <1>5. CASE a \notin Working
    <2>1. pc'[a] = "idle" /\ \A b \in Actors \ {a} :
              pc'[b] = pc[b] /\ local'[b] = local[b] /\ begun'[b] = begun[b]
      BY <1>1 DEF TypeOK, Ends
    <2>2. Working' = Working
      BY <1>1, <1>5, <2>1 DEF Working
    <2>3. \A b \in Working : pc'[b] = pc[b] /\ local'[b] = local[b] /\ begun'[b] = begun[b]
      BY <1>5, <2>1 DEF Working
    <2>4. alone' = alone
      <3>1. alone \subseteq Working
        BY DEF SharedInv
      <3>2. QED
        BY <1>1, <1>5, <3>1 DEF Ends
    <2>5. \A c \in Callers : pc'[c] \in {"absent", "idle", "load", "save", "return"}
      BY <2>1, RssAssumption DEF SharedInv, Actors
    <2>6. published' >= published
      BY <1>1, RssAssumption DEF TypeOK
    <2>7. QED
      BY <1>1, <1>2, <2>1, <2>2, <2>3, <2>4, <2>5, <2>6, UnmovedKeeps
  <1>6. QED
    BY <1>4, <1>5

\* mark-seen or reset.
LEMMA MarkKeeps ==
    ASSUME SharedInv, NEW i \in 0..published, Mark(i),
           UNCHANGED <<published, pc, local, backlog, stops, triggerHistory>>
    PROVE  SharedInv'
  <1>1. /\ TypeOK /\ published \in Nat /\ published <= MaxItem
        /\ wm' = i /\ seen' = {} /\ alone' = {} /\ settled' = (Working = {}) /\ begun' = begun
    BY RssAssumption DEF SharedInv, TypeOK, Mark
  <1>2. settled' \in BOOLEAN /\ wm' \in 0..MaxItem /\ wm' <= published'
    BY <1>1, RssAssumption
  <1>3. TypeOK'
    BY <1>1, <1>2 DEF TypeOK, triggerHistory
  <1>4. Working' = Working
    BY DEF Working
  <1>5. ASSUME NEW b \in Working' PROVE \E n \in begun'[b]..published' : CallSound(b, n)'
    <2>1. b \in Working /\ b \in Actors
      BY <1>4 DEF Working
    <2>2. \E n \in begun[b]..published : CallSound(b, n)
      BY <2>1 DEF SharedInv
    <2>3. b \notin alone' /\ begun'[b] = begun[b] /\ published' \in Nat /\ published' >= published
      BY <1>1
    <2>4. QED
      BY <1>1, <2>1, <2>2, <2>3, BesideSound
  <1>6. Quiet'
    BY <1>1 DEF Quiet
  <1>7. QED
    BY <1>1, <1>2, <1>3, <1>5, <1>6 DEF SharedInv

LEMMA CallerKeeps ==
    ASSUME SharedInv, NEW c \in Callers, CallerStep(c)
    PROVE  SharedInv'
  <1>1. c \in Actors /\ c # Trigger /\ published \in Nat
    BY RssAssumption DEF Actors, SharedInv, TypeOK
  <1>2. CASE ListNewFetch(c)
    BY <1>1, <1>2, FetchKeeps DEF ListNewFetch
  <1>3. CASE ListNewLoad(c)
    <2>1. /\ Goto(c, "load", "save") /\ Set(c, Diff(local[c].got, wm, Backlog))
          /\ UNCHANGED <<published, wm, backlog, stops, run, emitted, shown, seen, overlaps>>
          /\ excused' = excused
      BY <1>3 DEF ListNewLoad, triggerHistory
    <2>2. excused' \subseteq Items /\ Backlog \in BOOLEAN
      BY <2>1, RssAssumption DEF SharedInv, TypeOK
    <2>3. QED
      BY <1>1, <2>1, <2>2, LoadKeeps
  <1>4. CASE ListNewSave(c)
    BY <1>4, ListNewSaveKeeps
  <1>5. CASE ListNewReturn(c)
    BY <1>5, ListNewReturnKeeps
  <1>6. CASE ListNewDies(c)
    BY <1>6, ListNewDiesKeeps
  <1>7. ASSUME NEW i \in 1..published, MarkSeen(c, i) PROVE SharedInv'
    <2>1. i \in 0..published
      BY <1>1
    <2>2. QED
      BY <1>7, <2>1, MarkKeeps DEF MarkSeen
  <1>8. CASE Reset(c)
    <2>1. 0 \in 0..published
      BY <1>1
    <2>2. QED
      BY <1>8, <2>1, MarkKeeps DEF Reset
  <1>9. QED
    BY <1>2, <1>3, <1>4, <1>5, <1>6, <1>7, <1>8 DEF CallerStep

LEMMA TriggerKeeps == ASSUME SharedInv, TriggerStep PROVE SharedInv'
  <1>1. Trigger \in Actors /\ TypeOK
    BY DEF Actors, SharedInv
  <1>2. CASE Subscribe
    <2>1. /\ pc[Trigger] = "idle" /\ pc' = [pc EXCEPT ![Trigger] = "fetch"]
          /\ backlog' \in BOOLEAN
          /\ UNCHANGED <<published, wm, local, stops, triggerHistory, seen, overlaps>>
      BY <1>2, RssAssumption DEF Subscribe, Goto
    <2>2. pc'[Trigger] = "fetch" /\ \A b \in Actors \ {Trigger} : pc'[b] = pc[b]
      BY <1>1, <2>1 DEF TypeOK
    <2>3. Working' = Working /\ Trigger \notin Working
      BY <2>1, <2>2 DEF Working
    <2>4. TypeOK'
      BY <1>1, <2>1 DEF TypeOK, triggerHistory, overlaps
    <2>5. \A c \in Callers : pc'[c] \in {"absent", "idle", "load", "save", "return"}
      BY <2>2, RssAssumption DEF SharedInv, Actors
    <2>6. \A b \in Working : pc'[b] = pc[b] /\ local'[b] = local[b] /\ begun'[b] = begun[b]
      BY <2>1, <2>2, <2>3 DEF Working, overlaps
    <2>7. published' >= published /\ UNCHANGED <<wm, seen, alone, settled>>
      BY <1>1, <2>1, RssAssumption DEF TypeOK, overlaps
    <2>8. QED
      BY <2>2, <2>3, <2>4, <2>5, <2>6, <2>7, UnmovedKeeps
  <1>3. CASE Poll
    BY <1>1, <1>3, FetchKeeps DEF Poll
  <1>4. CASE Load
    <2>1. PICK w \in {0, wm} : Set(Trigger, Diff(local[Trigger].got, w, backlog))
      BY <1>4 DEF Load
    <2>2. /\ Goto(Trigger, "load", "emit")
          /\ UNCHANGED <<published, wm, backlog, stops, run, emitted, shown, seen, overlaps>>
          /\ excused' \in {excused, excused \cup local[Trigger].got}
      BY <1>4 DEF Load, Noted
    <2>3. excused' \subseteq Items /\ backlog \in BOOLEAN
      <3>1. local[Trigger].got \subseteq Items /\ excused \subseteq Items
        BY <1>1 DEF TypeOK, Locals
      <3>2. QED
        BY <1>1, <2>2, <3>1 DEF TypeOK
    <2>4. QED
      BY <1>1, <2>1, <2>2, <2>3, LoadKeeps
  <1>5. CASE Emit
    BY <1>5, EmitKeeps
  <1>6. CASE Save
    BY <1>6, SaveKeeps
  <1>7. QED
    BY <1>2, <1>3, <1>4, <1>5, <1>6, Zenon DEF TriggerStep

LEMMA SharedStep == ASSUME SharedInv, [Next]_vars PROVE SharedInv'
  <1>1. CASE UNCHANGED vars \/ Publish
    <2>1. /\ UNCHANGED <<wm, pc, local, backlog, stops, triggerHistory, seen, overlaps>>
          /\ published' \in 0..MaxItem /\ published' >= published
      BY <1>1, RssAssumption DEF vars, Publish, SharedInv, TypeOK
    <2>2. TypeOK' /\ Working' = Working
      BY <2>1 DEF SharedInv, TypeOK, triggerHistory, overlaps, Working
    <2>3. /\ UNCHANGED <<wm, seen, alone, settled>>
          /\ \A b \in Working : pc'[b] = pc[b] /\ local'[b] = local[b] /\ begun'[b] = begun[b]
      BY <2>1 DEF overlaps
    <2>4. /\ pc'[Trigger] \in {"absent", "idle", "fetch", "load", "emit"}
          /\ \A c \in Callers : pc'[c] \in {"absent", "idle", "load", "save", "return"}
      BY <2>1 DEF SharedInv
    <2>5. QED
      BY <2>1, <2>2, <2>3, <2>4, UnmovedKeeps
  <1>2. CASE TriggerStep
    BY <1>2, TriggerKeeps
  <1>3. CASE Stop
    BY <1>3, StopKeeps
  <1>4. ASSUME NEW c \in Callers, CallerStep(c) PROVE SharedInv'
    BY <1>4, CallerKeeps
  <1>5. QED
    BY <1>1, <1>2, <1>3, <1>4 DEF Next

\* The invariant of an instance that any number of calls, and the trigger, share.
THEOREM SharedInvariance == Spec => []SharedInv
  <1>1. SharedInv /\ [Next]_vars => SharedInv'
    BY SharedStep
  <1>2. QED
    BY <1>1, SharedInit, PTL DEF Spec

\* A call of list-new beside which nothing else runs returns nothing that was
\* returned before, whatever the calls and polls before it did beside each other,
\* provided that the last to end of those that wrote had run by itself.
THEOREM NothingTwice == Spec => ReturnedOnce
  <1> DEFINE Once == \A c \in alone : ListNewReturn(c) /\ settled => local[c].fresh \cap seen = {}
  <1>1. SharedInv /\ [Next]_vars => [Once]_vars
    <2> SUFFICES ASSUME SharedInv, NEW c \in alone, ListNewReturn(c), settled
                 PROVE  local[c].fresh \cap seen = {}
      OBVIOUS
    <2>1. c \in Actors /\ pc[c] = "return" /\ pc[Trigger] # "return"
      BY DEF SharedInv, TypeOK, ListNewReturn, Goto
    <2>2. c \in Callers
      BY <2>1 DEF Actors
    <2>3. QED
      BY <2>2, ListNewReturnKeeps
  <1>2. QED
    BY <1>1, SharedInvariance, PTL DEF Spec, ReturnedOnce

LEMMA StepForward ==
    ASSUME SharedInv, [Next]_vars
    PROVE  [\/ wm' >= wm
            \/ \E c \in Callers : Reset(c) \/ \E i \in Items : MarkSeen(c, i)
            \/ \E a \in Working \ alone : /\ IF a = Trigger THEN Save ELSE ListNewSave(a)
                                          /\ wm' >= begun[a]]_vars
  <1> DEFINE Saves(a) == IF a = Trigger THEN Save ELSE ListNewSave(a)
             Forward ==
               \/ wm' >= wm
               \/ \E c \in Callers : Reset(c) \/ \E i \in Items : MarkSeen(c, i)
               \/ \E a \in Working \ alone : Saves(a) /\ wm' >= begun[a]
  <1>1. TypeOK /\ wm \in Nat /\ published \in Nat /\ published <= MaxItem
    BY RssAssumption DEF SharedInv, TypeOK
  <1>2. CASE UNCHANGED wm
    BY <1>1, <1>2
  <1>3. ASSUME NEW a \in Working, Saves(a), pc[a] \in {"emit", "save"}, wm' = Saved(local[a])
        PROVE  Forward
    <2>1. PICK n \in begun[a]..published : CallSound(a, n)
      BY DEF SharedInv
    <2>2. a \in Actors /\ begun[a] \in Nat /\ n \in Nat /\ n >= begun[a]
      BY <1>1, RssAssumption DEF Working, TypeOK
    <2>3. wm' \in {wm, n} /\ (a \in alone => wm' = n /\ wm <= n)
      BY <1>3, <2>1, SavedWatermark
    <2>4. CASE a \in alone
      BY <1>1, <2>2, <2>3, <2>4
    <2>5. CASE a \notin alone /\ wm' = n
      BY <1>3, <2>2, <2>5
    <2>6. QED
      BY <1>1, <2>3, <2>4, <2>5
  <1>4. CASE Save
    <2>1. Trigger \in Working /\ pc[Trigger] = "emit"
      BY <1>4 DEF Save, Goto, Working, Actors
    <2>2. wm' = wm \/ wm' = Saved(local[Trigger])
      BY <1>4 DEF Save
    <2>3. QED
      BY <1>2, <1>3, <1>4, <2>1, <2>2
  <1>5. ASSUME NEW c \in Callers, ListNewSave(c) PROVE Forward
    <2>1. c # Trigger /\ c \in Working /\ pc[c] = "save" /\ wm' = Saved(local[c])
      BY <1>5, RssAssumption DEF ListNewSave, Goto, Working, Actors
    <2>2. QED
      BY <1>3, <1>5, <2>1
  <1>6. ASSUME NEW c \in Callers, NEW i \in 1..published, MarkSeen(c, i) PROVE Forward
    <2>1. i \in Items
      BY <1>1, RssAssumption DEF Items
    <2>2. QED
      BY <1>6, <2>1
  <1>7. CASE UNCHANGED vars \/ Publish \/ Stop \/ Subscribe \/ Poll \/ Load \/ Emit
    BY <1>2, <1>7 DEF vars, Publish, Stop, Subscribe, Poll, Load, Emit
  <1>8. ASSUME NEW c \in Callers,
               ListNewFetch(c) \/ ListNewLoad(c) \/ ListNewReturn(c) \/ ListNewDies(c)
        PROVE  Forward
    <2>1. UNCHANGED wm
      BY <1>8 DEF ListNewFetch, ListNewLoad, ListNewReturn, ListNewDies
    <2>2. wm' >= wm
      BY <1>1, <2>1
    <2>3. QED
      BY <2>2
  <1>9. QED
    BY <1>4, <1>5, <1>6, <1>7, <1>8 DEF Next, TriggerStep, CallerStep

\* The watermark moves back only by hand, or by a call or poll beside which
\* something else runs, and never behind where it was when that one began.
THEOREM WatermarkAdvances == Spec => WatermarkForward
  <1>1. QED
    BY SharedInvariance, StepForward, PTL DEF Spec, WatermarkForward

--------------------------------------------------------------------------------
(* The trigger on an instance of its own: its inductive invariant.         *)

LEMMA Own == TriggerAlone => OwnInstance
  BY DEF TriggerAlone, OwnInstance

LEMMA InvInit == TriggerAlone /\ Init => TriggerInv
  <1> SUFFICES ASSUME TriggerAlone, Init PROVE TriggerInv
    OBVIOUS
  <1> USE RssAssumption DEF Init
  <1>1. TypeOK
    BY TypeInit
  <1>2. DOMAIN run = {} /\ Trigger \in Actors
    BY DEF Actors
  <1>3. FeedAt(wm) = {}
    BY DEF FeedAt
  <1>4. QED
    BY <1>1, <1>2, <1>3 DEF TriggerInv, NoSkip, InOrder, RunUpTo

\* A step that leaves the trigger, its watermark and its history alone; the feed
\* may grow.
LEMMA OthersKeepInv ==
    ASSUME TriggerInv, TypeOK', published' >= published,
           UNCHANGED <<wm, pc, local, backlog, run, emitted, shown, excused>>
    PROVE  TriggerInv'
  <1> USE DEF TriggerInv, TypeOK
  <1>1. wm' <= published'
    BY RssAssumption
  <1>2. FeedAt(wm)' \subseteq emitted' \cup excused'
    BY DEF FeedAt
  <1>3. NoSkip' /\ InOrder'
    BY DEF NoSkip, InOrder
  <1>4. pc'[Trigger] \in {"absent", "idle", "fetch"} => RunUpTo(wm)'
    BY DEF RunUpTo
  <1>5. ASSUME pc[Trigger] \in {"load", "emit"}
        PROVE  \E n \in wm'..published' : PollSound(n, local[Trigger])'
    <2>1. PICK n \in wm..published : PollSound(n, local[Trigger])
      BY <1>5
    <2>2. n \in wm'..published'
      BY RssAssumption
    <2>3. PollSound(n, local[Trigger])'
      BY <2>1 DEF PollSound, RunUpTo, FeedAt
    <2>4. QED
      BY <2>2, <2>3
  <1>6. QED
    BY <1>1, <1>2, <1>3, <1>4, <1>5

LEMMA PublishKeepsInv == ASSUME TriggerInv, TypeOK', Publish PROVE TriggerInv'
  <1>1. published' >= published
    BY RssAssumption DEF TriggerInv, TypeOK, Publish
  <1>2. QED
    BY <1>1, OthersKeepInv DEF Publish, triggerHistory

\* Between polls the trigger holds nothing: it may start, stop and forget its run.
LEMMA IdleKeepsInv ==
    ASSUME TriggerInv, TypeOK', UNCHANGED <<published, emitted, shown, excused>>,
           wm' = wm, ~backlog', pc'[Trigger] \in {"absent", "idle", "fetch"},
           run' = <<>> \/ (run' = run /\ RunUpTo(wm))
    PROVE  TriggerInv'
  <1> USE DEF TriggerInv
  <1>1. FeedAt(wm)' \subseteq emitted' \cup excused' /\ NoSkip'
    BY DEF FeedAt, NoSkip
  <1>2. InOrder' /\ RunUpTo(wm)'
    BY DEF InOrder, RunUpTo
  <1>3. QED
    BY <1>1, <1>2

LEMMA SubscribeKeepsInv ==
    ASSUME TriggerAlone, TriggerInv, TypeOK', Subscribe PROVE TriggerInv'
  <1> USE DEF TriggerInv, TypeOK, Subscribe, Goto, triggerHistory
  <1>1. pc'[Trigger] = "fetch" /\ pc[Trigger] = "idle"
    BY RssAssumption DEF Actors
  <1>2. ~backlog'
    BY DEF TriggerAlone
  <1>3. QED
    BY <1>1, <1>2, IdleKeepsInv

LEMMA StopKeepsInv == ASSUME TriggerInv, TypeOK', Stop PROVE TriggerInv'
  <1> USE DEF TriggerInv, TypeOK, Stop, triggerHistory
  <1>1. pc'[Trigger] = "idle"
    BY DEF Actors
  <1>2. QED
    BY <1>1, IdleKeepsInv

LEMMA PollKeepsInv == ASSUME TriggerInv, TypeOK', Poll PROVE TriggerInv'
  <1> USE DEF TriggerInv, TypeOK
  <1> DEFINE l == [got |-> FeedAt(published), base |-> 0, fresh |-> {}, next |-> 0]
  <1>1. /\ UNCHANGED <<published, wm, backlog, stops, triggerHistory>>
        /\ pc[Trigger] = "fetch" /\ pc' = [pc EXCEPT ![Trigger] = "load"]
        /\ local' = [local EXCEPT ![Trigger] = l]
    BY DEF Poll, Fetch, Goto, Set, Feed
  <1>2. pc'[Trigger] = "load" /\ local'[Trigger] = l
    BY <1>1 DEF Actors
  <1>5. published \in wm'..published' /\ PollSound(published, local[Trigger])'
    <2>1. local'[Trigger].got = FeedAt(published)
      BY <1>2
    <2>2. RunUpTo(wm)'
      BY <1>1 DEF RunUpTo, triggerHistory
    <2>3. PollSound(published, local[Trigger])'
      BY <1>1, <1>2, <2>1, <2>2 DEF PollSound, FeedAt
    <2>4. QED
      BY <1>1, <2>3, RssAssumption
  <1>6. QED
    BY <1>1, <1>2, <1>5 DEF FeedAt, NoSkip, InOrder, triggerHistory

\* What the feed holds below the new items was in the feed that ended with the
\* watermark, or is excused for want of one.
LEMMA LoadKeepsInv ==
    ASSUME TriggerAlone, TriggerInv, TypeOK', Load PROVE TriggerInv'
  <1> USE DEF TriggerInv, TypeOK
  <1>1. /\ UNCHANGED <<published, wm, backlog, stops, run, emitted, shown>>
        /\ pc[Trigger] = "load" /\ pc' = [pc EXCEPT ![Trigger] = "emit"]
        /\ pc'[Trigger] = "emit"
    BY DEF Load, Goto, Actors
  <1>2. PICK n \in wm..published : PollSound(n, local[Trigger])
    BY <1>1
  <1>3. n \in Nat /\ wm \in 0..n /\ n <= MaxItem
    BY RssAssumption
  <1>4. local' = [local EXCEPT ![Trigger] = Diff(FeedAt(n), wm, FALSE)]
    BY <1>2 DEF Load, Set, TriggerAlone, PollSound
  <1>5. local'[Trigger] = Diff(FeedAt(n), wm, FALSE)
    BY <1>4 DEF Actors
  <1>6. /\ excused \subseteq excused' /\ excused' \subseteq Items
        /\ wm = 0 => FeedAt(n) \subseteq excused'
    <2>1. FeedAt(n) \subseteq Items
      BY <1>3, RssAssumption DEF FeedAt, Items
    <2>2. excused' = IF wm = 0 THEN excused \cup FeedAt(n) ELSE excused
      BY <1>2, Own DEF Load, TriggerAlone, PollSound, Noted
    <2>3. QED
      BY <2>1, <2>2
  <1>7. PICK lo \in wm + 1..n + 1 : DiffFresh(FeedAt(n), wm, FALSE) = lo..n
    BY <1>3, FreshOfFeed
  <1>8. DiffWatermark(FeedAt(n), wm) = n
    BY <1>3, WatermarkOfFeed
  <1>9. Diff(FeedAt(n), wm, FALSE)
            = [got |-> FeedAt(n), base |-> wm, fresh |-> lo..n, next |-> n]
    BY <1>7, <1>8 DEF Diff
  <1>11. PollSound(n, local[Trigger])'
    <2>1. RunUpTo(lo - 1)'
      <3>1. \A k \in DOMAIN run : run[k] <= wm /\ run[k] \in Int
        BY <1>1, <1>2, ElementOfSeq, LenProperties, RssAssumption
           DEF PollSound, RunUpTo, Items
      <3>2. QED
        BY <1>1, <1>3, <3>1 DEF RunUpTo
    <2>2. FeedAt(n) \subseteq emitted \cup excused' \cup lo..n
      <3>1. CASE wm = 0
        BY <1>6, <3>1
      <3>2. CASE wm # 0
        <4>1. FeedAt(n) \subseteq FeedAt(wm) \cup lo..n
          BY <1>3, <1>7, <3>2, FreshOfFeed
        <4>2. QED
          BY <1>6, <4>1
      <3>3. QED
        BY <3>1, <3>2
    <2>3. lo \in 1..n + 1
      BY <1>3
    <2> HIDE DEF TriggerInv, TypeOK
    <2>4. /\ local'[Trigger].got = FeedAt(n) /\ local'[Trigger].base = wm'
          /\ local'[Trigger].fresh = lo..n /\ local'[Trigger].next = n
      <3>1. local'[Trigger]
                = [got |-> FeedAt(n), base |-> wm, fresh |-> lo..n, next |-> n]
        BY <1>5, <1>9, Zenon
      <3>2. wm' = wm
        BY <1>1
      <3>3. QED
        BY <3>1, <3>2
    <2>5. local'[Trigger].got = FeedAt(n)'
      BY <2>4 DEF FeedAt
    <2>6. \E m \in 1..n + 1 : local'[Trigger].fresh = m..n /\ RunUpTo(m - 1)'
      BY <2>1, <2>3, <2>4
    <2>7. local'[Trigger].got \subseteq emitted' \cup excused' \cup local'[Trigger].fresh
      BY <1>1, <2>2, <2>4
    <2>8. pc'[Trigger] # "load"
      BY <1>1
    <2>9. QED
      BY <2>4, <2>5, <2>6, <2>7, <2>8, Zenon DEF PollSound
  <1>12. FeedAt(wm)' \subseteq emitted' \cup excused' /\ NoSkip' /\ InOrder'
    BY <1>1, <1>6 DEF FeedAt, NoSkip, InOrder
  <1>13. QED
    BY <1>1, <1>11, <1>12

\* The oldest of the new items is emitted: the rest still ends with the newest
\* item, and the run stays below it.
LEMMA EmitKeepsInv ==
    ASSUME TriggerAlone, TriggerInv, TypeOK', Emit PROVE TriggerInv'
  <1>0. TypeOK /\ Trigger \in Actors
    BY DEF TriggerInv, Actors
  <1>1. PICK n \in wm..published : PollSound(n, local[Trigger])
    BY DEF TriggerInv, Emit
  <1>2. n \in Nat /\ n <= MaxItem
    BY <1>0, RssAssumption DEF TypeOK
  <1>3. PICK lo \in 1..n + 1 : local[Trigger].fresh = lo..n /\ RunUpTo(lo - 1)
    BY <1>1 DEF PollSound, Emit
  <1>4. lo <= n /\ lo \in Items
    BY <1>2, <1>3, RssAssumption DEF Emit, Items
  <1>5. Oldest(local[Trigger].fresh) = lo
    <2>1. lo \in Int /\ n \in Int
      BY <1>2
    <2>2. Oldest(lo..n) = lo
      BY <1>4, <2>1, OldestOfRange
    <2>3. QED
      BY <1>3, <2>2
  <1>6. /\ run' = Append(run, lo)
        /\ emitted' = emitted \cup {lo}
        /\ local' = [local EXCEPT ![Trigger].fresh = local[Trigger].fresh \ {lo}]
        /\ UNCHANGED <<published, wm, pc, backlog, stops, shown, excused>>
        /\ pc[Trigger] = "emit"
    BY <1>5, Own DEF Emit, Noted
  <1>7. /\ local' \in [Actors -> Locals]
        /\ local'[Trigger].got = local[Trigger].got
        /\ local'[Trigger].base = local[Trigger].base
        /\ local'[Trigger].next = local[Trigger].next
        /\ local'[Trigger].fresh = lo + 1..n
    <2>1. local[Trigger] \in Locals
      BY <1>0 DEF TypeOK
    <2>2. lo..n \ {lo} = lo + 1..n
      BY <1>4
    <2>3. QED
      BY <1>0, <1>3, <1>6, <2>1, <2>2 DEF TypeOK, Locals
  <1>8. run' \in Seq(Items) /\ InOrder' /\ RunUpTo(lo)'
    BY <1>0, <1>3, <1>4, <1>6, AppendKeepsOrder DEF TriggerInv, TypeOK
  <1>10. PollSound(n, local[Trigger])'
    <2>1. local'[Trigger].got = FeedAt(n)'
      BY <1>1, <1>7 DEF PollSound, FeedAt
    <2>2. local'[Trigger].base = wm' /\ local'[Trigger].next = n
      BY <1>1, <1>6, <1>7 DEF PollSound
    <2>3. local'[Trigger].got \subseteq emitted' \cup excused' \cup local'[Trigger].fresh
      BY <1>1, <1>3, <1>6, <1>7 DEF PollSound
    <2>4. (lo + 1) - 1 = lo /\ lo + 1 \in 1..n + 1
      BY <1>4
    <2>5. \E m \in 1..n + 1 : local'[Trigger].fresh = m..n /\ RunUpTo(m - 1)'
      BY <1>7, <1>8, <2>4
    <2>6. pc'[Trigger] # "load"
      BY <1>6
    <2>7. QED
      BY <2>1, <2>2, <2>3, <2>5, <2>6, Zenon DEF PollSound
  <1>11. n \in wm'..published'
    BY <1>6
  <1>12. NoSkip' /\ FeedAt(wm)' \subseteq emitted' \cup excused'
    BY <1>6 DEF TriggerInv, NoSkip, FeedAt
  <1>13. QED
    BY <1>6, <1>8, <1>10, <1>11, <1>12 DEF TriggerInv

\* The whole feed has been emitted or excused when the watermark moves to its end.
LEMMA SaveKeepsInv ==
    ASSUME TriggerAlone, TriggerInv, TypeOK', Save PROVE TriggerInv'
  <1>0. TypeOK /\ Trigger \in Actors
    BY DEF TriggerInv, Actors
  <1>1. PICK n \in wm..published : PollSound(n, local[Trigger])
    BY DEF TriggerInv, Save, Goto
  <1>2. n \in Nat /\ n \in 0..MaxItem /\ wm \in 0..n
    BY <1>0, RssAssumption DEF TypeOK
  <1>3. PICK lo \in 1..n + 1 : local[Trigger].fresh = lo..n /\ RunUpTo(lo - 1)
    BY <1>1 DEF PollSound, Save, Goto
  <1>4. lo = n + 1 /\ RunUpTo(n)
    <2>1. lo..n = {}
      BY <1>3 DEF Save
    <2>2. lo = n + 1
      BY <1>2, <2>1
    <2>3. lo - 1 = n
      BY <1>2, <2>2
    <2>4. QED
      BY <1>3, <2>2, <2>3
  <1>5. /\ UNCHANGED <<published, stops, emitted, excused>>
        /\ pc' = [pc EXCEPT ![Trigger] = "fetch"]
        /\ local' = [local EXCEPT ![Trigger] = NoLocals]
        /\ shown' = shown \cup FeedAt(n)
        /\ ~backlog'
        /\ \/ wm' = n /\ run' = run
           \/ wm' = wm /\ run' = <<>>
    <2>1. pc[Trigger] = "emit" /\ local[Trigger].got = FeedAt(n)
      BY <1>1 DEF Save, Goto, PollSound
    <2>2. Saved(local[Trigger]) = n
      BY <1>1, <1>2, <2>1 DEF PollSound, Saved
    <2>3. QED
      BY <2>1, <2>2, Own DEF Save, Goto, Set, Noted
  <1>6. FeedAt(n) \subseteq emitted \cup excused
    BY <1>1, <1>3, <1>4 DEF PollSound, Save, Goto
  <1>7. NoSkip' /\ FeedAt(wm)' \subseteq emitted' \cup excused'
    BY <1>5, <1>6 DEF TriggerInv, NoSkip, FeedAt
  <1>8. InOrder' /\ RunUpTo(wm)'
    BY <1>4, <1>5 DEF TriggerInv, InOrder, RunUpTo
  <1>10. wm' <= published' /\ pc'[Trigger] = "fetch"
    BY <1>0, <1>5 DEF TriggerInv, TypeOK
  <1>11. QED
    BY <1>5, <1>7, <1>8, <1>10 DEF TriggerInv

LEMMA InvStep ==
    ASSUME TriggerAlone, TriggerInv, SharedInv', [Next]_vars PROVE TriggerInv'
  <1>0. TypeOK'
    BY DEF SharedInv
  <1>1. CASE UNCHANGED vars
    <2>1. published' >= published
      BY <1>1 DEF TriggerInv, TypeOK, vars
    <2>2. QED
      BY <1>0, <1>1, <2>1, OthersKeepInv DEF vars, triggerHistory
  <1>2. CASE Next
    <2>1. ~\E c \in Callers : CallerStep(c)
      BY DEF TriggerAlone
    <2>2. QED
      BY <1>0, <1>2, <2>1, PublishKeepsInv, SubscribeKeepsInv, PollKeepsInv,
         LoadKeepsInv, EmitKeepsInv, SaveKeepsInv, StopKeepsInv
         DEF Next, TriggerStep
  <1>3. QED
    BY <1>1, <1>2

\* The invariant of a trigger alone on its instance.
THEOREM TriggerInvariance == ASSUME TriggerAlone PROVE Spec => []TriggerInv
  <1>1. Init => TriggerInv
    BY TriggerAlone, InvInit
  <1>2. TriggerInv /\ SharedInv' /\ [Next]_vars => TriggerInv'
    BY TriggerAlone, InvStep
  <1>3. QED
    BY <1>1, <1>2, SharedInvariance, PTL DEF Spec

\* No item of a feed the trigger has finished with is skipped, wherever it was
\* stopped and whichever saves failed.
THEOREM NothingIsSkipped == ASSUME TriggerAlone PROVE Spec => []NoSkip
  <1>1. TriggerInv => NoSkip
    BY DEF TriggerInv
  <1>2. QED
    BY <1>1, TriggerAlone, TriggerInvariance, PTL

\* Between failed saves a run emits its items once each, oldest first, also when
\* the feed rolls past the watermark between two polls.
THEOREM RunsAreInOrder == ASSUME TriggerAlone PROVE Spec => []InOrder
  <1>1. TriggerInv => InOrder
    BY DEF TriggerInv
  <1>2. QED
    BY <1>1, TriggerAlone, TriggerInvariance, PTL
================================================================================
