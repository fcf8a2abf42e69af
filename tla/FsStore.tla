-------------------------------- MODULE FsStore --------------------------------
(***************************************************************************)
(* state/fsstore: the file-backed state store of one connector instance.   *)
(* A key is a value file, a temporary file and a sidecar that holds the    *)
(* key's name.  Put locks its store object's mutex; Get, Delete and Keys   *)
(* lock nothing.  Manager.For builds a new store object, hence a new       *)
(* mutex, for every session and every process.                             *)
(***************************************************************************)
EXTENDS Integers, Sequences, FiniteSets

CONSTANTS Callers,   \* goroutines calling the store
          Handles,   \* store objects over the same directory
          HandleOf,  \* [Callers -> Handles]: the object each caller uses
          Keys,      \* keys of the instance
          Values,    \* values callers put
          Size,      \* [Values -> Nat]: their length in bytes
          Mortal,    \* store objects whose process may die
          Ops,       \* the calls to explore, of "put", "get", "delete", "keys"
          MaxInode,  \* bound: inodes of the directory
          None       \* no caller, no key

ASSUME StoreAssumption ==
    /\ HandleOf \in [Callers -> Handles]
    /\ Size \in [Values -> Nat \ {0}]
    /\ Mortal \subseteq Handles
    /\ Ops \subseteq {"put", "get", "delete", "keys"}
    /\ MaxInode \in Nat
    /\ None \notin Callers \cup Keys \cup Values

VARIABLES dir, data, fd,  \* the instance's directory (FileSystem)
          lock,           \* [Handles -> the caller holding the mutex, or None]
          pc,             \* [Callers -> where its call is]
          call,           \* [Callers -> the call with its arguments, or None]
          ret,            \* [Callers -> what its call returns]
          todo            \* [Callers -> sidecars a Keys call has yet to read]

\* History.
VARIABLES settled,        \* keys no call is changing, whose last change is a Put
                          \* that no Delete overlapped
          disturbed,      \* callers whose Put a Delete of the same key overlaps
          owed,           \* [Callers -> keys a running Keys call has to list]
          alone           \* the caller whose call no other call has overlapped
                          \* and no file operation has failed

callVars == <<pc, call, ret, todo>>
history  == <<settled, disturbed, owed, alone>>
vars == <<dir, data, fd, lock, callVars, history>>

Bin(k) == <<k, "bin">>
Tmp(k) == <<k, "tmp">>
Sidecar(k) == <<k, "key">>
Names == {Bin(k) : k \in Keys} \cup {Tmp(k) : k \in Keys} \cup {Sidecar(k) : k \in Keys}

FS == INSTANCE FileSystem WITH Procs <- Callers

\* The bytes of a value, and of the sidecar that names a key.
Data(v) == [i \in 1..Size[v] |-> v]
NameOf(k) == <<k>>

PCs == {"idle", "lock", "open", "write", "rename", "keyOpen", "keyWrite",
        "unlock", "delBin", "delKey", "getOpen", "getRead", "list", "entry",
        "return"}

Calls == [op : {"put"}, key : Keys, value : Values]
         \cup [op : {"delete", "get"}, key : Keys] \cup [op : {"keys"}]

\* None stands for no call and, where values are byte sequences, for no value
\* and for no Put of one.
ASSUME NoneAssumption ==
    /\ None \notin Calls \cup {Data(v) : v \in Values}
    /\ None \notin [op : {"put"}, key : Keys, value : {Data(v) : v \in Values}]

\* A result: whether the call failed, and the contents it returns, one for a
\* Get that finds its key, one per listed sidecar for Keys.
NoResult == [err |-> FALSE, out |-> {}]

TypeOK ==
    /\ FS!FSType(Keys \cup Values)
    /\ lock \in [Handles -> Callers \cup {None}]
    /\ pc \in [Callers -> PCs]
    /\ call \in [Callers -> Calls \cup {None}]
    /\ ret \in [Callers -> [err : BOOLEAN, out : SUBSET Seq(Keys \cup Values)]]
    /\ \A c \in Callers : fd[c] # 0 <=> pc[c] \in {"write", "keyWrite", "getRead"}
    /\ todo \in [Callers -> SUBSET Keys]
    /\ settled \subseteq Keys
    /\ disturbed \subseteq Callers
    /\ owed \in [Callers -> SUBSET Keys]
    /\ alone \subseteq Callers

Init ==
    /\ FS!FSInit
    /\ lock = [h \in Handles |-> None]
    /\ pc = [c \in Callers |-> "idle"]
    /\ call = [c \in Callers |-> None]
    /\ ret = [c \in Callers |-> NoResult]
    /\ todo = [c \in Callers |-> {}]
    /\ settled = {}
    /\ disturbed = {}
    /\ owed = [c \in Callers |-> {}]
    /\ alone = {}

Goto(c, from, to) ==
    /\ pc[c] = from
    /\ pc' = [pc EXCEPT ![c] = to]

\* A caller starts a call.
Begin(c, to, arguments) ==
    /\ Goto(c, "idle", to)
    /\ arguments.op \in Ops
    /\ call' = [call EXCEPT ![c] = arguments]
    /\ alone' = IF \A d \in Callers \ {c} : pc[d] = "idle" THEN {c} ELSE {}
    /\ UNCHANGED <<dir, data, fd, lock, ret, todo>>

\* Callers in the middle of a Put or a Delete of a key.
Running(op, k) == {c \in Callers : /\ call[c] # None
                                  /\ call[c].op = op
                                  /\ call[c].key = k
                                  /\ pc[c] # "return"}

\* Bookkeeping for a change of key k that starts: nobody owes k any more.
Unsettle(k) ==
    /\ settled' = settled \ {k}
    /\ owed' = [d \in Callers |-> owed[d] \ {k}]

--------------------------------------------------------------------------------
(* Put.                                                                    *)

CallPut(c, k, v) ==
    /\ Begin(c, "lock", [op |-> "put", key |-> k, value |-> v])
    /\ Unsettle(k)
    /\ disturbed' = IF Running("delete", k) = {} THEN disturbed ELSE disturbed \cup {c}

\* Variant of Acquire: no mutex.
AcquireWithoutLock(c) ==
    /\ Goto(c, "lock", "open")
    /\ lock' = [lock EXCEPT ![HandleOf[c]] = c]
    /\ UNCHANGED <<dir, data, fd, call, ret, todo, history>>

Acquire(c) ==
    /\ Goto(c, "lock", "open")
    /\ lock[HandleOf[c]] = None
    /\ lock' = [lock EXCEPT ![HandleOf[c]] = c]
    /\ UNCHANGED <<dir, data, fd, call, ret, todo, history>>

\* Variant of OpenTmp: the temporary file keeps what an earlier Put left in it.
OpenTmpWithoutTruncation(c) ==
    /\ Goto(c, "open", "write")
    /\ FS!OpenKeep(c, Tmp(call[c].key))
    /\ UNCHANGED <<lock, call, ret, todo, history>>

OpenTmp(c) ==
    /\ Goto(c, "open", "write")
    /\ FS!OpenTrunc(c, Tmp(call[c].key))
    /\ UNCHANGED <<lock, call, ret, todo, history>>

WriteTmp(c) ==
    /\ Goto(c, "write", "rename")
    /\ FS!WriteClose(c, Data(call[c].value))
    /\ UNCHANGED <<lock, call, ret, todo, history>>

\* Variant of RenameTmp: a Put of an existing key leaves the sidecar alone.
RenameTmpKeepsSidecar(c) ==
    /\ Goto(c, "rename", IF FS!Exists(Bin(call[c].key)) THEN "unlock" ELSE "keyOpen")
    /\ FS!Exists(Tmp(call[c].key))
    /\ FS!Rename(Tmp(call[c].key), Bin(call[c].key))
    /\ UNCHANGED <<lock, call, ret, todo, history>>

RenameTmp(c) ==
    /\ Goto(c, "rename", "keyOpen")
    /\ FS!Exists(Tmp(call[c].key))
    /\ FS!Rename(Tmp(call[c].key), Bin(call[c].key))
    /\ UNCHANGED <<lock, call, ret, todo, history>>

\* Another store object renamed the shared temporary file away: Put fails.
RenameFails(c) ==
    /\ Goto(c, "rename", "unlock")
    /\ ~FS!Exists(Tmp(call[c].key))
    /\ ret' = [ret EXCEPT ![c].err = TRUE]
    /\ UNCHANGED <<dir, data, fd, lock, call, todo, history>>

\* The call of c ends with an error of the file system.
FailTo(c, at, to) ==
    /\ Goto(c, at, to)
    /\ ret' = [ret EXCEPT ![c].err = TRUE]
    /\ alone' = alone \ {c}
    /\ UNCHANGED <<lock, call, todo, settled, disturbed, owed>>

\* The directory or a file cannot be made, or not renamed.
FileFails(c) ==
    /\ \E at \in {"open", "rename", "keyOpen"} : FailTo(c, at, "unlock")
    /\ UNCHANGED <<dir, data, fd>>

\* A write fails half way, the sidecar's when the value is already in place.
WriteFails(c) ==
    \/ /\ FailTo(c, "write", "unlock")
       /\ \E n \in 0..(Size[call[c].value] - 1) :
              FS!WriteClose(c, SubSeq(Data(call[c].value), 1, n))
    \/ /\ FailTo(c, "keyWrite", "unlock")
       /\ FS!WriteClose(c, <<>>)

\* The sidecar is rewritten in place on every Put.
OpenSidecar(c) ==
    /\ Goto(c, "keyOpen", "keyWrite")
    /\ FS!OpenTrunc(c, Sidecar(call[c].key))
    /\ UNCHANGED <<lock, call, ret, todo, history>>

WriteSidecar(c) ==
    /\ Goto(c, "keyWrite", "unlock")
    /\ FS!WriteClose(c, NameOf(call[c].key))
    /\ UNCHANGED <<lock, call, ret, todo, history>>

Release(c) ==
    /\ Goto(c, "unlock", "return")
    /\ lock' = [lock EXCEPT ![HandleOf[c]] = None]
    /\ LET k == call[c].key IN
       settled' = IF ret[c].err \/ c \in disturbed \/ Running("put", k) # {c}
                  THEN settled ELSE settled \cup {k}
    /\ disturbed' = disturbed \ {c}
    /\ UNCHANGED <<dir, data, fd, call, ret, todo, owed, alone>>

--------------------------------------------------------------------------------
(* Delete, without the mutex: value file first, then the sidecar.          *)

CallDelete(c, k) ==
    /\ Begin(c, "delBin", [op |-> "delete", key |-> k])
    /\ Unsettle(k)
    /\ disturbed' = disturbed \cup Running("put", k)

RemoveBin(c) ==
    /\ Goto(c, "delBin", "delKey")
    /\ FS!Remove(Bin(call[c].key))
    /\ UNCHANGED <<lock, call, ret, todo, history>>

RemoveSidecar(c) ==
    /\ Goto(c, "delKey", "return")
    /\ FS!Remove(Sidecar(call[c].key))
    /\ UNCHANGED <<lock, call, ret, todo, history>>

\* Delete stops at the first file it cannot remove.
RemoveFails(c) ==
    /\ \E at \in {"delBin", "delKey"} : FailTo(c, at, "return")
    /\ UNCHANGED <<dir, data, fd>>

--------------------------------------------------------------------------------
(* Get and Keys.                                                           *)

CallGet(c, k) ==
    /\ Begin(c, "getOpen", [op |-> "get", key |-> k])
    /\ UNCHANGED <<settled, disturbed, owed>>

GetMissing(c) ==
    /\ Goto(c, "getOpen", "return")
    /\ ~FS!Exists(Bin(call[c].key))
    /\ UNCHANGED <<dir, data, fd, lock, call, ret, todo, history>>

GetOpen(c) ==
    /\ Goto(c, "getOpen", "getRead")
    /\ FS!OpenRead(c, Bin(call[c].key))
    /\ UNCHANGED <<lock, call, ret, todo, history>>

\* Variant of GetRead: the descriptor stays open.
GetReadWithoutClose(c) ==
    /\ Goto(c, "getRead", "return")
    /\ ret' = [ret EXCEPT ![c].out = {data[fd[c]]}]
    /\ UNCHANGED <<dir, data, fd, lock, call, todo, history>>

GetRead(c) ==
    /\ Goto(c, "getRead", "return")
    /\ ret' = [ret EXCEPT ![c].out = {data[fd[c]]}]
    /\ FS!Close({c})
    /\ UNCHANGED <<lock, call, todo, history>>

CallKeys(c) ==
    /\ Begin(c, "list", [op |-> "keys"])
    /\ owed' = [owed EXCEPT ![c] = settled]
    /\ UNCHANGED <<settled, disturbed>>

ReadDir(c) ==
    /\ Goto(c, "list", "entry")
    /\ todo' = [todo EXCEPT ![c] = {k \in Keys : FS!Exists(Sidecar(k))}]
    /\ UNCHANGED <<dir, data, fd, lock, call, ret, history>>

\* One sidecar; a name that is gone by now is skipped.
ReadEntry(c, k) ==
    /\ Goto(c, "entry", "entry")
    /\ k \in todo[c]
    /\ todo' = [todo EXCEPT ![c] = @ \ {k}]
    /\ ret' = [ret EXCEPT ![c].out =
                  IF FS!Exists(Sidecar(k)) THEN @ \cup {FS!Contents(Sidecar(k))} ELSE @]
    /\ UNCHANGED <<dir, data, fd, lock, call, history>>

KeysDone(c) ==
    /\ Goto(c, "entry", "return")
    /\ todo[c] = {}
    /\ UNCHANGED <<dir, data, fd, lock, call, ret, todo, history>>

--------------------------------------------------------------------------------

Return(c) ==
    /\ Goto(c, "return", "idle")
    /\ call' = [call EXCEPT ![c] = None]
    /\ ret' = [ret EXCEPT ![c] = NoResult]
    /\ owed' = [owed EXCEPT ![c] = {}]
    /\ alone' = alone \ {c}
    /\ UNCHANGED <<dir, data, fd, lock, todo, settled, disturbed>>

\* The process that owns a store object dies: its callers and its mutex are
\* gone, its descriptors closed, the files stay as they are.
Crash(h) ==
    LET dead == {c \in Callers : HandleOf[c] = h}
        Forget(f, x) == [c \in Callers |-> IF c \in dead THEN x ELSE f[c]]
    IN  /\ \E c \in dead : pc[c] # "idle"
        /\ FS!Close(dead)
        /\ lock' = [lock EXCEPT ![h] = None]
        /\ pc' = Forget(pc, "idle")
        /\ call' = Forget(call, None)
        /\ ret' = Forget(ret, NoResult)
        /\ todo' = Forget(todo, {})
        /\ owed' = Forget(owed, {})
        /\ alone' = alone \ dead
        /\ disturbed' = disturbed \ dead
        /\ UNCHANGED settled

PutStep(c) ==
    \/ \E k \in Keys, v \in Values : CallPut(c, k, v)
    \/ Acquire(c) \/ OpenTmp(c) \/ WriteTmp(c) \/ RenameTmp(c) \/ RenameFails(c)
    \/ OpenSidecar(c) \/ WriteSidecar(c) \/ FileFails(c) \/ WriteFails(c) \/ Release(c)

DeleteStep(c) ==
    \/ \E k \in Keys : CallDelete(c, k)
    \/ RemoveBin(c) \/ RemoveSidecar(c) \/ RemoveFails(c)

ReadStep(c) ==
    \/ \E k \in Keys : CallGet(c, k) \/ ReadEntry(c, k)
    \/ GetMissing(c) \/ GetOpen(c) \/ GetRead(c)
    \/ CallKeys(c) \/ ReadDir(c) \/ KeysDone(c)

Next ==
    \/ \E c \in Callers : PutStep(c) \/ DeleteStep(c) \/ ReadStep(c) \/ Return(c)
    \/ \E h \in Mortal : Crash(h)

Spec == Init /\ [][Next]_vars

--------------------------------------------------------------------------------
(* Properties.                                                             *)

Intact(bytes) == \E v \in Values : bytes = Data(v)

\* The value file of a key never holds anything but the whole of some value
\* that was put: "atomic writes via tmp + rename" (fsstore.go:6).
ValuesIntact == \A k \in Keys : FS!Exists(Bin(k)) => Intact(FS!Contents(Bin(k)))

\* A Get, however its reads interleave, returns the whole of some put value:
\* a Store is "safe for concurrent use" (state/store.go:26).
GetIntact ==
    \A c \in Callers : pc[c] = "return" /\ call[c].op = "get" =>
        \A bytes \in ret[c].out : Intact(bytes)

\* Whatever overlapping Puts of other store objects, failed writes and crashes
\* left behind, a Put that runs alone, on a file system that serves it, succeeds
\* and leaves exactly its value and its sidecar.
SoloPutStores ==
    \A c \in alone : pc[c] = "return" /\ call[c].op = "put" =>
        /\ ~ret[c].err
        /\ FS!Exists(Bin(call[c].key))
        /\ FS!Contents(Bin(call[c].key)) = Data(call[c].value)
        /\ FS!Exists(Sidecar(call[c].key))
        /\ FS!Contents(Sidecar(call[c].key)) = NameOf(call[c].key)

\* Keys "returns all keys" (state/store.go:39): a key whose Put has returned no
\* error, and that no later Put or Delete touches, is in every listing, whatever
\* happened to it before.  A Put or Delete under way excuses Keys: Put truncates the
\* sidecar before it rewrites it, and Delete takes no lock, so that together
\* with an overlapping Put it can leave a value without a sidecar for good.
KeysComplete ==
    \A c \in Callers : pc[c] = "return" =>
        \A k \in owed[c] : NameOf(k) \in ret[c].out

\* The refinement: Put takes effect at the rename, Delete at the removal of the
\* value file, Get when it opens it.  Keys is not part of the abstract store.
Serving(c) == call[c] # None /\ call[c].op # "keys"

BeforeEffect == {"lock", "open", "write", "rename", "delBin", "getOpen"}

AbstractDone == {c \in Callers : Serving(c) /\ pc[c] \notin BeforeEffect}

AbstractRequest(c) ==
    IF ~Serving(c) THEN None
    ELSE IF call[c].op = "put" THEN [call[c] EXCEPT !.value = Data(@)]
    ELSE call[c]

AbstractResult(c) ==
    IF c \notin AbstractDone \/ call[c].op # "get" THEN None
    ELSE IF pc[c] = "getRead" THEN data[fd[c]]
    ELSE IF ret[c].out = {} THEN None ELSE CHOOSE bytes \in ret[c].out : TRUE

Atomic == INSTANCE AtomicStore WITH
    Values    <- {Data(v) : v \in Values},
    Missing   <- None,
    NoRequest <- None,
    kv   <- [k \in Keys |-> IF FS!Exists(Bin(k)) THEN FS!Contents(Bin(k)) ELSE None],
    req  <- [c \in Callers |-> AbstractRequest(c)],
    done <- AbstractDone,
    res  <- [c \in Callers |-> AbstractResult(c)],
    err  <- {c \in Callers : ret[c].err}

\* One store object, shared by concurrent requests, is an atomic store: every
\* Get, Put and Delete takes effect at one instant, one that fails takes effect
\* or not and says that it failed, and crashes keep it so.
ImplementsAtomicStore == Atomic!Spec
================================================================================
