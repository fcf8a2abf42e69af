------------------------------ MODULE FsStoreProofs ------------------------------
(***************************************************************************)
(* Proofs about the file-backed state store, for any number of callers and *)
(* keys, wherever its process dies.  Whatever store objects share the      *)
(* directory, a Put that runs alone stores its value.  With one store      *)
(* object, value files and Gets are whole, Keys lists every settled key,   *)
(* and the store is atomic: it implements AtomicStore.                     *)
(***************************************************************************)
EXTENDS FsStore, SequenceTheorems, TLAPS

\* All callers share one store object, hence one mutex.
OneStore == \A c, d \in Callers : HandleOf[c] = HandleOf[d]

--------------------------------------------------------------------------------
(* The invariant of any number of store objects.                           *)

Bytes == Keys \cup Values

\* No inode has two names.
Distinct == \A m, n \in Names : dir[m] # 0 /\ dir[m] = dir[n] => m = n

Files == FS!FSType(Bytes) /\ Distinct

Holding == {"open", "write", "rename", "keyOpen", "keyWrite", "unlock"}

\* A caller is at a step of the call it made, and has no result before the last.
CallSound(c) ==
    /\ pc[c] = "idle" <=> call[c] = None
    /\ pc[c] \in {"lock"} \cup Holding => call[c].op = "put"
    /\ pc[c] \in {"delBin", "delKey"} => call[c].op = "delete"
    /\ pc[c] \in {"getOpen", "getRead"} => call[c].op = "get"
    /\ pc[c] \in {"list", "entry"} => call[c].op = "keys"
    /\ pc[c] \notin {"unlock", "entry", "return"} => ret[c] = NoResult
    /\ call[c] # None /\ call[c].op \in {"get", "keys"} => ~ret[c].err

TypeInv == TypeOK /\ Distinct /\ \A c \in Callers : CallSound(c)

\* What the value file and the sidecar of a key hold when a Put is through.
Stored(k, v) == FS!Exists(Bin(k)) /\ FS!Contents(Bin(k)) = Data(v)
Named(k) == FS!Exists(Sidecar(k)) /\ FS!Contents(Sidecar(k)) = NameOf(k)

\* The progress of a Put that has been alone from its start.
AloneSound(c) ==
    /\ pc[c] # "idle" /\ \A d \in Callers \ {c} : pc[d] = "idle"
    /\ call[c].op = "put" =>
        LET k == call[c].key
            v == call[c].value
        IN  /\ ~ret[c].err
            /\ pc[c] = "write" => fd[c] = dir[Tmp(k)] /\ data[fd[c]] = <<>>
            /\ pc[c] = "rename" => FS!Exists(Tmp(k)) /\ FS!Contents(Tmp(k)) = Data(v)
            /\ pc[c] \in {"keyOpen", "keyWrite", "unlock", "return"} => Stored(k, v)
            /\ pc[c] = "keyWrite" => fd[c] = dir[Sidecar(k)] /\ data[fd[c]] = <<>>
            /\ pc[c] \in {"unlock", "return"} => Named(k)

SoloInv == TypeInv /\ \A c \in alone : AloneSound(c)

--------------------------------------------------------------------------------
(* The invariant of one store object.                                      *)

LockSound == \A c \in Callers : pc[c] \in Holding => lock[HandleOf[c]] = c

\* A Put has its temporary file to itself, and writes the sidecar through a
\* descriptor that nobody else has, though a Delete may take the name away.
PutSound(c) ==
    /\ pc[c] = "write" => fd[c] = dir[Tmp(call[c].key)] /\ data[fd[c]] = <<>>
    /\ pc[c] = "rename" =>
           /\ FS!Exists(Tmp(call[c].key))
           /\ FS!Contents(Tmp(call[c].key)) = Data(call[c].value)
    /\ pc[c] = "keyWrite" =>
           /\ data[fd[c]] = <<>>
           /\ \A n \in Names \ {Sidecar(call[c].key)} : dir[n] # fd[c]
           /\ dir[Sidecar(call[c].key)] \in {0, fd[c]}
           /\ c \notin disturbed => dir[Sidecar(call[c].key)] = fd[c]
           /\ \A d \in Callers \ {c} : fd[d] # fd[c]
    /\ pc[c] = "unlock" /\ ~ret[c].err /\ c \notin disturbed => Named(call[c].key)
    /\ pc[c] \in {"lock"} \cup Holding /\ c \notin disturbed => Running("delete", call[c].key) = {}

\* A Get reads a value file, by the name it opened or by none.
GetSound(c) ==
    /\ pc[c] = "getRead" =>
           /\ Intact(data[fd[c]])
           /\ \A k \in Keys : fd[c] # dir[Tmp(k)] /\ fd[c] # dir[Sidecar(k)]
    /\ pc[c] = "return" /\ call[c].op = "get" => \A bytes \in ret[c].out : Intact(bytes)

\* Keys owes settled keys only, and a key it owes is to be read or has been.
ListSound(c) ==
    /\ owed[c] \subseteq settled
    /\ owed[c] # {} => pc[c] \in {"list", "entry", "return"}
    /\ pc[c] = "entry" => \A k \in owed[c] : k \in todo[c] \/ NameOf(k) \in ret[c].out
    /\ pc[c] = "return" => \A k \in owed[c] : NameOf(k) \in ret[c].out

SettledSound ==
    \A k \in settled : Named(k) /\ Running("put", k) = {} /\ Running("delete", k) = {}

StoreInv ==
    /\ TypeInv
    /\ LockSound
    /\ \A c \in Callers : PutSound(c) /\ GetSound(c) /\ ListSound(c)
    /\ ValuesIntact
    /\ SettledSound

--------------------------------------------------------------------------------
(* File operations.                                                        *)

LEMMA NamesAre ==
    /\ \A k \in Keys : Bin(k) \in Names /\ Tmp(k) \in Names /\ Sidecar(k) \in Names
    /\ \A j, k \in Keys : /\ Bin(j) # Tmp(k) /\ Bin(j) # Sidecar(k) /\ Tmp(j) # Sidecar(k)
                          /\ Bin(j) = Bin(k) => j = k
                          /\ Tmp(j) = Tmp(k) => j = k
                          /\ Sidecar(j) = Sidecar(k) => j = k
  BY DEF Names, Bin, Tmp, Sidecar

LEMMA BytesAre ==
    /\ \A v \in Values : Data(v) \in Seq(Bytes)
    /\ \A k \in Keys : NameOf(k) \in Seq(Bytes)
  <1>1. ASSUME NEW v \in Values PROVE Data(v) \in Seq(Bytes)
    <2>1. Size[v] \in Nat /\ v \in Bytes
      BY StoreAssumption DEF Bytes
    <2>2. QED
      BY <2>1 DEF Data
  <1>2. ASSUME NEW k \in Keys PROVE NameOf(k) \in Seq(Bytes)
    BY DEF NameOf, Bytes
  <1>3. QED
    BY <1>1, <1>2

LEMMA OverlayFacts ==
    ASSUME NEW b \in Seq(Bytes), NEW s \in Seq(Bytes)
    PROVE  FS!Overlay(b, s) \in Seq(Bytes) /\ FS!Overlay(b, <<>>) = b
  <1>1. SubSeq(s, Len(b) + 1, Len(s)) \in Seq(Bytes)
    <2>1. \A i \in (Len(b) + 1)..Len(s) : s[i] \in Bytes
      OBVIOUS
    <2>2. CASE Len(b) + 1 > Len(s)
      BY <2>2, SubSeqEmpty
    <2>3. QED
      BY <2>1, SubSeqProperties
  <1>2. FS!Overlay(b, s) \in Seq(Bytes)
    BY <1>1, ConcatProperties DEF FS!Overlay
  <1>3. SubSeq(<<>>, Len(b) + 1, Len(<<>>)) = <<>>
    <2>1. Len(b) + 1 \in Int /\ Len(<<>>) \in Int /\ Len(<<>>) < Len(b) + 1
      OBVIOUS
    <2>2. QED
      BY <2>1, SubSeqEmpty, SMT
  <1>4. b \o <<>> = b
    BY ConcatEmptySeq
  <1>5. QED
    BY <1>2, <1>3, <1>4 DEF FS!Overlay

\* The names of N keep their inodes, and these their contents.
NamesKeep(N) ==
    \A n \in N : dir'[n] = dir[n] /\ (dir[n] # 0 => data'[dir[n]] = data[dir[n]])

\* The other callers keep their descriptors, and these their contents.
OthersKeep(c) ==
    \A d \in Callers \ {c} : fd'[d] = fd[d] /\ (fd[d] # 0 => data'[fd[d]] = data[fd[d]])

LEMMA OpenTruncFacts ==
    ASSUME Files, NEW c \in Callers, NEW n \in Names, FS!OpenTrunc(c, n)
    PROVE  /\ Files'
           /\ NamesKeep(Names \ {n})
           /\ dir'[n] # 0 /\ fd'[c] = dir'[n] /\ data'[dir'[n]] = <<>>
           /\ \A m \in Names \ {n} : dir[m] # dir'[n]
           /\ \A d \in Callers \ {c} :
                  /\ fd'[d] = fd[d]
                  /\ fd[d] # 0 /\ fd[d] # dir[n] => data'[fd[d]] = data[fd[d]] /\ fd[d] # dir'[n]
  <1>1. PICK i \in FS!Inodes :
            /\ IF FS!Exists(n) THEN i = dir[n] ELSE FS!IsFresh(i)
            /\ dir' = [dir EXCEPT ![n] = i]
            /\ fd' = [fd EXCEPT ![c] = i]
            /\ data' = [data EXCEPT ![i] = <<>>]
    BY DEF FS!OpenTrunc
  <1>2. i \in 0..MaxInode /\ i # 0
    BY StoreAssumption DEF FS!Inodes
  <1>3. \A m \in Names \ {n} : dir[m] # i
    BY <1>1, <1>2 DEF Files, Distinct, FS!Exists, FS!IsFresh, FS!Linked
  <1>4. \A d \in Callers : fd[d] # dir[n] => fd[d] # i
    BY <1>1 DEF FS!Exists, FS!IsFresh, FS!Linked
  <1>5. FS!FSType(Bytes)'
    <2>1. <<>> \in Seq(Bytes)
      OBVIOUS
    <2>2. QED
      BY <1>1, <1>2, <2>1 DEF Files, FS!FSType, FS!Inodes
  <1>6. /\ dir'[n] = i /\ fd'[c] = i /\ data'[i] = <<>>
        /\ \A m \in Names \ {n} : dir'[m] = dir[m]
        /\ \A d \in Callers \ {c} : fd'[d] = fd[d]
        /\ \A j \in FS!Inodes \ {i} : data'[j] = data[j]
    BY <1>1 DEF Files, FS!FSType
  <1>7. Distinct'
    BY <1>2, <1>3, <1>6 DEF Files, Distinct
  <1>8. /\ \A m \in Names : dir[m] # 0 => dir[m] \in FS!Inodes
        /\ \A d \in Callers : fd[d] # 0 => fd[d] \in FS!Inodes
    BY StoreAssumption DEF Files, FS!FSType, FS!Inodes
  <1>9. NamesKeep(Names \ {n})
    <2>1. ASSUME NEW m \in Names \ {n}, dir[m] # 0 PROVE data'[dir[m]] = data[dir[m]]
      <3>1. dir[m] \in FS!Inodes \ {i}
        BY <1>3, <1>8, <2>1
      <3>2. QED
        BY <1>6, <3>1
    <2>2. QED
      BY <1>6, <2>1 DEF NamesKeep
  <1>10. ASSUME NEW d \in Callers \ {c}, fd[d] # 0, fd[d] # dir[n]
         PROVE  data'[fd[d]] = data[fd[d]] /\ fd[d] # i
    <2>1. fd[d] \in FS!Inodes \ {i}
      BY <1>4, <1>8, <1>10
    <2>2. QED
      BY <1>6, <2>1
  <1>11. QED
    BY <1>2, <1>3, <1>5, <1>6, <1>7, <1>9, <1>10 DEF Files

\* Freeing the inodes that neither d nor f links to leaves alone what they do.
SweepSound(d, f) ==
    /\ FS!Sweep(d, f) \in [FS!Inodes -> Seq(Bytes)]
    /\ \A n \in Names : d[n] # 0 => FS!Sweep(d, f)[d[n]] = data[d[n]]
    /\ \A c \in Callers : f[c] # 0 => FS!Sweep(d, f)[f[c]] = data[f[c]]

\* Freeing inodes leaves alone what a name or a descriptor still holds.
LEMMA SweepFacts ==
    ASSUME Files, NEW d \in [Names -> 0..MaxInode], NEW f \in [Callers -> 0..MaxInode]
    PROVE  SweepSound(d, f)
  <1>1. \A i \in 0..MaxInode : i # 0 => i \in FS!Inodes
    BY StoreAssumption DEF FS!Inodes
  <1>2. <<>> \in Seq(Bytes)
    OBVIOUS
  <1>3. QED
    BY <1>1, <1>2 DEF Files, FS!FSType, FS!Sweep, FS!Linked, SweepSound

\* Closing the descriptors of a set of callers.
LEMMA CloseFacts ==
    ASSUME Files, NEW C \in SUBSET Callers, FS!Close(C)
    PROVE  /\ Files'
           /\ NamesKeep(Names)
           /\ \A c \in C : fd'[c] = 0
           /\ \A d \in Callers \ C : /\ fd'[d] = fd[d]
                                     /\ fd[d] # 0 => data'[fd[d]] = data[fd[d]]
  <1>1. /\ dir' = dir /\ dir \in [Names -> 0..MaxInode]
        /\ fd' = [c \in Callers |-> IF c \in C THEN 0 ELSE fd[c]]
        /\ fd' \in [Callers -> 0..MaxInode]
        /\ data' = FS!Sweep(dir, fd')
    <2>1. dir' = dir /\ fd' = [c \in Callers |-> IF c \in C THEN 0 ELSE fd[c]]
          /\ data' = FS!Sweep(dir, fd')
      BY DEF FS!Close
    <2>2. dir \in [Names -> 0..MaxInode] /\ fd \in [Callers -> 0..MaxInode] /\ 0 \in 0..MaxInode
      BY StoreAssumption DEF Files, FS!FSType
    <2>3. fd' \in [Callers -> 0..MaxInode]
      BY <2>1, <2>2
    <2>4. QED
      BY <2>1, <2>2, <2>3
  <1>2. (\A c \in C : fd'[c] = 0) /\ \A d \in Callers \ C : fd'[d] = fd[d]
    BY <1>1
  <1>3. /\ data' \in [FS!Inodes -> Seq(Bytes)]
        /\ \A n \in Names : dir[n] # 0 => data'[dir[n]] = data[dir[n]]
        /\ \A c \in Callers : fd'[c] # 0 => data'[fd'[c]] = data[fd'[c]]
    <2>1. SweepSound(dir, fd')
      BY <1>1, SweepFacts, Zenon
    <2>2. QED
      BY <1>1, <2>1, Zenon DEF SweepSound
  <1>4. Files'
    BY <1>1, <1>3 DEF Files, FS!FSType, FS!Inodes, Distinct
  <1>5. QED
    BY <1>1, <1>2, <1>3, <1>4 DEF NamesKeep

LEMMA WriteCloseFacts ==
    ASSUME Files, NEW c \in Callers, NEW b \in Seq(Bytes), FS!WriteClose(c, b), fd[c] # 0
    PROVE  /\ Files'
           /\ dir' = dir
           /\ fd'[c] = 0
           /\ \A n \in Names : dir[n] # 0 =>
                  data'[dir[n]] = IF dir[n] = fd[c] THEN FS!Overlay(b, data[fd[c]]) ELSE data[dir[n]]
           /\ \A d \in Callers \ {c} :
                  /\ fd'[d] = fd[d]
                  /\ fd[d] # 0 /\ fd[d] # fd[c] => data'[fd[d]] = data[fd[d]]
  <1>1. /\ dir' = dir /\ dir \in [Names -> 0..MaxInode]
        /\ fd' = [fd EXCEPT ![c] = 0] /\ fd' \in [Callers -> 0..MaxInode]
        /\ data' = [i \in FS!Inodes |->
                       IF i = fd[c] /\ FS!Linked(i, dir, fd') THEN FS!Overlay(b, data[i])
                       ELSE FS!Sweep(dir, fd')[i]]
    BY StoreAssumption DEF FS!WriteClose, Files, FS!FSType
  <1>2. fd'[c] = 0 /\ \A d \in Callers \ {c} : fd'[d] = fd[d]
    BY <1>1 DEF Files, FS!FSType
  <1>3. \A i \in 0..MaxInode : i # 0 => i \in FS!Inodes
    BY StoreAssumption DEF FS!Inodes
  <1>4. \A n \in Names : FS!Linked(dir[n], dir, fd')
    BY DEF FS!Linked
  <1>5. SweepSound(dir, fd')
    BY <1>1, SweepFacts, Zenon
  <1>6. \A i \in FS!Inodes : FS!Overlay(b, data[i]) \in Seq(Bytes)
    BY OverlayFacts DEF Files, FS!FSType
  <1>7. data' \in [FS!Inodes -> Seq(Bytes)]
    BY <1>1, <1>5, <1>6 DEF SweepSound
  <1>8. Files'
    BY <1>1, <1>7 DEF Files, FS!FSType, FS!Inodes, Distinct
  <1>9. ASSUME NEW n \in Names, dir[n] # 0
        PROVE  data'[dir[n]] = IF dir[n] = fd[c] THEN FS!Overlay(b, data[fd[c]]) ELSE data[dir[n]]
    BY <1>1, <1>3, <1>4, <1>5, <1>9 DEF Files, FS!FSType, SweepSound
  <1>10. ASSUME NEW d \in Callers \ {c}, fd[d] # 0, fd[d] # fd[c]
         PROVE  data'[fd[d]] = data[fd[d]]
    <2>1. fd[d] \in FS!Inodes /\ fd'[d] = fd[d]
      BY <1>2, <1>3, <1>10 DEF Files, FS!FSType
    <2>2. QED
      BY <1>1, <1>5, <1>10, <2>1 DEF SweepSound
  <1>11. QED
    BY <1>1, <1>2, <1>8, <1>9, <1>10

LEMMA RenameFacts ==
    ASSUME Files, NEW a \in Names, NEW b \in Names, a # b, dir[a] # 0, FS!Rename(a, b)
    PROVE  /\ Files'
           /\ NamesKeep(Names \ {a, b})
           /\ dir'[a] = 0 /\ dir'[b] = dir[a] /\ data'[dir[a]] = data[dir[a]]
           /\ \A d \in Callers : fd'[d] = fd[d] /\ (fd[d] # 0 => data'[fd[d]] = data[fd[d]])
  <1>1. /\ fd' = fd /\ fd \in [Callers -> 0..MaxInode]
        /\ dir' = [dir EXCEPT ![b] = dir[a], ![a] = 0] /\ dir' \in [Names -> 0..MaxInode]
        /\ data' = FS!Sweep(dir', fd)
    BY StoreAssumption DEF FS!Rename, Files, FS!FSType
  <1>2. dir'[a] = 0 /\ dir'[b] = dir[a] /\ \A n \in Names \ {a, b} : dir'[n] = dir[n]
    BY <1>1 DEF Files, FS!FSType
  <1>3. Distinct'
    BY <1>2 DEF Files, Distinct
  <1>4. /\ data' \in [FS!Inodes -> Seq(Bytes)]
        /\ \A n \in Names : dir'[n] # 0 => data'[dir'[n]] = data[dir'[n]]
        /\ \A d \in Callers : fd[d] # 0 => data'[fd[d]] = data[fd[d]]
    <2>1. SweepSound(dir', fd)
      BY <1>1, SweepFacts, Zenon
    <2>2. QED
      BY <1>1, <2>1, Zenon DEF SweepSound
  <1>5. Files'
    BY <1>1, <1>3, <1>4 DEF Files, FS!FSType, FS!Inodes
  <1>6. data'[dir[a]] = data[dir[a]]
    BY <1>2, <1>4
  <1>7. NamesKeep(Names \ {a, b})
    BY <1>2, <1>4 DEF NamesKeep
  <1>8. QED
    BY <1>1, <1>2, <1>4, <1>5, <1>6, <1>7

LEMMA RemoveFacts ==
    ASSUME Files, NEW a \in Names, FS!Remove(a)
    PROVE  /\ Files'
           /\ NamesKeep(Names \ {a})
           /\ dir'[a] = 0
           /\ \A d \in Callers : fd'[d] = fd[d] /\ (fd[d] # 0 => data'[fd[d]] = data[fd[d]])
  <1>1. /\ fd' = fd /\ fd \in [Callers -> 0..MaxInode]
        /\ dir' = [dir EXCEPT ![a] = 0] /\ dir' \in [Names -> 0..MaxInode]
        /\ data' = FS!Sweep(dir', fd)
    BY StoreAssumption DEF FS!Remove, Files, FS!FSType
  <1>2. dir'[a] = 0 /\ \A n \in Names \ {a} : dir'[n] = dir[n]
    BY <1>1 DEF Files, FS!FSType
  <1>3. Distinct'
    BY <1>2 DEF Files, Distinct
  <1>4. /\ data' \in [FS!Inodes -> Seq(Bytes)]
        /\ \A n \in Names : dir'[n] # 0 => data'[dir'[n]] = data[dir'[n]]
        /\ \A d \in Callers : fd[d] # 0 => data'[fd[d]] = data[fd[d]]
    <2>1. SweepSound(dir', fd)
      BY <1>1, SweepFacts, Zenon
    <2>2. QED
      BY <1>1, <2>1, Zenon DEF SweepSound
  <1>5. Files'
    BY <1>1, <1>3, <1>4 DEF Files, FS!FSType, FS!Inodes
  <1>6. NamesKeep(Names \ {a})
    BY <1>2, <1>4 DEF NamesKeep
  <1>7. QED
    BY <1>1, <1>2, <1>4, <1>5, <1>6

\* A step that leaves the files alone.
LEMMA SameFacts ==
    ASSUME Files, UNCHANGED <<dir, data>>, fd' \in [Callers -> 0..MaxInode]
    PROVE  Files' /\ NamesKeep(Names)
  <1>1. Files'
    BY DEF Files, FS!FSType, FS!Inodes, Distinct
  <1>2. QED
    BY <1>1 DEF NamesKeep

--------------------------------------------------------------------------------
(* Types and calls.                                                        *)

Results == [err : BOOLEAN, out : SUBSET Seq(Bytes)]

Opened == {"write", "keyWrite", "getRead"}

LEMMA Typed ==
    ASSUME TypeInv
    PROVE  /\ Files
           /\ dir \in [Names -> 0..MaxInode] /\ fd \in [Callers -> 0..MaxInode]
           /\ lock \in [Handles -> Callers \cup {None}]
           /\ pc \in [Callers -> PCs] /\ call \in [Callers -> Calls \cup {None}]
           /\ ret \in [Callers -> Results] /\ todo \in [Callers -> SUBSET Keys]
           /\ settled \subseteq Keys /\ disturbed \subseteq Callers
           /\ owed \in [Callers -> SUBSET Keys] /\ alone \subseteq Callers
           /\ HandleOf \in [Callers -> Handles]
           /\ \A c \in Callers : CallSound(c) /\ (fd[c] # 0 <=> pc[c] \in Opened)
  BY StoreAssumption DEF TypeInv, TypeOK, FS!FSType, Files, Bytes, Results, Opened

\* The arguments of a call, while it runs.
LEMMA Arguments ==
    ASSUME TypeInv, NEW c \in Callers, pc[c] # "idle"
    PROVE  /\ call[c] \in Calls /\ call[c] # None
           /\ call[c].op \in {"put", "get", "delete", "keys"}
           /\ call[c].op # "keys" => call[c].key \in Keys
           /\ call[c].op = "put" => call[c].value \in Values
  <1>1. call[c] \in Calls /\ call[c] # None
    BY Typed DEF CallSound
  <1>2. QED
    BY <1>1 DEF Calls

\* The other callers stay where they are in their calls.
OnlyMoves(c) ==
    /\ pc' \in [Callers -> PCs] /\ call' \in [Callers -> Calls \cup {None}]
    /\ ret' \in [Callers -> Results] /\ todo' \in [Callers -> SUBSET Keys]
    /\ \A d \in Callers \ {c} :
           pc'[d] = pc[d] /\ call'[d] = call[d] /\ ret'[d] = ret[d] /\ todo'[d] = todo[d]

HistoryTyped ==
    /\ lock \in [Handles -> Callers \cup {None}]
    /\ settled \subseteq Keys /\ disturbed \subseteq Callers
    /\ owed \in [Callers -> SUBSET Keys] /\ alone \subseteq Callers

LEMMA TypeStep ==
    ASSUME TypeInv, NEW c \in Callers, Files', OnlyMoves(c), CallSound(c)', HistoryTyped',
           fd'[c] # 0 <=> pc'[c] \in Opened, \A d \in Callers \ {c} : fd'[d] = fd[d]
    PROVE  TypeInv'
  <1> USE Typed
  <1>1. \A d \in Callers : fd'[d] # 0 <=> pc'[d] \in Opened
    BY DEF OnlyMoves
  <1>2. TypeOK'
    BY <1>1 DEF TypeOK, Files, OnlyMoves, HistoryTyped, Bytes, Results, Opened
  <1>3. \A d \in Callers \ {c} : CallSound(d)'
    BY DEF OnlyMoves, CallSound
  <1>4. QED
    BY <1>2, <1>3 DEF TypeInv, Files

\* What a call that begins leaves alone.
LEMMA BeginFacts ==
    ASSUME TypeInv, NEW c \in Callers, NEW to \in PCs, NEW arguments \in Calls,
           Begin(c, to, arguments)
    PROVE  /\ UNCHANGED <<dir, data, fd, lock, ret, todo>>
           /\ Files' /\ NamesKeep(Names) /\ OnlyMoves(c)
           /\ pc[c] = "idle" /\ pc'[c] = to /\ call'[c] = arguments
           /\ ret[c] = NoResult /\ fd[c] = 0
           /\ alone' = IF \A d \in Callers \ {c} : pc[d] = "idle" THEN {c} ELSE {}
  <1> USE Typed
  <1>1. /\ UNCHANGED <<dir, data, fd, lock, ret, todo>>
        /\ pc[c] = "idle" /\ pc' = [pc EXCEPT ![c] = to] /\ call' = [call EXCEPT ![c] = arguments]
        /\ alone' = IF \A d \in Callers \ {c} : pc[d] = "idle" THEN {c} ELSE {}
    BY DEF Begin, Goto
  <1>2. Files' /\ NamesKeep(Names)
    BY <1>1, SameFacts
  <1>3. OnlyMoves(c)
    BY <1>1 DEF OnlyMoves
  <1>4. QED
    BY <1>1, <1>2, <1>3 DEF CallSound, Opened

LEMMA CallKeepsType ==
    ASSUME TypeInv, NEW c \in Callers,
           \/ \E k \in Keys, v \in Values : CallPut(c, k, v)
           \/ \E k \in Keys : CallDelete(c, k) \/ CallGet(c, k)
           \/ CallKeys(c)
    PROVE  TypeInv'
  <1> USE Typed
  <1>1. /\ owed' \in [Callers -> SUBSET Keys] /\ settled' \subseteq Keys
        /\ disturbed' \subseteq Callers
    <2>1. ASSUME NEW k \in Keys, Unsettle(k)
          PROVE  owed' \in [Callers -> SUBSET Keys] /\ settled' \subseteq Keys
      BY <2>1 DEF Unsettle
    <2>2. \A k \in Keys : Running("put", k) \subseteq Callers
      BY DEF Running
    <2>3. CASE \E k \in Keys, v \in Values : CallPut(c, k, v)
      BY <2>1, <2>3 DEF CallPut
    <2>4. CASE \E k \in Keys : CallDelete(c, k)
      BY <2>1, <2>2, <2>4 DEF CallDelete
    <2>5. CASE (\E k \in Keys : CallGet(c, k)) \/ CallKeys(c)
      BY <2>5 DEF CallGet, CallKeys
    <2>6. QED
      BY <2>3, <2>4, <2>5
  <1>2. PICK to \in {"lock", "delBin", "getOpen", "list"}, arguments \in Calls :
            /\ Begin(c, to, arguments)
            /\ to = "lock" => arguments.op = "put"
            /\ to = "delBin" => arguments.op = "delete"
            /\ to = "getOpen" => arguments.op = "get"
            /\ to = "list" => arguments.op = "keys"
    <2>1. ASSUME NEW k \in Keys, NEW v \in Values, CallPut(c, k, v)
          PROVE  /\ Begin(c, "lock", [op |-> "put", key |-> k, value |-> v])
                 /\ [op |-> "put", key |-> k, value |-> v] \in Calls
      BY <2>1 DEF CallPut, Calls
    <2>2. ASSUME NEW k \in Keys, CallDelete(c, k)
          PROVE  /\ Begin(c, "delBin", [op |-> "delete", key |-> k])
                 /\ [op |-> "delete", key |-> k] \in Calls
      BY <2>2 DEF CallDelete, Calls
    <2>3. ASSUME NEW k \in Keys, CallGet(c, k)
          PROVE  /\ Begin(c, "getOpen", [op |-> "get", key |-> k])
                 /\ [op |-> "get", key |-> k] \in Calls
      BY <2>3 DEF CallGet, Calls
    <2>4. ASSUME CallKeys(c)
          PROVE  Begin(c, "list", [op |-> "keys"]) /\ [op |-> "keys"] \in Calls
      BY <2>4 DEF CallKeys, Calls
    <2>5. QED
      BY <2>1, <2>2, <2>3, <2>4
  <1>3. to \in PCs
    BY <1>2 DEF PCs
  <1>4. /\ UNCHANGED <<dir, data, fd, lock, ret, todo>>
        /\ Files' /\ NamesKeep(Names) /\ OnlyMoves(c)
        /\ pc[c] = "idle" /\ pc'[c] = to /\ call'[c] = arguments
        /\ ret[c] = NoResult /\ fd[c] = 0
        /\ alone' \subseteq Callers
    BY <1>2, <1>3, BeginFacts
  <1>5. CallSound(c)'
    BY <1>2, <1>4, NoneAssumption DEF CallSound, Holding, NoResult
  <1>6. QED
    BY <1>1, <1>2, <1>4, <1>5, TypeStep DEF HistoryTyped, Opened

\* A step of a running call that leaves its arguments as they are.
LEMMA PutKeepsType ==
    ASSUME TypeInv, NEW c \in Callers,
           \/ Acquire(c) \/ OpenTmp(c) \/ WriteTmp(c) \/ RenameTmp(c) \/ RenameFails(c)
           \/ OpenSidecar(c) \/ WriteSidecar(c) \/ Release(c)
    PROVE  TypeInv'
  <1> USE Typed
  <1>0. UNCHANGED <<call, todo, owed, alone>> /\ pc[c] \in {"lock"} \cup Holding
    BY DEF Acquire, OpenTmp, WriteTmp, RenameTmp, RenameFails, OpenSidecar, WriteSidecar, Release,
           history, Goto, Holding
  <1>1. /\ call[c] \in Calls /\ call[c].op = "put" /\ call[c].key \in Keys
        /\ call[c].value \in Values /\ call[c] # None
    BY <1>0, Arguments DEF CallSound, Holding
  <1>2. PICK to \in {"open", "write", "rename", "keyOpen", "keyWrite", "unlock", "return"} :
            pc' = [pc EXCEPT ![c] = to] /\ (to = "return" <=> pc[c] = "unlock")
    BY DEF Acquire, OpenTmp, WriteTmp, RenameTmp, RenameFails, OpenSidecar, WriteSidecar, Release,
           Goto
  <1>3. /\ ret' \in [Callers -> Results] /\ \A d \in Callers \ {c} : ret'[d] = ret[d]
        /\ ret'[c] = ret[c] \/ to = "unlock"
    <2>1. CASE RenameFails(c)
      <3>1. ret' = [ret EXCEPT ![c].err = TRUE]
        BY <2>1 DEF RenameFails
      <3>2. [ret[c] EXCEPT !.err = TRUE] \in Results
        BY DEF Results
      <3>3. ret' = [ret EXCEPT ![c] = [ret[c] EXCEPT !.err = TRUE]]
        BY <3>1
      <3>4. pc'[c] = "unlock"
        BY <2>1 DEF RenameFails, Goto
      <3>5. QED
        BY <1>2, <3>2, <3>3, <3>4
    <2>2. CASE ret' = ret
      BY <2>2
    <2>3. QED
      BY <2>1, <2>2 DEF Acquire, OpenTmp, WriteTmp, RenameTmp, OpenSidecar, WriteSidecar, Release
  <1>4. OnlyMoves(c) /\ pc'[c] = to
    BY <1>0, <1>2, <1>3 DEF OnlyMoves, PCs
  <1>5. CallSound(c)'
    BY <1>0, <1>1, <1>2, <1>3, <1>4 DEF CallSound, Holding
  <1>6. HistoryTyped'
    <2>1. lock' \in [Handles -> Callers \cup {None}]
      BY DEF Acquire, OpenTmp, WriteTmp, RenameTmp, RenameFails, OpenSidecar, WriteSidecar, Release
    <2>2. settled' \subseteq Keys /\ disturbed' \subseteq Callers
      BY <1>1 DEF Acquire, OpenTmp, WriteTmp, RenameTmp, RenameFails, OpenSidecar, WriteSidecar,
                  Release, history
    <2>3. QED
      BY <1>0, <2>1, <2>2 DEF HistoryTyped
  <1>7. Files' /\ (fd'[c] # 0 <=> to \in Opened) /\ \A d \in Callers \ {c} : fd'[d] = fd[d]
    <2>1. CASE Acquire(c) \/ RenameFails(c) \/ Release(c)
      <3>1. UNCHANGED <<dir, data, fd>> /\ fd[c] = 0 /\ pc'[c] \notin Opened
        BY <2>1 DEF Acquire, RenameFails, Release, Goto, Opened
      <3>2. QED
        BY <1>4, <3>1, SameFacts
    <2>2. CASE OpenTmp(c)
      <3>1. FS!OpenTrunc(c, Tmp(call[c].key)) /\ pc'[c] = "write"
        BY <2>2 DEF OpenTmp, Goto
      <3>2. PICK n \in Names : FS!OpenTrunc(c, n)
        BY <1>1, <3>1, NamesAre
      <3>3. /\ Files'
            /\ dir'[n] # 0 /\ fd'[c] = dir'[n]
            /\ \A d \in Callers \ {c} :
                   /\ fd'[d] = fd[d]
                   /\ fd[d] # 0 /\ fd[d] # dir[n] =>
                          data'[fd[d]] = data[fd[d]] /\ fd[d] # dir'[n]
        BY <3>2, OpenTruncFacts, Zenon
      <3>4. QED
        BY <1>4, <3>1, <3>3 DEF Opened
    <2>3. CASE OpenSidecar(c)
      <3>1. FS!OpenTrunc(c, Sidecar(call[c].key)) /\ pc'[c] = "keyWrite"
        BY <2>3 DEF OpenSidecar, Goto
      <3>2. PICK n \in Names : FS!OpenTrunc(c, n)
        BY <1>1, <3>1, NamesAre
      <3>3. /\ Files'
            /\ dir'[n] # 0 /\ fd'[c] = dir'[n]
            /\ \A d \in Callers \ {c} :
                   /\ fd'[d] = fd[d]
                   /\ fd[d] # 0 /\ fd[d] # dir[n] =>
                          data'[fd[d]] = data[fd[d]] /\ fd[d] # dir'[n]
        BY <3>2, OpenTruncFacts, Zenon
      <3>4. QED
        BY <1>4, <3>1, <3>3 DEF Opened
    <2>4. CASE WriteTmp(c)
      <3>1. FS!WriteClose(c, Data(call[c].value)) /\ pc'[c] = "rename" /\ pc[c] = "write"
        BY <2>4 DEF WriteTmp, Goto
      <3>2. QED
        BY <1>1, <1>4, <3>1, BytesAre, WriteCloseFacts DEF Opened
    <2>5. CASE WriteSidecar(c)
      <3>1. FS!WriteClose(c, NameOf(call[c].key)) /\ pc'[c] = "unlock" /\ pc[c] = "keyWrite"
        BY <2>5 DEF WriteSidecar, Goto
      <3>2. QED
        BY <1>1, <1>4, <3>1, BytesAre, WriteCloseFacts DEF Opened
    <2>6. CASE RenameTmp(c)
      <3>1. /\ FS!Rename(Tmp(call[c].key), Bin(call[c].key)) /\ dir[Tmp(call[c].key)] # 0
            /\ pc'[c] = "keyOpen" /\ pc[c] = "rename"
        BY <2>6 DEF RenameTmp, Goto, FS!Exists
      <3>2. fd[c] = 0
        BY <3>1 DEF Opened
      <3>3. QED
        BY <1>1, <1>4, <3>1, <3>2, NamesAre, RenameFacts DEF Opened
    <2>7. QED
      BY <2>1, <2>2, <2>3, <2>4, <2>5, <2>6
  <1>8. QED
    BY <1>4, <1>5, <1>6, <1>7, TypeStep

LEMMA DeleteKeepsType ==
    ASSUME TypeInv, NEW c \in Callers, RemoveBin(c) \/ RemoveSidecar(c)
    PROVE  TypeInv'
  <1> USE Typed
  <1>1. /\ UNCHANGED <<lock, call, ret, todo, settled, disturbed, owed, alone>>
        /\ pc[c] \in {"delBin", "delKey"}
        /\ pc' = [pc EXCEPT ![c] = "delKey"] \/ pc' = [pc EXCEPT ![c] = "return"]
    BY DEF RemoveBin, RemoveSidecar, history, Goto
  <1>2. call[c].key \in Keys /\ call[c] # None /\ call[c].op = "delete"
    BY <1>1, Arguments DEF CallSound
  <1>3. PICK n \in Names : FS!Remove(n)
    BY <1>2, NamesAre DEF RemoveBin, RemoveSidecar
  <1>4. Files' /\ \A d \in Callers : fd'[d] = fd[d]
    BY <1>3, RemoveFacts
  <1>5. OnlyMoves(c) /\ CallSound(c)'
    BY <1>1, <1>2 DEF OnlyMoves, PCs, CallSound, Holding
  <1>6. QED
    BY <1>1, <1>4, <1>5, TypeStep DEF HistoryTyped, Opened

\* A call fails: its file operation changes at most what its descriptor holds.
Fails(c) == FileFails(c) \/ WriteFails(c) \/ RemoveFails(c)

FailPoints == {"open", "write", "rename", "keyOpen", "keyWrite", "delBin", "delKey"}

LEMMA FailFacts ==
    ASSUME TypeInv, NEW c \in Callers, Fails(c)
    PROVE  /\ UNCHANGED <<lock, call, todo, settled, disturbed, owed>> /\ alone' = alone \ {c}
           /\ pc[c] \in FailPoints
           /\ pc' = [pc EXCEPT ![c] = IF pc[c] \in Holding THEN "unlock" ELSE "return"]
           /\ ret' \in [Callers -> Results] /\ ret'[c].err
           /\ \A d \in Callers \ {c} : ret'[d] = ret[d]
           /\ Files' /\ dir' = dir /\ fd'[c] = 0
           /\ \A n \in Names : dir[n] # 0 /\ dir[n] # fd[c] => data'[dir[n]] = data[dir[n]]
           /\ \A d \in Callers \ {c} :
                  /\ fd'[d] = fd[d]
                  /\ fd[d] # 0 /\ fd[d] # fd[c] => data'[fd[d]] = data[fd[d]]
  <1> USE Typed
  <1>1. PICK at \in FailPoints :
            /\ FailTo(c, at, IF at \in Holding THEN "unlock" ELSE "return")
            /\ \/ at \in {"write", "keyWrite"} /\ \E b \in Seq(Bytes) : FS!WriteClose(c, b)
               \/ at \notin {"write", "keyWrite"} /\ UNCHANGED <<dir, data, fd>>
    <2>1. CASE FileFails(c)
      BY <2>1 DEF FileFails, FailPoints, Holding
    <2>2. CASE RemoveFails(c)
      BY <2>2 DEF RemoveFails, FailPoints, Holding
    <2>3. CASE FailTo(c, "write", "unlock") /\ WriteFails(c)
      <3>1. call[c].value \in Values
        BY <2>3, Arguments DEF FailTo, Goto, CallSound, Holding
      <3>2. PICK n \in 0..(Size[call[c].value] - 1) :
                FS!WriteClose(c, SubSeq(Data(call[c].value), 1, n))
        BY <2>3 DEF WriteFails, FailTo, Goto
      <3>3. SubSeq(Data(call[c].value), 1, n) \in Seq(Bytes)
        <4>1. Size[call[c].value] \in Nat /\ Data(call[c].value) \in Seq(Bytes)
              /\ Len(Data(call[c].value)) = Size[call[c].value]
          BY <3>1, BytesAre, StoreAssumption DEF Data
        <4>2. \A i \in 1..n : Data(call[c].value)[i] \in Bytes
          BY <3>1, <4>1 DEF Data, Bytes
        <4>3. QED
          BY <4>1, <4>2, SubSeqProperties
      <3>4. QED
        BY <2>3, <3>2, <3>3 DEF FailPoints, Holding
    <2>4. CASE FailTo(c, "keyWrite", "unlock") /\ FS!WriteClose(c, <<>>)
      <3>1. <<>> \in Seq(Bytes)
        OBVIOUS
      <3>2. QED
        BY <2>4, <3>1 DEF FailPoints, Holding
    <2>5. QED
      BY <2>1, <2>2, <2>3, <2>4 DEF Fails, WriteFails
  <1>2. /\ UNCHANGED <<lock, call, todo, settled, disturbed, owed>> /\ alone' = alone \ {c}
        /\ pc[c] = at
        /\ pc' = [pc EXCEPT ![c] = IF at \in Holding THEN "unlock" ELSE "return"]
        /\ ret' = [ret EXCEPT ![c] = [ret[c] EXCEPT !.err = TRUE]]
    BY <1>1 DEF FailTo, Goto
  <1>3. ret' \in [Callers -> Results] /\ ret'[c].err /\ \A d \in Callers \ {c} : ret'[d] = ret[d]
    BY <1>2 DEF Results
  <1>4. CASE at \in {"write", "keyWrite"}
    <2>1. PICK b \in Seq(Bytes) : FS!WriteClose(c, b)
      BY <1>1, <1>4
    <2>2. fd[c] # 0
      BY <1>2, <1>4 DEF Opened
    <2>3. QED
      BY <1>2, <1>3, <2>1, <2>2, WriteCloseFacts
  <1>5. CASE at \notin {"write", "keyWrite"}
    <2>1. UNCHANGED <<dir, data, fd>> /\ fd[c] = 0
      BY <1>1, <1>2, <1>5 DEF Opened, FailPoints
    <2>2. Files'
      BY <2>1, SameFacts
    <2>3. QED
      BY <1>2, <1>3, <2>1, <2>2
  <1>6. QED
    BY <1>4, <1>5

LEMMA FailMoves == ASSUME TypeInv, NEW c \in Callers, Fails(c) PROVE OnlyMoves(c)
  <1>1. /\ UNCHANGED <<call, todo>> /\ ret' \in [Callers -> Results]
        /\ pc' = [pc EXCEPT ![c] = IF pc[c] \in Holding THEN "unlock" ELSE "return"]
        /\ \A d \in Callers \ {c} : ret'[d] = ret[d]
    BY FailFacts
  <1>2. QED
    BY <1>1, Typed DEF OnlyMoves, PCs

LEMMA FailKeepsType == ASSUME TypeInv, NEW c \in Callers, Fails(c) PROVE TypeInv'
  <1> USE Typed
  <1>1. /\ UNCHANGED <<lock, call, todo, settled, disturbed, owed>> /\ alone' = alone \ {c}
        /\ pc[c] \in FailPoints
        /\ pc' = [pc EXCEPT ![c] = IF pc[c] \in Holding THEN "unlock" ELSE "return"]
        /\ Files' /\ fd'[c] = 0 /\ \A d \in Callers \ {c} : fd'[d] = fd[d]
    BY FailFacts
  <1>2. OnlyMoves(c)
    BY FailMoves
  <1>3. CallSound(c)'
    BY <1>1 DEF CallSound, Holding, FailPoints
  <1>4. HistoryTyped'
    BY <1>1 DEF HistoryTyped
  <1>5. pc'[c] \notin Opened
    BY <1>1 DEF Opened
  <1>6. QED
    BY <1>1, <1>2, <1>3, <1>4, <1>5, TypeStep

LEMMA ReadKeepsType ==
    ASSUME TypeInv, NEW c \in Callers,
           \/ \E k \in Keys : ReadEntry(c, k)
           \/ GetMissing(c) \/ GetOpen(c) \/ GetRead(c) \/ ReadDir(c) \/ KeysDone(c)
    PROVE  TypeInv'
  <1> USE Typed
  <1>0. /\ UNCHANGED <<lock, call, settled, disturbed, owed, alone>>
        /\ pc[c] \in {"getOpen", "getRead", "list", "entry"}
    BY DEF ReadEntry, GetMissing, GetOpen, GetRead, ReadDir, KeysDone, history, Goto
  <1>1. HistoryTyped' /\ call[c] # None
    BY <1>0, Arguments DEF HistoryTyped
  <1>2. ASSUME NEW k \in Keys, ReadEntry(c, k) PROVE TypeInv'
    <2>1. /\ UNCHANGED <<dir, data, fd>> /\ pc' = [pc EXCEPT ![c] = "entry"] /\ pc[c] = "entry"
          /\ todo' = [todo EXCEPT ![c] = todo[c] \ {k}]
          /\ ret' = [ret EXCEPT ![c] = [ret[c] EXCEPT !.out =
                        IF FS!Exists(Sidecar(k)) THEN ret[c].out \cup {FS!Contents(Sidecar(k))}
                        ELSE ret[c].out]]
      BY <1>2 DEF ReadEntry, Goto
    <2>2. FS!Exists(Sidecar(k)) => FS!Contents(Sidecar(k)) \in Seq(Bytes)
      BY NamesAre, StoreAssumption DEF FS!Exists, FS!Contents, Files, FS!FSType, FS!Inodes
    <2>3. ret' \in [Callers -> Results] /\ todo' \in [Callers -> SUBSET Keys]
      BY <2>1, <2>2 DEF Results
    <2>4. OnlyMoves(c)
      BY <1>0, <2>1, <2>3 DEF OnlyMoves, PCs
    <2>5. CallSound(c)'
      BY <1>0, <2>1 DEF CallSound
    <2>6. QED
      BY <1>1, <2>1, <2>4, <2>5, SameFacts, TypeStep DEF Opened
  <1>3. CASE GetMissing(c) \/ KeysDone(c)
    <2>1. /\ UNCHANGED <<dir, data, fd, ret, todo>> /\ pc' = [pc EXCEPT ![c] = "return"]
          /\ pc[c] \in {"getOpen", "entry"}
      BY <1>3 DEF GetMissing, KeysDone, Goto
    <2>2. OnlyMoves(c) /\ CallSound(c)'
      BY <1>0, <1>1, <2>1 DEF OnlyMoves, PCs, CallSound, Holding
    <2>3. QED
      BY <1>1, <2>1, <2>2, SameFacts, TypeStep DEF Opened
  <1>4. CASE ReadDir(c)
    <2>1. /\ UNCHANGED <<dir, data, fd, ret>> /\ pc' = [pc EXCEPT ![c] = "entry"]
          /\ pc[c] = "list" /\ todo' = [todo EXCEPT ![c] = {k \in Keys : FS!Exists(Sidecar(k))}]
      BY <1>4 DEF ReadDir, Goto
    <2>2. OnlyMoves(c) /\ CallSound(c)'
      BY <1>0, <1>1, <2>1 DEF OnlyMoves, PCs, CallSound, Holding
    <2>3. QED
      BY <1>1, <2>1, <2>2, SameFacts, TypeStep DEF Opened
  <1>5. CASE GetOpen(c)
    <2>1. /\ UNCHANGED <<dir, data, ret, todo>> /\ pc' = [pc EXCEPT ![c] = "getRead"]
          /\ pc[c] = "getOpen" /\ dir[Bin(call[c].key)] # 0
          /\ fd' = [fd EXCEPT ![c] = dir[Bin(call[c].key)]]
      BY <1>5 DEF GetOpen, Goto, FS!OpenRead, FS!Exists
    <2>2. call[c].key \in Keys
      BY <2>1, Arguments DEF CallSound
    <2>3. fd' \in [Callers -> 0..MaxInode] /\ fd'[c] # 0
      BY <2>1, <2>2, NamesAre
    <2>4. OnlyMoves(c) /\ CallSound(c)'
      BY <1>0, <1>1, <2>1 DEF OnlyMoves, PCs, CallSound, Holding
    <2>5. QED
      BY <1>1, <2>1, <2>3, <2>4, SameFacts, TypeStep DEF Opened
  <1>6. CASE GetRead(c)
    <2>1. /\ UNCHANGED todo /\ pc' = [pc EXCEPT ![c] = "return"] /\ pc[c] = "getRead"
          /\ ret' = [ret EXCEPT ![c] = [ret[c] EXCEPT !.out = {data[fd[c]]}]]
          /\ FS!Close({c})
      BY <1>6 DEF GetRead, Goto
    <2>2. data[fd[c]] \in Seq(Bytes)
      BY <2>1, StoreAssumption DEF Opened, Files, FS!FSType, FS!Inodes
    <2>3. ret' \in [Callers -> Results]
      BY <2>1, <2>2 DEF Results
    <2>4. OnlyMoves(c) /\ CallSound(c)'
      BY <1>0, <1>1, <2>1, <2>3 DEF OnlyMoves, PCs, CallSound, Holding
    <2>5. Files' /\ fd'[c] = 0 /\ \A d \in Callers \ {c} : fd'[d] = fd[d]
      BY <2>1, CloseFacts
    <2>6. QED
      BY <1>1, <2>1, <2>4, <2>5, TypeStep DEF Opened
  <1>7. QED
    BY <1>2, <1>3, <1>4, <1>5, <1>6

LEMMA ReturnKeepsType == ASSUME TypeInv, NEW c \in Callers, Return(c) PROVE TypeInv'
  <1> USE Typed
  <1>1. /\ UNCHANGED <<dir, data, fd, lock, todo, settled, disturbed>>
        /\ pc[c] = "return" /\ pc' = [pc EXCEPT ![c] = "idle"]
        /\ call' = [call EXCEPT ![c] = None] /\ ret' = [ret EXCEPT ![c] = NoResult]
        /\ owed' = [owed EXCEPT ![c] = {}] /\ alone' = alone \ {c}
    BY DEF Return, Goto
  <1>2. NoResult \in Results
    BY DEF NoResult, Results
  <1>3. OnlyMoves(c) /\ CallSound(c)' /\ HistoryTyped'
    BY <1>1, <1>2 DEF OnlyMoves, PCs, CallSound, Holding, HistoryTyped
  <1>4. QED
    BY <1>1, <1>3, SameFacts, TypeStep DEF Opened

LEMMA CrashKeepsType == ASSUME TypeInv, NEW h \in Mortal, Crash(h) PROVE TypeInv'
  <1> USE Typed
  <1> DEFINE dead == {c \in Callers : HandleOf[c] = h}
  <1>1. /\ FS!Close(dead) /\ lock' = [lock EXCEPT ![h] = None]
        /\ pc' = [c \in Callers |-> IF c \in dead THEN "idle" ELSE pc[c]]
        /\ call' = [c \in Callers |-> IF c \in dead THEN None ELSE call[c]]
        /\ ret' = [c \in Callers |-> IF c \in dead THEN NoResult ELSE ret[c]]
        /\ todo' = [c \in Callers |-> IF c \in dead THEN {} ELSE todo[c]]
        /\ owed' = [c \in Callers |-> IF c \in dead THEN {} ELSE owed[c]]
        /\ alone' = alone \ dead /\ disturbed' = disturbed \ dead /\ settled' = settled
    BY DEF Crash
  <1>2. /\ Files'
        /\ \A c \in dead : fd'[c] = 0
        /\ \A d \in Callers \ dead : fd'[d] = fd[d]
    BY <1>1, CloseFacts
  <1>3. NoResult \in Results
    BY DEF NoResult, Results
  <1>4. TypeOK'
    <2>1. \A c \in Callers : fd'[c] # 0 <=> pc'[c] \in {"write", "keyWrite", "getRead"}
      BY <1>1, <1>2 DEF Opened
    <2>2. /\ pc' \in [Callers -> PCs] /\ call' \in [Callers -> Calls \cup {None}]
          /\ ret' \in [Callers -> Results] /\ todo' \in [Callers -> SUBSET Keys]
          /\ owed' \in [Callers -> SUBSET Keys]
      BY <1>1, <1>3 DEF PCs
    <2>3. lock' \in [Handles -> Callers \cup {None}]
      BY <1>1
    <2>4. QED
      BY <1>1, <1>2, <2>1, <2>2, <2>3 DEF TypeOK, Files, Bytes, Results
  <1>5. \A c \in Callers : CallSound(c)'
    BY <1>1 DEF CallSound, Holding
  <1>6. QED
    BY <1>2, <1>4, <1>5 DEF TypeInv, Files

LEMMA StepKeepsType == TypeInv /\ [Next]_vars => TypeInv'
  <1> SUFFICES ASSUME TypeInv, [Next]_vars PROVE TypeInv'
    OBVIOUS
  <1>1. CASE UNCHANGED vars
    BY <1>1 DEF TypeInv, TypeOK, Distinct, CallSound, FS!FSType, FS!Inodes, vars, callVars, history
  <1>2. ASSUME NEW c \in Callers, PutStep(c) \/ DeleteStep(c) \/ ReadStep(c) \/ Return(c)
        PROVE  TypeInv'
    BY <1>2, CallKeepsType, PutKeepsType, DeleteKeepsType, FailKeepsType, ReadKeepsType,
       ReturnKeepsType DEF PutStep, DeleteStep, ReadStep, Fails
  <1>3. QED
    BY <1>1, <1>2, CrashKeepsType DEF Next

LEMMA InitType == Init => TypeInv
  <1> SUFFICES ASSUME Init PROVE TypeInv
    OBVIOUS
  <1>1. <<>> \in Seq(Bytes) /\ 0 \in 0..MaxInode /\ NoResult \in Results
    BY StoreAssumption DEF NoResult, Results
  <1>2. FS!FSType(Bytes) /\ Distinct
    BY <1>1 DEF Init, FS!FSInit, FS!FSType, Distinct
  <1>3. TypeOK
    BY <1>1, <1>2 DEF Init, FS!FSInit, TypeOK, PCs, Bytes, Results
  <1>4. \A c \in Callers : CallSound(c)
    BY DEF Init, CallSound, Holding
  <1>5. QED
    BY <1>2, <1>3, <1>4 DEF TypeInv

\* Every variable keeps its type; in particular a descriptor is open exactly
\* between an open and the write or read that closes it: no step of Put or Get
\* leaks one, however callers interleave and processes die.
THEOREM TypeCorrect == Spec => []TypeOK
  <1>1. TypeInv => TypeOK
    BY DEF TypeInv
  <1>2. QED
    BY <1>1, InitType, StepKeepsType, PTL DEF Spec

--------------------------------------------------------------------------------
(* A Put that runs alone.                                                  *)

LEMMA BeginAlone ==
    ASSUME SoloInv, NEW c \in Callers,
           \/ \E k \in Keys, v \in Values : CallPut(c, k, v)
           \/ \E k \in Keys : CallDelete(c, k) \/ CallGet(c, k)
           \/ CallKeys(c),
           NEW a \in alone'
    PROVE  AloneSound(a)'
  <1> USE DEF SoloInv
  <1>1. PICK to \in {"lock", "delBin", "getOpen", "list"}, arguments \in Calls :
            /\ Begin(c, to, arguments)
            /\ arguments.op = "put" => to = "lock"
    <2>1. ASSUME NEW k \in Keys, NEW v \in Values, CallPut(c, k, v)
          PROVE  /\ Begin(c, "lock", [op |-> "put", key |-> k, value |-> v])
                 /\ [op |-> "put", key |-> k, value |-> v] \in Calls
      BY <2>1 DEF CallPut, Calls
    <2>2. ASSUME NEW k \in Keys, CallDelete(c, k)
          PROVE  /\ Begin(c, "delBin", [op |-> "delete", key |-> k])
                 /\ [op |-> "delete", key |-> k] \in Calls
      BY <2>2 DEF CallDelete, Calls
    <2>3. ASSUME NEW k \in Keys, CallGet(c, k)
          PROVE  /\ Begin(c, "getOpen", [op |-> "get", key |-> k])
                 /\ [op |-> "get", key |-> k] \in Calls
      BY <2>3 DEF CallGet, Calls
    <2>4. ASSUME CallKeys(c)
          PROVE  Begin(c, "list", [op |-> "keys"]) /\ [op |-> "keys"] \in Calls
      BY <2>4 DEF CallKeys, Calls
    <2>5. QED
      BY <2>1, <2>2, <2>3, <2>4
  <1>2. to \in PCs
    BY <1>1 DEF PCs
  <1>3. /\ ret' = ret /\ ret[c] = NoResult /\ OnlyMoves(c)
        /\ pc'[c] = to /\ call'[c] = arguments
        /\ alone' = IF \A d \in Callers \ {c} : pc[d] = "idle" THEN {c} ELSE {}
    BY <1>1, <1>2, BeginFacts
  <1>4. a = c /\ \A d \in Callers \ {c} : pc'[d] = "idle"
    BY <1>3 DEF OnlyMoves
  <1>5. pc'[c] # "idle" /\ (call'[c].op = "put" => pc'[c] = "lock") /\ ~ret'[c].err
    BY <1>1, <1>3 DEF NoResult
  <1>6. QED
    BY <1>4, <1>5 DEF AloneSound

\* The steps of a Put that is alone.
LEMMA PutAlone ==
    ASSUME SoloInv, NEW c \in Callers, c \in alone,
           \/ Acquire(c) \/ OpenTmp(c) \/ WriteTmp(c) \/ RenameTmp(c) \/ RenameFails(c)
           \/ OpenSidecar(c) \/ WriteSidecar(c) \/ Release(c)
    PROVE  AloneSound(c)'
  <1> USE Typed, NamesAre DEF SoloInv
  <1>1. /\ call' = call /\ pc[c] \in {"lock"} \cup Holding
        /\ \E to \in {"open", "write", "rename", "keyOpen", "keyWrite", "unlock", "return"} :
               pc' = [pc EXCEPT ![c] = to]
    BY DEF Acquire, OpenTmp, WriteTmp, RenameTmp, RenameFails, OpenSidecar, WriteSidecar, Release,
           Goto, Holding
  <1>2. /\ call[c].op = "put" /\ call[c].key \in Keys /\ call[c].value \in Values
    BY <1>1, Arguments DEF CallSound, Holding
  <1>3. PICK k \in Keys, v \in Values : k = call[c].key /\ v = call[c].value
    BY <1>2
  <1>4. /\ Bin(k) \in Names /\ Tmp(k) \in Names /\ Sidecar(k) \in Names
        /\ Bin(k) # Tmp(k) /\ Bin(k) # Sidecar(k) /\ Tmp(k) # Sidecar(k)
    OBVIOUS
  <1>5. /\ \A d \in Callers \ {c} : pc'[d] = "idle"
        /\ pc'[c] # "idle"
    BY <1>1 DEF AloneSound
  <1>6. SUFFICES /\ ~ret'[c].err
                 /\ pc'[c] = "write" => fd'[c] = dir'[Tmp(k)] /\ data'[fd'[c]] = <<>>
                 /\ pc'[c] = "rename" =>
                        dir'[Tmp(k)] # 0 /\ data'[dir'[Tmp(k)]] = Data(v)
                 /\ pc'[c] \in {"keyOpen", "keyWrite", "unlock", "return"} =>
                        dir'[Bin(k)] # 0 /\ data'[dir'[Bin(k)]] = Data(v)
                 /\ pc'[c] = "keyWrite" => fd'[c] = dir'[Sidecar(k)] /\ data'[fd'[c]] = <<>>
                 /\ pc'[c] \in {"unlock", "return"} =>
                        dir'[Sidecar(k)] # 0 /\ data'[dir'[Sidecar(k)]] = NameOf(k)
    BY <1>1, <1>3, <1>5 DEF AloneSound, Stored, Named, FS!Exists, FS!Contents
  <1>7. /\ ~ret[c].err
        /\ pc[c] = "write" => fd[c] = dir[Tmp(k)] /\ data[fd[c]] = <<>>
        /\ pc[c] = "rename" => dir[Tmp(k)] # 0 /\ data[dir[Tmp(k)]] = Data(v)
        /\ pc[c] \in {"keyOpen", "keyWrite", "unlock", "return"} =>
               dir[Bin(k)] # 0 /\ data[dir[Bin(k)]] = Data(v)
        /\ pc[c] = "keyWrite" => fd[c] = dir[Sidecar(k)] /\ data[fd[c]] = <<>>
        /\ pc[c] \in {"unlock", "return"} =>
               dir[Sidecar(k)] # 0 /\ data[dir[Sidecar(k)]] = NameOf(k)
    BY <1>2, <1>3 DEF AloneSound, Stored, Named, FS!Exists, FS!Contents
  <1>8. CASE Acquire(c)
    <2>1. pc'[c] = "open" /\ ret' = ret
      BY <1>8 DEF Acquire, Goto
    <2>2. QED
      BY <1>7, <2>1
  <1>9. CASE OpenTmp(c)
    <2>1. pc'[c] = "write" /\ ret' = ret /\ FS!OpenTrunc(c, Tmp(k))
      BY <1>3, <1>9 DEF OpenTmp, Goto
    <2>2. fd'[c] = dir'[Tmp(k)] /\ data'[dir'[Tmp(k)]] = <<>>
      BY <2>1, <1>4, OpenTruncFacts
    <2>3. QED
      BY <1>7, <2>1, <2>2
  <1>10. CASE WriteTmp(c)
    <2>1. pc[c] = "write" /\ pc'[c] = "rename" /\ ret' = ret /\ FS!WriteClose(c, Data(v))
      BY <1>3, <1>10 DEF WriteTmp, Goto
    <2>2. fd[c] # 0 /\ fd[c] = dir[Tmp(k)] /\ data[fd[c]] = <<>> /\ Data(v) \in Seq(Bytes)
      BY <1>7, <2>1, BytesAre DEF Opened
    <2>3. dir' = dir /\ data'[dir[Tmp(k)]] = FS!Overlay(Data(v), data[fd[c]])
      BY <1>4, <2>1, <2>2, WriteCloseFacts
    <2>4. FS!Overlay(Data(v), <<>>) = Data(v)
      BY <2>2, OverlayFacts
    <2>5. QED
      BY <1>7, <2>1, <2>2, <2>3, <2>4
  <1>11. CASE RenameTmp(c)
    <2>1. pc[c] = "rename" /\ pc'[c] = "keyOpen" /\ ret' = ret /\ FS!Rename(Tmp(k), Bin(k))
      BY <1>3, <1>11 DEF RenameTmp, Goto
    <2>2. dir[Tmp(k)] # 0 /\ data[dir[Tmp(k)]] = Data(v)
      BY <1>7, <2>1
    <2>3. dir'[Bin(k)] = dir[Tmp(k)] /\ data'[dir[Tmp(k)]] = data[dir[Tmp(k)]]
      BY <1>4, <2>1, <2>2, RenameFacts
    <2>4. QED
      BY <1>7, <2>1, <2>2, <2>3
  <1>12. CASE RenameFails(c)
    BY <1>3, <1>7, <1>12 DEF RenameFails, Goto, FS!Exists
  <1>13. CASE OpenSidecar(c)
    <2>1. pc[c] = "keyOpen" /\ pc'[c] = "keyWrite" /\ ret' = ret /\ FS!OpenTrunc(c, Sidecar(k))
      BY <1>3, <1>13 DEF OpenSidecar, Goto
    <2>2. /\ fd'[c] = dir'[Sidecar(k)] /\ data'[dir'[Sidecar(k)]] = <<>>
          /\ NamesKeep(Names \ {Sidecar(k)})
      BY <2>1, <1>4, OpenTruncFacts
    <2>3. dir'[Bin(k)] = dir[Bin(k)] /\ data'[dir[Bin(k)]] = data[dir[Bin(k)]]
      BY <1>4, <1>7, <2>1, <2>2 DEF NamesKeep
    <2>4. QED
      BY <1>7, <2>1, <2>2, <2>3
  <1>14. CASE WriteSidecar(c)
    <2>1. pc[c] = "keyWrite" /\ pc'[c] = "unlock" /\ ret' = ret /\ FS!WriteClose(c, NameOf(k))
      BY <1>3, <1>14 DEF WriteSidecar, Goto
    <2>2. fd[c] # 0 /\ fd[c] = dir[Sidecar(k)] /\ data[fd[c]] = <<>> /\ NameOf(k) \in Seq(Bytes)
          /\ dir[Bin(k)] # 0 /\ data[dir[Bin(k)]] = Data(v)
      BY <1>7, <2>1, BytesAre DEF Opened
    <2>3. dir[Bin(k)] # fd[c]
      BY <1>4, <2>2 DEF Files, Distinct
    <2>4. /\ dir' = dir /\ data'[dir[Sidecar(k)]] = FS!Overlay(NameOf(k), data[fd[c]])
          /\ data'[dir[Bin(k)]] = data[dir[Bin(k)]]
      BY <1>4, <2>1, <2>2, <2>3, WriteCloseFacts
    <2>5. FS!Overlay(NameOf(k), <<>>) = NameOf(k)
      BY <2>2, OverlayFacts
    <2>6. QED
      BY <1>7, <2>1, <2>2, <2>4, <2>5
  <1>15. CASE Release(c)
    <2>1. UNCHANGED <<dir, data, fd, ret>> /\ pc[c] = "unlock" /\ pc'[c] = "return"
      BY <1>15 DEF Release, Goto
    <2>2. QED
      BY <1>7, <2>1
  <1>16. QED
    BY <1>8, <1>9, <1>10, <1>11, <1>12, <1>13, <1>14, <1>15

LEMMA StepKeepsSolo == SoloInv /\ [Next]_vars => SoloInv'
  <1> SUFFICES ASSUME SoloInv, [Next]_vars PROVE SoloInv'
    OBVIOUS
  <1> USE DEF SoloInv
  <1>1. TypeInv'
    BY StepKeepsType
  <1>2. CASE UNCHANGED vars
    <2>1. UNCHANGED <<dir, data, fd, pc, call, ret, alone>>
      BY <1>2 DEF vars, callVars, history
    <2>2. QED
      BY <1>1, <2>1 DEF AloneSound, Stored, Named, FS!Exists, FS!Contents
  <1>3. ASSUME NEW c \in Callers, pc[c] # "idle", NEW a \in alone PROVE a = c
    BY <1>3, Typed DEF AloneSound
  <1>4f. ASSUME NEW c \in Callers, Fails(c), NEW a \in alone' PROVE AloneSound(a)'
    <2>1. pc[c] # "idle" /\ alone' = alone \ {c}
      BY <1>4f, FailFacts DEF FailPoints
    <2>2. QED
      BY <1>3, <1>4f, <2>1
  <1>4. ASSUME NEW c \in Callers, PutStep(c), NEW a \in alone' PROVE AloneSound(a)'
    <2>1. CASE \E k \in Keys, v \in Values : CallPut(c, k, v)
      BY <1>4, <2>1, BeginAlone
    <2>2. CASE \/ Acquire(c) \/ OpenTmp(c) \/ WriteTmp(c) \/ RenameTmp(c) \/ RenameFails(c)
               \/ OpenSidecar(c) \/ WriteSidecar(c) \/ Release(c)
      <3>1. pc[c] # "idle" /\ alone' = alone
        BY <2>2 DEF Acquire, OpenTmp, WriteTmp, RenameTmp, RenameFails, OpenSidecar, WriteSidecar,
                    Release, Goto, history
      <3>2. a = c
        BY <1>3, <1>4, <3>1
      <3>3. QED
        BY <1>4, <2>2, <3>1, <3>2, PutAlone
    <2>3. QED
      BY <1>4, <1>4f, <2>1, <2>2 DEF PutStep, Fails
  <1>5. ASSUME NEW c \in Callers, DeleteStep(c) \/ ReadStep(c), NEW a \in alone'
        PROVE  AloneSound(a)'
    <2>1. CASE (\E k \in Keys : CallDelete(c, k) \/ CallGet(c, k)) \/ CallKeys(c)
      BY <1>5, <2>1, BeginAlone
    <2>2. CASE \/ RemoveBin(c) \/ RemoveSidecar(c) \/ GetMissing(c) \/ GetOpen(c) \/ GetRead(c)
               \/ ReadDir(c) \/ KeysDone(c) \/ \E k \in Keys : ReadEntry(c, k)
      <3>1. /\ pc[c] \in {"delBin", "delKey", "getOpen", "getRead", "list", "entry"}
            /\ \E to \in {"delKey", "return", "getRead", "entry"} : pc' = [pc EXCEPT ![c] = to]
            /\ call' = call /\ alone' = alone
        BY <2>2 DEF RemoveBin, RemoveSidecar, GetMissing, GetOpen, GetRead, ReadDir, KeysDone,
                    ReadEntry, Goto, history
      <3>2. a = c /\ c \in alone
        BY <1>3, <1>5, <3>1
      <3>3. call[c].op # "put"
        BY <3>1, Typed DEF CallSound
      <3>4. pc'[c] # "idle" /\ \A d \in Callers \ {c} : pc'[d] = pc[d]
        BY <3>1, Typed
      <3>5. QED
        BY <3>1, <3>2, <3>3, <3>4 DEF AloneSound
    <2>3. QED
      BY <1>4f, <1>5, <2>1, <2>2 DEF DeleteStep, ReadStep, Fails
  <1>6. ASSUME NEW c \in Callers, Return(c), NEW a \in alone' PROVE AloneSound(a)'
    <2>1. pc[c] # "idle" /\ alone' = alone \ {c}
      BY <1>6 DEF Return, Goto
    <2>2. QED
      BY <1>3, <1>6, <2>1
  <1>7. ASSUME NEW h \in Mortal, Crash(h), NEW a \in alone' PROVE AloneSound(a)'
    <2>1. PICK c \in Callers : HandleOf[c] = h /\ pc[c] # "idle"
      BY <1>7 DEF Crash
    <2>2. alone' = alone \ {d \in Callers : HandleOf[d] = h}
      BY <1>7 DEF Crash
    <2>3. QED
      BY <1>3, <1>7, <2>1, <2>2
  <1>8. CASE Next
    BY <1>1, <1>4, <1>5, <1>6, <1>7, <1>8 DEF Next
  <1>9. QED
    BY <1>2, <1>8

\* Put (fsstore.go) whichever store objects share the directory and whatever
\* overlapping Puts, Deletes, failed writes and crashes left in it: one that no
\* other call overlaps and no file operation fails returns no error, and leaves
\* its value and its sidecar.
THEOREM SoloPut == Spec => []SoloPutStores
  <1>1. Init => SoloInv
    BY InitType DEF Init, SoloInv
  <1>2. SoloInv => SoloPutStores
    <2> SUFFICES ASSUME SoloInv, NEW c \in alone, pc[c] = "return", call[c].op = "put"
                 PROVE  ~ret[c].err /\ Stored(call[c].key, call[c].value) /\ Named(call[c].key)
      BY DEF SoloPutStores, Stored, Named
    <2>1. QED
      BY DEF SoloInv, AloneSound
  <1>3. QED
    BY <1>1, <1>2, StepKeepsSolo, PTL DEF Spec

--------------------------------------------------------------------------------
(* One store object: the steps that hold its mutex.                        *)

LEMMA StoreFacts ==
    ASSUME StoreInv
    PROVE  /\ TypeInv /\ LockSound /\ ValuesIntact /\ SettledSound
           /\ \A c \in Callers : PutSound(c) /\ GetSound(c) /\ ListSound(c)
  BY DEF StoreInv

LEMMA OneHolder ==
    ASSUME OneStore, StoreInv, NEW c \in Callers, NEW d \in Callers,
           pc[c] \in Holding, pc[d] \in Holding
    PROVE  c = d
  BY DEF OneStore, StoreInv, LockSound

\* Who runs a call on a key, after a step of c.
LEMMA RunningAfter ==
    ASSUME NEW c \in Callers, OnlyMoves(c), NEW op \in {"put", "delete"}, NEW k \in Keys
    PROVE  /\ Running(op, k)' \subseteq Running(op, k) \cup {c}
           /\ Running(op, k) \subseteq Running(op, k)' \cup {c}
  BY DEF OnlyMoves, Running

\* A step under the mutex disturbs no other Put, and neither the Gets nor the
\* sidecars of other keys if it keeps their files.
LEMMA HolderStep ==
    ASSUME OneStore, StoreInv, TypeInv', NEW c \in Callers, NEW to \in Holding,
           pc[c] \in Holding, pc' = [pc EXCEPT ![c] = to],
           UNCHANGED <<lock, call, todo, settled, disturbed, owed>>,
           \A d \in Callers \ {c} : ret'[d] = ret[d],
           PutSound(c)', ValuesIntact',
           \A d \in Callers \ {c} : fd'[d] = fd[d],
           \A d \in Callers \ {c} : pc[d] = "getRead" =>
               /\ data'[fd[d]] = data[fd[d]]
               /\ \A k \in Keys : fd[d] # dir'[Tmp(k)] /\ fd[d] # dir'[Sidecar(k)],
           NamesKeep({Sidecar(k) : k \in Keys \ {call[c].key}})
    PROVE  StoreInv'
  <1> USE StoreFacts, Typed
  <1>1. /\ UNCHANGED <<lock, call, todo, settled, disturbed, owed>>
        /\ pc'[c] = to /\ \A d \in Callers \ {c} : pc'[d] = pc[d]
        /\ to \notin {"getRead", "return", "lock", "list", "entry"}
        /\ pc[c] \notin {"return", "list", "entry"}
    BY DEF Holding
  <1>2. \A d \in Callers \ {c} : pc[d] \notin Holding
    BY OneHolder
  <1>3. call[c].op = "put" /\ call[c].key \in Keys /\ call[c] # None
    BY Arguments DEF CallSound, Holding
  <1>4. \A op \in {"put", "delete"}, k \in Keys : Running(op, k)' = Running(op, k)
    BY <1>1 DEF Running
  <1>5. LockSound'
    BY <1>1, <1>2 DEF LockSound
  <1>6. ASSUME NEW d \in Callers \ {c} PROVE PutSound(d)'
    <2>1. pc'[d] \notin Holding
      BY <1>1, <1>2
    <2>2. pc[d] = "lock" => call[d].key \in Keys
      BY Arguments DEF CallSound
    <2>3. (pc'[d] = "lock" /\ d \notin disturbed') => Running("delete", call[d].key)' = {}
      <3> SUFFICES ASSUME pc[d] = "lock", d \notin disturbed
                   PROVE  Running("delete", call[d].key)' = {}
        BY <1>1
      <3>1. PICK j \in Keys : j = call[d].key
        BY <2>2
      <3>2. Running("delete", j) = {}
        BY <3>1 DEF PutSound
      <3>3. Running("delete", j)' = {} /\ call'[d].key = j
        BY <1>1, <1>4, <3>1, <3>2
      <3>4. QED
        BY <3>3
    <2>4. QED
      BY <1>1, <2>1, <2>3 DEF PutSound, Holding
  <1>7. ASSUME NEW d \in Callers PROVE GetSound(d)'
    <2>1. CASE d = c
      BY <1>1, <2>1 DEF GetSound
    <2>2. CASE d # c
      BY <1>1, <2>2 DEF GetSound
    <2>3. QED
      BY <2>1, <2>2
  <1>8. ASSUME NEW d \in Callers PROVE ListSound(d)'
    <2>1. CASE d = c
      BY <1>1, <2>1 DEF ListSound
    <2>2. CASE d # c
      BY <1>1, <2>2 DEF ListSound
    <2>3. QED
      BY <2>1, <2>2
  <1>9. SettledSound'
    <2>1. c \in Running("put", call[c].key)
      BY <1>1, <1>3 DEF Running
    <2>2. ASSUME NEW k \in settled PROVE Named(k)'
      <3>1. k \in Keys \ {call[c].key} /\ Named(k)
        BY <2>1, <2>2 DEF SettledSound
      <3>2. dir'[Sidecar(k)] = dir[Sidecar(k)]
            /\ (dir[Sidecar(k)] # 0 => data'[dir[Sidecar(k)]] = data[dir[Sidecar(k)]])
        BY <3>1 DEF NamesKeep
      <3>3. QED
        BY <3>1, <3>2 DEF Named, FS!Exists, FS!Contents
    <2>3. QED
      BY <1>1, <1>4, <2>2 DEF SettledSound
  <1>10. QED
    BY <1>5, <1>6, <1>7, <1>8, <1>9 DEF StoreInv

LEMMA HolderKeepsInv ==
    ASSUME OneStore, StoreInv, NEW c \in Callers,
           OpenTmp(c) \/ WriteTmp(c) \/ RenameTmp(c) \/ RenameFails(c) \/ OpenSidecar(c)
               \/ WriteSidecar(c)
    PROVE  StoreInv'
  <1> USE StoreFacts, Typed, NamesAre
  <1>1. /\ call' = call /\ pc[c] \in Holding /\ pc[c] # "idle"
    BY DEF OpenTmp, WriteTmp, RenameTmp, RenameFails, OpenSidecar, WriteSidecar, Goto, Holding
  <1>2. PICK k \in Keys, v \in Values : k = call[c].key /\ v = call[c].value
    BY <1>1, Arguments DEF CallSound
  <1>3. TypeInv'
    BY PutKeepsType
  <1>4. ~RenameFails(c)
    BY DEF RenameFails, Goto, PutSound
  <1>5. \E to \in Holding : pc' = [pc EXCEPT ![c] = to]
    BY <1>4 DEF OpenTmp, WriteTmp, RenameTmp, OpenSidecar, WriteSidecar, Goto, Holding
  <1>6. UNCHANGED <<lock, call, ret, todo, settled, disturbed, owed>>
    BY <1>4 DEF OpenTmp, WriteTmp, RenameTmp, OpenSidecar, WriteSidecar, history
  <1>7. /\ call'[c].key = k /\ call'[c].value = v /\ call[c] # None /\ call[c].op = "put"
        /\ UNCHANGED <<disturbed, ret>>
    BY <1>1, <1>2, <1>6, Arguments DEF CallSound
  <1>8. c \notin disturbed' => Running("delete", k)' = {}
    <2>1. Running("delete", k)' = Running("delete", k)
      <3>1. \A d \in Callers \ {c} : pc'[d] = pc[d]
        BY <1>5
      <3>2. QED
        BY <1>1, <1>7, <3>1 DEF Running
    <2>2. QED
      BY <1>1, <1>2, <1>7, <2>1 DEF PutSound
  <1>9. ASSUME NEW d \in Callers \ {c}, fd[d] # 0 PROVE pc[d] = "getRead"
    BY <1>1, <1>9, OneHolder DEF Opened, Holding
  <1>10. CASE OpenTmp(c)
    <2>1. pc'[c] = "write" /\ FS!OpenTrunc(c, Tmp(k))
      BY <1>2, <1>10 DEF OpenTmp, Goto
    <2>2. /\ NamesKeep(Names \ {Tmp(k)})
          /\ dir'[Tmp(k)] # 0 /\ fd'[c] = dir'[Tmp(k)] /\ data'[dir'[Tmp(k)]] = <<>>
          /\ \A d \in Callers \ {c} :
                 /\ fd'[d] = fd[d]
                 /\ fd[d] # 0 /\ fd[d] # dir[Tmp(k)] =>
                        data'[fd[d]] = data[fd[d]] /\ fd[d] # dir'[Tmp(k)]
      BY <2>1, OpenTruncFacts
    <2>3. PutSound(c)'
      BY <1>7, <1>8, <2>1, <2>2 DEF PutSound
    <2>4. ValuesIntact'
      BY <2>2 DEF ValuesIntact, NamesKeep, FS!Exists, FS!Contents
    <2>5. ASSUME NEW d \in Callers \ {c}, pc[d] = "getRead"
          PROVE  /\ data'[fd[d]] = data[fd[d]]
                 /\ \A j \in Keys : fd[d] # dir'[Tmp(j)] /\ fd[d] # dir'[Sidecar(j)]
      <3>1. fd[d] # 0 /\ \A j \in Keys : fd[d] # dir[Tmp(j)] /\ fd[d] # dir[Sidecar(j)]
        BY <2>5 DEF GetSound, Opened
      <3>2. \A n \in Names \ {Tmp(k)} : dir'[n] = dir[n]
        BY <2>2 DEF NamesKeep
      <3>3. QED
        BY <2>2, <3>1, <3>2
    <2>6. NamesKeep({Sidecar(j) : j \in Keys \ {call[c].key}})
      BY <2>2 DEF NamesKeep
    <2>7. QED
      BY <1>1, <1>3, <1>5, <1>6, <2>2, <2>3, <2>4, <2>5, <2>6, HolderStep
  <1>11. CASE WriteTmp(c)
    <2>1. pc[c] = "write" /\ pc'[c] = "rename" /\ FS!WriteClose(c, Data(v))
      BY <1>2, <1>11 DEF WriteTmp, Goto
    <2>2. fd[c] # 0 /\ fd[c] = dir[Tmp(k)] /\ data[fd[c]] = <<>> /\ Data(v) \in Seq(Bytes)
      BY <1>2, <2>1, BytesAre DEF PutSound, Opened
    <2>3. FS!Overlay(Data(v), <<>>) = Data(v)
      BY <2>2, OverlayFacts
    <2>4. /\ dir' = dir
          /\ \A n \in Names : dir[n] # 0 =>
                 data'[dir[n]] = IF dir[n] = fd[c] THEN Data(v) ELSE data[dir[n]]
          /\ \A d \in Callers \ {c} :
                 /\ fd'[d] = fd[d]
                 /\ fd[d] # 0 /\ fd[d] # fd[c] => data'[fd[d]] = data[fd[d]]
      BY <2>1, <2>2, <2>3, WriteCloseFacts
    <2>5. \A n \in Names \ {Tmp(k)} : dir[n] # fd[c]
      BY <2>2 DEF Files, Distinct
    <2>6. PutSound(c)'
      <3>1. FS!Exists(Tmp(k))' /\ FS!Contents(Tmp(k))' = Data(v)
        BY <2>2, <2>4 DEF FS!Exists, FS!Contents
      <3>2. QED
        BY <1>7, <1>8, <2>1, <3>1 DEF PutSound
    <2>7. ValuesIntact'
      BY <2>4, <2>5 DEF ValuesIntact, FS!Exists, FS!Contents
    <2>8. ASSUME NEW d \in Callers \ {c}, pc[d] = "getRead"
          PROVE  /\ data'[fd[d]] = data[fd[d]]
                 /\ \A j \in Keys : fd[d] # dir'[Tmp(j)] /\ fd[d] # dir'[Sidecar(j)]
      BY <2>2, <2>4, <2>8 DEF GetSound, Opened
    <2>9. NamesKeep({Sidecar(j) : j \in Keys \ {call[c].key}})
      BY <2>4, <2>5 DEF NamesKeep
    <2>10. QED
      BY <1>1, <1>3, <1>5, <1>6, <2>4, <2>6, <2>7, <2>8, <2>9, HolderStep
  <1>12. CASE RenameTmp(c)
    <2>1. pc[c] = "rename" /\ pc'[c] = "keyOpen" /\ FS!Rename(Tmp(k), Bin(k))
      BY <1>2, <1>12 DEF RenameTmp, Goto
    <2>2. dir[Tmp(k)] # 0 /\ data[dir[Tmp(k)]] = Data(v)
      BY <1>2, <2>1 DEF PutSound, FS!Exists, FS!Contents
    <2>3. /\ NamesKeep(Names \ {Tmp(k), Bin(k)})
          /\ dir'[Tmp(k)] = 0 /\ dir'[Bin(k)] = dir[Tmp(k)]
          /\ data'[dir[Tmp(k)]] = data[dir[Tmp(k)]]
          /\ \A d \in Callers : fd'[d] = fd[d] /\ (fd[d] # 0 => data'[fd[d]] = data[fd[d]])
      BY <2>1, <2>2, RenameFacts
    <2>4. PutSound(c)'
      BY <1>7, <1>8, <2>1 DEF PutSound
    <2>5. ValuesIntact'
      <3>1. ASSUME NEW j \in Keys, dir'[Bin(j)] # 0 PROVE Intact(data'[dir'[Bin(j)]])
        <4>1. CASE j = k
          BY <2>2, <2>3, <4>1 DEF Intact
        <4>2. CASE j # k
          <5>1. dir'[Bin(j)] = dir[Bin(j)] /\ data'[dir[Bin(j)]] = data[dir[Bin(j)]]
            BY <2>3, <3>1, <4>2 DEF NamesKeep
          <5>2. QED
            BY <3>1, <5>1 DEF ValuesIntact, FS!Exists, FS!Contents
        <4>3. QED
          BY <4>1, <4>2
      <3>2. QED
        BY <3>1 DEF ValuesIntact, FS!Exists, FS!Contents, Intact
    <2>6. ASSUME NEW d \in Callers \ {c}, pc[d] = "getRead"
          PROVE  /\ data'[fd[d]] = data[fd[d]]
                 /\ \A j \in Keys : fd[d] # dir'[Tmp(j)] /\ fd[d] # dir'[Sidecar(j)]
      <3>1. fd[d] # 0 /\ \A j \in Keys : fd[d] # dir[Tmp(j)] /\ fd[d] # dir[Sidecar(j)]
        BY <2>6 DEF GetSound, Opened
      <3>2. \A n \in Names \ {Tmp(k), Bin(k)} : dir'[n] = dir[n]
        BY <2>3 DEF NamesKeep
      <3>3. QED
        BY <2>3, <3>1, <3>2
    <2>7. NamesKeep({Sidecar(j) : j \in Keys \ {call[c].key}})
      BY <2>3 DEF NamesKeep
    <2>8. QED
      BY <1>1, <1>3, <1>5, <1>6, <2>3, <2>4, <2>5, <2>6, <2>7, HolderStep
  <1>13. CASE OpenSidecar(c)
    <2>1. pc'[c] = "keyWrite" /\ FS!OpenTrunc(c, Sidecar(k))
      BY <1>2, <1>13 DEF OpenSidecar, Goto
    <2>2. /\ NamesKeep(Names \ {Sidecar(k)})
          /\ dir'[Sidecar(k)] # 0 /\ fd'[c] = dir'[Sidecar(k)] /\ data'[dir'[Sidecar(k)]] = <<>>
          /\ \A n \in Names \ {Sidecar(k)} : dir[n] # dir'[Sidecar(k)]
          /\ \A d \in Callers \ {c} :
                 /\ fd'[d] = fd[d]
                 /\ fd[d] # 0 /\ fd[d] # dir[Sidecar(k)] =>
                        data'[fd[d]] = data[fd[d]] /\ fd[d] # dir'[Sidecar(k)]
      BY <2>1, Sidecar(k) \in Names, OpenTruncFacts, Zenon
    <2>3. \A n \in Names \ {Sidecar(k)} : dir'[n] = dir[n]
      BY <2>2 DEF NamesKeep
    <2>4. ASSUME NEW d \in Callers \ {c}, pc[d] = "getRead"
          PROVE  /\ data'[fd[d]] = data[fd[d]]
                 /\ \A j \in Keys : fd[d] # dir'[Tmp(j)] /\ fd[d] # dir'[Sidecar(j)]
      <3>1. fd[d] # 0 /\ \A j \in Keys : fd[d] # dir[Tmp(j)] /\ fd[d] # dir[Sidecar(j)]
        BY <2>4 DEF GetSound, Opened
      <3>2. QED
        BY <2>2, <2>3, <3>1
    <2>5. PutSound(c)'
      <3>1. \A d \in Callers \ {c} : fd'[d] # fd'[c]
        BY <1>9, <2>2, <2>4
      <3>2. QED
        BY <1>7, <1>8, <2>1, <2>2, <2>3, <3>1 DEF PutSound
    <2>6. ValuesIntact'
      BY <2>2 DEF ValuesIntact, NamesKeep, FS!Exists, FS!Contents
    <2>7. NamesKeep({Sidecar(j) : j \in Keys \ {call[c].key}})
      BY <1>2, <2>2 DEF NamesKeep
    <2>8. QED
      BY <1>1, <1>3, <1>5, <1>6, <2>2, <2>4, <2>5, <2>6, <2>7, HolderStep
  <1>14. CASE WriteSidecar(c)
    <2>1. pc[c] = "keyWrite" /\ pc'[c] = "unlock" /\ FS!WriteClose(c, NameOf(k))
      BY <1>2, <1>14 DEF WriteSidecar, Goto
    <2>2. /\ fd[c] # 0 /\ data[fd[c]] = <<>> /\ NameOf(k) \in Seq(Bytes)
          /\ \A n \in Names \ {Sidecar(k)} : dir[n] # fd[c]
          /\ c \notin disturbed => dir[Sidecar(k)] = fd[c]
          /\ \A d \in Callers \ {c} : fd[d] # fd[c]
      BY <1>2, <2>1, BytesAre DEF PutSound, Opened
    <2>3. FS!Overlay(NameOf(k), <<>>) = NameOf(k)
      BY <2>2, OverlayFacts
    <2>4. /\ dir' = dir
          /\ \A n \in Names : dir[n] # 0 =>
                 data'[dir[n]] = IF dir[n] = fd[c] THEN NameOf(k) ELSE data[dir[n]]
          /\ \A d \in Callers \ {c} :
                 /\ fd'[d] = fd[d]
                 /\ fd[d] # 0 /\ fd[d] # fd[c] => data'[fd[d]] = data[fd[d]]
      BY <2>1, <2>2, <2>3, WriteCloseFacts
    <2>5. PutSound(c)'
      <3>1. c \notin disturbed => Named(k)'
        BY <2>2, <2>4 DEF Named, FS!Exists, FS!Contents
      <3>2. QED
        BY <1>7, <1>8, <2>1, <3>1 DEF PutSound
    <2>6. ValuesIntact'
      <3>1. ASSUME NEW j \in Keys, dir[Bin(j)] # 0 PROVE data'[dir[Bin(j)]] = data[dir[Bin(j)]]
        <4>1. Bin(j) \in Names \ {Sidecar(k)}
          OBVIOUS
        <4>2. QED
          BY <2>2, <2>4, <3>1, <4>1
      <3>2. QED
        BY <2>4, <3>1 DEF ValuesIntact, FS!Exists, FS!Contents, Intact
    <2>7. ASSUME NEW d \in Callers \ {c}, pc[d] = "getRead"
          PROVE  /\ data'[fd[d]] = data[fd[d]]
                 /\ \A j \in Keys : fd[d] # dir'[Tmp(j)] /\ fd[d] # dir'[Sidecar(j)]
      BY <2>2, <2>4, <2>7 DEF GetSound, Opened
    <2>8. NamesKeep({Sidecar(j) : j \in Keys \ {call[c].key}})
      BY <1>2, <2>2, <2>4 DEF NamesKeep
    <2>9. QED
      BY <1>1, <1>3, <1>5, <1>6, <2>4, <2>5, <2>6, <2>7, <2>8, HolderStep
  <1>15. QED
    BY <1>4, <1>10, <1>11, <1>12, <1>13, <1>14

--------------------------------------------------------------------------------
(* One store object: the other steps.                                      *)

\* A step of c that keeps all files but those that a Delete removes, opens at
\* most a value file for reading, and tells every Put it overlaps of a Delete.
QuietFiles(c, gone) ==
    /\ gone \subseteq Names
    /\ NamesKeep(Names \ gone) /\ \A n \in gone : dir'[n] = 0
    /\ \A n \in gone : \/ \E k \in Keys : n = Bin(k)
                       \/ \E k \in Keys : n = Sidecar(k) /\ c \in Running("delete", k)
    /\ fd'[c] # 0 => \E k \in Keys : fd'[c] = dir[Bin(k)]
    /\ OthersKeep(c)

QuietHistory(c) ==
    /\ \A d \in Callers \ {c} : owed'[d] \subseteq owed[d] /\ owed'[d] \subseteq settled'
    /\ \A d \in Callers \ {c} : pc[d] \in {"lock"} \cup Holding /\ d \notin disturbed' =>
           d \notin disturbed /\ c \notin Running("delete", call[d].key)'
    /\ \A k \in settled' : /\ Named(k)
                           /\ Running("put", k) \subseteq {c} /\ Running("delete", k) = {}
                           /\ c \notin Running("put", k)' /\ c \notin Running("delete", k)'

LEMMA QuietStep ==
    ASSUME StoreInv, TypeInv', NEW c \in Callers, OnlyMoves(c), NEW gone, QuietFiles(c, gone),
           QuietHistory(c), LockSound', PutSound(c)', GetSound(c)', ListSound(c)'
    PROVE  StoreInv'
  <1> USE StoreFacts, Typed, NamesAre
  <1>1. \A n \in Names : dir'[n] \in {dir[n], 0}
    BY DEF QuietFiles, NamesKeep
  <1>2. \A d \in Callers \ {c} : /\ pc'[d] = pc[d] /\ call'[d] = call[d] /\ ret'[d] = ret[d]
                                 /\ todo'[d] = todo[d] /\ fd'[d] = fd[d]
                                 /\ fd[d] # 0 => data'[fd[d]] = data[fd[d]]
    BY DEF OnlyMoves, QuietFiles, OthersKeep
  <1>3. ASSUME NEW d \in Callers \ {c} PROVE PutSound(d)'
    <2>1. CASE pc[d] \notin {"lock"} \cup Holding
      BY <1>2, <2>1 DEF PutSound, Holding
    <2>2. CASE pc[d] \in {"lock"} \cup Holding
      <3>1. pc[d] # "idle"
        BY <2>2 DEF Holding
      <3>2. PICK k \in Keys, v \in Values : k = call[d].key /\ v = call[d].value
        BY <2>2, <3>1, Arguments DEF CallSound
      <3>3. call'[d].key = k /\ call'[d].value = v
        BY <1>2, <3>2
      <3>4. /\ pc[d] = "write" => fd[d] = dir[Tmp(k)] /\ data[fd[d]] = <<>>
            /\ pc[d] = "rename" => dir[Tmp(k)] # 0 /\ data[dir[Tmp(k)]] = Data(v)
            /\ pc[d] = "keyWrite" =>
                   /\ data[fd[d]] = <<>>
                   /\ \A n \in Names \ {Sidecar(k)} : dir[n] # fd[d]
                   /\ dir[Sidecar(k)] \in {0, fd[d]}
                   /\ d \notin disturbed => dir[Sidecar(k)] = fd[d]
                   /\ \A e \in Callers \ {d} : fd[e] # fd[d]
            /\ pc[d] = "unlock" /\ ~ret[d].err /\ d \notin disturbed => Named(k)
            /\ d \notin disturbed => Running("delete", k) = {}
        BY <2>2, <3>2 DEF PutSound, FS!Exists, FS!Contents
      <3>5. Tmp(k) \notin gone
        BY DEF QuietFiles
      <3>6. dir'[Tmp(k)] = dir[Tmp(k)]
            /\ (dir[Tmp(k)] # 0 => data'[dir[Tmp(k)]] = data[dir[Tmp(k)]])
        BY <3>5 DEF QuietFiles, NamesKeep
      <3>7. d \notin disturbed' => d \notin disturbed /\ c \notin Running("delete", k)'
        BY <2>2, <3>2, <3>3 DEF QuietHistory
      <3>8. d \notin disturbed' => Running("delete", k)' = {}
        <4>1. Running("delete", k)' \subseteq Running("delete", k) \cup {c}
          BY RunningAfter
        <4>2. QED
          BY <3>4, <3>7, <4>1
      <3>9. d \notin disturbed' => Sidecar(k) \notin gone
        BY <3>4, <3>7 DEF QuietFiles
      <3>10. d \notin disturbed' =>
                 dir'[Sidecar(k)] = dir[Sidecar(k)]
                 /\ (dir[Sidecar(k)] # 0 => data'[dir[Sidecar(k)]] = data[dir[Sidecar(k)]])
        BY <3>9 DEF QuietFiles, NamesKeep
      <3>11. pc[d] = "keyWrite" =>
                 /\ data'[fd[d]] = <<>>
                 /\ \A n \in Names \ {Sidecar(k)} : dir'[n] # fd[d]
                 /\ dir'[Sidecar(k)] \in {0, fd[d]}
                 /\ d \notin disturbed' => dir'[Sidecar(k)] = fd[d]
                 /\ \A e \in Callers \ {d} : fd'[e] # fd[d]
        <4> SUFFICES ASSUME pc[d] = "keyWrite"
                     PROVE  /\ data'[fd[d]] = <<>>
                            /\ \A n \in Names \ {Sidecar(k)} : dir'[n] # fd[d]
                            /\ dir'[Sidecar(k)] \in {0, fd[d]}
                            /\ d \notin disturbed' => dir'[Sidecar(k)] = fd[d]
                            /\ \A e \in Callers \ {d} : fd'[e] # fd[d]
          OBVIOUS
        <4>1. fd[d] # 0
          BY DEF Opened
        <4>2. fd'[c] # fd[d]
          BY <3>4, <4>1 DEF QuietFiles
        <4>3. QED
          BY <1>1, <1>2, <3>4, <3>7, <3>10, <4>1, <4>2
      <3>12. pc[d] = "write" => fd[d] # 0
        BY DEF Opened
      <3>13. pc[d] = "unlock" /\ ~ret[d].err /\ d \notin disturbed' => Named(k)'
        BY <3>4, <3>7, <3>10 DEF Named, FS!Exists, FS!Contents
      <3>14. QED
        BY <1>2, <3>3, <3>4, <3>6, <3>8, <3>11, <3>12, <3>13 DEF PutSound, FS!Exists, FS!Contents
    <2>3. QED
      BY <2>1, <2>2
  <1>4. ASSUME NEW d \in Callers \ {c} PROVE GetSound(d)'
    BY <1>1, <1>2 DEF GetSound, Opened
  <1>5. ASSUME NEW d \in Callers \ {c} PROVE ListSound(d)'
    BY <1>2 DEF ListSound, QuietHistory
  <1>6. ValuesIntact'
    BY DEF ValuesIntact, FS!Exists, FS!Contents, QuietFiles, NamesKeep
  <1>7. SettledSound'
    <2>1. ASSUME NEW k \in settled'
          PROVE  Named(k)' /\ Running("put", k)' = {} /\ Running("delete", k)' = {}
      <3>1. k \in Keys
        BY <2>1 DEF TypeInv, TypeOK
      <3>2. Sidecar(k) \notin gone
        BY <2>1, <3>1 DEF QuietFiles, QuietHistory
      <3>3. Named(k)'
        BY <2>1, <3>1, <3>2 DEF QuietFiles, QuietHistory, NamesKeep, Named, FS!Exists, FS!Contents
      <3>4. QED
        <4>1. /\ Running("put", k)' \subseteq Running("put", k) \cup {c}
              /\ Running("delete", k)' \subseteq Running("delete", k) \cup {c}
          BY <3>1, RunningAfter
        <4>2. QED
          BY <2>1, <3>3, <4>1 DEF QuietHistory
    <2>2. QED
      BY <2>1 DEF SettledSound
  <1>8. QED
    BY <1>3, <1>4, <1>5, <1>6, <1>7 DEF StoreInv

\* A step outside Put leaves the mutex to who holds it.
LEMMA LockKept ==
    ASSUME StoreInv, NEW c \in Callers, OnlyMoves(c), lock' = lock, pc'[c] \notin Holding
    PROVE  LockSound'
  BY DEF StoreInv, LockSound, OnlyMoves

\* The bookkeeping of a step that begins no call and ends no Put.
LEMMA HistoryKept ==
    ASSUME StoreInv, NEW c \in Callers, OnlyMoves(c), UNCHANGED <<settled, disturbed>>,
           call' = call, pc[c] # "idle", pc[c] # "return",
           \A d \in Callers \ {c} : owed'[d] = owed[d]
    PROVE  QuietHistory(c)
  <1> USE StoreFacts, Typed
  <1>1. \A op \in {"put", "delete"}, k \in Keys : c \in Running(op, k)' => c \in Running(op, k)
    BY DEF Running
  <1>2. ASSUME NEW d \in Callers \ {c}, pc[d] \in {"lock"} \cup Holding, d \notin disturbed'
        PROVE  d \notin disturbed /\ c \notin Running("delete", call[d].key)'
    <2>1. pc[d] # "idle"
      BY <1>2 DEF Holding
    <2>2. PICK k \in Keys : k = call[d].key
      BY <1>2, <2>1, Arguments DEF CallSound
    <2>3. d \notin disturbed /\ Running("delete", k) = {}
      BY <1>2, <2>2 DEF PutSound
    <2>4. c \notin Running("delete", k)'
      BY <1>1, <2>3
    <2>5. call'[d].key = k
      BY <2>2
    <2>6. QED
      BY <2>3, <2>4, <2>5
  <1>3. \A k \in settled' : /\ Named(k)
                            /\ Running("put", k) \subseteq {c} /\ Running("delete", k) = {}
                            /\ c \notin Running("put", k)' /\ c \notin Running("delete", k)'
    BY <1>1 DEF SettledSound
  <1>4. \A d \in Callers \ {c} : owed'[d] \subseteq owed[d] /\ owed'[d] \subseteq settled'
    BY DEF ListSound
  <1>5. QED
    BY <1>2, <1>3, <1>4 DEF QuietHistory

LEMMA BeginKeepsInv ==
    ASSUME StoreInv, NEW c \in Callers,
           \/ \E k \in Keys, v \in Values : CallPut(c, k, v)
           \/ \E k \in Keys : CallDelete(c, k) \/ CallGet(c, k)
           \/ CallKeys(c)
    PROVE  StoreInv'
  <1> USE StoreFacts, Typed, NamesAre
  <1>1. TypeInv'
    BY CallKeepsType
  <1>2. ASSUME NEW to \in PCs \ {"entry", "return"}, NEW arguments \in Calls,
               Begin(c, to, arguments), to \notin Holding \cup {"getRead"},
               QuietHistory(c), PutSound(c)', ListSound(c)'
        PROVE  StoreInv'
    <2>1. /\ UNCHANGED <<dir, data, fd, lock>> /\ NamesKeep(Names) /\ OnlyMoves(c)
          /\ pc'[c] = to /\ fd[c] = 0
      BY <1>2, BeginFacts
    <2>2. QuietFiles(c, {})
      BY <2>1 DEF QuietFiles, OthersKeep, NamesKeep
    <2>3. LockSound'
      BY <1>2, <2>1, LockKept
    <2>4. GetSound(c)'
      BY <1>2, <2>1 DEF GetSound
    <2>5. QED
      BY <1>1, <1>2, <2>1, <2>2, <2>3, <2>4, QuietStep
  <1>3. \A k \in settled : Named(k) /\ Running("put", k) = {} /\ Running("delete", k) = {}
    BY DEF SettledSound
  <1>4. \A d \in Callers : owed[d] \subseteq settled
    BY DEF ListSound
  <1>5. ASSUME NEW k \in Keys, Unsettle(k)
        PROVE  /\ settled' = settled \ {k}
               /\ \A d \in Callers : owed'[d] \subseteq owed[d] /\ owed'[d] \subseteq settled'
    BY <1>4, <1>5 DEF Unsettle
  <1>6. ASSUME NEW k \in Keys, NEW v \in Values, CallPut(c, k, v) PROVE StoreInv'
    <2> DEFINE arguments == [op |-> "put", key |-> k, value |-> v]
    <2>1. Begin(c, "lock", arguments) /\ arguments \in Calls /\ "lock" \in PCs \ {"entry", "return"}
          /\ "lock" \notin Holding \cup {"getRead"}
      BY <1>6 DEF CallPut, Calls, PCs, Holding
    <2>2. OnlyMoves(c) /\ pc[c] = "idle" /\ pc'[c] = "lock" /\ call'[c] = arguments
      BY <2>1, BeginFacts
    <2>3. /\ settled' = settled \ {k}
          /\ \A d \in Callers : owed'[d] \subseteq owed[d] /\ owed'[d] \subseteq settled'
          /\ disturbed' = IF Running("delete", k) = {} THEN disturbed ELSE disturbed \cup {c}
      BY <1>5, <1>6 DEF CallPut
    <2>4. /\ \A j \in Keys : c \notin Running("delete", j)'
          /\ \A j \in Keys \ {k} : c \notin Running("put", j)'
      BY <2>2 DEF Running
    <2>5. QuietHistory(c)
      <3>1. ASSUME NEW d \in Callers PROVE c \notin Running("delete", call[d].key)'
        BY <2>2 DEF Running
      <3>2. QED
        BY <1>3, <2>3, <2>4, <3>1 DEF QuietHistory
    <2>6. PutSound(c)'
      <3>1. Running("delete", k)' \subseteq Running("delete", k)
        BY <2>2, <2>4, RunningAfter
      <3>2. QED
        BY <2>2, <2>3, <3>1 DEF PutSound, Holding
    <2>7. ListSound(c)'
      <3>1. owed[c] = {}
        BY <2>2 DEF ListSound
      <3>2. QED
        BY <2>2, <2>3, <3>1 DEF ListSound
    <2>8. QED
      BY <1>2, <2>1, <2>5, <2>6, <2>7
  <1>7. ASSUME NEW k \in Keys, CallDelete(c, k) PROVE StoreInv'
    <2> DEFINE arguments == [op |-> "delete", key |-> k]
    <2>1. Begin(c, "delBin", arguments) /\ arguments \in Calls
          /\ "delBin" \in PCs \ {"entry", "return"} /\ "delBin" \notin Holding \cup {"getRead"}
      BY <1>7 DEF CallDelete, Calls, PCs, Holding
    <2>2. OnlyMoves(c) /\ pc[c] = "idle" /\ pc'[c] = "delBin" /\ call'[c] = arguments
      BY <2>1, BeginFacts
    <2>3. /\ settled' = settled \ {k}
          /\ \A d \in Callers : owed'[d] \subseteq owed[d] /\ owed'[d] \subseteq settled'
          /\ disturbed' = disturbed \cup Running("put", k)
      BY <1>5, <1>7 DEF CallDelete
    <2>4. /\ \A j \in Keys : c \notin Running("put", j)'
          /\ \A j \in Keys \ {k} : c \notin Running("delete", j)'
      BY <2>2 DEF Running
    <2>5. QuietHistory(c)
      <3>1. ASSUME NEW d \in Callers \ {c}, pc[d] \in {"lock"} \cup Holding, d \notin disturbed'
            PROVE  d \notin disturbed /\ c \notin Running("delete", call[d].key)'
        <4>1. pc[d] # "idle" /\ pc[d] # "return"
          BY <3>1 DEF Holding
        <4>2. call[d].op = "put" /\ call[d] # None /\ call[d].key \in Keys
          BY <3>1, <4>1, Arguments DEF CallSound
        <4>3. call[d].key # k
          BY <2>3, <3>1, <4>1, <4>2 DEF Running
        <4>4. call'[d] = call[d]
          BY <2>2 DEF OnlyMoves
        <4>5. QED
          BY <2>2, <2>3, <3>1, <4>3, <4>4 DEF Running
      <3>2. QED
        BY <1>3, <2>3, <2>4, <3>1 DEF QuietHistory
    <2>6. PutSound(c)'
      BY <2>2 DEF PutSound, Holding
    <2>7. ListSound(c)'
      <3>1. owed[c] = {}
        BY <2>2 DEF ListSound
      <3>2. QED
        BY <2>2, <2>3, <3>1 DEF ListSound
    <2>8. QED
      BY <1>2, <2>1, <2>5, <2>6, <2>7
  <1>8. ASSUME NEW to \in {"getOpen", "list"}, NEW arguments \in Calls, Begin(c, to, arguments),
               arguments.op \in {"get", "keys"}, UNCHANGED <<settled, disturbed>>,
               \A d \in Callers \ {c} : owed'[d] = owed[d],
               owed'[c] = {} \/ (to = "list" /\ owed'[c] = settled)
        PROVE  StoreInv'
    <2>1. to \in PCs \ {"entry", "return"} /\ to \notin Holding \cup {"getRead"}
      BY <1>8 DEF PCs, Holding
    <2>2. OnlyMoves(c) /\ pc'[c] = to /\ call'[c] = arguments
      BY <1>8, <2>1, BeginFacts
    <2>3. \A op \in {"put", "delete"}, j \in Keys : c \notin Running(op, j)'
      BY <1>8, <2>2 DEF Running
    <2>4. QuietHistory(c)
      <3>1. ASSUME NEW d \in Callers PROVE c \notin Running("delete", call[d].key)'
        BY <1>8, <2>2 DEF Running
      <3>2. QED
        BY <1>3, <1>4, <1>8, <2>3, <3>1 DEF QuietHistory
    <2>5. PutSound(c)' /\ ListSound(c)'
      BY <1>8, <2>2 DEF PutSound, ListSound, Holding
    <2>6. QED
      BY <1>2, <1>8, <2>1, <2>4, <2>5
  <1>9. ASSUME NEW k \in Keys, CallGet(c, k) PROVE StoreInv'
    <2>1. /\ Begin(c, "getOpen", [op |-> "get", key |-> k])
          /\ [op |-> "get", key |-> k] \in Calls /\ UNCHANGED <<settled, disturbed, owed>>
      BY <1>9 DEF CallGet, Calls
    <2>2. owed[c] = {}
      BY <2>1 DEF ListSound, Begin, Goto
    <2>3. QED
      BY <1>8, <2>1, <2>2
  <1>10. CASE CallKeys(c)
    <2>1. /\ Begin(c, "list", [op |-> "keys"]) /\ [op |-> "keys"] \in Calls
          /\ UNCHANGED <<settled, disturbed>> /\ owed' = [owed EXCEPT ![c] = settled]
      BY <1>10 DEF CallKeys, Calls
    <2>2. QED
      BY <1>8, <2>1
  <1>11. QED
    BY <1>6, <1>7, <1>9, <1>10

LEMMA AcquireKeepsInv == ASSUME OneStore, StoreInv, NEW c \in Callers, Acquire(c) PROVE StoreInv'
  <1> USE StoreFacts, Typed, NamesAre
  <1>1. /\ UNCHANGED <<dir, data, fd, call, ret, todo, settled, disturbed, owed>>
        /\ pc[c] = "lock" /\ pc' = [pc EXCEPT ![c] = "open"]
        /\ lock[HandleOf[c]] = None /\ lock' = [lock EXCEPT ![HandleOf[c]] = c]
    BY DEF Acquire, Goto, history
  <1>2. TypeInv' /\ fd[c] = 0
    BY <1>1, PutKeepsType DEF Opened
  <1>3. OnlyMoves(c) /\ pc'[c] = "open"
    BY <1>1 DEF OnlyMoves, PCs
  <1>4. QuietFiles(c, {})
    BY <1>1, <1>2 DEF QuietFiles, NamesKeep, OthersKeep
  <1>5. QuietHistory(c)
    BY <1>1, <1>3, HistoryKept
  <1>6. LockSound'
    <2>1. \A d \in Callers \ {c} : pc[d] \notin Holding
      BY <1>1, StoreAssumption DEF OneStore, LockSound
    <2>2. QED
      BY <1>1, <1>3, <2>1 DEF LockSound, OnlyMoves
  <1>7. PutSound(c)'
    <2>1. PICK k \in Keys : k = call[c].key
      BY <1>1, Arguments DEF CallSound
    <2>2. c \notin disturbed => Running("delete", k) = {}
      BY <1>1, <2>1 DEF PutSound
    <2>3. Running("delete", k)' \subseteq Running("delete", k)
      <3>1. call[c].op # "delete"
        BY <1>1 DEF CallSound
      <3>2. QED
        BY <1>1, <3>1 DEF Running
    <2>4. call'[c].key = k /\ disturbed' = disturbed
      BY <1>1, <2>1
    <2>5. QED
      BY <1>3, <2>2, <2>3, <2>4 DEF PutSound
  <1>8. GetSound(c)' /\ ListSound(c)'
    BY <1>1, <1>3 DEF GetSound, ListSound
  <1>9. QED
    BY <1>2, <1>3, <1>4, <1>5, <1>6, <1>7, <1>8, QuietStep

LEMMA ReleaseKeepsInv == ASSUME OneStore, StoreInv, NEW c \in Callers, Release(c) PROVE StoreInv'
  <1> USE StoreFacts, Typed, NamesAre
  <1>0. pc[c] = "unlock" /\ pc[c] \in Holding
    BY DEF Release, Goto, Holding
  <1>1. PICK k \in Keys : k = call[c].key
    BY <1>0, Arguments DEF CallSound
  <1>2. /\ UNCHANGED <<dir, data, fd, call, ret, todo, owed>>
        /\ pc' = [pc EXCEPT ![c] = "return"]
        /\ lock' = [lock EXCEPT ![HandleOf[c]] = None]
        /\ settled' = IF ret[c].err \/ c \in disturbed \/ Running("put", k) # {c}
                      THEN settled ELSE settled \cup {k}
        /\ disturbed' = disturbed \ {c}
    BY <1>1 DEF Release, Goto
  <1>3. TypeInv' /\ fd[c] = 0
    BY <1>0, PutKeepsType DEF Opened
  <1>4. OnlyMoves(c) /\ pc'[c] = "return" /\ call[c].op = "put"
    BY <1>0, <1>2 DEF OnlyMoves, PCs, CallSound
  <1>5. QuietFiles(c, {})
    BY <1>2, <1>3 DEF QuietFiles, NamesKeep, OthersKeep
  <1>6. \A op \in {"put", "delete"}, j \in Keys : c \notin Running(op, j)'
    BY <1>4 DEF Running
  <1>7. QuietHistory(c)
    <2>1. \A d \in Callers \ {c} : owed'[d] \subseteq owed[d] /\ owed'[d] \subseteq settled'
      BY <1>2 DEF ListSound
    <2>2. ASSUME NEW d \in Callers PROVE c \notin Running("delete", call[d].key)'
      BY <1>4 DEF Running
    <2>3. ASSUME NEW j \in settled'
          PROVE  Named(j) /\ Running("put", j) \subseteq {c} /\ Running("delete", j) = {}
      <3>1. CASE j \in settled
        BY <3>1 DEF SettledSound
      <3>2. CASE j \notin settled
        <4>1. j = k /\ ~ret[c].err /\ c \notin disturbed /\ Running("put", k) = {c}
          BY <1>2, <2>3, <3>2
        <4>2. Named(k) /\ Running("delete", k) = {}
          BY <1>0, <1>1, <4>1 DEF PutSound
        <4>3. QED
          BY <4>1, <4>2
      <3>3. QED
        BY <3>1, <3>2
    <2>4. settled' \subseteq Keys
      BY <1>2
    <2>5. QED
      BY <1>2, <1>6, <2>1, <2>2, <2>3, <2>4 DEF QuietHistory
  <1>8. LockSound'
    <2>1. \A d \in Callers \ {c} : pc[d] \notin Holding
      BY <1>0, OneHolder
    <2>2. QED
      BY <1>4, <2>1 DEF LockSound, OnlyMoves, Holding
  <1>9. PutSound(c)' /\ GetSound(c)'
    BY <1>2, <1>4 DEF PutSound, GetSound, Holding
  <1>10. ListSound(c)'
    <2>1. owed[c] = {}
      BY <1>0 DEF ListSound
    <2>2. QED
      BY <1>2, <1>4, <2>1 DEF ListSound
  <1>11. QED
    BY <1>3, <1>4, <1>5, <1>7, <1>8, <1>9, <1>10, QuietStep

LEMMA DeleteKeepsInv ==
    ASSUME StoreInv, NEW c \in Callers, RemoveBin(c) \/ RemoveSidecar(c)
    PROVE  StoreInv'
  <1> USE StoreFacts, Typed, NamesAre
  <1>1. /\ UNCHANGED <<lock, call, ret, todo, settled, disturbed, owed>>
        /\ pc[c] \in {"delBin", "delKey"}
        /\ pc' = [pc EXCEPT ![c] = "delKey"] \/ pc' = [pc EXCEPT ![c] = "return"]
    BY DEF RemoveBin, RemoveSidecar, history, Goto
  <1>2. PICK k \in Keys : k = call[c].key
    BY <1>1, Arguments DEF CallSound
  <1>3. call[c] # None /\ call[c].op = "delete" /\ c \in Running("delete", k) /\ fd[c] = 0
    BY <1>1, <1>2, Arguments DEF CallSound, Running, Opened
  <1>4. PICK n \in {Bin(k), Sidecar(k)} : FS!Remove(n)
    BY <1>2 DEF RemoveBin, RemoveSidecar
  <1>5. /\ NamesKeep(Names \ {n}) /\ dir'[n] = 0
        /\ \A d \in Callers : fd'[d] = fd[d] /\ (fd[d] # 0 => data'[fd[d]] = data[fd[d]])
    BY <1>4, RemoveFacts
  <1>6. QuietFiles(c, {n})
    BY <1>3, <1>4, <1>5 DEF QuietFiles, OthersKeep
  <1>7. TypeInv'
    BY DeleteKeepsType
  <1>8. OnlyMoves(c) /\ pc'[c] \in {"delKey", "return"}
    BY <1>1 DEF OnlyMoves, PCs
  <1>9. QuietHistory(c)
    BY <1>1, <1>8, HistoryKept
  <1>10. LockSound'
    BY <1>1, <1>8, LockKept DEF Holding
  <1>11. PutSound(c)' /\ GetSound(c)'
    BY <1>1, <1>3, <1>8 DEF PutSound, GetSound, Holding
  <1>12. ListSound(c)'
    BY <1>1, <1>8 DEF ListSound
  <1>13. QED
    BY <1>6, <1>7, <1>8, <1>9, <1>10, <1>11, <1>12, QuietStep

\* A call that fails: a Put moves on to release the mutex, a Delete returns.
LEMMA FailKeepsInv ==
    ASSUME OneStore, StoreInv, NEW c \in Callers, Fails(c)
    PROVE  StoreInv'
  <1> USE StoreFacts, Typed, NamesAre
  <1>1. /\ UNCHANGED <<lock, call, todo, settled, disturbed, owed>>
        /\ pc[c] \in FailPoints
        /\ pc' = [pc EXCEPT ![c] = IF pc[c] \in Holding THEN "unlock" ELSE "return"]
        /\ ret'[c].err /\ \A d \in Callers \ {c} : ret'[d] = ret[d]
        /\ dir' = dir /\ fd'[c] = 0
        /\ \A n \in Names : dir[n] # 0 /\ dir[n] # fd[c] => data'[dir[n]] = data[dir[n]]
        /\ \A d \in Callers \ {c} :
               /\ fd'[d] = fd[d]
               /\ fd[d] # 0 /\ fd[d] # fd[c] => data'[fd[d]] = data[fd[d]]
    BY FailFacts
  <1>2. OnlyMoves(c) /\ TypeInv'
    BY FailMoves, FailKeepsType
  <1>3. PICK k \in Keys : k = call[c].key
    BY <1>1, Arguments DEF FailPoints, CallSound, Holding
  <1>4. fd[c] # 0 => pc[c] \in {"write", "keyWrite"}
    BY <1>1 DEF FailPoints, Opened
  <1>5. CASE pc[c] \in Holding
    <2>1. pc' = [pc EXCEPT ![c] = "unlock"] /\ pc'[c] = "unlock" /\ "unlock" \in Holding
      BY <1>1, <1>5 DEF Holding
    <2>2. PutSound(c)'
      <3>1. c \notin disturbed => Running("delete", k) = {}
        BY <1>3, <1>5 DEF PutSound
      <3>2. Running("delete", k)' \subseteq Running("delete", k)
        <4>1. call[c].op # "delete"
          BY <1>5 DEF CallSound
        <4>2. Running("delete", k)' \subseteq Running("delete", k) \cup {c}
          BY <1>2, RunningAfter
        <4>3. c \notin Running("delete", k)'
          BY <1>1, <4>1 DEF Running
        <4>4. QED
          BY <4>2, <4>3
      <3>3. call'[c].key = k /\ disturbed' = disturbed
        BY <1>1, <1>3
      <3>4. QED
        BY <1>1, <2>1, <3>1, <3>2, <3>3 DEF PutSound
    <2>3. \A n \in Names \ {Tmp(k), Sidecar(k)} : dir[n] # 0 => dir[n] # fd[c]
      <3>1. CASE pc[c] = "write"
        BY <1>3, <3>1 DEF PutSound, Files, Distinct
      <3>2. CASE pc[c] = "keyWrite"
        BY <1>3, <3>2 DEF PutSound
      <3>3. QED
        BY <1>4, <3>1, <3>2
    <2>4. ValuesIntact'
      <3>1. ASSUME NEW j \in Keys, dir[Bin(j)] # 0 PROVE data'[dir[Bin(j)]] = data[dir[Bin(j)]]
        <4>1. Bin(j) \in Names \ {Tmp(k), Sidecar(k)}
          OBVIOUS
        <4>2. QED
          BY <1>1, <2>3, <3>1, <4>1
      <3>2. QED
        BY <1>1, <3>1 DEF ValuesIntact, FS!Exists, FS!Contents, Intact
    <2>5. ASSUME NEW d \in Callers \ {c}, pc[d] = "getRead"
          PROVE  /\ data'[fd[d]] = data[fd[d]]
                 /\ \A j \in Keys : fd[d] # dir'[Tmp(j)] /\ fd[d] # dir'[Sidecar(j)]
      <3>1. fd[d] # 0 /\ \A j \in Keys : fd[d] # dir[Tmp(j)] /\ fd[d] # dir[Sidecar(j)]
        BY <2>5 DEF GetSound, Opened
      <3>2. fd[d] # fd[c]
        <4>1. CASE pc[c] = "write"
          BY <1>3, <3>1, <4>1 DEF PutSound
        <4>2. CASE pc[c] = "keyWrite"
          BY <4>2 DEF PutSound
        <4>3. QED
          BY <1>4, <3>1, <4>1, <4>2
      <3>3. QED
        BY <1>1, <3>1, <3>2
    <2>6. NamesKeep({Sidecar(j) : j \in Keys \ {call[c].key}})
      <3>1. ASSUME NEW j \in Keys \ {k}
            PROVE  Sidecar(j) \in Names \ {Tmp(k), Sidecar(k)}
        BY <3>1
      <3>2. QED
        BY <1>1, <1>3, <2>3, <3>1 DEF NamesKeep
    <2>7. /\ UNCHANGED <<lock, call, todo, settled, disturbed, owed>>
          /\ \A d \in Callers \ {c} : ret'[d] = ret[d]
          /\ \A d \in Callers \ {c} : fd'[d] = fd[d]
          /\ \E to \in Holding : pc' = [pc EXCEPT ![c] = to]
      BY <1>1, <2>1
    <2>8. QED
      BY <1>2, <1>5, <2>2, <2>4, <2>5, <2>6, <2>7, HolderStep
  <1>6. CASE pc[c] \notin Holding
    <2>1. pc[c] \in {"delBin", "delKey"} /\ pc'[c] = "return" /\ fd[c] = 0
      BY <1>1, <1>6 DEF FailPoints, Holding, Opened
    <2>2. QuietFiles(c, {})
      BY <1>1, <2>1 DEF QuietFiles, NamesKeep, OthersKeep
    <2>3. QuietHistory(c)
      BY <1>1, <1>2, <2>1, HistoryKept
    <2>4. LockSound'
      BY <1>1, <1>2, <2>1, LockKept DEF Holding
    <2>5. PutSound(c)' /\ GetSound(c)'
      BY <1>1, <2>1 DEF PutSound, GetSound, CallSound, Holding
    <2>6. ListSound(c)'
      BY <1>1, <2>1 DEF ListSound
    <2>7. QED
      BY <1>2, <2>2, <2>3, <2>4, <2>5, <2>6, QuietStep
  <1>7. QED
    BY <1>5, <1>6

LEMMA ReadKeepsInv ==
    ASSUME StoreInv, NEW c \in Callers,
           \/ \E k \in Keys : ReadEntry(c, k)
           \/ GetMissing(c) \/ GetOpen(c) \/ GetRead(c) \/ ReadDir(c) \/ KeysDone(c)
    PROVE  StoreInv'
  <1> USE StoreFacts, Typed, NamesAre
  <1>1. /\ UNCHANGED <<lock, call, settled, disturbed, owed>>
        /\ pc[c] \in {"getOpen", "getRead", "list", "entry"}
        /\ pc' \in [Callers -> PCs] /\ ret' \in [Callers -> Results]
        /\ todo' \in [Callers -> SUBSET Keys] /\ TypeInv'
    <2>1. TypeInv'
      BY ReadKeepsType
    <2>2. QED
      BY <2>1 DEF ReadEntry, GetMissing, GetOpen, GetRead, ReadDir, KeysDone, history, Goto,
                  TypeInv, TypeOK, Results, Bytes
  <1>2. ASSUME OnlyMoves(c), QuietFiles(c, {}), pc'[c] \in {"getRead", "entry", "return"},
               GetSound(c)', ListSound(c)'
        PROVE  StoreInv'
    <2>1. QuietHistory(c)
      BY <1>1, <1>2, HistoryKept
    <2>2. LockSound' /\ PutSound(c)'
      BY <1>1, <1>2, LockKept DEF PutSound, Holding
    <2>3. QED
      BY <1>1, <1>2, <2>1, <2>2, QuietStep
  <1>3. ASSUME UNCHANGED <<dir, data, fd>>, pc[c] # "getRead" PROVE QuietFiles(c, {})
    <2>1. fd[c] = 0
      BY <1>1, <1>3 DEF Opened
    <2>2. QED
      BY <1>3, <2>1 DEF QuietFiles, NamesKeep, OthersKeep
  <1>4. \A k \in owed[c] : k \in Keys /\ Named(k)
    BY DEF ListSound, SettledSound
  <1>5. ASSUME NEW k \in Keys, ReadEntry(c, k) PROVE StoreInv'
    <2>1. /\ UNCHANGED <<dir, data, fd>> /\ pc' = [pc EXCEPT ![c] = "entry"] /\ pc[c] = "entry"
          /\ todo' = [todo EXCEPT ![c] = todo[c] \ {k}]
          /\ ret' = [ret EXCEPT ![c] = [ret[c] EXCEPT !.out =
                        IF FS!Exists(Sidecar(k)) THEN ret[c].out \cup {FS!Contents(Sidecar(k))}
                        ELSE ret[c].out]]
      BY <1>5 DEF ReadEntry, Goto
    <2>2. OnlyMoves(c) /\ pc'[c] = "entry"
      BY <1>1, <2>1 DEF OnlyMoves
    <2>3. /\ todo'[c] = todo[c] \ {k}
          /\ ret'[c].out = IF FS!Exists(Sidecar(k)) THEN ret[c].out \cup {FS!Contents(Sidecar(k))}
                           ELSE ret[c].out
      BY <2>1 DEF Results
    <2>4. ListSound(c)'
      <3>1. ASSUME NEW j \in owed[c] PROVE j \in todo'[c] \/ NameOf(j) \in ret'[c].out
        <4>1. j \in todo[c] \/ NameOf(j) \in ret[c].out
          BY <2>1, <3>1 DEF ListSound
        <4>2. j = k => NameOf(j) \in ret'[c].out
          BY <1>4, <2>3, <3>1 DEF Named
        <4>3. QED
          BY <2>3, <4>1, <4>2
      <3>2. QED
        BY <1>1, <2>2, <3>1 DEF ListSound
    <2>5. GetSound(c)'
      BY <2>2 DEF GetSound
    <2>6. QED
      BY <1>2, <1>3, <2>1, <2>2, <2>4, <2>5
  <1>6. CASE GetMissing(c)
    <2>1. /\ UNCHANGED <<dir, data, fd, ret, todo>> /\ pc' = [pc EXCEPT ![c] = "return"]
          /\ pc[c] = "getOpen"
      BY <1>6 DEF GetMissing, Goto
    <2>2. OnlyMoves(c) /\ pc'[c] = "return"
      BY <1>1, <2>1 DEF OnlyMoves
    <2>3. GetSound(c)' /\ ListSound(c)'
      BY <1>1, <2>1, <2>2 DEF GetSound, ListSound, CallSound, NoResult
    <2>4. QED
      BY <1>2, <1>3, <2>1, <2>2, <2>3
  <1>7. CASE KeysDone(c)
    <2>1. /\ UNCHANGED <<dir, data, fd, ret, todo>> /\ pc' = [pc EXCEPT ![c] = "return"]
          /\ pc[c] = "entry" /\ todo[c] = {}
      BY <1>7 DEF KeysDone, Goto
    <2>2. OnlyMoves(c) /\ pc'[c] = "return"
      BY <1>1, <2>1 DEF OnlyMoves
    <2>3. GetSound(c)' /\ ListSound(c)'
      BY <1>1, <2>1, <2>2 DEF GetSound, ListSound, CallSound
    <2>4. QED
      BY <1>2, <1>3, <2>1, <2>2, <2>3
  <1>8. CASE ReadDir(c)
    <2>1. /\ UNCHANGED <<dir, data, fd, ret>> /\ pc' = [pc EXCEPT ![c] = "entry"]
          /\ pc[c] = "list" /\ todo' = [todo EXCEPT ![c] = {k \in Keys : FS!Exists(Sidecar(k))}]
      BY <1>8 DEF ReadDir, Goto
    <2>2. OnlyMoves(c) /\ pc'[c] = "entry" /\ todo'[c] = {k \in Keys : FS!Exists(Sidecar(k))}
      BY <1>1, <2>1 DEF OnlyMoves
    <2>3. GetSound(c)' /\ ListSound(c)'
      BY <1>1, <1>4, <2>2 DEF GetSound, ListSound, Named
    <2>4. QED
      BY <1>2, <1>3, <2>1, <2>2, <2>3
  <1>9. CASE GetOpen(c)
    <2>1. PICK k \in Keys : k = call[c].key /\ pc[c] = "getOpen"
      BY <1>1, <1>9, Arguments DEF GetOpen, Goto, CallSound
    <2>2. /\ UNCHANGED <<dir, data, ret, todo>> /\ pc' = [pc EXCEPT ![c] = "getRead"]
          /\ dir[Bin(k)] # 0 /\ fd' = [fd EXCEPT ![c] = dir[Bin(k)]]
      BY <1>9, <2>1 DEF GetOpen, Goto, FS!OpenRead, FS!Exists
    <2>3. OnlyMoves(c) /\ pc'[c] = "getRead" /\ fd'[c] = dir[Bin(k)]
      BY <1>1, <2>2 DEF OnlyMoves
    <2>4. QuietFiles(c, {})
      BY <2>2, <2>3 DEF QuietFiles, NamesKeep, OthersKeep
    <2>5. GetSound(c)'
      <3>1. Intact(data[dir[Bin(k)]])
        BY <2>2 DEF ValuesIntact, FS!Exists, FS!Contents
      <3>2. \A j \in Keys : dir[Bin(k)] # dir[Tmp(j)] /\ dir[Bin(k)] # dir[Sidecar(j)]
        BY <2>2 DEF Files, Distinct
      <3>3. QED
        BY <2>2, <2>3, <3>1, <3>2 DEF GetSound
    <2>6. ListSound(c)'
      BY <1>1, <2>1, <2>3 DEF ListSound
    <2>7. QED
      BY <1>2, <2>3, <2>4, <2>5, <2>6
  <1>10. CASE GetRead(c)
    <2>1. /\ UNCHANGED todo /\ pc' = [pc EXCEPT ![c] = "return"] /\ pc[c] = "getRead"
          /\ ret' = [ret EXCEPT ![c] = [ret[c] EXCEPT !.out = {data[fd[c]]}]]
          /\ FS!Close({c})
      BY <1>10 DEF GetRead, Goto
    <2>2. OnlyMoves(c) /\ pc'[c] = "return" /\ ret'[c].out = {data[fd[c]]}
      BY <1>1, <2>1 DEF OnlyMoves, Results
    <2>3. QuietFiles(c, {})
      <3>1. /\ NamesKeep(Names) /\ fd'[c] = 0 /\ OthersKeep(c)
        BY <2>1, CloseFacts DEF OthersKeep
      <3>2. QED
        BY <3>1 DEF QuietFiles, NamesKeep
    <2>4. GetSound(c)'
      BY <2>1, <2>2 DEF GetSound, Intact
    <2>5. ListSound(c)'
      BY <1>1, <2>1, <2>2 DEF ListSound
    <2>6. QED
      BY <1>2, <2>2, <2>3, <2>4, <2>5
  <1>11. QED
    BY <1>5, <1>6, <1>7, <1>8, <1>9, <1>10

LEMMA ReturnKeepsInv == ASSUME StoreInv, NEW c \in Callers, Return(c) PROVE StoreInv'
  <1> USE StoreFacts, Typed, NamesAre
  <1>1. /\ UNCHANGED <<dir, data, fd, lock, todo, settled, disturbed>>
        /\ pc[c] = "return" /\ pc' = [pc EXCEPT ![c] = "idle"]
        /\ call' = [call EXCEPT ![c] = None] /\ ret' = [ret EXCEPT ![c] = NoResult]
        /\ owed' = [owed EXCEPT ![c] = {}]
    BY DEF Return, Goto
  <1>2. TypeInv' /\ fd[c] = 0
    BY <1>1, ReturnKeepsType DEF Opened
  <1>3. OnlyMoves(c) /\ pc'[c] = "idle" /\ call'[c] = None
    BY <1>1 DEF OnlyMoves, PCs, NoResult, Results
  <1>4. QuietFiles(c, {})
    BY <1>1, <1>2 DEF QuietFiles, NamesKeep, OthersKeep
  <1>5. QuietHistory(c)
    <2>1. \A op \in {"put", "delete"}, k \in Keys : c \notin Running(op, k)'
      BY <1>3 DEF Running
    <2>2. ASSUME NEW d \in Callers PROVE c \notin Running("delete", call[d].key)'
      BY <1>3 DEF Running
    <2>3. \A d \in Callers \ {c} : owed'[d] \subseteq owed[d] /\ owed'[d] \subseteq settled'
      BY <1>1 DEF ListSound
    <2>4. QED
      BY <1>1, <2>1, <2>2, <2>3 DEF QuietHistory, SettledSound
  <1>6. LockSound'
    BY <1>1, <1>3, LockKept DEF Holding
  <1>7. PutSound(c)' /\ GetSound(c)' /\ ListSound(c)'
    BY <1>1, <1>3 DEF PutSound, GetSound, ListSound, Holding
  <1>8. QED
    BY <1>2, <1>3, <1>4, <1>5, <1>6, <1>7, QuietStep

\* All callers go with the one store object.
LEMMA CrashKeepsInv ==
    ASSUME OneStore, StoreInv, NEW h \in Mortal, Crash(h)
    PROVE  StoreInv'
  <1> USE StoreFacts, Typed, NamesAre
  <1>1. {c \in Callers : HandleOf[c] = h} = Callers
    BY DEF OneStore, Crash
  <1>2. /\ FS!Close(Callers)
        /\ \A c \in Callers : pc'[c] = "idle" /\ call'[c] = None /\ owed'[c] = {}
        /\ settled' = settled
    BY <1>1 DEF Crash
  <1>3. NamesKeep(Names)
    BY <1>2, CloseFacts
  <1>4. TypeInv' /\ LockSound'
    BY <1>2, CrashKeepsType DEF LockSound, Holding
  <1>5. ASSUME NEW c \in Callers PROVE PutSound(c)' /\ GetSound(c)' /\ ListSound(c)'
    BY <1>2 DEF PutSound, GetSound, ListSound, Holding
  <1>6. ValuesIntact'
    BY <1>3 DEF ValuesIntact, NamesKeep, FS!Exists, FS!Contents
  <1>7. SettledSound'
    <2>1. \A op \in {"put", "delete"}, k \in Keys : Running(op, k)' = {}
      BY <1>2 DEF Running
    <2>2. \A k \in settled : Named(k)'
      BY <1>3 DEF SettledSound, NamesKeep, Named, FS!Exists, FS!Contents
    <2>3. QED
      BY <1>2, <2>1, <2>2 DEF SettledSound
  <1>8. QED
    BY <1>4, <1>5, <1>6, <1>7 DEF StoreInv

LEMMA StepKeepsInv == OneStore /\ StoreInv /\ [Next]_vars => StoreInv'
  <1> SUFFICES ASSUME OneStore, StoreInv, [Next]_vars PROVE StoreInv'
    OBVIOUS
  <1>1. CASE UNCHANGED vars
    <2>1. TypeInv'
      BY StepKeepsType, StoreFacts
    <2>2. UNCHANGED <<dir, data, fd, lock, pc, call, ret, todo, settled, disturbed, owed>>
      BY <1>1 DEF vars, callVars, history
    <2>3. QED
      BY <2>1, <2>2 DEF StoreInv, LockSound, PutSound, GetSound, ListSound, ValuesIntact,
                        SettledSound, Named, Running, Intact, FS!Exists, FS!Contents
  <1>2. ASSUME NEW c \in Callers, PutStep(c) \/ DeleteStep(c) \/ ReadStep(c) \/ Return(c)
        PROVE  StoreInv'
    BY <1>2, BeginKeepsInv, AcquireKeepsInv, HolderKeepsInv, ReleaseKeepsInv, DeleteKeepsInv,
       FailKeepsInv, ReadKeepsInv, ReturnKeepsInv DEF PutStep, DeleteStep, ReadStep, Fails
  <1>3. QED
    BY <1>1, <1>2, CrashKeepsInv DEF Next

LEMMA InitInv == Init => StoreInv
  <1> SUFFICES ASSUME Init PROVE StoreInv
    OBVIOUS
  <1> USE NamesAre
  <1>1. TypeInv
    BY InitType
  <1>2. /\ \A n \in Names : dir[n] = 0
        /\ \A c \in Callers : pc[c] = "idle" /\ owed[c] = {}
        /\ settled = {}
    BY DEF Init, FS!FSInit
  <1>3. LockSound /\ ValuesIntact /\ SettledSound
    BY <1>2 DEF LockSound, Holding, ValuesIntact, SettledSound, FS!Exists
  <1>4. \A c \in Callers : PutSound(c) /\ GetSound(c) /\ ListSound(c)
    BY <1>2 DEF PutSound, GetSound, ListSound, Holding
  <1>5. QED
    BY <1>1, <1>3, <1>4 DEF StoreInv

\* The inductive invariant of one store object.
THEOREM StoreInvariance == OneStore => (Spec => []StoreInv)
  <1> SUFFICES ASSUME OneStore PROVE Spec => []StoreInv
    OBVIOUS
  <1>1. StoreInv /\ [Next]_vars => StoreInv'
    BY StepKeepsInv
  <1>2. QED
    BY <1>1, InitInv, PTL DEF Spec

\* "Atomic writes via tmp + rename" (fsstore.go): with one store object, no value
\* file ever holds part of a value or a mixture of two, wherever the process dies.
THEOREM ValuesAreWhole == OneStore => (Spec => []ValuesIntact)
  <1> SUFFICES ASSUME OneStore PROVE Spec => []ValuesIntact
    OBVIOUS
  <1>1. StoreInv => ValuesIntact
    BY DEF StoreInv
  <1>2. QED
    BY <1>1, StoreInvariance, PTL

\* A Get, which takes no lock, returns the whole of a value that some Put wrote,
\* though Puts rename over the file it reads and Deletes remove it.
THEOREM GetsAreWhole == OneStore => (Spec => []GetIntact)
  <1> SUFFICES ASSUME OneStore PROVE Spec => []GetIntact
    OBVIOUS
  <1>1. StoreInv => GetIntact
    BY DEF StoreInv, GetSound, GetIntact
  <1>2. QED
    BY <1>1, StoreInvariance, PTL

\* Keys lists every key whose Put returned before it began and that no Put or
\* Delete touched since, though it reads the directory and then one sidecar at a
\* time, without the mutex.
THEOREM KeysAreComplete == OneStore => (Spec => []KeysComplete)
  <1> SUFFICES ASSUME OneStore PROVE Spec => []KeysComplete
    OBVIOUS
  <1>1. StoreInv => KeysComplete
    BY DEF StoreInv, ListSound, KeysComplete
  <1>2. QED
    BY <1>1, StoreInvariance, PTL
--------------------------------------------------------------------------------
(* One store object implements the atomic store.                           *)

\* The state of the atomic store.
Kv  == [k \in Keys |-> IF FS!Exists(Bin(k)) THEN FS!Contents(Bin(k)) ELSE None]
Req == [c \in Callers |-> AbstractRequest(c)]
Res == [c \in Callers |-> AbstractResult(c)]
Err == {c \in Callers : ret[c].err}

\* The Gets of the other callers read what they read before.
ReadersKeep(c) ==
    \A d \in Callers \ {c} : pc[d] = "getRead" => data'[fd'[d]] = data[fd[d]]

LEMMA QuietReaders == ASSUME TypeInv, NEW c \in Callers, OthersKeep(c) PROVE ReadersKeep(c)
  BY Typed DEF OthersKeep, ReadersKeep, Opened

\* Callers that do not move are the same to the atomic store.
LEMMA OthersMap ==
    ASSUME NEW c \in Callers, OnlyMoves(c), ReadersKeep(c), NEW d \in Callers \ {c}
    PROVE  /\ AbstractRequest(d)' = AbstractRequest(d)
           /\ (d \in AbstractDone)' <=> d \in AbstractDone
           /\ AbstractResult(d)' = AbstractResult(d)
  <1>1. pc'[d] = pc[d] /\ call'[d] = call[d] /\ ret'[d] = ret[d]
    BY DEF OnlyMoves
  <1>2. Serving(d)' <=> Serving(d)
    BY <1>1 DEF Serving
  <1>3. (d \in AbstractDone)' <=> d \in AbstractDone
    BY <1>1, <1>2 DEF AbstractDone
  <1>4. AbstractRequest(d)' = AbstractRequest(d)
    BY <1>1, <1>2 DEF AbstractRequest
  <1>5. AbstractResult(d)' = AbstractResult(d)
    BY <1>1, <1>3 DEF AbstractResult, ReadersKeep
  <1>6. QED
    BY <1>3, <1>4, <1>5

\* A step of c, given what it does to c and to the keys.
LEMMA CallerMap ==
    ASSUME NEW c \in Callers, OnlyMoves(c), ReadersKeep(c)
    PROVE  /\ Req' = [Req EXCEPT ![c] = AbstractRequest(c)']
           /\ Res' = [Res EXCEPT ![c] = AbstractResult(c)']
           /\ AbstractDone' = IF (c \in AbstractDone)' THEN AbstractDone \cup {c}
                              ELSE AbstractDone \ {c}
  <1>1. Req' = [Req EXCEPT ![c] = AbstractRequest(c)']
    BY OthersMap DEF Req
  <1>2. Res' = [Res EXCEPT ![c] = AbstractResult(c)']
    BY OthersMap DEF Res
  <1>3. AbstractDone \subseteq Callers /\ AbstractDone' \subseteq Callers
    BY DEF AbstractDone
  <1>4. \A d \in Callers \ {c} : d \in AbstractDone' <=> d \in AbstractDone
    BY OthersMap
  <1>5. (c \in AbstractDone)' <=> c \in AbstractDone'
    OBVIOUS
  <1>6. QED
    BY <1>1, <1>2, <1>3, <1>4, <1>5

\* Which callers will be told of an error, after a step of c.
LEMMA ErrMap ==
    ASSUME NEW c \in Callers, OnlyMoves(c)
    PROVE  /\ ret'[c].err => Err' = Err \cup {c}
           /\ ~ret'[c].err => Err' = Err \ {c}
           /\ (ret'[c].err <=> ret[c].err) => Err' = Err
  BY DEF Err, OnlyMoves

AbstractNext == [Atomic!Next]_(Atomic!asVars)

LEMMA StutterMap ==
    ASSUME NEW c \in Callers, OnlyMoves(c), ReadersKeep(c), Kv' = Kv,
           AbstractRequest(c)' = AbstractRequest(c), AbstractResult(c)' = AbstractResult(c),
           (c \in AbstractDone)' <=> c \in AbstractDone, ret'[c].err <=> ret[c].err
    PROVE  AbstractNext
  <1>1. /\ Req' = [Req EXCEPT ![c] = AbstractRequest(c)]
        /\ Res' = [Res EXCEPT ![c] = AbstractResult(c)]
        /\ AbstractDone' = AbstractDone
    BY CallerMap
  <1>2. Req' = Req /\ Res' = Res
    BY <1>1 DEF Req, Res
  <1>3. QED
    BY <1>1, <1>2, ErrMap DEF AbstractNext, Atomic!asVars, Kv, Req, Res, Err

LEMMA CallMap ==
    ASSUME NEW c \in Callers, OnlyMoves(c), ReadersKeep(c), Kv' = Kv,
           AbstractRequest(c) = None, AbstractRequest(c)' \in Atomic!Requests,
           AbstractResult(c)' = AbstractResult(c),
           c \notin AbstractDone, ~(c \in AbstractDone)', ret'[c].err <=> ret[c].err
    PROVE  AbstractNext
  <1>1. /\ Req' = [Req EXCEPT ![c] = AbstractRequest(c)']
        /\ Res' = [Res EXCEPT ![c] = AbstractResult(c)]
        /\ AbstractDone' = AbstractDone
    BY CallerMap
  <1>2. Req[c] = None /\ Res' = Res
    BY <1>1 DEF Req, Res
  <1>3. PICK r \in Atomic!Requests : r = AbstractRequest(c)'
    OBVIOUS
  <1>4. Req' = [Req EXCEPT ![c] = r]
    BY <1>1, <1>3
  <1>5. Atomic!Call(c, r)
    BY <1>1, <1>2, <1>4, ErrMap DEF Atomic!Call, Kv, Req, Res, Err
  <1>6. QED
    BY <1>3, <1>5 DEF AbstractNext, Atomic!Next

LEMMA ReturnMap ==
    ASSUME NEW c \in Callers, OnlyMoves(c), ReadersKeep(c), Kv' = Kv,
           AbstractRequest(c)' = None, AbstractResult(c)' = None,
           c \in AbstractDone, ~(c \in AbstractDone)', ~ret'[c].err
    PROVE  AbstractNext
  <1>1. /\ Req' = [Req EXCEPT ![c] = None] /\ Res' = [Res EXCEPT ![c] = None]
        /\ AbstractDone' = AbstractDone \ {c} /\ Err' = Err \ {c}
    BY CallerMap, ErrMap
  <1>2. Atomic!Return(c)
    BY <1>1 DEF Atomic!Return, Kv, Req, Res, Err
  <1>3. QED
    BY <1>2 DEF AbstractNext, Atomic!Next

\* What taking effect does to the keys and to the result.
TakesEffect(c, r) ==
    \/ r.op = "put" /\ Kv' = [Kv EXCEPT ![r.key] = r.value] /\ AbstractResult(c)' = None
    \/ r.op = "delete" /\ Kv' = [Kv EXCEPT ![r.key] = None] /\ AbstractResult(c)' = None
    \/ r.op = "get" /\ Kv' = Kv /\ AbstractResult(c)' = Kv[r.key]

LEMMA EffectMap ==
    ASSUME NEW c \in Callers, OnlyMoves(c), ReadersKeep(c), NEW r, r # None,
           AbstractRequest(c) = r, AbstractRequest(c)' = r, TakesEffect(c, r),
           c \notin AbstractDone, (c \in AbstractDone)', ret'[c].err <=> ret[c].err
    PROVE  AbstractNext
  <1>1. Req[c] = r /\ Req' = Req /\ AbstractDone' = AbstractDone \cup {c}
    BY CallerMap DEF Req
  <1>2. PICK x : x = AbstractResult(c)'
    OBVIOUS
  <1>3. Res' = [Res EXCEPT ![c] = x]
    BY <1>2, CallerMap
  <1>4. /\ Kv' = CASE r.op = "put"    -> [Kv EXCEPT ![r.key] = r.value]
                   [] r.op = "delete" -> [Kv EXCEPT ![r.key] = None]
                   [] r.op = "get"    -> Kv
        /\ Res' = [Res EXCEPT ![c] = IF r.op = "get" THEN Kv[r.key] ELSE None]
    BY <1>2, <1>3 DEF TakesEffect
  <1>5. Atomic!Effect(c)
    BY <1>1, <1>4, ErrMap DEF Atomic!Effect, Kv, Req, Res, Err
  <1>6. QED
    BY <1>5 DEF AbstractNext, Atomic!Next

LEMMA KvKept ==
    ASSUME NamesKeep({Bin(k) : k \in Keys})
    PROVE  Kv' = Kv
  BY DEF NamesKeep, Kv, FS!Exists, FS!Contents

\* The value file of one key changes.
LEMMA KvChange ==
    ASSUME NEW k \in Keys, NEW x,
           (IF dir'[Bin(k)] # 0 THEN data'[dir'[Bin(k)]] ELSE None) = x,
           \A j \in Keys \ {k} : dir'[Bin(j)] = dir[Bin(j)]
                                /\ (dir[Bin(j)] # 0 => data'[dir[Bin(j)]] = data[dir[Bin(j)]])
    PROVE  Kv' = [Kv EXCEPT ![k] = x]
  <1>1. Kv' = [j \in Keys |-> IF dir'[Bin(j)] # 0 THEN data'[dir'[Bin(j)]] ELSE None]
    BY DEF Kv, FS!Exists, FS!Contents
  <1>2. Kv = [j \in Keys |-> IF dir[Bin(j)] # 0 THEN data[dir[Bin(j)]] ELSE None]
    BY DEF Kv, FS!Exists, FS!Contents
  <1>3. \A j \in Keys : Kv'[j] = IF j = k THEN x ELSE Kv[j]
    BY <1>1, <1>2
  <1>4. QED
    BY <1>1, <1>2, <1>3

\* The request of a call of Get, Put or Delete.
RequestOf(a) == IF a.op = "put" THEN [a EXCEPT !.value = Data(@)] ELSE a

LEMMA RequestFacts ==
    ASSUME NEW a \in Calls, a.op # "keys"
    PROVE  /\ RequestOf(a) \in Atomic!Requests /\ RequestOf(a) # None
           /\ RequestOf(a).op = a.op /\ RequestOf(a).key = a.key
           /\ a.op = "put" => RequestOf(a).value = Data(a.value)
  <1>1. CASE a.op = "put"
    <2>1. PICK k \in Keys, v \in Values : a = [op |-> "put", key |-> k, value |-> v]
      BY <1>1 DEF Calls
    <2>2. RequestOf(a) = [op |-> "put", key |-> k, value |-> Data(v)]
      BY <2>1 DEF RequestOf
    <2>3. RequestOf(a) \in [op : {"put"}, key : Keys, value : {Data(w) : w \in Values}]
      BY <2>2
    <2>4. QED
      BY <2>1, <2>2, <2>3, NoneAssumption DEF Atomic!Requests
  <1>2. CASE a.op # "put"
    <2>1. RequestOf(a) = a
      BY <1>2 DEF RequestOf
    <2>2. a \in [op : {"delete", "get"}, key : Keys]
      BY <1>2 DEF Calls
    <2>3. QED
      BY <1>2, <2>1, <2>2, NoneAssumption DEF Atomic!Requests
  <1>3. QED
    BY <1>1, <1>2

\* A step of a Put or Delete before or after the instant it takes effect, or any
\* step of Keys but the first and the last.
LEMMA InnerMap ==
    ASSUME TypeInv, TypeInv', NEW c \in Callers, OnlyMoves(c), ReadersKeep(c), Kv' = Kv,
           call'[c] = call[c], pc[c] # "idle", pc'[c] # "idle",
           Serving(c) => (pc[c] \in BeforeEffect <=> pc'[c] \in BeforeEffect),
           call[c].op # "get", ret'[c].err <=> ret[c].err
    PROVE  AbstractNext
  <1>1. call[c] # None
    BY Arguments
  <1>2. Serving(c)' <=> Serving(c)
    BY DEF Serving
  <1>3. (c \in AbstractDone)' <=> c \in AbstractDone
    BY <1>2 DEF AbstractDone
  <1>4. AbstractRequest(c)' = AbstractRequest(c)
    BY <1>2 DEF AbstractRequest
  <1>5. AbstractResult(c)' = AbstractResult(c)
    BY <1>3 DEF AbstractResult
  <1>6. QED
    BY <1>3, <1>4, <1>5, StutterMap

\* Begin.
LEMMA BeginMaps ==
    ASSUME TypeInv, TypeInv', NEW c \in Callers, OnlyMoves(c), pc[c] = "idle",
           NEW a \in Calls, call'[c] = a, pc'[c] \in BeforeEffect \/ a.op = "keys",
           UNCHANGED <<dir, data, fd, ret>>
    PROVE  AbstractNext
  <1>1. ReadersKeep(c) /\ Kv' = Kv
    BY DEF ReadersKeep, Kv, FS!Exists, FS!Contents, OnlyMoves
  <1>2. ~Serving(c)
    BY Typed DEF CallSound, Serving
  <1>3. AbstractRequest(c) = None /\ c \notin AbstractDone /\ AbstractResult(c) = None
    BY <1>2 DEF AbstractRequest, AbstractDone, AbstractResult
  <1>4. ~(c \in AbstractDone)'
    BY DEF AbstractDone, Serving
  <1>5. AbstractResult(c)' = None
    BY <1>4 DEF AbstractResult
  <1>6. CASE Serving(c)'
    <2>1. AbstractRequest(c)' \in Atomic!Requests
      BY <1>6, RequestFacts DEF AbstractRequest, RequestOf, Serving
    <2>2. QED
      BY <1>1, <1>3, <1>4, <1>5, <2>1, CallMap
  <1>7. CASE ~Serving(c)'
    <2>1. AbstractRequest(c)' = None
      BY <1>7 DEF AbstractRequest
    <2>2. QED
      BY <1>1, <1>3, <1>4, <1>5, <2>1, StutterMap
  <1>8. QED
    BY <1>6, <1>7

LEMMA BeginRefines ==
    ASSUME TypeInv, NEW c \in Callers,
           \/ \E k \in Keys, v \in Values : CallPut(c, k, v)
           \/ \E k \in Keys : CallDelete(c, k) \/ CallGet(c, k)
           \/ CallKeys(c)
    PROVE  AbstractNext
  <1>1. TypeInv'
    BY CallKeepsType
  <1>2. PICK to \in PCs, a \in Calls : /\ Begin(c, to, a)
                                       /\ to \in BeforeEffect \/ a.op = "keys"
    <2>1. /\ {"lock", "delBin", "getOpen"} \subseteq PCs \cap BeforeEffect /\ "list" \in PCs
          /\ \A k \in Keys : /\ [op |-> "delete", key |-> k] \in Calls
                            /\ [op |-> "get", key |-> k] \in Calls
                            /\ \A v \in Values : [op |-> "put", key |-> k, value |-> v] \in Calls
          /\ [op |-> "keys"] \in Calls
      BY DEF PCs, Calls, BeforeEffect
    <2>2. CASE \E k \in Keys, v \in Values : CallPut(c, k, v)
      BY <2>1, <2>2 DEF CallPut
    <2>3. CASE \E k \in Keys : CallDelete(c, k)
      BY <2>1, <2>3 DEF CallDelete
    <2>4. CASE \E k \in Keys : CallGet(c, k)
      BY <2>1, <2>4 DEF CallGet
    <2>5. CASE CallKeys(c)
      BY <2>1, <2>5 DEF CallKeys
    <2>6. QED
      BY <2>2, <2>3, <2>4, <2>5
  <1>3. /\ OnlyMoves(c) /\ pc[c] = "idle" /\ pc'[c] = to /\ call'[c] = a
        /\ UNCHANGED <<dir, data, fd, ret>>
    BY <1>2, BeginFacts
  <1>4. QED
    BY <1>1, <1>2, <1>3, BeginMaps

\* The steps of Put: the rename is the instant it takes effect.
LEMMA PutRefines ==
    ASSUME StoreInv, NEW c \in Callers,
           \/ Acquire(c) \/ OpenTmp(c) \/ WriteTmp(c) \/ RenameTmp(c) \/ RenameFails(c)
           \/ OpenSidecar(c) \/ WriteSidecar(c) \/ Release(c)
    PROVE  AbstractNext
  <1> USE StoreFacts, Typed, NamesAre
  <1>1. /\ UNCHANGED <<call, todo>> /\ pc[c] \in {"lock"} \cup Holding
        /\ TypeInv'
    BY PutKeepsType DEF Acquire, OpenTmp, WriteTmp, RenameTmp, RenameFails, OpenSidecar,
       WriteSidecar, Release, Goto, Holding
  <1>2. ~RenameFails(c)
    BY DEF RenameFails, Goto, PutSound
  <1>3. PICK to \in {"open", "write", "rename", "keyOpen", "keyWrite", "unlock", "return"} :
            /\ pc' = [pc EXCEPT ![c] = to]
            /\ to = "keyOpen" <=> RenameTmp(c)
            /\ ~RenameTmp(c) => (pc[c] \in BeforeEffect <=> to \in BeforeEffect)
    BY <1>2 DEF Acquire, OpenTmp, WriteTmp, RenameTmp, OpenSidecar, WriteSidecar, Release, Goto,
       BeforeEffect
  <1>4. ret' = ret
    BY <1>2 DEF Acquire, OpenTmp, WriteTmp, RenameTmp, OpenSidecar, WriteSidecar, Release
  <1>5. OnlyMoves(c) /\ pc'[c] = to
    BY <1>1, <1>3, <1>4 DEF OnlyMoves, PCs
  <1>6. PICK k \in Keys, v \in Values : k = call[c].key /\ v = call[c].value
    BY <1>1, Arguments DEF CallSound, Holding
  <1>7. call[c].op = "put" /\ call[c] # None /\ pc[c] # "idle"
    BY <1>1, Arguments DEF CallSound, Holding
  <1>8. ASSUME ~RenameTmp(c), ReadersKeep(c), NamesKeep({Bin(j) : j \in Keys})
        PROVE  AbstractNext
    <2>1. Kv' = Kv
      BY <1>8, KvKept
    <2>2. QED
      BY <1>1, <1>3, <1>4, <1>5, <1>7, <1>8, <2>1, InnerMap
  <1>9. CASE Acquire(c) \/ Release(c)
    <2>1. UNCHANGED <<dir, data, fd>> /\ ~RenameTmp(c)
      BY <1>9 DEF Acquire, Release, RenameTmp, Goto
    <2>2. ReadersKeep(c) /\ NamesKeep({Bin(j) : j \in Keys})
      BY <2>1 DEF ReadersKeep, NamesKeep
    <2>3. QED
      BY <1>8, <2>1, <2>2
  <1>10. CASE OpenTmp(c) \/ OpenSidecar(c)
    <2>1. PICK n \in {Tmp(k), Sidecar(k)} : FS!OpenTrunc(c, n) /\ ~RenameTmp(c)
      BY <1>6, <1>10 DEF OpenTmp, OpenSidecar, RenameTmp, Goto
    <2>1a. n \in Names /\ Files
      OBVIOUS
    <2>2. /\ NamesKeep(Names \ {n})
          /\ \A d \in Callers \ {c} :
                 /\ fd'[d] = fd[d]
                 /\ fd[d] # 0 /\ fd[d] # dir[n] =>
                        data'[fd[d]] = data[fd[d]] /\ fd[d] # dir'[n]
      BY <2>1, <2>1a, OpenTruncFacts
    <2>3. ReadersKeep(c)
      BY <2>2 DEF ReadersKeep, GetSound, Opened
    <2>4. NamesKeep({Bin(j) : j \in Keys})
      BY <2>2 DEF NamesKeep
    <2>5. QED
      BY <1>8, <2>1, <2>3, <2>4
  <1>11. CASE WriteTmp(c) \/ WriteSidecar(c)
    <2>1. PICK b \in Seq(Bytes) : FS!WriteClose(c, b) /\ ~RenameTmp(c)
      BY <1>6, <1>11, BytesAre DEF WriteTmp, WriteSidecar, RenameTmp, Goto
    <2>2. pc[c] \in {"write", "keyWrite"} /\ fd[c] # 0
      BY <1>11 DEF WriteTmp, WriteSidecar, Goto, Opened
    <2>3. /\ dir' = dir
          /\ \A n \in Names : dir[n] # 0 /\ dir[n] # fd[c] => data'[dir[n]] = data[dir[n]]
          /\ \A d \in Callers \ {c} :
                 /\ fd'[d] = fd[d]
                 /\ fd[d] # 0 /\ fd[d] # fd[c] => data'[fd[d]] = data[fd[d]]
      BY <2>1, <2>2, WriteCloseFacts
    <2>4. \A j \in Keys : dir[Bin(j)] # fd[c]
      <3>1. CASE pc[c] = "write"
        BY <1>6, <2>2, <3>1 DEF PutSound, Files, Distinct
      <3>2. CASE pc[c] = "keyWrite"
        BY <1>6, <3>2 DEF PutSound
      <3>3. QED
        BY <2>2, <3>1, <3>2
    <2>5. ReadersKeep(c)
      <3>1. ASSUME NEW d \in Callers \ {c}, pc[d] = "getRead" PROVE fd[d] # 0 /\ fd[d] # fd[c]
        <4>1. fd[d] # 0 /\ fd[d] # dir[Tmp(k)]
          BY <3>1 DEF GetSound, Opened
        <4>2. CASE pc[c] = "write"
          BY <1>6, <4>1, <4>2 DEF PutSound
        <4>3. CASE pc[c] = "keyWrite"
          BY <4>1, <4>3 DEF PutSound
        <4>4. QED
          BY <2>2, <4>1, <4>2, <4>3
      <3>2. QED
        BY <2>3, <3>1 DEF ReadersKeep
    <2>6. NamesKeep({Bin(j) : j \in Keys})
      BY <2>3, <2>4 DEF NamesKeep
    <2>7. QED
      BY <1>8, <2>1, <2>5, <2>6
  <1>12. CASE RenameTmp(c)
    <2>1. pc[c] = "rename" /\ pc'[c] = "keyOpen" /\ FS!Rename(Tmp(k), Bin(k))
      BY <1>3, <1>5, <1>6, <1>12 DEF RenameTmp, Goto
    <2>2. dir[Tmp(k)] # 0 /\ data[dir[Tmp(k)]] = Data(v)
      BY <1>6, <2>1 DEF PutSound, FS!Exists, FS!Contents
    <2>3. /\ NamesKeep(Names \ {Tmp(k), Bin(k)})
          /\ dir'[Bin(k)] = dir[Tmp(k)] /\ data'[dir[Tmp(k)]] = data[dir[Tmp(k)]]
          /\ \A d \in Callers : fd'[d] = fd[d] /\ (fd[d] # 0 => data'[fd[d]] = data[fd[d]])
      BY <2>1, <2>2, RenameFacts
    <2>4. ReadersKeep(c)
      BY <2>3, QuietReaders DEF OthersKeep
    <2>5. Kv' = [Kv EXCEPT ![k] = Data(v)]
      <3>1. \A j \in Keys \ {k} : dir'[Bin(j)] = dir[Bin(j)]
                                  /\ (dir[Bin(j)] # 0 => data'[dir[Bin(j)]] = data[dir[Bin(j)]])
        BY <2>3 DEF NamesKeep
      <3>2. QED
        BY <2>2, <2>3, <3>1, KvChange
    <2>6. PICK r : r = RequestOf(call[c])
      OBVIOUS
    <2>7. r # None /\ r.op = "put" /\ r.key = k /\ r.value = Data(v)
      BY <1>1, <1>6, <1>7, <2>6, RequestFacts
    <2>8. Serving(c) /\ Serving(c)'
      BY <1>1, <1>7 DEF Serving
    <2>9. AbstractRequest(c) = r /\ AbstractRequest(c)' = r
      BY <1>1, <2>6, <2>8 DEF AbstractRequest, RequestOf
    <2>10. c \notin AbstractDone /\ (c \in AbstractDone)' /\ AbstractResult(c)' = None
      BY <1>1, <1>7, <2>1, <2>8 DEF AbstractDone, AbstractResult, BeforeEffect
    <2>11. TakesEffect(c, r)
      BY <2>5, <2>7, <2>10 DEF TakesEffect
    <2>12. QED
      BY <1>4, <1>5, <2>4, <2>7, <2>9, <2>10, <2>11, EffectMap
  <1>13. QED
    BY <1>2, <1>9, <1>10, <1>11, <1>12

\* The steps of Delete: it takes effect when the value file goes.
LEMMA DeleteRefines ==
    ASSUME TypeInv, NEW c \in Callers, RemoveBin(c) \/ RemoveSidecar(c)
    PROVE  AbstractNext
  <1> USE Typed, NamesAre
  <1>1. /\ UNCHANGED <<call, ret, todo>> /\ TypeInv'
        /\ \/ pc[c] = "delBin" /\ pc' = [pc EXCEPT ![c] = "delKey"]
           \/ pc[c] = "delKey" /\ pc' = [pc EXCEPT ![c] = "return"]
    BY DeleteKeepsType DEF RemoveBin, RemoveSidecar, Goto
  <1>2. OnlyMoves(c)
    BY <1>1 DEF OnlyMoves, PCs
  <1>3. PICK k \in Keys : k = call[c].key
    BY <1>1, Arguments DEF CallSound
  <1>4. call[c].op = "delete" /\ call[c] # None /\ call[c] \in Calls
    BY <1>1, Arguments DEF CallSound
  <1>5. CASE RemoveBin(c)
    <2>1. /\ NamesKeep(Names \ {Bin(k)}) /\ dir'[Bin(k)] = 0
          /\ \A d \in Callers : fd'[d] = fd[d] /\ (fd[d] # 0 => data'[fd[d]] = data[fd[d]])
      BY <1>3, <1>5, RemoveFacts DEF RemoveBin
    <2>2. ReadersKeep(c)
      BY <2>1, QuietReaders DEF OthersKeep
    <2>3. Kv' = [Kv EXCEPT ![k] = None]
      <3>1. \A j \in Keys \ {k} : dir'[Bin(j)] = dir[Bin(j)]
                                  /\ (dir[Bin(j)] # 0 => data'[dir[Bin(j)]] = data[dir[Bin(j)]])
        BY <2>1 DEF NamesKeep
      <3>2. QED
        BY <2>1, <3>1, KvChange
    <2>4. PICK r : r = RequestOf(call[c])
      OBVIOUS
    <2>5. r # None /\ r.op = "delete" /\ r.key = k
      BY <1>3, <1>4, <2>4, RequestFacts
    <2>6. Serving(c) /\ Serving(c)' /\ pc[c] = "delBin" /\ pc'[c] = "delKey"
      BY <1>1, <1>4, <1>5 DEF Serving, RemoveBin, RemoveSidecar, Goto
    <2>7. AbstractRequest(c) = r /\ AbstractRequest(c)' = r
      BY <1>1, <2>4, <2>6 DEF AbstractRequest, RequestOf
    <2>8. c \notin AbstractDone /\ (c \in AbstractDone)' /\ AbstractResult(c)' = None
      BY <1>1, <1>4, <2>6 DEF AbstractDone, AbstractResult, BeforeEffect
    <2>9. TakesEffect(c, r)
      BY <2>3, <2>5, <2>8 DEF TakesEffect
    <2>10. QED
      BY <1>1, <1>2, <2>2, <2>5, <2>7, <2>8, <2>9, EffectMap
  <1>6. CASE RemoveSidecar(c)
    <2>1. pc[c] = "delKey" /\ pc'[c] = "return"
      BY <1>1, <1>6 DEF RemoveBin, RemoveSidecar, Goto
    <2>2. /\ NamesKeep(Names \ {Sidecar(k)})
          /\ \A d \in Callers : fd'[d] = fd[d] /\ (fd[d] # 0 => data'[fd[d]] = data[fd[d]])
      BY <1>3, <1>6, RemoveFacts DEF RemoveSidecar
    <2>3. ReadersKeep(c) /\ Kv' = Kv
      BY <2>2, QuietReaders, KvKept DEF OthersKeep, NamesKeep
    <2>4. QED
      BY <1>1, <1>2, <1>4, <2>1, <2>3, InnerMap DEF BeforeEffect
  <1>7. QED
    BY <1>5, <1>6

\* A Put or a Delete that fails, before the instant it takes effect or after it.
LEMMA FailRefines ==
    ASSUME StoreInv, NEW c \in Callers, Fails(c)
    PROVE  AbstractNext
  <1> USE StoreFacts, Typed, NamesAre
  <1>1. /\ call' = call /\ pc[c] \in FailPoints
        /\ pc' = [pc EXCEPT ![c] = IF pc[c] \in Holding THEN "unlock" ELSE "return"]
        /\ ret'[c].err /\ dir' = dir
        /\ \A n \in Names : dir[n] # 0 /\ dir[n] # fd[c] => data'[dir[n]] = data[dir[n]]
        /\ \A d \in Callers \ {c} :
               /\ fd'[d] = fd[d]
               /\ fd[d] # 0 /\ fd[d] # fd[c] => data'[fd[d]] = data[fd[d]]
    BY FailFacts
  <1>2. OnlyMoves(c)
    BY FailMoves
  <1>3. PICK k \in Keys : k = call[c].key
    BY <1>1, Arguments DEF FailPoints, CallSound, Holding
  <1>4. /\ call[c].op \in {"put", "delete"} /\ call[c] # None /\ call[c] \in Calls
        /\ fd[c] # 0 => pc[c] \in {"write", "keyWrite"}
    BY <1>1, Arguments DEF FailPoints, CallSound, Holding, Opened
  <1>5. Kv' = Kv
    <2>1. ASSUME NEW j \in Keys, dir[Bin(j)] # 0 PROVE dir[Bin(j)] # fd[c]
      <3>1. CASE pc[c] = "write"
        BY <1>3, <2>1, <3>1 DEF PutSound, Files, Distinct
      <3>2. CASE pc[c] = "keyWrite"
        BY <1>3, <3>2 DEF PutSound
      <3>3. QED
        BY <1>4, <2>1, <3>1, <3>2
    <2>2. QED
      BY <1>1, <2>1, KvKept DEF NamesKeep
  <1>6. ReadersKeep(c)
    <2>1. ASSUME NEW d \in Callers \ {c}, pc[d] = "getRead" PROVE fd[d] # 0 /\ fd[d] # fd[c]
      <3>1. fd[d] # 0 /\ fd[d] # dir[Tmp(k)]
        BY <2>1 DEF GetSound, Opened
      <3>2. CASE pc[c] = "write"
        BY <1>3, <3>1, <3>2 DEF PutSound
      <3>3. CASE pc[c] = "keyWrite"
        BY <3>1, <3>3 DEF PutSound
      <3>4. QED
        BY <1>4, <3>1, <3>2, <3>3
    <2>2. QED
      BY <1>1, <2>1 DEF ReadersKeep
  <1>7. Serving(c) /\ Serving(c)' /\ pc'[c] \notin BeforeEffect
    BY <1>1, <1>4 DEF Serving, BeforeEffect
  <1>8. (c \in AbstractDone)'
    BY <1>7 DEF AbstractDone
  <1>9. AbstractRequest(c)' = AbstractRequest(c)
    BY <1>1, <1>7 DEF AbstractRequest
  <1>10. AbstractResult(c) = None /\ AbstractResult(c)' = None
    BY <1>1, <1>4 DEF AbstractResult
  <1>11. PICK r : r = RequestOf(call[c])
    OBVIOUS
  <1>12. AbstractRequest(c) = r /\ r # None /\ r.op \in {"put", "delete"}
    BY <1>4, <1>7, <1>11, RequestFacts DEF AbstractRequest, RequestOf
  <1>13. /\ Req' = [Req EXCEPT ![c] = AbstractRequest(c)]
         /\ Res' = [Res EXCEPT ![c] = AbstractResult(c)]
         /\ AbstractDone' = AbstractDone \cup {c} /\ Err' = Err \cup {c}
    BY <1>1, <1>2, <1>6, <1>8, <1>9, <1>10, CallerMap, ErrMap
  <1>14. Req' = Req /\ Res' = Res /\ Req[c] = r
    BY <1>12, <1>13 DEF Req, Res
  <1>15. Atomic!Fail(c)
    BY <1>5, <1>12, <1>13, <1>14 DEF Atomic!Fail, Kv, Req, Res, Err
  <1>16. QED
    BY <1>15 DEF AbstractNext, Atomic!Next

\* The steps of Get, which takes effect when it opens the value file or finds
\* none, and of Keys, which is not part of the atomic store.
LEMMA ReadRefines ==
    ASSUME TypeInv, NEW c \in Callers,
           \/ \E k \in Keys : ReadEntry(c, k)
           \/ GetMissing(c) \/ GetOpen(c) \/ GetRead(c) \/ ReadDir(c) \/ KeysDone(c)
    PROVE  AbstractNext
  <1> USE Typed, NamesAre
  <1>1. /\ call' = call /\ pc[c] \in {"getOpen", "getRead", "list", "entry"}
        /\ ret' \in [Callers -> Results] /\ todo' \in [Callers -> SUBSET Keys]
        /\ \A d \in Callers \ {c} : pc'[d] = pc[d]
        /\ TypeInv' /\ pc' \in [Callers -> PCs] /\ pc'[c] \in {"getRead", "entry", "return"}
    <2>1. TypeInv'
      BY ReadKeepsType
    <2>2. QED
      BY <2>1 DEF ReadEntry, GetMissing, GetOpen, GetRead, ReadDir, KeysDone, Goto,
                  TypeInv, TypeOK, Results, Bytes
  <1>2. call[c] # None /\ call[c] \in Calls
    BY <1>1, Arguments
  <1>3. CASE (\E k \in Keys : ReadEntry(c, k)) \/ ReadDir(c) \/ KeysDone(c)
    <2>1. /\ UNCHANGED <<dir, data, fd>> /\ pc[c] \in {"list", "entry"}
          /\ \A d \in Callers \ {c} : ret'[d] = ret[d] /\ todo'[d] = todo[d]
      BY <1>3 DEF ReadEntry, ReadDir, KeysDone, Goto
    <2>2. OnlyMoves(c) /\ ReadersKeep(c) /\ Kv' = Kv
      BY <1>1, <2>1 DEF OnlyMoves, ReadersKeep, Kv, FS!Exists, FS!Contents
    <2>3. call[c].op = "keys"
      BY <2>1 DEF CallSound
    <2>4. ret'[c].err <=> ret[c].err
      BY <1>3 DEF ReadEntry, ReadDir, KeysDone, Results
    <2>5. QED
      BY <1>1, <1>2, <2>2, <2>3, <2>4, InnerMap DEF Serving
  <1>4. CASE GetMissing(c) \/ GetOpen(c)
    <2>1. pc[c] = "getOpen" /\ call[c].op = "get"
      BY <1>4 DEF GetMissing, GetOpen, Goto, CallSound
    <2>2. PICK k \in Keys : k = call[c].key
      BY <1>1, <2>1, Arguments
    <2>3. /\ UNCHANGED <<dir, data, ret, todo>> /\ ret[c] = NoResult
          /\ \A d \in Callers \ {c} : fd'[d] = fd[d]
          /\ \/ dir[Bin(k)] = 0 /\ pc'[c] = "return"
             \/ dir[Bin(k)] # 0 /\ pc'[c] = "getRead" /\ fd'[c] = dir[Bin(k)]
      BY <1>4, <2>1, <2>2 DEF GetMissing, GetOpen, Goto, FS!Exists, FS!OpenRead, CallSound
    <2>4. OnlyMoves(c) /\ ReadersKeep(c) /\ Kv' = Kv
      BY <1>1, <2>3 DEF OnlyMoves, ReadersKeep, Kv, FS!Exists, FS!Contents
    <2>5. PICK r : r = RequestOf(call[c])
      OBVIOUS
    <2>6. r # None /\ r.op = "get" /\ r.key = k
      BY <1>2, <2>1, <2>2, <2>5, RequestFacts
    <2>7. Serving(c) /\ Serving(c)'
      BY <1>1, <1>2, <2>1 DEF Serving
    <2>8. AbstractRequest(c) = r /\ AbstractRequest(c)' = r
      BY <1>1, <2>5, <2>7 DEF AbstractRequest, RequestOf
    <2>9. c \notin AbstractDone /\ (c \in AbstractDone)'
      BY <2>1, <2>3, <2>7 DEF AbstractDone, BeforeEffect
    <2>10. Kv[k] = IF dir[Bin(k)] # 0 THEN data[dir[Bin(k)]] ELSE None
      BY DEF Kv, FS!Exists, FS!Contents
    <2>11. AbstractResult(c)' = Kv[k]
      <3>1. AbstractResult(c)' = IF pc'[c] = "getRead" THEN data'[fd'[c]]
                                 ELSE IF ret'[c].out = {} THEN None
                                      ELSE CHOOSE bytes \in ret'[c].out : TRUE
        BY <1>1, <2>1, <2>9 DEF AbstractResult
      <3>2. ret'[c].out = {}
        BY <2>3 DEF NoResult
      <3>3. QED
        BY <2>3, <2>10, <3>1, <3>2
    <2>12. TakesEffect(c, r)
      BY <2>4, <2>6, <2>11 DEF TakesEffect
    <2>13. QED
      BY <2>3, <2>4, <2>6, <2>8, <2>9, <2>12, EffectMap
  <1>5. CASE GetRead(c)
    <2>1. /\ pc[c] = "getRead" /\ pc'[c] = "return" /\ call[c].op = "get" /\ todo' = todo
          /\ ret' = [ret EXCEPT ![c] = [ret[c] EXCEPT !.out = {data[fd[c]]}]]
          /\ FS!Close({c})
      BY <1>5 DEF GetRead, Goto, CallSound
    <2>2. ret'[c].out = {data[fd[c]]} /\ \A d \in Callers \ {c} : ret'[d] = ret[d]
      BY <2>1 DEF Results
    <2>3. NamesKeep(Names) /\ OthersKeep(c)
      BY <2>1, CloseFacts DEF OthersKeep
    <2>4. OnlyMoves(c) /\ ReadersKeep(c) /\ Kv' = Kv
      BY <1>1, <2>1, <2>2, <2>3, QuietReaders, KvKept DEF OnlyMoves, NamesKeep
    <2>5. Serving(c) /\ Serving(c)'
      BY <1>1, <1>2, <2>1 DEF Serving
    <2>6. c \in AbstractDone /\ (c \in AbstractDone)'
      BY <2>1, <2>5 DEF AbstractDone, BeforeEffect
    <2>7. AbstractRequest(c)' = AbstractRequest(c)
      BY <1>1, <2>5 DEF AbstractRequest
    <2>8. AbstractResult(c) = data[fd[c]]
      BY <2>1, <2>6 DEF AbstractResult
    <2>9. AbstractResult(c)' = CHOOSE bytes \in {data[fd[c]]} : TRUE
      BY <1>1, <2>1, <2>2, <2>6 DEF AbstractResult
    <2>10. (CHOOSE bytes \in {data[fd[c]]} : TRUE) = data[fd[c]]
      OBVIOUS
    <2>11. ret'[c].err <=> ret[c].err
      BY <2>1 DEF Results
    <2>12. QED
      BY <2>4, <2>6, <2>7, <2>8, <2>9, <2>10, <2>11, StutterMap
  <1>6. QED
    BY <1>3, <1>4, <1>5

LEMMA ReturnRefines ==
    ASSUME TypeInv, NEW c \in Callers, Return(c)
    PROVE  AbstractNext
  <1> USE Typed
  <1>1. /\ UNCHANGED <<dir, data, fd, todo>>
        /\ pc[c] = "return" /\ pc' = [pc EXCEPT ![c] = "idle"]
        /\ call' = [call EXCEPT ![c] = None] /\ ret' = [ret EXCEPT ![c] = NoResult]
    BY DEF Return, Goto
  <1>2. OnlyMoves(c) /\ call'[c] = None /\ ~ret'[c].err
    BY <1>1 DEF OnlyMoves, PCs, NoResult, Results
  <1>3. ReadersKeep(c) /\ Kv' = Kv
    BY <1>1 DEF ReadersKeep, Kv, FS!Exists, FS!Contents
  <1>4. ~Serving(c)'
    BY <1>2 DEF Serving
  <1>5. AbstractRequest(c)' = None /\ ~(c \in AbstractDone)'
    BY <1>4 DEF AbstractRequest, AbstractDone
  <1>6. AbstractResult(c)' = None
    BY <1>5 DEF AbstractResult
  <1>7. CASE Serving(c)
    <2>1. c \in AbstractDone
      BY <1>1, <1>7 DEF AbstractDone, BeforeEffect
    <2>2. QED
      BY <1>2, <1>3, <1>5, <1>6, <2>1, ReturnMap
  <1>8. CASE ~Serving(c)
    <2>1. AbstractRequest(c) = None /\ c \notin AbstractDone /\ AbstractResult(c) = None
      BY <1>8 DEF AbstractRequest, AbstractDone, AbstractResult
    <2>2. ~ret[c].err
      BY <1>1, <1>8, Typed, Arguments DEF CallSound, Serving, PCs
    <2>3. QED
      BY <1>2, <1>3, <1>5, <1>6, <2>1, <2>2, StutterMap
  <1>9. QED
    BY <1>7, <1>8

LEMMA CrashRefines ==
    ASSUME OneStore, TypeInv, NEW h \in Mortal, Crash(h)
    PROVE  AbstractNext
  <1> USE Typed
  <1>1. {c \in Callers : HandleOf[c] = h} = Callers
    BY DEF OneStore, Crash
  <1>2. FS!Close(Callers) /\ \A c \in Callers : call'[c] = None /\ ret'[c] = NoResult
    BY <1>1 DEF Crash
  <1>3. NamesKeep(Names)
    BY <1>2, CloseFacts
  <1>4. Kv' = Kv
    BY <1>3, KvKept, NamesAre DEF NamesKeep
  <1>5. \A c \in Callers : ~Serving(c)'
    BY <1>2 DEF Serving
  <1>6. AbstractDone' = {} /\ AbstractDone \subseteq Callers
    BY <1>5 DEF AbstractDone
  <1>7. \A c \in Callers : AbstractRequest(c)' = None
    BY <1>5 DEF AbstractRequest
  <1>8. \A c \in Callers : AbstractResult(c)' = None
    BY <1>6 DEF AbstractResult
  <1>9. /\ Req' = [c \in Callers |-> IF c \in Callers THEN None ELSE Req[c]]
        /\ Res' = [c \in Callers |-> IF c \in Callers THEN None ELSE Res[c]]
        /\ AbstractDone' = AbstractDone \ Callers /\ Err' = Err \ Callers
    BY <1>2, <1>6, <1>7, <1>8 DEF Req, Res, Err, NoResult
  <1>10. Atomic!Crash(Callers)
    BY <1>4, <1>9 DEF Atomic!Crash, Kv, Req, Res, Err
  <1>11. QED
    BY <1>10 DEF AbstractNext, Atomic!Next

LEMMA StepRefines == OneStore /\ StoreInv /\ [Next]_vars => AbstractNext
  <1> SUFFICES ASSUME OneStore, StoreInv, [Next]_vars PROVE AbstractNext
    OBVIOUS
  <1> USE StoreFacts
  <1>1. CASE UNCHANGED vars
    <2>1. UNCHANGED <<dir, data, fd, pc, call, ret>>
      BY <1>1 DEF vars, callVars
    <2>2. Kv' = Kv
      BY <2>1 DEF Kv, FS!Exists, FS!Contents
    <2>3. \A c \in Callers : Serving(c)' <=> Serving(c)
      BY <2>1 DEF Serving
    <2>4. AbstractDone' = AbstractDone
      BY <2>1, <2>3 DEF AbstractDone
    <2>5. \A c \in Callers : AbstractRequest(c)' = AbstractRequest(c)
      BY <2>1, <2>3 DEF AbstractRequest
    <2>6. \A c \in Callers : AbstractResult(c)' = AbstractResult(c)
      BY <2>1, <2>4 DEF AbstractResult
    <2>7. Req' = Req /\ Res' = Res /\ Err' = Err
      BY <2>1, <2>5, <2>6 DEF Req, Res, Err
    <2>8. QED
      BY <2>2, <2>4, <2>7 DEF AbstractNext, Atomic!asVars, Kv, Req, Res, Err
  <1>2. ASSUME NEW c \in Callers, PutStep(c) \/ DeleteStep(c) \/ ReadStep(c) \/ Return(c)
        PROVE  AbstractNext
    BY <1>2, BeginRefines, PutRefines, DeleteRefines, FailRefines, ReadRefines, ReturnRefines
       DEF PutStep, DeleteStep, ReadStep, Fails
  <1>3. QED
    BY <1>1, <1>2, CrashRefines DEF Next

LEMMA InitRefines == Init => Atomic!Init
  <1> SUFFICES ASSUME Init PROVE Atomic!Init
    OBVIOUS
  <1>1. /\ \A k \in Keys : ~FS!Exists(Bin(k))
        /\ \A c \in Callers : ~Serving(c) /\ ~ret[c].err
    BY NamesAre DEF Init, FS!FSInit, FS!Exists, Serving, NoResult
  <1>2. AbstractDone = {}
    BY <1>1 DEF AbstractDone
  <1>3. \A c \in Callers : AbstractRequest(c) = None /\ AbstractResult(c) = None
    BY <1>1, <1>2 DEF AbstractRequest, AbstractResult
  <1>4. QED
    BY <1>1, <1>2, <1>3 DEF Atomic!Init

\* One store object is an atomic store: every Get, Put and Delete of concurrent
\* callers takes effect at one instant of its call, and a process that dies
\* leaves each key with a whole value or none: it implements AtomicStore.
THEOREM StoreIsAtomic == OneStore => (Spec => ImplementsAtomicStore)
  <1> SUFFICES ASSUME OneStore PROVE Spec => ImplementsAtomicStore
    OBVIOUS
  <1>1. StoreInv /\ [Next]_vars => AbstractNext
    BY StepRefines
  <1>2. QED
    BY <1>1, InitRefines, StoreInvariance, PTL
       DEF AbstractNext, Spec, ImplementsAtomicStore, Atomic!Spec
================================================================================
