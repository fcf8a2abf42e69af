------------------------- MODULE CredentialStoreProofs -------------------------
(***************************************************************************)
(* Proofs about the credential store, for any number of processes and      *)
(* instances, wherever processes die: a saved credential stays, and is     *)
(* never seen half written unless two connects of its instance overlap.    *)
(* If the process that creates the master key is not joined by another     *)
(* before the key file exists, there is one key, and it opens every        *)
(* credential in the store.                                                *)
(***************************************************************************)
EXTENDS CredentialStore, SequenceTheorems, TLAPS

--------------------------------------------------------------------------------
(* File operations.                                                        *)

Bytes == Procs \cup [by : Procs, key : Procs]

\* No inode has two names.
Distinct == \A m, n \in Names : dir[m] # 0 /\ dir[m] = dir[n] => m = n

Files == FS!FSType(Bytes) /\ Distinct

\* What a key file and what the file of a credential may hold.
KeyBytes == {<<>>} \cup {<<q>> : q \in Procs}
CredBytes == {<<>>} \cup {<<c>> : c \in [by : Procs, key : Procs]}

LEMMA OneByte ==
    /\ KeyBytes \subseteq Seq(Bytes) /\ CredBytes \subseteq Seq(Bytes)
    /\ \A x \in Bytes, s \in KeyBytes \cup CredBytes : FS!Overlay(<<x>>, s) = <<x>>
  <1>1. KeyBytes \subseteq Seq(Bytes) /\ CredBytes \subseteq Seq(Bytes)
    <2>1. ASSUME NEW x \in Bytes PROVE <<x>> \in Seq(Bytes)
      OBVIOUS
    <2>2. <<>> \in Seq(Bytes)
      OBVIOUS
    <2>3. QED
      BY <2>1, <2>2, Zenon DEF KeyBytes, CredBytes, Bytes
  <1>2. \A s \in KeyBytes \cup CredBytes : Len(s) \in 0..1 /\ s \in Seq(Bytes)
    BY <1>1 DEF KeyBytes, CredBytes
  <1>3. ASSUME NEW x \in Bytes, NEW s \in Seq(Bytes), Len(s) \in 0..1
        PROVE  FS!Overlay(<<x>>, s) = <<x>>
    <2>1. Len(<<x>>) = 1 /\ <<x>> \in Seq(Bytes)
      OBVIOUS
    <2>2. SubSeq(s, 2, Len(s)) = <<>>
      <3>1. Len(s) \in Int /\ Len(s) < 2
        BY <1>3
      <3>2. QED
        BY <3>1, SubSeqEmpty, SMT
    <2>3. <<x>> \o <<>> = <<x>>
      BY <2>1, ConcatEmptySeq
    <2>4. Len(<<x>>) + 1 = 2
      BY <2>1
    <2>5. FS!Overlay(<<x>>, s) = <<x>> \o SubSeq(s, 2, Len(s))
      BY <2>4, Zenon DEF FS!Overlay
    <2>6. QED
      BY <2>2, <2>3, <2>5, Zenon
  <1>4. QED
    BY <1>1, <1>2, <1>3

\* An open for writing empties the file, which may be a new one, and touches no
\* other name.
LEMMA OpenTruncFacts ==
    ASSUME Files, NEW p \in Procs, NEW n \in Names, FS!OpenTrunc(p, n)
    PROVE  /\ Files'
           /\ \E i \in FS!Inodes :
                  /\ i # 0
                  /\ dir' = [dir EXCEPT ![n] = i]
                  /\ fd' = [fd EXCEPT ![p] = i]
                  /\ data' = [data EXCEPT ![i] = <<>>]
                  /\ dir[n] \in {0, i}
                  /\ \A m \in Names \ {n} : dir[m] # i
                  /\ dir[n] = 0 => \A q \in Procs : fd[q] # i
  <1>1. PICK i \in FS!Inodes :
            /\ IF FS!Exists(n) THEN i = dir[n] ELSE FS!IsFresh(i)
            /\ dir' = [dir EXCEPT ![n] = i]
            /\ fd' = [fd EXCEPT ![p] = i]
            /\ data' = [data EXCEPT ![i] = <<>>]
    BY DEF FS!OpenTrunc
  <1>2. i \in 0..MaxInode /\ i # 0
    BY CredentialAssumption DEF FS!Inodes
  <1>3. \A m \in Names \ {n} : dir[m] # i
    BY <1>1, <1>2 DEF Files, Distinct, FS!Exists, FS!IsFresh, FS!Linked
  <1>4. dir[n] \in {0, i} /\ (dir[n] = 0 => \A q \in Procs : fd[q] # i)
    BY <1>1 DEF FS!Exists, FS!IsFresh, FS!Linked
  <1>5. FS!FSType(Bytes)'
    <2>1. <<>> \in Seq(Bytes)
      OBVIOUS
    <2>2. QED
      BY <1>1, <1>2, <2>1 DEF Files, FS!FSType, FS!Inodes
  <1>6. Distinct'
    BY <1>1, <1>2, <1>3 DEF Files, FS!FSType, Distinct
  <1>7. QED
    BY <1>1, <1>2, <1>3, <1>4, <1>5, <1>6 DEF Files

\* Freeing the inodes that neither d nor f links to leaves alone what they do.
SweepSound(d, f) ==
    /\ FS!Sweep(d, f) \in [FS!Inodes -> Seq(Bytes)]
    /\ \A i \in FS!Inodes : FS!Sweep(d, f)[i] \in {data[i], <<>>}
    /\ \A n \in Names : d[n] # 0 => FS!Sweep(d, f)[d[n]] = data[d[n]]
    /\ \A p \in Procs : f[p] # 0 => FS!Sweep(d, f)[f[p]] = data[f[p]]

\* Freeing inodes leaves alone what a name or a descriptor still holds.
LEMMA SweepFacts ==
    ASSUME Files, NEW d \in [Names -> 0..MaxInode], NEW f \in [Procs -> 0..MaxInode]
    PROVE  SweepSound(d, f)
  <1>1. \A i \in 0..MaxInode : i # 0 => i \in FS!Inodes
    BY CredentialAssumption DEF FS!Inodes
  <1>2. <<>> \in Seq(Bytes)
    OBVIOUS
  <1>3. QED
    BY <1>1, <1>2 DEF Files, FS!FSType, FS!Sweep, FS!Linked, SweepSound

LEMMA CloseFacts ==
    ASSUME Files, NEW p \in Procs, FS!Close({p})
    PROVE  /\ Files'
           /\ dir' = dir
           /\ fd' = [fd EXCEPT ![p] = 0]
           /\ \A i \in FS!Inodes : data'[i] \in {data[i], <<>>}
           /\ \A n \in Names : dir[n] # 0 => data'[dir[n]] = data[dir[n]]
           /\ \A q \in Procs \ {p} : fd[q] # 0 => data'[fd[q]] = data[fd[q]]
  <1>1. /\ dir' = dir /\ dir \in [Names -> 0..MaxInode]
        /\ fd' = [fd EXCEPT ![p] = 0] /\ fd' \in [Procs -> 0..MaxInode]
        /\ data' = FS!Sweep(dir, fd')
    <2>1. dir' = dir /\ fd' = [q \in Procs |-> IF q \in {p} THEN 0 ELSE fd[q]]
          /\ data' = FS!Sweep(dir, fd')
      BY DEF FS!Close
    <2>2. fd' = [fd EXCEPT ![p] = 0]
      BY <2>1 DEF Files, FS!FSType
    <2>3. QED
      <3>1. dir \in [Names -> 0..MaxInode] /\ fd \in [Procs -> 0..MaxInode]
        BY DEF Files, FS!FSType
      <3>2. 0 \in 0..MaxInode
        BY CredentialAssumption
      <3>3. fd' \in [Procs -> 0..MaxInode]
        BY <2>2, <3>1, <3>2
      <3>4. QED
        BY <2>1, <2>2, <3>1, <3>3
  <1>2. fd'[p] = 0 /\ \A q \in Procs \ {p} : fd'[q] = fd[q]
    BY <1>1 DEF Files, FS!FSType
  <1>3. QED
    <2>1. /\ data' \in [FS!Inodes -> Seq(Bytes)]
          /\ \A i \in FS!Inodes : data'[i] \in {data[i], <<>>}
          /\ \A n \in Names : dir[n] # 0 => data'[dir[n]] = data[dir[n]]
          /\ \A q \in Procs : fd'[q] # 0 => data'[fd'[q]] = data[fd'[q]]
      <3>1. SweepSound(dir, fd')
        BY <1>1, SweepFacts, Zenon
      <3>2. QED
        BY <1>1, <3>1, Zenon DEF SweepSound
    <2>2. Files'
      BY <1>1, <2>1 DEF Files, FS!FSType, FS!Inodes, Distinct
    <2>3. QED
      BY <1>1, <1>2, <2>1, <2>2

LEMMA WriteCloseFacts ==
    ASSUME Files, NEW p \in Procs, NEW x \in Bytes, FS!WriteClose(p, <<x>>), fd[p] # 0,
           data[fd[p]] \in KeyBytes \cup CredBytes
    PROVE  /\ Files'
           /\ dir' = dir
           /\ fd' = [fd EXCEPT ![p] = 0]
           /\ \A i \in FS!Inodes : \/ data'[i] \in {data[i], <<>>}
                                   \/ i = fd[p] /\ data'[i] = <<x>>
           /\ \A n \in Names : dir[n] # 0 =>
                  data'[dir[n]] = IF dir[n] = fd[p] THEN <<x>> ELSE data[dir[n]]
           /\ \A q \in Procs : fd[q] # 0 /\ fd[q] # fd[p] => data'[fd[q]] = data[fd[q]]
  <1>1. /\ dir' = dir /\ dir \in [Names -> 0..MaxInode]
        /\ fd' = [fd EXCEPT ![p] = 0] /\ fd' \in [Procs -> 0..MaxInode]
        /\ data' = [i \in FS!Inodes |->
                       IF i = fd[p] /\ FS!Linked(i, dir, fd') THEN <<x>>
                       ELSE FS!Sweep(dir, fd')[i]]
    <2>1. FS!Overlay(<<x>>, data[fd[p]]) = <<x>>
      BY OneByte
    <2>2. QED
      BY <2>1, CredentialAssumption DEF FS!WriteClose, Files, FS!FSType
  <1>2. fd'[p] = 0 /\ \A q \in Procs \ {p} : fd'[q] = fd[q]
    BY <1>1 DEF Files, FS!FSType
  <1>3. \A i \in 0..MaxInode : i # 0 => i \in FS!Inodes
    BY CredentialAssumption DEF FS!Inodes
  <1>4. \A n \in Names : FS!Linked(dir[n], dir, fd')
    BY DEF FS!Linked
  <1>5. <<x>> \in Seq(Bytes)
    OBVIOUS
  <1>0. SweepSound(dir, fd')
    BY <1>1, SweepFacts, Zenon
  <1>6. Files'
    <2>1. data' \in [FS!Inodes -> Seq(Bytes)]
      BY <1>0, <1>1, <1>5 DEF SweepSound
    <2>2. QED
      BY <1>1, <2>1 DEF Files, FS!FSType, FS!Inodes, Distinct
  <1>7. \A i \in FS!Inodes : \/ data'[i] \in {data[i], <<>>}
                             \/ i = fd[p] /\ data'[i] = <<x>>
    BY <1>0, <1>1 DEF SweepSound
  <1>8. ASSUME NEW n \in Names, dir[n] # 0
        PROVE  data'[dir[n]] = IF dir[n] = fd[p] THEN <<x>> ELSE data[dir[n]]
    BY <1>0, <1>1, <1>3, <1>4, <1>8 DEF Files, FS!FSType, SweepSound
  <1>9. ASSUME NEW q \in Procs, fd[q] # 0, fd[q] # fd[p] PROVE data'[fd[q]] = data[fd[q]]
    <2>1. fd[q] \in FS!Inodes /\ fd'[q] = fd[q]
      BY <1>2, <1>3, <1>9 DEF Files, FS!FSType
    <2>2. QED
      BY <1>0, <1>1, <1>9, <2>1 DEF SweepSound
  <1>10. QED
    BY <1>1, <1>6, <1>7, <1>8, <1>9

LEMMA RenameFacts ==
    ASSUME Files, NEW a \in Names, NEW b \in Names, a # b, dir[a] # 0, FS!Rename(a, b)
    PROVE  /\ Files'
           /\ fd' = fd
           /\ dir' = [dir EXCEPT ![b] = dir[a], ![a] = 0]
           /\ \A i \in FS!Inodes : data'[i] \in {data[i], <<>>}
           /\ \A n \in Names : dir'[n] # 0 => data'[dir'[n]] = data[dir'[n]]
           /\ \A q \in Procs : fd[q] # 0 => data'[fd[q]] = data[fd[q]]
  <1>1. /\ fd' = fd /\ fd \in [Procs -> 0..MaxInode]
        /\ dir' = [dir EXCEPT ![b] = dir[a], ![a] = 0] /\ dir' \in [Names -> 0..MaxInode]
        /\ data' = FS!Sweep(dir', fd)
    BY CredentialAssumption DEF FS!Rename, Files, FS!FSType
  <1>2. dir'[a] = 0 /\ dir'[b] = dir[a] /\ \A n \in Names \ {a, b} : dir'[n] = dir[n]
    BY <1>1 DEF Files, FS!FSType
  <1>3. Distinct'
    BY <1>2 DEF Files, Distinct
  <1>4. /\ data' \in [FS!Inodes -> Seq(Bytes)]
        /\ \A i \in FS!Inodes : data'[i] \in {data[i], <<>>}
        /\ \A n \in Names : dir'[n] # 0 => data'[dir'[n]] = data[dir'[n]]
        /\ \A q \in Procs : fd[q] # 0 => data'[fd[q]] = data[fd[q]]
    <2>1. SweepSound(dir', fd)
      BY <1>1, SweepFacts, Zenon
    <2>2. QED
      BY <1>1, <2>1, Zenon DEF SweepSound
  <1>5. Files'
    BY <1>1, <1>3, <1>4 DEF Files, FS!FSType, FS!Inodes
  <1>6. QED
    BY <1>1, <1>4, <1>5

LEMMA RemoveFacts ==
    ASSUME Files, NEW a \in Names, FS!Remove(a)
    PROVE  /\ Files'
           /\ fd' = fd
           /\ dir' = [dir EXCEPT ![a] = 0]
           /\ \A i \in FS!Inodes : data'[i] \in {data[i], <<>>}
           /\ \A n \in Names : dir'[n] # 0 => data'[dir'[n]] = data[dir'[n]]
           /\ \A q \in Procs : fd[q] # 0 => data'[fd[q]] = data[fd[q]]
  <1>1. /\ fd' = fd /\ fd \in [Procs -> 0..MaxInode]
        /\ dir' = [dir EXCEPT ![a] = 0] /\ dir' \in [Names -> 0..MaxInode]
        /\ data' = FS!Sweep(dir', fd)
    BY CredentialAssumption DEF FS!Remove, Files, FS!FSType
  <1>2. dir'[a] = 0 /\ \A n \in Names \ {a} : dir'[n] = dir[n]
    BY <1>1 DEF Files, FS!FSType
  <1>3. Distinct'
    BY <1>2 DEF Files, Distinct
  <1>4. /\ data' \in [FS!Inodes -> Seq(Bytes)]
        /\ \A i \in FS!Inodes : data'[i] \in {data[i], <<>>}
        /\ \A n \in Names : dir'[n] # 0 => data'[dir'[n]] = data[dir'[n]]
        /\ \A q \in Procs : fd[q] # 0 => data'[fd[q]] = data[fd[q]]
    <2>1. SweepSound(dir', fd)
      BY <1>1, SweepFacts, Zenon
    <2>2. QED
      BY <1>1, <2>1, Zenon DEF SweepSound
  <1>5. Files'
    BY <1>1, <1>3, <1>4 DEF Files, FS!FSType, FS!Inodes
  <1>6. QED
    BY <1>1, <1>4, <1>5

--------------------------------------------------------------------------------
(* The inductive invariant, whoever creates the key.                       *)

Working == {"mkdir", "openTmp", "writeTmp", "rename", "remove", "prune", "openCred", "readCred"}

\* A process with the key is at a step of its command, and a descriptor is open
\* exactly between an open and the read or write that follows.
ProcSound(p) ==
    /\ fd[p] # 0 <=> pc[p] \in {"readKey", "writeKey", "writeTmp", "readCred"}
    /\ pc[p] \in {"readKey", "writeKey"} => fd[p] = dir[KeyFile]
    /\ pc[p] \in {"writeTmp", "readCred"} => fd[p] # dir[KeyFile]
    /\ pc[p] # "new" => cmd[p] \in Commands
    /\ pc[p] \in Working => vault[p] # None
    /\ pc[p] \in {"mkdir", "openTmp", "writeTmp", "rename"} => cmd[p].op = "connect"
    /\ pc[p] \in {"remove", "prune"} => cmd[p].op = "rm"
    /\ pc[p] \in {"openCred", "readCred"} => cmd[p].op = "run"
    /\ pc[p] = "writeTmp" => \A i \in Instances \ {cmd[p].inst} :
                                 fd[p] # dir[Yaml(i)] /\ fd[p] # dir[Tmp(i)]

FilesSound ==
    /\ Files
    /\ \A i \in FS!Inodes : data[i] \in IF i = dir[KeyFile] THEN KeyBytes ELSE CredBytes

\* A connect that meets no other of its instance has the temporary file, and then
\* its contents, to itself; nobody writes a credential file that a connect saved.
ConnectSound(i) ==
    /\ i \notin overlapped => \A p, q \in Connecting(i) : p = q
    /\ i \notin overlapped => \A p \in Connecting(i) :
           /\ pc[p] = "writeTmp" => fd[p] = dir[Tmp(i)]
           /\ pc[p] = "rename" => FS!Exists(Tmp(i)) /\ FS!Contents(Tmp(i)) = <<Sealed(p)>>
    /\ saved[i] # None \/ i \notin overlapped =>
           \A p \in Procs : pc[p] = "writeTmp" => fd[p] # dir[Yaml(i)]
    /\ saved[i] # None => pc[saved[i]] = "done"

IInv ==
    /\ TypeOK
    /\ FilesSound
    /\ \A p \in Procs : ProcSound(p)
    /\ \A i \in Instances : ConnectSound(i)
    /\ SavedStays
    /\ NeverHalfWritten

\* With FirstRunAlone: there is no key, and at most one process is about to make
\* it; or it is being written, or was left empty; or it is there, and everything
\* is sealed with it.
NoKey ==
    /\ ~FS!Exists(KeyFile)
    /\ \A p \in Procs : vault[p] = None /\ pc[p] \in {"new", "load", "createKey"} \cup Ended
    /\ \A p, q \in Procs : pc[p] \in {"load", "createKey"} /\ pc[q] \in {"load", "createKey"}
                               => p = q
    /\ \A i \in FS!Inodes : data[i] = <<>>

EmptyKey ==
    /\ FS!Exists(KeyFile)
    /\ \A p \in Procs : vault[p] = None
                        /\ pc[p] \in {"new", "load", "readKey", "writeKey"} \cup Ended
    /\ \A p, q \in Procs : pc[p] = "writeKey" /\ pc[q] = "writeKey" => p = q
    /\ \A i \in FS!Inodes : data[i] = <<>>

KeyIs(k) ==
    /\ FS!Exists(KeyFile) /\ FS!Contents(KeyFile) = <<k>>
    /\ \A p \in Procs : vault[p] \in {None, k} /\ pc[p] \notin {"createKey", "writeKey"}
    /\ \A i \in FS!Inodes \ {dir[KeyFile]} : data[i] = <<>> \/ data[i][1].key = k

KeySound == NoKey \/ EmptyKey \/ \E k \in Procs : KeyIs(k)

KeyInv == IInv /\ KeySound

--------------------------------------------------------------------------------
(* Steps of one process.                                                   *)

\* The variables of the other processes stay as they are.
OnlyMoves(p) ==
    /\ pc' \in [Procs -> PCs] /\ cmd' \in [Procs -> Commands \cup {None}]
    /\ vault' \in [Procs -> Procs \cup {None}]
    /\ \A q \in Procs \ {p} : /\ pc'[q] = pc[q] /\ cmd'[q] = cmd[q]
                              /\ vault'[q] = vault[q] /\ fd'[q] = fd[q]

\* Names keep their inodes and these their contents.
NamesStay ==
    /\ dir' = dir
    /\ \A i \in FS!Inodes : data'[i] \in {data[i], <<>>}
    /\ \A n \in Names : dir[n] # 0 => data'[dir[n]] = data[dir[n]]

LEMMA NamesAre ==
    /\ KeyFile \in Names
    /\ \A i \in Instances : Yaml(i) \in Names /\ Tmp(i) \in Names
                            /\ Yaml(i) # KeyFile /\ Tmp(i) # KeyFile
    /\ \A i, j \in Instances : /\ Yaml(i) # Tmp(j)
                               /\ Yaml(i) = Yaml(j) => i = j
                               /\ Tmp(i) = Tmp(j) => i = j
  BY DEF Names, KeyFile, Yaml, Tmp

LEMMA QuietStep ==
    ASSUME IInv, NEW p \in Procs, Files', OnlyMoves(p), NamesStay, ProcSound(p)',
           UNCHANGED history, typeDir' \in BOOLEAN,
           ~typeDir' => \A i \in Instances : ~FS!Exists(Yaml(i)) /\ ~FS!Exists(Tmp(i)),
           pc[p] \notin {"new"} \cup Ended, cmd'[p] = cmd[p],
           pc'[p] \notin {"writeTmp", "rename", "new"}
    PROVE  IInv'
  <1> USE DEF IInv
  <1>1. saved' = saved /\ overlapped' = overlapped /\ dir' = dir
    BY DEF history, NamesStay
  <1>2. TypeOK'
    BY <1>1 DEF TypeOK, Files, FS!Exists, OnlyMoves, Bytes
  <1>3. FilesSound'
    <2>1. \A i \in FS!Inodes : data'[i] \in IF i = dir[KeyFile] THEN KeyBytes ELSE CredBytes
      BY DEF FilesSound, NamesStay, KeyBytes, CredBytes
    <2>2. QED
      BY <1>1, <2>1 DEF FilesSound
  <1>4. ASSUME NEW q \in Procs PROVE ProcSound(q)'
    <2>1. CASE q = p
      BY <2>1
    <2>2. CASE q # p
      BY <1>1, <2>2 DEF ProcSound, OnlyMoves
    <2>3. QED
      BY <2>1, <2>2
  <1>5. \A i \in Instances : saved[i] # None => saved[i] # p
    BY DEF ConnectSound, Ended
  <1>6. \A i \in Instances : saved[i] \in Procs \cup {None}
    BY DEF TypeOK
  <1>7. \A n \in Names : FS!Exists(n) => FS!Contents(n)' = FS!Contents(n)
    BY <1>1 DEF FS!Exists, FS!Contents, NamesStay
  <1>8. ASSUME NEW i \in Instances PROVE ConnectSound(i)'
    <2>1. Connecting(i)' \subseteq Connecting(i)
      BY DEF Connecting, OnlyMoves
    <2>2. \A q \in Procs : pc'[q] \in {"writeTmp", "rename"} =>
              q # p /\ pc[q] = pc'[q] /\ fd'[q] = fd[q] /\ vault'[q] = vault[q]
      BY DEF OnlyMoves
    <2>3. \A q \in Connecting(i) : q \in Procs
      BY DEF Connecting
    <2>4. /\ i \notin overlapped => \A q, r \in Connecting(i)' : q = r
          /\ i \notin overlapped => \A q \in Connecting(i)' :
                 pc'[q] = "writeTmp" => fd'[q] = dir[Tmp(i)]
      BY <2>1, <2>2, <2>3 DEF ConnectSound
    <2>5. i \notin overlapped => \A q \in Connecting(i)' : pc'[q] = "rename" =>
              FS!Exists(Tmp(i)) /\ FS!Contents(Tmp(i))' = <<Sealed(q)'>>
      BY <1>7, <2>1, <2>2, <2>3, NamesAre DEF ConnectSound, Sealed
    <2>6. saved[i] # None \/ i \notin overlapped =>
              \A q \in Procs : pc'[q] = "writeTmp" => fd'[q] # dir[Yaml(i)]
      BY <2>2 DEF ConnectSound
    <2>7. saved[i] # None => pc'[saved[i]] = "done"
      BY <1>5, <1>6 DEF ConnectSound, OnlyMoves
    <2>8. QED
      BY <1>1, <2>4, <2>5, <2>6, <2>7 DEF ConnectSound, FS!Exists
  <1>9. SavedStays'
    <2>1. \A i \in Instances : saved[i] # None => Sealed(saved[i])' = Sealed(saved[i])
      BY <1>1, <1>5, <1>6 DEF Sealed, OnlyMoves
    <2>2. QED
      BY <1>1, <1>7, <2>1, NamesAre DEF SavedStays, FS!Exists
  <1>10. NeverHalfWritten'
    BY <1>1, <1>7, NamesAre DEF NeverHalfWritten, FS!Exists, Whole
  <1>11. QED
    BY <1>2, <1>3, <1>4, <1>8, <1>9, <1>10

\* A step that leaves the files as they are, or closes p's descriptor.
LEMMA CloseIsQuiet ==
    ASSUME IInv, NEW p \in Procs, FS!Close({p})
    PROVE  Files' /\ NamesStay /\ fd'[p] = 0 /\ \A q \in Procs \ {p} : fd'[q] = fd[q]
  <1>1. Files /\ fd \in [Procs -> 0..MaxInode]
    BY DEF IInv, FilesSound, Files, FS!FSType
  <1>2. QED
    BY <1>1, CloseFacts DEF NamesStay

LEMMA SameIsQuiet ==
    ASSUME IInv, UNCHANGED <<dir, data>>, fd' \in [Procs -> 0..MaxInode]
    PROVE  Files' /\ NamesStay
  <1>1. Files /\ data \in [FS!Inodes -> Seq(Bytes)] /\ dir \in [Names -> 0..MaxInode]
    BY DEF IInv, FilesSound, Files, FS!FSType
  <1>2. NamesStay
    BY DEF NamesStay
  <1>3. Files'
    BY <1>1 DEF Files, FS!FSType, FS!Inodes, Distinct
  <1>4. QED
    BY <1>2, <1>3

\* Where a process goes once it has the key.
LEMMA FirstSteps ==
    ASSUME NEW p \in Procs, cmd[p] \in Commands
    PROVE  /\ FirstStep(p) \in {"mkdir", "remove", "openCred"}
           /\ FirstStep(p) = "mkdir" => cmd[p].op = "connect"
           /\ FirstStep(p) = "remove" => cmd[p].op = "rm"
           /\ FirstStep(p) = "openCred" => cmd[p].op = "run"
  BY DEF FirstStep, Commands

LEMMA StepsWithoutFiles ==
    ASSUME IInv, NEW p \in Procs,
           \/ KeyMissing(p) \/ ConnectRefused(p) \/ MakeDir(p) \/ OpenTmpFails(p)
           \/ RenameFails(p) \/ RemoveMissing(p) \/ Prune(p) \/ CredMissing(p)
    PROVE  IInv'
  <1>0. fd \in [Procs -> 0..MaxInode] /\ pc \in [Procs -> PCs] /\ ProcSound(p)
        /\ cmd \in [Procs -> Commands \cup {None}] /\ vault \in [Procs -> Procs \cup {None}]
        /\ typeDir \in BOOLEAN
        /\ (~typeDir => \A i \in Instances : ~FS!Exists(Yaml(i)) /\ ~FS!Exists(Tmp(i)))
    BY DEF IInv, TypeOK, FS!FSType
  <1>1. UNCHANGED <<files, cmd, vault, history>>
    BY DEF KeyMissing, ConnectRefused, MakeDir, OpenTmpFails, RenameFails, RemoveMissing, Prune,
           CredMissing
  <1>2. \E from, to \in PCs :
            /\ pc[p] = from /\ pc' = [pc EXCEPT ![p] = to]
            /\ from \notin {"new", "readKey", "writeKey", "writeTmp", "readCred"} \cup Ended
            /\ to \in {"createKey", "failed", "openTmp", "done"}
            /\ to = "openTmp" => from = "mkdir"
    BY DEF KeyMissing, ConnectRefused, MakeDir, OpenTmpFails, RenameFails, RemoveMissing, Prune,
           CredMissing, Goto, PCs, Ended
  <1>3. typeDir' \in BOOLEAN
        /\ (~typeDir' => \A i \in Instances : ~FS!Exists(Yaml(i)) /\ ~FS!Exists(Tmp(i)))
    <2>1. CASE Prune(p)
      BY <2>1, NamesAre DEF Prune
    <2>2. CASE MakeDir(p)
      BY <2>2 DEF MakeDir
    <2>3. CASE typeDir' = typeDir
      BY <1>0, <2>3
    <2>4. QED
      BY <2>1, <2>2, <2>3 DEF KeyMissing, ConnectRefused, OpenTmpFails, RenameFails,
                              RemoveMissing, CredMissing
  <1>4. Files' /\ NamesStay
    BY <1>0, <1>1, SameIsQuiet DEF files
  <1>5. OnlyMoves(p)
    BY <1>0, <1>1, <1>2 DEF OnlyMoves, files
  <1>6. ProcSound(p)'
    BY <1>0, <1>1, <1>2 DEF ProcSound, files, Working, Ended
  <1>7. QED
    BY <1>0, <1>1, <1>2, <1>3, <1>4, <1>5, <1>6, QuietStep DEF Ended

LEMMA StepsThatClose ==
    ASSUME IInv, NEW p \in Procs, BadKey(p) \/ ReadKey(p) \/ ReadCred(p) \/ Die(p)
    PROVE  IInv'
  <1>0. pc \in [Procs -> PCs] /\ ProcSound(p)
        /\ cmd \in [Procs -> Commands \cup {None}] /\ vault \in [Procs -> Procs \cup {None}]
        /\ typeDir \in BOOLEAN
        /\ (~typeDir => \A i \in Instances : ~FS!Exists(Yaml(i)) /\ ~FS!Exists(Tmp(i)))
    BY DEF IInv, TypeOK
  <1>1. FS!Close({p}) /\ UNCHANGED <<typeDir, cmd, history>>
    BY DEF BadKey, ReadKey, ReadCred, Die
  <1>2. Files' /\ NamesStay /\ fd'[p] = 0 /\ \A q \in Procs \ {p} : fd'[q] = fd[q]
    BY <1>1, CloseIsQuiet
  <1>3. /\ pc[p] \notin {"new"} \cup Ended /\ cmd[p] \in Commands
        /\ \E to \in PCs : /\ pc' = [pc EXCEPT ![p] = to]
                           /\ to \in {"failed", "done", "dead"} \/ (ReadKey(p) /\ to = FirstStep(p))
    <2>1. pc[p] \notin {"new"} \cup Ended
      BY DEF BadKey, ReadKey, ReadCred, Die, Goto, Ended
    <2>2. cmd[p] \in Commands
      BY <1>0, <2>1 DEF ProcSound
    <2>3. FirstStep(p) \in PCs
      BY <2>2, FirstSteps DEF PCs
    <2>4. "failed" \in PCs /\ "done" \in PCs /\ "dead" \in PCs
      BY DEF PCs, Ended
    <2>5. \E to \in PCs : /\ pc' = [pc EXCEPT ![p] = to]
                          /\ to \in {"failed", "done", "dead"} \/ (ReadKey(p) /\ to = FirstStep(p))
      <3>1. CASE BadKey(p) \/ Die(p)
        <4>1. pc' = [pc EXCEPT ![p] = "failed"] \/ pc' = [pc EXCEPT ![p] = "dead"]
          BY <3>1 DEF BadKey, Die, Goto
        <4>2. QED
          BY <2>4, <4>1
      <3>2. CASE ReadKey(p)
        BY <2>3, <3>2 DEF ReadKey, Goto
      <3>3. CASE ReadCred(p)
        <4>1. pc' = [pc EXCEPT ![p] = "failed"] \/ pc' = [pc EXCEPT ![p] = "done"]
          BY <3>3 DEF ReadCred, Goto
        <4>2. QED
          BY <2>4, <4>1
      <3>4. QED
        BY <3>1, <3>2, <3>3
    <2>6. QED
      BY <2>1, <2>2, <2>5
  <1>4. /\ vault' \in [Procs -> Procs \cup {None}]
        /\ \A q \in Procs \ {p} : vault'[q] = vault[q]
        /\ ReadKey(p) => vault'[p] # None
    <2>1. CASE ReadKey(p)
      <3>1. pc[p] = "readKey" /\ fd[p] = dir[KeyFile] /\ fd[p] # 0 /\ Whole(data[fd[p]])
        BY <1>0, <2>1 DEF ProcSound, ReadKey, Goto
      <3>2. fd[p] \in FS!Inodes
        BY <3>1, CredentialAssumption DEF IInv, TypeOK, FS!FSType, FS!Inodes
      <3>3. data[fd[p]] \in KeyBytes
        BY <3>1, <3>2 DEF IInv, FilesSound
      <3>4. data[fd[p]][1] \in Procs
        BY <3>1, <3>3 DEF KeyBytes, Whole
      <3>5. QED
        BY <1>0, <2>1, <3>4, CredentialAssumption DEF ReadKey
    <2>2. CASE vault' = vault /\ ~ReadKey(p)
      BY <1>0, <2>2
    <2>3. QED
      BY <2>1, <2>2 DEF BadKey, ReadCred, Die
  <1>5. OnlyMoves(p)
    BY <1>0, <1>1, <1>2, <1>3, <1>4 DEF OnlyMoves
  <1>6. ProcSound(p)'
    BY <1>0, <1>1, <1>2, <1>3, <1>4, FirstSteps DEF ProcSound, Ended, Working, NamesStay
  <1>7. pc'[p] \notin {"writeTmp", "rename", "new"} /\ cmd'[p] = cmd[p]
    BY <1>0, <1>1, <1>3, FirstSteps
  <1>8. QED
    BY <1>0, <1>1, <1>2, <1>3, <1>5, <1>6, <1>7, QuietStep

LEMMA StepsThatOpen ==
    ASSUME IInv, NEW p \in Procs, OpenKey(p) \/ OpenCred(p)
    PROVE  IInv'
  <1>0. fd \in [Procs -> 0..MaxInode] /\ pc \in [Procs -> PCs] /\ ProcSound(p)
        /\ cmd \in [Procs -> Commands \cup {None}] /\ vault \in [Procs -> Procs \cup {None}]
        /\ typeDir \in BOOLEAN /\ dir \in [Names -> 0..MaxInode]
        /\ (~typeDir => \A i \in Instances : ~FS!Exists(Yaml(i)) /\ ~FS!Exists(Tmp(i)))
    BY DEF IInv, TypeOK, FS!FSType
  <1>1. /\ UNCHANGED <<dir, data, typeDir, cmd, vault, history>>
        /\ pc[p] \notin {"new"} \cup Ended
        /\ cmd[p] \in Commands
    BY <1>0 DEF OpenKey, OpenCred, FS!OpenRead, Goto, Ended, ProcSound
  <1>2. CASE OpenKey(p)
    <2>1. dir[KeyFile] # 0 /\ fd' = [fd EXCEPT ![p] = dir[KeyFile]]
          /\ pc' = [pc EXCEPT ![p] = "readKey"] /\ pc[p] = "load"
      BY <1>2 DEF OpenKey, FS!OpenRead, FS!Exists, Goto
    <2>2. fd' \in [Procs -> 0..MaxInode] /\ OnlyMoves(p)
      BY <1>0, <1>1, <2>1, NamesAre DEF OnlyMoves, PCs
    <2>3. ProcSound(p)'
      BY <1>0, <1>1, <2>1 DEF ProcSound, Working
    <2>4. QED
      BY <1>0, <1>1, <2>1, <2>2, <2>3, SameIsQuiet, QuietStep
  <1>3. CASE OpenCred(p)
    <2>1. Yaml(cmd[p].inst) \in Names /\ Yaml(cmd[p].inst) # KeyFile
      BY <1>1, NamesAre DEF Commands
    <2>2. dir[Yaml(cmd[p].inst)] # 0 /\ fd' = [fd EXCEPT ![p] = dir[Yaml(cmd[p].inst)]]
          /\ pc' = [pc EXCEPT ![p] = "readCred"] /\ pc[p] = "openCred"
      BY <1>3 DEF OpenCred, FS!OpenRead, FS!Exists, Goto
    <2>3. fd' \in [Procs -> 0..MaxInode] /\ OnlyMoves(p)
      BY <1>0, <1>1, <2>1, <2>2 DEF OnlyMoves, PCs
    <2>4. dir[Yaml(cmd[p].inst)] # dir[KeyFile]
      BY <2>1, <2>2, NamesAre DEF IInv, FilesSound, Files, Distinct
    <2>5. ProcSound(p)'
      BY <1>0, <1>1, <2>2, <2>4 DEF ProcSound, Working
    <2>6. QED
      BY <1>0, <1>1, <2>2, <2>3, <2>5, SameIsQuiet, QuietStep
  <1>4. QED
    BY <1>2, <1>3

LEMMA StartKeepsInv ==
    ASSUME IInv, NEW p \in Procs, NEW c \in Commands, Start(p, c)
    PROVE  IInv'
  <1> USE DEF IInv
  <1>0. fd \in [Procs -> 0..MaxInode] /\ pc \in [Procs -> PCs]
        /\ cmd \in [Procs -> Commands \cup {None}] /\ saved \in [Instances -> Procs \cup {None}]
        /\ c.inst \in Instances
    BY DEF TypeOK, FS!FSType, Commands
  <1>1. /\ UNCHANGED <<dir, data, fd, typeDir, vault, saved>>
        /\ pc[p] = "new" /\ pc' = [pc EXCEPT ![p] = "load"] /\ cmd' = [cmd EXCEPT ![p] = c]
    BY DEF Start, Goto, files
  <1>2. /\ overlapped \subseteq overlapped' /\ overlapped' \subseteq overlapped \cup {c.inst}
        /\ c.op = "connect" /\ Connecting(c.inst) # {} => c.inst \in overlapped'
    BY DEF Start
  <1>3. TypeOK'
    BY <1>0, <1>1, <1>2 DEF TypeOK, FS!FSType, FS!Inodes, FS!Exists, PCs
  <1>4. FilesSound'
    BY <1>0, <1>1, SameIsQuiet DEF FilesSound
  <1>5. ASSUME NEW q \in Procs PROVE ProcSound(q)'
    <2>1. CASE q = p
      BY <1>0, <1>1, <2>1 DEF ProcSound, Working
    <2>2. CASE q # p
      BY <1>0, <1>1, <2>2 DEF ProcSound
    <2>3. QED
      BY <2>1, <2>2
  <1>6. ASSUME NEW i \in Instances PROVE ConnectSound(i)'
    <2>1. Connecting(i)' \subseteq Connecting(i) \cup {p}
      BY <1>0, <1>1 DEF Connecting
    <2>2. i \notin overlapped' /\ p \in Connecting(i)' => Connecting(i) = {}
      BY <1>0, <1>1, <1>2 DEF Connecting
    <2>3. i \notin overlapped' => \A q, r \in Connecting(i)' : q = r
      BY <1>2, <2>1, <2>2 DEF ConnectSound
    <2>4. pc'[p] = "load" /\ \A q \in Procs \ {p} : pc'[q] = pc[q]
      BY <1>0, <1>1
    <2>5. ASSUME NEW q \in Connecting(i)', i \notin overlapped',
                 pc'[q] \in {"writeTmp", "rename"}
          PROVE  q \in Connecting(i) /\ pc'[q] = pc[q] /\ i \notin overlapped
      BY <1>2, <2>1, <2>4, <2>5 DEF Connecting
    <2>6. saved[i] # None => pc'[saved[i]] = "done"
      BY <1>0, <1>1, <2>4 DEF ConnectSound
    <2>7. (saved[i] # None \/ i \notin overlapped') =>
              \A q \in Procs : pc'[q] = "writeTmp" => fd[q] # dir[Yaml(i)]
      BY <1>2, <2>4 DEF ConnectSound
    <2>8. i \notin overlapped' => \A q \in Connecting(i)' :
              /\ pc'[q] = "writeTmp" => fd[q] = dir[Tmp(i)]
              /\ pc'[q] = "rename" => FS!Exists(Tmp(i)) /\ FS!Contents(Tmp(i)) = <<Sealed(q)>>
      BY <2>5 DEF ConnectSound
    <2>9. QED
      BY <1>1, <2>3, <2>6, <2>7, <2>8 DEF ConnectSound, FS!Exists, FS!Contents, Sealed
  <1>7. SavedStays' /\ NeverHalfWritten'
    BY <1>1, <1>2 DEF SavedStays, NeverHalfWritten, FS!Exists, FS!Contents, Sealed, Whole
  <1>8. QED
    BY <1>3, <1>4, <1>5, <1>6, <1>7

\* Who writes the file of an instance, and what it holds, after a step that opens
\* or writes another file.
LEMMA OtherFileStep ==
    ASSUME IInv, NEW p \in Procs, NEW i \in Instances, OnlyMoves(p),
           saved'[i] = saved[i], i \in overlapped' <=> i \in overlapped,
           \A n \in {Yaml(i), Tmp(i)} :
               /\ dir'[n] = dir[n]
               /\ dir[n] # 0 => data'[dir[n]] = data[dir[n]] /\ fd'[p] # dir[n],
           pc[p] # "done", pc'[p] = "writeTmp" => fd'[p] # 0,
           p \in Connecting(i)' => p \in Connecting(i) /\ pc'[p] \notin {"writeTmp", "rename"}
    PROVE  /\ ConnectSound(i)'
           /\ saved[i] # None =>
                  FS!Exists(Yaml(i))' /\ FS!Contents(Yaml(i))' = <<Sealed(saved[i])'>>
           /\ i \notin overlapped /\ FS!Exists(Yaml(i))' => Whole(FS!Contents(Yaml(i))')
  <1> USE DEF IInv
  <1>0. saved'[i] = saved[i] /\ (i \in overlapped' <=> i \in overlapped)
        /\ saved[i] \in Procs \cup {None}
    BY DEF TypeOK
  <1>1. saved[i] # None => saved[i] # p
    BY DEF ConnectSound
  <1>2. Connecting(i)' \subseteq Connecting(i) /\ Connecting(i) \subseteq Procs
    BY DEF Connecting, OnlyMoves
  <1>3. FS!Exists(Tmp(i)) => FS!Exists(Tmp(i))' /\ FS!Contents(Tmp(i))' = FS!Contents(Tmp(i))
    BY DEF FS!Exists, FS!Contents
  <1>4. i \notin overlapped => \A q \in Connecting(i)' :
            /\ pc'[q] = "writeTmp" => fd'[q] = dir'[Tmp(i)]
            /\ pc'[q] = "rename" => FS!Exists(Tmp(i))' /\ FS!Contents(Tmp(i))' = <<Sealed(q)'>>
    BY <1>2, <1>3 DEF ConnectSound, OnlyMoves, Sealed
  <1>5. i \notin overlapped => \A q, r \in Connecting(i)' : q = r
    BY <1>2 DEF ConnectSound
  <1>6. saved[i] # None \/ i \notin overlapped =>
            \A q \in Procs : pc'[q] = "writeTmp" => fd'[q] # dir'[Yaml(i)]
    <2>1. ASSUME NEW q \in Procs \ {p}, pc'[q] = "writeTmp",
                 saved[i] # None \/ i \notin overlapped
          PROVE  fd'[q] # dir'[Yaml(i)]
      BY <2>1 DEF ConnectSound, OnlyMoves
    <2>2. ASSUME pc'[p] = "writeTmp" PROVE fd'[p] # dir'[Yaml(i)]
      BY <2>2
    <2>3. QED
      BY <2>1, <2>2
  <1>7. saved[i] # None => pc'[saved[i]] = "done"
    BY <1>0, <1>1 DEF ConnectSound, OnlyMoves
  <1>8. ConnectSound(i)'
    BY <1>0, <1>4, <1>5, <1>6, <1>7 DEF ConnectSound
  <1>9. saved[i] # None => Sealed(saved[i])' = Sealed(saved[i])
    BY <1>0, <1>1 DEF Sealed, OnlyMoves
  <1>10. QED
    BY <1>0, <1>8, <1>9 DEF SavedStays, NeverHalfWritten, FS!Exists, FS!Contents

LEMMA SoundProcs ==
    ASSUME IInv
    PROVE  /\ fd \in [Procs -> 0..MaxInode] /\ dir \in [Names -> 0..MaxInode]
           /\ pc \in [Procs -> PCs] /\ cmd \in [Procs -> Commands \cup {None}]
           /\ vault \in [Procs -> Procs \cup {None}]
           /\ saved \in [Instances -> Procs \cup {None}] /\ overlapped \subseteq Instances
           /\ typeDir \in BOOLEAN /\ Files
           /\ \A p \in Procs : ProcSound(p) /\ (fd[p] # 0 => fd[p] \in FS!Inodes)
  BY CredentialAssumption DEF IInv, TypeOK, FS!FSType, FilesSound, FS!Inodes

LEMMA CreateKeyKeepsInv == ASSUME IInv, NEW p \in Procs, CreateKey(p) PROVE IInv'
  <1> USE SoundProcs, NamesAre
  <1>1. /\ UNCHANGED <<typeDir, cmd, vault, saved, overlapped>>
        /\ pc[p] = "createKey" /\ pc' = [pc EXCEPT ![p] = "writeKey"]
        /\ FS!OpenTrunc(p, KeyFile)
    BY DEF CreateKey, Goto, history
  <1>2. Files'
    BY <1>1, OpenTruncFacts
  <1>3. PICK i \in FS!Inodes :
            /\ i # 0
            /\ dir' = [dir EXCEPT ![KeyFile] = i]
            /\ fd' = [fd EXCEPT ![p] = i]
            /\ data' = [data EXCEPT ![i] = <<>>]
            /\ dir[KeyFile] \in {0, i}
            /\ \A m \in Names \ {KeyFile} : dir[m] # i
            /\ dir[KeyFile] = 0 => \A q \in Procs : fd[q] # i
    BY <1>1, OpenTruncFacts
  <1>4. dir'[KeyFile] = i /\ \A m \in Names \ {KeyFile} : dir'[m] = dir[m]
    BY <1>3
  <1>5. OnlyMoves(p) /\ pc'[p] = "writeKey" /\ fd'[p] = i
    BY <1>1, <1>3 DEF OnlyMoves, PCs
  <1>6. TypeOK'
    BY <1>1, <1>2, <1>4, <1>5 DEF IInv, TypeOK, Files, FS!Exists, OnlyMoves, Bytes
  <1>7. FilesSound'
    <2>1. data'[i] = <<>> /\ \A j \in FS!Inodes \ {i} : data'[j] = data[j]
      BY <1>2, <1>3 DEF Files, FS!FSType
    <2>2. \A j \in FS!Inodes : data'[j] \in IF j = i THEN KeyBytes ELSE CredBytes
      <3>1. \A j \in FS!Inodes \ {i} : data[j] \in CredBytes
        <4>1. \A j \in FS!Inodes \ {i} : j # dir[KeyFile]
          BY <1>3, CredentialAssumption DEF FS!Inodes
        <4>2. QED
          BY <4>1 DEF IInv, FilesSound
      <3>2. QED
        BY <2>1, <3>1 DEF KeyBytes
    <2>3. QED
      BY <1>2, <1>4, <2>2 DEF FilesSound
  <1>8. ASSUME NEW q \in Procs PROVE ProcSound(q)'
    <2>1. CASE q = p
      BY <1>1, <1>3, <1>4, <1>5, <2>1 DEF ProcSound, Working
    <2>2. CASE q # p
      BY <1>1, <1>3, <1>4, <1>5, <2>2 DEF ProcSound, OnlyMoves
    <2>3. QED
      BY <2>1, <2>2
  <1>9. \A j \in Instances : \A n \in {Yaml(j), Tmp(j)} :
            dir'[n] = dir[n] /\ (dir[n] # 0 => data'[dir[n]] = data[dir[n]] /\ fd'[p] # dir[n])
    <2>1. ASSUME NEW j \in Instances, NEW n \in {Yaml(j), Tmp(j)}, dir[n] # 0
          PROVE  data'[dir[n]] = data[dir[n]] /\ fd'[p] # dir[n]
      <3>1. dir[n] # i /\ dir[n] \in FS!Inodes
        BY <1>3, <2>1, CredentialAssumption DEF FS!Inodes
      <3>2. QED
        BY <1>3, <1>5, <3>1 DEF Files, FS!FSType
    <2>2. QED
      BY <1>4, <2>1
  <1>10. \A j \in Instances : p \in Connecting(j)' => p \in Connecting(j)
    BY <1>1 DEF Connecting, Ended
  <1>11. QED
    BY <1>1, <1>3, <1>5, <1>6, <1>7, <1>8, <1>9, <1>10, OtherFileStep
       DEF IInv, SavedStays, NeverHalfWritten

LEMMA WriteKeyKeepsInv == ASSUME IInv, NEW p \in Procs, WriteKey(p) PROVE IInv'
  <1> USE SoundProcs, NamesAre
  <1>1. /\ UNCHANGED <<typeDir, cmd, saved, overlapped>>
        /\ pc[p] = "writeKey" /\ pc' = [pc EXCEPT ![p] = FirstStep(p)]
        /\ vault' = [vault EXCEPT ![p] = p]
        /\ FS!WriteClose(p, <<p>>)
    BY DEF WriteKey, Goto, history
  <1>2. /\ fd[p] = dir[KeyFile] /\ fd[p] # 0 /\ cmd[p] \in Commands
        /\ data[fd[p]] \in KeyBytes /\ p \in Bytes
    BY <1>1 DEF ProcSound, IInv, FilesSound, Bytes
  <1>3. /\ Files'
        /\ dir' = dir
        /\ fd' = [fd EXCEPT ![p] = 0]
        /\ \A i \in FS!Inodes : \/ data'[i] \in {data[i], <<>>}
                                \/ i = fd[p] /\ data'[i] = <<p>>
        /\ \A n \in Names : dir[n] # 0 =>
               data'[dir[n]] = IF dir[n] = fd[p] THEN <<p>> ELSE data[dir[n]]
    BY <1>1, <1>2, WriteCloseFacts
  <1>4. FirstStep(p) \in {"mkdir", "remove", "openCred"}
    BY <1>2, FirstSteps
  <1>5. OnlyMoves(p) /\ pc'[p] = FirstStep(p) /\ fd'[p] = 0 /\ vault'[p] = p
    BY <1>1, <1>3, <1>4 DEF OnlyMoves, PCs
  <1>6. TypeOK'
    BY <1>1, <1>3, <1>5 DEF IInv, TypeOK, Files, FS!Exists, OnlyMoves, Bytes
  <1>7. FilesSound'
    <2>1. \A j \in FS!Inodes : data'[j] \in IF j = dir[KeyFile] THEN KeyBytes ELSE CredBytes
      BY <1>2, <1>3 DEF IInv, FilesSound, KeyBytes, CredBytes
    <2>2. QED
      BY <1>3, <2>1 DEF FilesSound
  <1>8. ASSUME NEW q \in Procs PROVE ProcSound(q)'
    <2>1. CASE q = p
      BY <1>1, <1>2, <1>4, <1>5, <2>1, FirstSteps, CredentialAssumption DEF ProcSound, Working
    <2>2. CASE q # p
      BY <1>1, <1>3, <1>5, <2>2 DEF ProcSound, OnlyMoves
    <2>3. QED
      BY <2>1, <2>2
  <1>9. \A j \in Instances : \A n \in {Yaml(j), Tmp(j)} :
            dir'[n] = dir[n] /\ (dir[n] # 0 => data'[dir[n]] = data[dir[n]] /\ fd'[p] # dir[n])
    BY <1>2, <1>3, <1>5 DEF Files, Distinct
  <1>10. \A j \in Instances : p \in Connecting(j)' => p \in Connecting(j)
    BY <1>1 DEF Connecting, Ended
  <1>11. QED
    BY <1>1, <1>4, <1>5, <1>6, <1>7, <1>8, <1>9, <1>10, OtherFileStep
       DEF IInv, SavedStays, NeverHalfWritten

LEMMA OpenTmpKeepsInv == ASSUME IInv, NEW p \in Procs, OpenTmp(p) PROVE IInv'
  <1> USE SoundProcs, NamesAre
  <1>0. PICK t \in Instances : t = cmd[p].inst /\ pc[p] = "openTmp"
    BY DEF OpenTmp, Goto, ProcSound, Commands
  <1>1. /\ UNCHANGED <<typeDir, cmd, vault, saved, overlapped>> /\ typeDir
        /\ pc[p] = "openTmp" /\ pc' = [pc EXCEPT ![p] = "writeTmp"]
        /\ FS!OpenTrunc(p, Tmp(t))
    BY <1>0 DEF OpenTmp, Goto, history
  <1>2. t \in Instances /\ cmd[p] \in Commands /\ p \in Connecting(t)
    BY <1>0, <1>1 DEF ProcSound, Commands, Connecting, Ended
  <1>3. Files'
    BY <1>1, <1>2, OpenTruncFacts
  <1>4. PICK i \in FS!Inodes :
            /\ i # 0
            /\ dir' = [dir EXCEPT ![Tmp(t)] = i]
            /\ fd' = [fd EXCEPT ![p] = i]
            /\ data' = [data EXCEPT ![i] = <<>>]
            /\ dir[Tmp(t)] \in {0, i}
            /\ \A m \in Names \ {Tmp(t)} : dir[m] # i
            /\ dir[Tmp(t)] = 0 => \A q \in Procs : fd[q] # i
    BY <1>1, <1>2, OpenTruncFacts
  <1>5. dir'[Tmp(t)] = i /\ \A m \in Names \ {Tmp(t)} : dir'[m] = dir[m]
    BY <1>2, <1>4
  <1>6. OnlyMoves(p) /\ pc'[p] = "writeTmp" /\ fd'[p] = i
    BY <1>1, <1>4 DEF OnlyMoves, PCs
  <1>7. TypeOK'
    BY <1>1, <1>3, <1>6 DEF IInv, TypeOK, Files, OnlyMoves, Bytes
  <1>8. dir'[KeyFile] = dir[KeyFile] /\ i # dir[KeyFile]
    BY <1>2, <1>4, <1>5
  <1>9. FilesSound'
    <2>1. data'[i] = <<>> /\ \A j \in FS!Inodes \ {i} : data'[j] = data[j]
      BY <1>4 DEF Files, FS!FSType
    <2>2. \A j \in FS!Inodes : data'[j] \in IF j = dir[KeyFile] THEN KeyBytes ELSE CredBytes
      BY <2>1 DEF IInv, FilesSound, KeyBytes, CredBytes
    <2>3. QED
      BY <1>3, <1>8, <2>2 DEF FilesSound
  <1>10. ASSUME NEW q \in Procs PROVE ProcSound(q)'
    <2>1. CASE q = p
      <3>1. \A j \in Instances \ {t} : dir'[Yaml(j)] # i /\ dir'[Tmp(j)] # i
        BY <1>2, <1>4, <1>5
      <3>2. QED
        BY <1>0, <1>1, <1>2, <1>4, <1>6, <1>8, <2>1, <3>1 DEF ProcSound, Working
    <2>2. CASE q # p
      <3>1. \A j \in Instances : dir'[Yaml(j)] = dir[Yaml(j)]
        BY <1>2, <1>5
      <3>2. \A j \in Instances : dir'[Tmp(j)] = dir[Tmp(j)] \/ fd[q] # dir'[Tmp(j)]
        BY <1>2, <1>4, <1>5
      <3>3. QED
        BY <1>1, <1>6, <1>8, <2>2, <3>1, <3>2 DEF ProcSound, OnlyMoves
    <2>3. QED
      BY <2>1, <2>2
  <1>11. \A n \in Names \ {Tmp(t)} :
            dir'[n] = dir[n] /\ (dir[n] # 0 => data'[dir[n]] = data[dir[n]] /\ fd'[p] # dir[n])
    <2>1. ASSUME NEW n \in Names \ {Tmp(t)}, dir[n] # 0
          PROVE  data'[dir[n]] = data[dir[n]] /\ fd'[p] # dir[n]
      <3>1. dir[n] # i /\ dir[n] \in FS!Inodes
        BY <1>4, <2>1, CredentialAssumption DEF FS!Inodes
      <3>2. QED
        BY <1>4, <1>6, <3>1 DEF Files, FS!FSType
    <2>2. QED
      BY <1>5, <2>1
  <1>12. ASSUME NEW j \in Instances \ {t}
         PROVE  /\ ConnectSound(j)'
                /\ saved[j] # None =>
                       FS!Exists(Yaml(j))' /\ FS!Contents(Yaml(j))' = <<Sealed(saved[j])'>>
                /\ j \notin overlapped /\ FS!Exists(Yaml(j))' => Whole(FS!Contents(Yaml(j))')
    <2>1. p \notin Connecting(j)'
      BY <1>0, <1>1, <1>2 DEF Connecting
    <2>2. \A n \in {Yaml(j), Tmp(j)} : n \in Names \ {Tmp(t)}
      BY <1>2
    <2>3. QED
      BY <1>1, <1>4, <1>6, <1>11, <2>1, <2>2, OtherFileStep
  <1>13. FS!Exists(Yaml(t)) => FS!Exists(Yaml(t))' /\ FS!Contents(Yaml(t))' = FS!Contents(Yaml(t))
    BY <1>2, <1>11 DEF FS!Exists, FS!Contents
  <1>14. saved[t] # None => saved[t] # p
    BY <1>1, <1>2 DEF IInv, ConnectSound
  <1>15. ConnectSound(t)'
    <2>1. Connecting(t)' \subseteq Connecting(t) /\ Connecting(t) \subseteq Procs
      BY <1>1, <1>2, <1>6 DEF Connecting, OnlyMoves
    <2>2. t \notin overlapped => Connecting(t) = {p}
      BY <1>2, <2>1 DEF IInv, ConnectSound
    <2>3. dir'[Yaml(t)] = dir[Yaml(t)] /\ dir[Yaml(t)] # i
      BY <1>2, <1>4, <1>5
    <2>4. saved[t] # None \/ t \notin overlapped =>
              \A q \in Procs : pc'[q] = "writeTmp" => fd'[q] # dir'[Yaml(t)]
      BY <1>2, <1>6, <2>3 DEF IInv, ConnectSound, OnlyMoves
    <2>5. saved[t] # None => pc'[saved[t]] = "done"
      BY <1>2, <1>6, <1>14 DEF IInv, ConnectSound, OnlyMoves
    <2>6. QED
      BY <1>1, <1>2, <1>5, <1>6, <2>1, <2>2, <2>4, <2>5 DEF ConnectSound
  <1>16. SavedStays' /\ NeverHalfWritten'
    <2>1. saved[t] # None => FS!Exists(Yaml(t))' /\ FS!Contents(Yaml(t))' = <<Sealed(saved[t])'>>
      BY <1>1, <1>2, <1>13 DEF IInv, SavedStays, Sealed
    <2>2. t \notin overlapped /\ FS!Exists(Yaml(t))' => Whole(FS!Contents(Yaml(t))')
      BY <1>2, <1>4, <1>5, <1>13 DEF IInv, NeverHalfWritten, FS!Exists
    <2>3. QED
      BY <1>1, <1>12, <2>1, <2>2 DEF SavedStays, NeverHalfWritten
  <1>17. QED
    BY <1>2, <1>7, <1>9, <1>10, <1>12, <1>15, <1>16 DEF IInv

LEMMA WriteTmpKeepsInv == ASSUME IInv, NEW p \in Procs, WriteTmp(p) PROVE IInv'
  <1> USE SoundProcs, NamesAre
  <1>0. PICK t \in Instances : t = cmd[p].inst /\ pc[p] = "writeTmp"
    BY DEF WriteTmp, Goto, ProcSound, Commands
  <1>1. /\ UNCHANGED <<typeDir, cmd, vault, saved, overlapped>>
        /\ pc' = [pc EXCEPT ![p] = "rename"]
        /\ FS!WriteClose(p, <<Sealed(p)>>)
    BY <1>0 DEF WriteTmp, Goto, history
  <1>2. /\ cmd[p] \in Commands /\ p \in Connecting(t)
        /\ fd[p] # 0 /\ fd[p] # dir[KeyFile] /\ fd[p] \in FS!Inodes
        /\ \A j \in Instances \ {t} : fd[p] # dir[Yaml(j)] /\ fd[p] # dir[Tmp(j)]
    BY <1>0 DEF ProcSound, Commands, Connecting, Ended
  <1>3. Sealed(p) \in [by : Procs, key : Procs] /\ Sealed(p) \in Bytes
    BY <1>0 DEF ProcSound, Working, Sealed, Bytes
  <1>4. data[fd[p]] \in CredBytes
    BY <1>2 DEF IInv, FilesSound
  <1>5. /\ Files'
        /\ dir' = dir
        /\ fd' = [fd EXCEPT ![p] = 0]
        /\ \A i \in FS!Inodes : \/ data'[i] \in {data[i], <<>>}
                                \/ i = fd[p] /\ data'[i] = <<Sealed(p)>>
        /\ \A n \in Names : dir[n] # 0 =>
               data'[dir[n]] = IF dir[n] = fd[p] THEN <<Sealed(p)>> ELSE data[dir[n]]
    BY <1>1, <1>2, <1>3, <1>4, WriteCloseFacts
  <1>6. OnlyMoves(p) /\ pc'[p] = "rename" /\ fd'[p] = 0
    BY <1>1, <1>5 DEF OnlyMoves, PCs
  <1>7. TypeOK'
    BY <1>1, <1>5, <1>6 DEF IInv, TypeOK, Files, FS!Exists, OnlyMoves, Bytes
  <1>8. FilesSound'
    <2>1. \A j \in FS!Inodes : data'[j] \in IF j = dir[KeyFile] THEN KeyBytes ELSE CredBytes
      <3>1. ASSUME NEW j \in FS!Inodes
            PROVE  data'[j] \in IF j = dir[KeyFile] THEN KeyBytes ELSE CredBytes
        <4>1. data[j] \in IF j = dir[KeyFile] THEN KeyBytes ELSE CredBytes
          BY DEF IInv, FilesSound
        <4>2. <<>> \in KeyBytes /\ <<>> \in CredBytes /\ <<Sealed(p)>> \in CredBytes
          BY <1>3 DEF KeyBytes, CredBytes
        <4>3. \/ data'[j] = data[j]
              \/ data'[j] = <<>>
              \/ j # dir[KeyFile] /\ data'[j] = <<Sealed(p)>>
          BY <1>2, <1>5
        <4>4. QED
          BY <4>1, <4>2, <4>3, Zenon
      <3>2. QED
        BY <3>1
    <2>2. QED
      BY <1>5, <2>1 DEF FilesSound
  <1>9. ASSUME NEW q \in Procs PROVE ProcSound(q)'
    <2>1. CASE q = p
      BY <1>0, <1>1, <1>2, <1>5, <1>6, <2>1 DEF ProcSound, Working
    <2>2. CASE q # p
      BY <1>1, <1>5, <1>6, <2>2 DEF ProcSound, OnlyMoves
    <2>3. QED
      BY <2>1, <2>2
  <1>10. ASSUME NEW j \in Instances \ {t}
         PROVE  /\ ConnectSound(j)'
                /\ saved[j] # None =>
                       FS!Exists(Yaml(j))' /\ FS!Contents(Yaml(j))' = <<Sealed(saved[j])'>>
                /\ j \notin overlapped /\ FS!Exists(Yaml(j))' => Whole(FS!Contents(Yaml(j))')
    <2>1. p \notin Connecting(j)'
      BY <1>0, <1>1, <1>2 DEF Connecting
    <2>2. \A n \in {Yaml(j), Tmp(j)} :
              dir'[n] = dir[n] /\ (dir[n] # 0 => data'[dir[n]] = data[dir[n]] /\ fd'[p] # dir[n])
      BY <1>2, <1>5, <1>6
    <2>3. QED
      BY <1>0, <1>1, <1>6, <2>1, <2>2, OtherFileStep
  <1>11. saved[t] # None \/ t \notin overlapped => fd[p] # dir[Yaml(t)]
    BY <1>0, <1>2 DEF IInv, ConnectSound
  <1>12. saved[t] # None \/ t \notin overlapped =>
             /\ FS!Exists(Yaml(t))' = FS!Exists(Yaml(t))
             /\ FS!Exists(Yaml(t)) => FS!Contents(Yaml(t))' = FS!Contents(Yaml(t))
    BY <1>5, <1>11 DEF FS!Exists, FS!Contents
  <1>13. saved[t] # None => saved[t] # p
    BY <1>0, <1>2 DEF IInv, ConnectSound
  <1>14. ConnectSound(t)'
    <2>1. Connecting(t)' \subseteq Connecting(t) /\ Connecting(t) \subseteq Procs
      BY <1>1, <1>2, <1>6 DEF Connecting, OnlyMoves
    <2>2. t \notin overlapped => Connecting(t) = {p}
      BY <1>2, <2>1 DEF IInv, ConnectSound
    <2>3. t \notin overlapped => FS!Exists(Tmp(t))' /\ FS!Contents(Tmp(t))' = <<Sealed(p)'>>
      <3>1. t \notin overlapped => fd[p] = dir[Tmp(t)]
        BY <1>0, <1>2 DEF IInv, ConnectSound
      <3>2. Sealed(p)' = Sealed(p)
        BY <1>1 DEF Sealed
      <3>3. QED
        BY <1>2, <1>5, <3>1, <3>2 DEF FS!Exists, FS!Contents
    <2>4. saved[t] # None \/ t \notin overlapped =>
              \A q \in Procs : pc'[q] = "writeTmp" => fd'[q] # dir'[Yaml(t)]
      BY <1>5, <1>6 DEF IInv, ConnectSound, OnlyMoves
    <2>5. saved[t] # None => pc'[saved[t]] = "done"
      BY <1>6, <1>13 DEF IInv, ConnectSound, OnlyMoves
    <2>6. QED
      BY <1>1, <1>6, <2>1, <2>2, <2>3, <2>4, <2>5 DEF ConnectSound
  <1>15. SavedStays' /\ NeverHalfWritten'
    <2>1. saved[t] # None => FS!Exists(Yaml(t))' /\ FS!Contents(Yaml(t))' = <<Sealed(saved[t])'>>
      BY <1>1, <1>12 DEF IInv, SavedStays, Sealed
    <2>2. t \notin overlapped /\ FS!Exists(Yaml(t))' => Whole(FS!Contents(Yaml(t))')
      <3>1. t \notin overlapped /\ FS!Exists(Yaml(t)) => Whole(FS!Contents(Yaml(t)))
        BY DEF IInv, NeverHalfWritten
      <3>2. QED
        BY <1>12, <3>1
    <2>3. QED
      BY <1>1, <1>10, <2>1, <2>2 DEF SavedStays, NeverHalfWritten
  <1>16. QED
    BY <1>7, <1>8, <1>9, <1>10, <1>14, <1>15 DEF IInv

LEMMA RenameKeepsInv == ASSUME IInv, NEW p \in Procs, Rename(p) PROVE IInv'
  <1> USE SoundProcs, NamesAre
  <1>0. PICK t \in Instances : t = cmd[p].inst /\ pc[p] = "rename"
    BY DEF Rename, Goto, ProcSound, Commands
  <1>1. /\ UNCHANGED <<typeDir, cmd, vault, overlapped>>
        /\ pc' = [pc EXCEPT ![p] = "done"]
        /\ dir[Tmp(t)] # 0
        /\ FS!Rename(Tmp(t), Yaml(t))
        /\ saved' = [saved EXCEPT ![t] = IF t \in overlapped THEN None ELSE p]
    BY <1>0 DEF Rename, Goto, FS!Exists
  <1>2. /\ cmd[p] \in Commands /\ p \in Connecting(t) /\ fd[p] = 0 /\ vault[p] # None
    BY <1>0 DEF ProcSound, Commands, Connecting, Ended, Working
  <1>3. /\ Files'
        /\ fd' = fd
        /\ dir' = [dir EXCEPT ![Yaml(t)] = dir[Tmp(t)], ![Tmp(t)] = 0]
        /\ \A i \in FS!Inodes : data'[i] \in {data[i], <<>>}
        /\ \A n \in Names : dir'[n] # 0 => data'[dir'[n]] = data[dir'[n]]
    BY <1>1, RenameFacts
  <1>4. /\ dir'[Yaml(t)] = dir[Tmp(t)] /\ dir'[Tmp(t)] = 0
        /\ \A n \in Names \ {Yaml(t), Tmp(t)} : dir'[n] = dir[n]
    BY <1>3
  <1>5. OnlyMoves(p) /\ pc'[p] = "done" /\ fd'[p] = 0
    BY <1>1, <1>2, <1>3 DEF OnlyMoves, PCs, Ended
  <1>6. TypeOK'
    <2>1. typeDir
      BY <1>1 DEF IInv, TypeOK, FS!Exists
    <2>2. saved' \in [Instances -> Procs \cup {None}]
      BY <1>1
    <2>3. QED
      BY <1>1, <1>3, <1>5, <2>1, <2>2 DEF IInv, TypeOK, Files, OnlyMoves, Bytes
  <1>7. FilesSound'
    <2>1. \A j \in FS!Inodes : data'[j] \in IF j = dir[KeyFile] THEN KeyBytes ELSE CredBytes
      BY <1>3 DEF IInv, FilesSound, KeyBytes, CredBytes
    <2>2. dir'[KeyFile] = dir[KeyFile]
      BY <1>4
    <2>3. QED
      BY <1>3, <2>1, <2>2 DEF FilesSound
  <1>8. ASSUME NEW q \in Procs PROVE ProcSound(q)'
    <2>1. CASE q = p
      BY <1>0, <1>1, <1>2, <1>4, <1>5, <2>1 DEF ProcSound, Working
    <2>2. CASE q # p
      <3>1. pc[q] = "writeTmp" => \A j \in Instances \ {cmd[q].inst} :
                fd[q] # dir'[Yaml(j)] /\ fd[q] # dir'[Tmp(j)]
        BY <1>4 DEF ProcSound
      <3>2. dir'[KeyFile] = dir[KeyFile]
        BY <1>4
      <3>3. QED
        BY <1>1, <1>3, <1>5, <2>2, <3>1, <3>2 DEF ProcSound, OnlyMoves
    <2>3. QED
      BY <2>1, <2>2
  <1>9. ASSUME NEW j \in Instances \ {t}
        PROVE  /\ ConnectSound(j)'
               /\ saved[j] # None =>
                      FS!Exists(Yaml(j))' /\ FS!Contents(Yaml(j))' = <<Sealed(saved[j])'>>
               /\ j \notin overlapped /\ FS!Exists(Yaml(j))' => Whole(FS!Contents(Yaml(j))')
    <2>1. p \notin Connecting(j)'
      BY <1>0, <1>1, <1>2 DEF Connecting
    <2>2. \A n \in {Yaml(j), Tmp(j)} :
              dir'[n] = dir[n] /\ (dir[n] # 0 => data'[dir[n]] = data[dir[n]] /\ fd'[p] # dir[n])
      BY <1>3, <1>4, <1>5
    <2>3. saved'[j] = saved[j]
      BY <1>1
    <2>4. QED
      BY <1>0, <1>1, <1>5, <2>1, <2>2, <2>3, OtherFileStep
  <1>10. t \notin overlapped => Connecting(t) = {p}
    BY <1>2 DEF IInv, ConnectSound, Connecting
  <1>11. t \notin overlapped => dir'[Yaml(t)] # 0 /\ data'[dir'[Yaml(t)]] = <<Sealed(p)>>
    <2>1. t \notin overlapped => data[dir[Tmp(t)]] = <<Sealed(p)>>
      BY <1>0, <1>2 DEF IInv, ConnectSound, FS!Contents
    <2>2. data'[dir'[Yaml(t)]] = data[dir'[Yaml(t)]] /\ dir'[Yaml(t)] = dir[Tmp(t)]
      BY <1>1, <1>3, <1>4
    <2>3. QED
      BY <1>1, <2>1, <2>2
  <1>12. ASSUME NEW q \in Procs, pc'[q] = "writeTmp", t \notin overlapped
         PROVE  fd'[q] # dir'[Yaml(t)]
    <2>1. q # p /\ pc[q] = "writeTmp" /\ fd'[q] = fd[q]
      BY <1>3, <1>5, <1>12 DEF OnlyMoves
    <2>2. cmd[q].inst # t
      BY <1>10, <1>12, <2>1 DEF Connecting, ProcSound, Ended
    <2>3. QED
      BY <1>4, <2>1, <2>2 DEF ProcSound
  <1>13. saved'[t] = IF t \in overlapped THEN None ELSE p
    BY <1>1
  <1>14. p # None /\ Sealed(p)' = Sealed(p)
    BY <1>1, CredentialAssumption DEF Sealed
  <1>15. ConnectSound(t)'
    <2>1. Connecting(t)' \subseteq Connecting(t) \ {p} /\ Connecting(t) \subseteq Procs
      BY <1>1, <1>2, <1>5 DEF Connecting, OnlyMoves, Ended
    <2>2. t \notin overlapped => Connecting(t)' = {}
      BY <1>10, <2>1
    <2>3. saved'[t] # None \/ t \notin overlapped' =>
              \A q \in Procs : pc'[q] = "writeTmp" => fd'[q] # dir'[Yaml(t)]
      BY <1>1, <1>12, <1>13
    <2>4. saved'[t] # None => pc'[saved'[t]] = "done"
      BY <1>5, <1>13
    <2>5. QED
      BY <1>1, <2>2, <2>3, <2>4 DEF ConnectSound
  <1>16. SavedStays' /\ NeverHalfWritten'
    <2>1. saved'[t] # None =>
              FS!Exists(Yaml(t))' /\ FS!Contents(Yaml(t))' = <<Sealed(saved[t])'>>
      <3>1. saved'[t] # None => Sealed(saved[t])' = Sealed(p)
        BY <1>13, <1>14 DEF Sealed
      <3>2. QED
        BY <1>11, <1>13, <3>1 DEF FS!Exists, FS!Contents
    <2>2. t \notin overlapped /\ FS!Exists(Yaml(t))' => Whole(FS!Contents(Yaml(t))')
      <3>1. <<Sealed(p)>> # <<>>
        OBVIOUS
      <3>2. QED
        BY <1>11, <3>1 DEF FS!Contents, Whole
    <2>3. \A j \in Instances \ {t} : saved'[j] = saved[j]
      BY <1>1
    <2>4. QED
      BY <1>1, <1>9, <2>1, <2>2, <2>3 DEF SavedStays, NeverHalfWritten
  <1>17. QED
    BY <1>6, <1>7, <1>8, <1>9, <1>15, <1>16 DEF IInv

LEMMA RemoveKeepsInv == ASSUME IInv, NEW p \in Procs, Remove(p) PROVE IInv'
  <1> USE SoundProcs, NamesAre
  <1>0. PICK t \in Instances : t = cmd[p].inst /\ pc[p] = "remove"
    BY DEF Remove, Goto, ProcSound, Commands
  <1>1. /\ UNCHANGED <<typeDir, cmd, vault, overlapped>>
        /\ pc' = [pc EXCEPT ![p] = "prune"]
        /\ FS!Remove(Yaml(t))
        /\ saved' = [saved EXCEPT ![t] = None]
    BY <1>0 DEF Remove, Goto
  <1>2. cmd[p] \in Commands /\ fd[p] = 0 /\ vault[p] # None /\ cmd[p].op = "rm"
    BY <1>0 DEF ProcSound, Working
  <1>3. /\ Files'
        /\ fd' = fd
        /\ dir' = [dir EXCEPT ![Yaml(t)] = 0]
        /\ \A i \in FS!Inodes : data'[i] \in {data[i], <<>>}
        /\ \A n \in Names : dir'[n] # 0 => data'[dir'[n]] = data[dir'[n]]
    BY <1>1, RemoveFacts
  <1>4. dir'[Yaml(t)] = 0 /\ \A n \in Names \ {Yaml(t)} : dir'[n] = dir[n]
    BY <1>3
  <1>5. OnlyMoves(p) /\ pc'[p] = "prune" /\ fd'[p] = 0
    BY <1>1, <1>2, <1>3 DEF OnlyMoves, PCs
  <1>6. TypeOK'
    <2>1. \A i \in Instances : (FS!Exists(Yaml(i))' => FS!Exists(Yaml(i)))
                               /\ (FS!Exists(Tmp(i))' => FS!Exists(Tmp(i)))
      BY <1>4 DEF FS!Exists
    <2>2. saved' \in [Instances -> Procs \cup {None}]
      BY <1>1
    <2>3. QED
      BY <1>1, <1>3, <1>5, <2>1, <2>2 DEF IInv, TypeOK, Files, OnlyMoves, Bytes
  <1>7. FilesSound'
    <2>1. \A j \in FS!Inodes : data'[j] \in IF j = dir[KeyFile] THEN KeyBytes ELSE CredBytes
      BY <1>3 DEF IInv, FilesSound, KeyBytes, CredBytes
    <2>2. dir'[KeyFile] = dir[KeyFile]
      BY <1>4
    <2>3. QED
      BY <1>3, <2>1, <2>2 DEF FilesSound
  <1>8. ASSUME NEW q \in Procs PROVE ProcSound(q)'
    <2>1. CASE q = p
      BY <1>0, <1>1, <1>2, <1>4, <1>5, <2>1 DEF ProcSound, Working
    <2>2. CASE q # p
      <3>1. pc[q] = "writeTmp" => \A j \in Instances \ {cmd[q].inst} :
                fd[q] # dir'[Yaml(j)] /\ fd[q] # dir'[Tmp(j)]
        BY <1>4 DEF ProcSound
      <3>2. dir'[KeyFile] = dir[KeyFile]
        BY <1>4
      <3>3. QED
        BY <1>1, <1>3, <1>5, <2>2, <3>1, <3>2 DEF ProcSound, OnlyMoves
    <2>3. QED
      BY <2>1, <2>2
  <1>9. \A j \in Instances : p \notin Connecting(j)'
    BY <1>1, <1>2 DEF Connecting
  <1>10. ASSUME NEW j \in Instances \ {t}
         PROVE  /\ ConnectSound(j)'
                /\ saved[j] # None =>
                       FS!Exists(Yaml(j))' /\ FS!Contents(Yaml(j))' = <<Sealed(saved[j])'>>
                /\ j \notin overlapped /\ FS!Exists(Yaml(j))' => Whole(FS!Contents(Yaml(j))')
    <2>1. \A n \in {Yaml(j), Tmp(j)} :
              dir'[n] = dir[n] /\ (dir[n] # 0 => data'[dir[n]] = data[dir[n]] /\ fd'[p] # dir[n])
      BY <1>3, <1>4, <1>5
    <2>2. saved'[j] = saved[j]
      BY <1>1
    <2>3. QED
      BY <1>0, <1>1, <1>5, <1>9, <2>1, <2>2, OtherFileStep
  <1>11. saved'[t] = None
    BY <1>1
  <1>12. ConnectSound(t)'
    <2>1. Connecting(t)' \subseteq Connecting(t) \ {p} /\ Connecting(t) \subseteq Procs
      BY <1>1, <1>5, <1>9 DEF Connecting, OnlyMoves
    <2>2. dir'[Tmp(t)] = dir[Tmp(t)]
      BY <1>4
    <2>3. dir[Tmp(t)] # 0 => data'[dir[Tmp(t)]] = data[dir[Tmp(t)]]
      BY <1>3, <2>2
    <2>4. t \notin overlapped => \A q \in Connecting(t)' :
              /\ pc'[q] = "writeTmp" => fd'[q] = dir'[Tmp(t)]
              /\ pc'[q] = "rename" =>
                     FS!Exists(Tmp(t))' /\ FS!Contents(Tmp(t))' = <<Sealed(q)'>>
      <3>1. ASSUME t \notin overlapped, NEW q \in Connecting(t)', pc'[q] = "writeTmp"
            PROVE  fd'[q] = dir'[Tmp(t)]
        BY <1>3, <1>5, <2>1, <2>2, <3>1 DEF IInv, ConnectSound, OnlyMoves
      <3>2. ASSUME t \notin overlapped, NEW q \in Connecting(t)', pc'[q] = "rename"
            PROVE  FS!Exists(Tmp(t))' /\ FS!Contents(Tmp(t))' = <<Sealed(q)'>>
        <4>1. q \in Connecting(t) /\ pc[q] = "rename" /\ Sealed(q)' = Sealed(q)
          BY <1>1, <1>5, <2>1, <3>2 DEF OnlyMoves, Sealed
        <4>2. dir[Tmp(t)] # 0 /\ data[dir[Tmp(t)]] = <<Sealed(q)>>
          BY <3>2, <4>1 DEF IInv, ConnectSound, FS!Exists, FS!Contents
        <4>3. QED
          BY <2>2, <2>3, <4>1, <4>2 DEF FS!Exists, FS!Contents
      <3>3. QED
        BY <3>1, <3>2
    <2>5. \A q \in Procs : pc'[q] = "writeTmp" => fd'[q] # dir'[Yaml(t)]
      BY <1>4, <1>8 DEF ProcSound
    <2>6. t \notin overlapped => \A q, r \in Connecting(t)' : q = r
      BY <2>1 DEF IInv, ConnectSound
    <2>7. QED
      BY <1>1, <1>11, <2>4, <2>5, <2>6 DEF ConnectSound
  <1>13. SavedStays' /\ NeverHalfWritten'
    <2>1. ~FS!Exists(Yaml(t))'
      BY <1>4 DEF FS!Exists
    <2>2. \A j \in Instances \ {t} : saved'[j] = saved[j]
      BY <1>1
    <2>3. QED
      BY <1>1, <1>10, <1>11, <2>1, <2>2 DEF SavedStays, NeverHalfWritten
  <1>14. QED
    BY <1>6, <1>7, <1>8, <1>10, <1>12, <1>13 DEF IInv

--------------------------------------------------------------------------------
(* Theorems.                                                               *)

LEMMA InitInv == Init => IInv
  <1> SUFFICES ASSUME Init PROVE IInv
    OBVIOUS
  <1>1. /\ dir = [n \in Names |-> 0] /\ data = [i \in FS!Inodes |-> <<>>]
        /\ fd = [p \in Procs |-> 0] /\ typeDir = FALSE
        /\ pc = [p \in Procs |-> "new"] /\ cmd = [p \in Procs |-> None]
        /\ vault = [p \in Procs |-> None] /\ saved = [i \in Instances |-> None]
        /\ overlapped = {}
    BY DEF Init, FS!FSInit
  <1>2. TypeOK /\ Files
    <2>1. <<>> \in Seq(Bytes) /\ 0 \in 0..MaxInode
      BY CredentialAssumption
    <2>2. FS!FSType(Bytes)
      BY <1>1, <2>1 DEF FS!FSType
    <2>3. QED
      BY <1>1, <2>2, NamesAre DEF TypeOK, Bytes, Files, Distinct, FS!Exists, PCs
  <1>3. FilesSound
    BY <1>1, <1>2 DEF FilesSound, KeyBytes, CredBytes
  <1>4. \A p \in Procs : ProcSound(p)
    BY <1>1 DEF ProcSound, Working
  <1>5. \A i \in Instances : ConnectSound(i) /\ Connecting(i) = {}
    BY <1>1 DEF ConnectSound, Connecting
  <1>6. SavedStays /\ NeverHalfWritten
    BY <1>1, NamesAre DEF SavedStays, NeverHalfWritten, FS!Exists
  <1>7. QED
    BY <1>2, <1>3, <1>4, <1>5, <1>6 DEF IInv

LEMMA StutterKeepsInv == IInv /\ UNCHANGED vars => IInv'
  <1> SUFFICES ASSUME IInv, UNCHANGED vars PROVE IInv'
    OBVIOUS
  <1>1. UNCHANGED <<dir, data, fd, typeDir, pc, cmd, vault, saved, overlapped>>
    BY DEF vars, files, history
  <1>2. TypeOK' /\ FilesSound'
    BY <1>1 DEF IInv, TypeOK, FilesSound, Files, Distinct, FS!FSType, FS!Inodes, FS!Exists
  <1>3. \A p \in Procs : ProcSound(p)'
    BY <1>1 DEF IInv, ProcSound
  <1>4. \A i \in Instances : ConnectSound(i)'
    BY <1>1 DEF IInv, ConnectSound, Connecting, FS!Exists, FS!Contents, Sealed
  <1>5. SavedStays' /\ NeverHalfWritten'
    BY <1>1 DEF IInv, SavedStays, NeverHalfWritten, FS!Exists, FS!Contents, Sealed, Whole
  <1>6. QED
    BY <1>2, <1>3, <1>4, <1>5 DEF IInv

LEMMA StepKeepsInv == IInv /\ [Next]_vars => IInv'
  <1> SUFFICES ASSUME IInv, Next PROVE IInv'
    BY StutterKeepsInv
  <1>1. PICK p \in Procs : \/ \E c \in Commands : Start(p, c)
                           \/ LoadKey(p) \/ Connect(p) \/ Rm(p) \/ Run(p) \/ Die(p)
    BY DEF Next
  <1>2. CASE \E c \in Commands : Start(p, c)
    BY <1>2, StartKeepsInv
  <1>3. CASE LoadKey(p)
    BY <1>3, StepsWithoutFiles, StepsThatOpen, StepsThatClose, CreateKeyKeepsInv, WriteKeyKeepsInv
       DEF LoadKey
  <1>4. CASE Connect(p)
    BY <1>4, StepsWithoutFiles, OpenTmpKeepsInv, WriteTmpKeepsInv, RenameKeepsInv DEF Connect
  <1>5. CASE Rm(p)
    BY <1>5, StepsWithoutFiles, RemoveKeepsInv DEF Rm
  <1>6. CASE Run(p)
    BY <1>6, StepsWithoutFiles, StepsThatOpen, StepsThatClose DEF Run
  <1>7. CASE Die(p)
    BY <1>7, StepsThatClose
  <1>8. QED
    BY <1>1, <1>2, <1>3, <1>4, <1>5, <1>6, <1>7

\* The inductive invariant holds of every behaviour, whoever creates the key.
THEOREM Invariance == Spec => []IInv
  BY InitInv, StepKeepsInv, PTL DEF Spec

\* Every variable keeps its type, and no credential file is there without the
\* directory of its type, which rm prunes.
THEOREM TypeCorrect == Spec => []TypeOK
  <1>1. IInv => TypeOK
    BY DEF IInv
  <1>2. QED
    BY <1>1, Invariance, PTL

\* What a connect saved is still there, whole and under its own seal, until
\* another connect of that instance saves or an rm removes it: no refused or
\* dying connect (cmd/pgf/main.go), no Put of another instance and no pruning of
\* the directory (yamlstore) takes it away.
THEOREM SavedCredentialsStay == Spec => []SavedStays
  <1>1. IInv => SavedStays
    BY DEF IInv
  <1>2. QED
    BY <1>1, Invariance, PTL

\* yamlstore's Put writes a temporary file and renames it: unless two connects of
\* an instance overlap and share that file, no process ever finds the instance's
\* file half written, wherever a connect died.
THEOREM CredentialsAreWhole == Spec => []NeverHalfWritten
  <1>1. IInv => NeverHalfWritten
    BY DEF IInv
  <1>2. QED
    BY <1>1, Invariance, PTL

--------------------------------------------------------------------------------
(* One key, when the process that creates it is alone.                     *)

LEMMA NoKeyStep ==
    ASSUME IInv, FirstRunAlone, NoKey, NEW p \in Procs,
           (\E c \in Commands : Start(p, c)) \/ LoadKey(p) \/ Connect(p) \/ Rm(p) \/ Run(p) \/ Die(p)
    PROVE  KeySound'
  <1> USE SoundProcs, NamesAre
  <1>1. ASSUME pc' = [pc EXCEPT ![p] = "load"] \/ pc' = [pc EXCEPT ![p] = "createKey"]
                   \/ pc' = [pc EXCEPT ![p] = "dead"],
               pc'[p] # "dead" => \A q \in Procs \ {p} : pc[q] \notin {"load", "createKey"},
               vault' = vault, dir' = dir, \A i \in FS!Inodes : data'[i] \in {data[i], <<>>}
        PROVE  KeySound'
    <2>1. \A q \in Procs \ {p} : pc'[q] = pc[q]
      BY <1>1
    <2>2. pc'[p] \in {"load", "createKey", "dead"}
      BY <1>1
    <2>3. NoKey'
      BY <1>1, <2>1, <2>2 DEF NoKey, FS!Exists, Ended
    <2>4. QED
      BY <2>3 DEF KeySound
  <1>2. CASE \E c \in Commands : Start(p, c)
    <2>1. /\ pc' = [pc EXCEPT ![p] = "load"] /\ UNCHANGED <<vault, dir, data>>
          /\ \A q \in Procs : pc[q] \notin {"load", "createKey"}
      BY <1>2 DEF Start, Goto, files, NoKey
    <2>2. QED
      BY <1>1, <2>1
  <1>3. CASE KeyMissing(p)
    <2>1. /\ pc' = [pc EXCEPT ![p] = "createKey"] /\ UNCHANGED <<vault, dir, data>>
          /\ pc[p] = "load"
      BY <1>3 DEF KeyMissing, Goto, files
    <2>2. QED
      BY <1>1, <2>1 DEF NoKey
  <1>4. CASE CreateKey(p)
    <2>1. /\ pc[p] = "createKey" /\ pc' = [pc EXCEPT ![p] = "writeKey"] /\ vault' = vault
          /\ FS!OpenTrunc(p, KeyFile)
      BY <1>4 DEF CreateKey, Goto
    <2>2. PICK i \in FS!Inodes : /\ i # 0
                                 /\ dir' = [dir EXCEPT ![KeyFile] = i]
                                 /\ data' = [data EXCEPT ![i] = <<>>]
      BY <2>1, OpenTruncFacts
    <2>3. dir'[KeyFile] = i /\ \A j \in FS!Inodes : data'[j] = <<>>
      BY <2>2 DEF NoKey, Files, FS!FSType
    <2>4. \A q \in Procs \ {p} : pc'[q] = pc[q] /\ pc[q] \in {"new"} \cup Ended
      BY <2>1 DEF NoKey
    <2>5. EmptyKey'
      BY <2>1, <2>2, <2>3, <2>4 DEF NoKey, EmptyKey, FS!Exists, Ended
    <2>6. QED
      BY <2>5 DEF KeySound
  <1>5. CASE Die(p)
    <2>1. pc' = [pc EXCEPT ![p] = "dead"] /\ vault' = vault /\ FS!Close({p})
      BY <1>5 DEF Die
    <2>2. dir' = dir /\ \A i \in FS!Inodes : data'[i] \in {data[i], <<>>}
      BY <2>1, CloseFacts
    <2>3. QED
      BY <1>1, <2>1, <2>2
  <1>6. ~(BadKey(p) \/ ReadKey(p) \/ WriteKey(p) \/ OpenKey(p) \/ Connect(p) \/ Rm(p) \/ Run(p))
    BY DEF NoKey, BadKey, ReadKey, WriteKey, OpenKey, FS!OpenRead, Connect, ConnectRefused, MakeDir,
           OpenTmp, OpenTmpFails, WriteTmp, Rename, RenameFails, Rm, Remove, RemoveMissing, Prune,
           Run, CredMissing, OpenCred, ReadCred, Goto, Ended
  <1>7. QED
    BY <1>2, <1>3, <1>4, <1>5, <1>6 DEF LoadKey

LEMMA EmptyKeyStep ==
    ASSUME IInv, EmptyKey, NEW p \in Procs,
           (\E c \in Commands : Start(p, c)) \/ LoadKey(p) \/ Connect(p) \/ Rm(p) \/ Run(p) \/ Die(p)
    PROVE  KeySound'
  <1> USE SoundProcs, NamesAre
  <1>1. ASSUME NEW to \in {"load", "readKey", "failed", "dead"}, pc' = [pc EXCEPT ![p] = to],
               vault' = vault, dir' = dir, \A i \in FS!Inodes : data'[i] \in {data[i], <<>>}
        PROVE  KeySound'
    <2>1. pc'[p] = to /\ \A q \in Procs \ {p} : pc'[q] = pc[q]
      BY <1>1
    <2>2. EmptyKey'
      BY <1>1, <2>1 DEF EmptyKey, FS!Exists, Ended
    <2>3. QED
      BY <2>2 DEF KeySound
  <1>2. CASE (\E c \in Commands : Start(p, c)) \/ OpenKey(p)
    <2>1. /\ pc' = [pc EXCEPT ![p] = "load"] \/ pc' = [pc EXCEPT ![p] = "readKey"]
          /\ UNCHANGED <<vault, dir, data>>
      BY <1>2 DEF Start, OpenKey, FS!OpenRead, Goto, files
    <2>2. QED
      BY <1>1, <2>1
  <1>3. CASE BadKey(p) \/ Die(p)
    <2>1. /\ pc' = [pc EXCEPT ![p] = "failed"] \/ pc' = [pc EXCEPT ![p] = "dead"]
          /\ vault' = vault /\ FS!Close({p})
      BY <1>3 DEF BadKey, Die, Goto
    <2>2. dir' = dir /\ \A i \in FS!Inodes : data'[i] \in {data[i], <<>>}
      BY <2>1, CloseFacts
    <2>3. QED
      BY <1>1, <2>1, <2>2
  <1>4. CASE WriteKey(p)
    <2>1. /\ pc[p] = "writeKey" /\ pc' = [pc EXCEPT ![p] = FirstStep(p)]
          /\ vault' = [vault EXCEPT ![p] = p] /\ FS!WriteClose(p, <<p>>)
      BY <1>4 DEF WriteKey, Goto
    <2>2. /\ fd[p] = dir[KeyFile] /\ fd[p] # 0 /\ fd[p] \in FS!Inodes
          /\ cmd[p] \in Commands /\ p \in Bytes
      BY <2>1 DEF ProcSound, Bytes
    <2>3. data[fd[p]] = <<>> /\ data[fd[p]] \in KeyBytes
      BY <2>2 DEF EmptyKey, KeyBytes
    <2>4. /\ dir' = dir
          /\ \A i \in FS!Inodes : \/ data'[i] \in {data[i], <<>>}
                                  \/ i = fd[p] /\ data'[i] = <<p>>
          /\ data'[dir[KeyFile]] = <<p>>
      BY <2>1, <2>2, <2>3, WriteCloseFacts
    <2>5. FirstStep(p) \notin {"createKey", "writeKey"}
      BY <2>2, FirstSteps
    <2>6. ASSUME NEW q \in Procs
          PROVE  vault'[q] \in {None, p} /\ pc'[q] \notin {"createKey", "writeKey"}
      BY <2>1, <2>5 DEF EmptyKey, Ended
    <2>7. KeyIs(p)'
      BY <2>2, <2>4, <2>6 DEF EmptyKey, KeyIs, FS!Exists, FS!Contents
    <2>8. QED
      BY <2>7 DEF KeySound
  <1>5. ~ReadKey(p)
    BY DEF EmptyKey, ReadKey, Whole, ProcSound
  <1>6. ~(KeyMissing(p) \/ CreateKey(p) \/ Connect(p) \/ Rm(p) \/ Run(p))
    BY DEF EmptyKey, KeyMissing, CreateKey, Connect, ConnectRefused, MakeDir,
           OpenTmp, OpenTmpFails, WriteTmp, Rename, RenameFails, Rm, Remove, RemoveMissing, Prune,
           Run, CredMissing, OpenCred, ReadCred, Goto, Ended
  <1>7. QED
    BY <1>2, <1>3, <1>4, <1>5, <1>6 DEF LoadKey

LEMMA KeyIsStep ==
    ASSUME IInv, NEW k \in Procs, KeyIs(k), NEW p \in Procs,
           (\E c \in Commands : Start(p, c)) \/ LoadKey(p) \/ Connect(p) \/ Rm(p) \/ Run(p) \/ Die(p)
    PROVE  KeyIs(k)'
  <1> USE SoundProcs, NamesAre
  <1>0. dir[KeyFile] # 0 /\ data[dir[KeyFile]] = <<k>> /\ vault[p] \in {None, k}
    BY DEF KeyIs, FS!Exists, FS!Contents
  <1>1. ASSUME NEW to \in PCs \ {"createKey", "writeKey"}, pc' = [pc EXCEPT ![p] = to],
               NEW v \in {None, k}, vault' = [vault EXCEPT ![p] = v],
               dir'[KeyFile] = dir[KeyFile], data'[dir[KeyFile]] = data[dir[KeyFile]],
               \A i \in FS!Inodes : \/ data'[i] \in {data[i], <<>>}
                                    \/ data'[i] = <<Sealed(p)>> /\ vault[p] # None
        PROVE  KeyIs(k)'
    <2>1. \A q \in Procs : vault'[q] \in {None, k} /\ pc'[q] \notin {"createKey", "writeKey"}
      BY <1>1 DEF KeyIs
    <2>2. ASSUME NEW i \in FS!Inodes \ {dir[KeyFile]}
          PROVE  data'[i] = <<>> \/ data'[i][1].key = k
      <3>1. CASE data'[i] \in {data[i], <<>>}
        BY <3>1 DEF KeyIs
      <3>2. CASE data'[i] = <<Sealed(p)>> /\ vault[p] # None
        <4>1. Sealed(p).key = k
          BY <1>0, <3>2 DEF Sealed
        <4>2. QED
          BY <3>2, <4>1
      <3>3. QED
        BY <1>1, <3>1, <3>2
    <2>3. QED
      BY <1>0, <1>1, <2>1, <2>2 DEF KeyIs, FS!Exists, FS!Contents
  <1>2. vault' = vault => vault' = [vault EXCEPT ![p] = vault[p]]
    OBVIOUS
  <1>3. CASE (\E c \in Commands : Start(p, c)) \/ OpenKey(p) \/ ConnectRefused(p) \/ MakeDir(p)
                 \/ OpenTmpFails(p) \/ RenameFails(p) \/ RemoveMissing(p) \/ Prune(p)
                 \/ CredMissing(p) \/ OpenCred(p)
    <2>1. /\ UNCHANGED <<vault, dir, data>>
          /\ \E to \in PCs \ {"createKey", "writeKey"} : pc' = [pc EXCEPT ![p] = to]
      BY <1>3 DEF Start, OpenKey, FS!OpenRead, ConnectRefused, MakeDir, OpenTmpFails, RenameFails,
                  RemoveMissing, Prune, CredMissing, OpenCred, Goto, files, PCs, Ended
    <2>2. QED
      BY <1>0, <1>1, <1>2, <2>1
  <1>4. CASE BadKey(p) \/ ReadKey(p) \/ ReadCred(p) \/ Die(p)
    <2>1. FS!Close({p})
      BY <1>4 DEF BadKey, ReadKey, ReadCred, Die
    <2>2. /\ dir' = dir /\ \A i \in FS!Inodes : data'[i] \in {data[i], <<>>}
          /\ data'[dir[KeyFile]] = data[dir[KeyFile]]
      BY <1>0, <2>1, CloseFacts
    <2>3. CASE ReadKey(p)
      <3>1. /\ pc[p] = "readKey" /\ pc' = [pc EXCEPT ![p] = FirstStep(p)]
            /\ vault' = [vault EXCEPT ![p] = data[fd[p]][1]]
        BY <2>3 DEF ReadKey, Goto
      <3>2. data[fd[p]][1] = k
        BY <1>0, <3>1 DEF ProcSound
      <3>3. FirstStep(p) \in PCs \ {"createKey", "writeKey"}
        BY <3>1, FirstSteps DEF ProcSound, PCs
      <3>4. vault' = [vault EXCEPT ![p] = k]
        BY <3>1, <3>2
      <3>5. QED
        BY <1>1, <2>2, <3>1, <3>3, <3>4
    <2>4. CASE BadKey(p) \/ ReadCred(p) \/ Die(p)
      <3>1. vault' = vault
            /\ \E to \in {"done", "failed", "dead"} : pc' = [pc EXCEPT ![p] = to]
        BY <2>4 DEF BadKey, ReadCred, Die, Goto
      <3>2. {"done", "failed", "dead"} \subseteq PCs \ {"createKey", "writeKey"}
        BY DEF PCs, Ended
      <3>3. QED
        BY <1>0, <1>1, <1>2, <2>2, <3>1, <3>2
    <2>5. QED
      BY <1>4, <2>3, <2>4
  <1>5. CASE OpenTmp(p)
    <2>1. /\ vault' = vault /\ pc' = [pc EXCEPT ![p] = "writeTmp"] /\ pc[p] = "openTmp"
          /\ FS!OpenTrunc(p, Tmp(cmd[p].inst))
      BY <1>5 DEF OpenTmp, Goto
    <2>2. Tmp(cmd[p].inst) \in Names \ {KeyFile}
      BY <2>1 DEF ProcSound, Commands
    <2>3. PICK i \in FS!Inodes : /\ dir' = [dir EXCEPT ![Tmp(cmd[p].inst)] = i]
                                 /\ data' = [data EXCEPT ![i] = <<>>]
                                 /\ dir[KeyFile] # i
      BY <2>1, <2>2, OpenTruncFacts
    <2>4. data \in [FS!Inodes -> Seq(Bytes)] /\ dir[KeyFile] \in FS!Inodes
      BY <1>0 DEF Files, FS!FSType, FS!Inodes
    <2>5. \A j \in FS!Inodes : data'[j] \in {data[j], <<>>}
      BY <2>3, <2>4
    <2>6. data'[dir[KeyFile]] = data[dir[KeyFile]] /\ dir'[KeyFile] = dir[KeyFile]
      BY <2>2, <2>3, <2>4
    <2>7. "writeTmp" \in PCs \ {"createKey", "writeKey"}
      BY DEF PCs
    <2>8. QED
      BY <1>0, <1>1, <1>2, <2>1, <2>5, <2>6, <2>7
  <1>6. CASE WriteTmp(p)
    <2>1. /\ vault' = vault /\ pc' = [pc EXCEPT ![p] = "rename"] /\ pc[p] = "writeTmp"
          /\ FS!WriteClose(p, <<Sealed(p)>>)
      BY <1>6 DEF WriteTmp, Goto
    <2>2. fd[p] # 0 /\ fd[p] # dir[KeyFile] /\ fd[p] \in FS!Inodes /\ vault[p] # None
          /\ Sealed(p) \in Bytes
      BY <2>1 DEF ProcSound, Working, Sealed, Bytes
    <2>3. data[fd[p]] \in CredBytes
      BY <2>2 DEF IInv, FilesSound
    <2>4. /\ dir' = dir
          /\ \A i \in FS!Inodes : \/ data'[i] \in {data[i], <<>>}
                                  \/ i = fd[p] /\ data'[i] = <<Sealed(p)>>
          /\ data'[dir[KeyFile]] = data[dir[KeyFile]]
      BY <1>0, <2>1, <2>2, <2>3, WriteCloseFacts
    <2>5. "rename" \in PCs \ {"createKey", "writeKey"}
      BY DEF PCs
    <2>6. QED
      BY <1>0, <1>1, <1>2, <2>1, <2>2, <2>4, <2>5
  <1>7. CASE Rename(p)
    <2>1. PICK t \in Instances : t = cmd[p].inst /\ pc[p] = "rename"
      BY <1>7 DEF Rename, Goto, ProcSound, Commands
    <2>2. /\ vault' = vault /\ pc' = [pc EXCEPT ![p] = "done"]
          /\ dir[Tmp(t)] # 0 /\ FS!Rename(Tmp(t), Yaml(t))
      BY <1>7, <2>1 DEF Rename, Goto, FS!Exists
    <2>3. /\ dir' = [dir EXCEPT ![Yaml(t)] = dir[Tmp(t)], ![Tmp(t)] = 0]
          /\ \A i \in FS!Inodes : data'[i] \in {data[i], <<>>}
          /\ \A n \in Names : dir'[n] # 0 => data'[dir'[n]] = data[dir'[n]]
      BY <2>2, RenameFacts
    <2>4. dir'[KeyFile] = dir[KeyFile]
      BY <2>3
    <2>5. "done" \in PCs \ {"createKey", "writeKey"}
      BY DEF PCs, Ended
    <2>6. QED
      BY <1>0, <1>1, <1>2, <2>2, <2>3, <2>4, <2>5
  <1>8. CASE Remove(p)
    <2>1. PICK t \in Instances : t = cmd[p].inst /\ pc[p] = "remove"
      BY <1>8 DEF Remove, Goto, ProcSound, Commands
    <2>2. vault' = vault /\ pc' = [pc EXCEPT ![p] = "prune"] /\ FS!Remove(Yaml(t))
      BY <1>8, <2>1 DEF Remove, Goto
    <2>3. /\ dir' = [dir EXCEPT ![Yaml(t)] = 0]
          /\ \A i \in FS!Inodes : data'[i] \in {data[i], <<>>}
          /\ \A n \in Names : dir'[n] # 0 => data'[dir'[n]] = data[dir'[n]]
      BY <2>2, RemoveFacts
    <2>4. dir'[KeyFile] = dir[KeyFile]
      BY <2>3
    <2>5. "prune" \in PCs \ {"createKey", "writeKey"}
      BY DEF PCs
    <2>6. QED
      BY <1>0, <1>1, <1>2, <2>2, <2>3, <2>4, <2>5
  <1>9. ~(KeyMissing(p) \/ CreateKey(p) \/ WriteKey(p))
    BY DEF KeyIs, KeyMissing, CreateKey, WriteKey, Goto
  <1>10. QED
    BY <1>3, <1>4, <1>5, <1>6, <1>7, <1>8, <1>9 DEF LoadKey, Connect, Rm, Run

LEMMA StepKeepsKey == FirstRunAlone /\ KeyInv /\ [Next]_vars => KeyInv'
  <1> SUFFICES ASSUME FirstRunAlone, KeyInv, [Next]_vars PROVE KeyInv'
    OBVIOUS
  <1>1. IInv'
    BY StepKeepsInv DEF KeyInv
  <1>2. CASE Next
    <2>1. PICK p \in Procs : \/ \E c \in Commands : Start(p, c)
                             \/ LoadKey(p) \/ Connect(p) \/ Rm(p) \/ Run(p) \/ Die(p)
      BY <1>2 DEF Next
    <2>2. KeySound'
      BY <2>1, NoKeyStep, EmptyKeyStep, KeyIsStep DEF KeyInv, KeySound
    <2>3. QED
      BY <1>1, <2>2 DEF KeyInv
  <1>3. CASE UNCHANGED vars
    BY <1>1, <1>3 DEF KeyInv, KeySound, NoKey, EmptyKey, KeyIs, FS!Exists, FS!Contents, FS!Inodes,
                      vars, files, history
  <1>4. QED
    BY <1>2, <1>3

LEMMA KeyInvMeans == KeyInv => OneKey /\ Openable
  <1> SUFFICES ASSUME KeyInv PROVE OneKey /\ Openable
    OBVIOUS
  <1> USE SoundProcs, NamesAre DEF KeyInv
  <1>1. OneKey
    BY DEF KeySound, NoKey, EmptyKey, KeyIs, OneKey
  <1>2. ASSUME NEW i \in Instances, FS!Exists(Yaml(i)), Whole(FS!Contents(Yaml(i)))
        PROVE  FS!Exists(KeyFile) /\ FS!Contents(KeyFile) = <<FS!Contents(Yaml(i))[1].key>>
    <2>1. dir[Yaml(i)] \in FS!Inodes
      BY <1>2, CredentialAssumption DEF FS!Exists, FS!Inodes
    <2>2. data[dir[Yaml(i)]] # <<>>
      BY <1>2 DEF FS!Contents, Whole
    <2>3. PICK k \in Procs : KeyIs(k)
      BY <2>1, <2>2 DEF KeySound, NoKey, EmptyKey
    <2>4. dir[Yaml(i)] # dir[KeyFile]
      BY <1>2 DEF Files, Distinct, FS!Exists
    <2>5. QED
      BY <2>1, <2>2, <2>3, <2>4 DEF KeyIs, FS!Contents
  <1>3. QED
    BY <1>1, <1>2 DEF Openable

LEMMA InitKey == Init => KeyInv
  <1>1. Init => NoKey
    BY NamesAre DEF Init, NoKey, FS!FSInit, FS!Exists
  <1>2. QED
    BY <1>1, InitInv DEF KeyInv, KeySound

\* If no process starts while another is about to create the key file, there is
\* no key, or an empty key file, or one key that every process has loaded and
\* every connector file is sealed with: the invariant behind the next two.
THEOREM KeyInvariance == FirstRunAlone => (Spec => []KeyInv)
  <1> SUFFICES ASSUME FirstRunAlone PROVE Spec => []KeyInv
    OBVIOUS
  <1>1. KeyInv /\ [Next]_vars => KeyInv'
    BY StepKeepsKey
  <1>2. QED
    BY <1>1, InitKey, PTL DEF Spec

\* secrets.Load "derived once and persisted" (secrets/vault.go): if no process
\* starts while another is about to create the key file, all processes that hold
\* a key hold the same one.  Without that hypothesis it is false.
THEOREM OneKeyForAll == FirstRunAlone => (Spec => []OneKey)
  <1> SUFFICES ASSUME FirstRunAlone PROVE Spec => []OneKey
    OBVIOUS
  <1>1. QED
    BY KeyInvariance, KeyInvMeans, PTL

\* Under the same hypothesis, whatever died and whatever overlapped, every
\* credential file that is not empty opens with the key that a next process loads.
THEOREM CredentialsOpen == FirstRunAlone => (Spec => []Openable)
  <1> SUFFICES ASSUME FirstRunAlone PROVE Spec => []Openable
    OBVIOUS
  <1>1. QED
    BY KeyInvariance, KeyInvMeans, PTL
================================================================================
