------------------------------- MODULE FileSystem -------------------------------
(***************************************************************************)
(* The POSIX file operations behind os.WriteFile, os.ReadFile, os.Rename   *)
(* and os.Remove, at the grain at which two processes can interleave them. *)
(* os.WriteFile opens with O_CREATE|O_TRUNC and then writes from position  *)
(* 0 through its own descriptor, which keeps naming the same inode when    *)
(* the name is renamed or removed meanwhile.  External: the operating      *)
(* system, as the code in src/ uses it.                                    *)
(***************************************************************************)
EXTENDS Integers, Sequences

CONSTANTS Names,     \* file names
          Procs,     \* owners of at most one open descriptor each
          MaxInode   \* inodes are 1..MaxInode; enough for every name and descriptor

VARIABLES dir,       \* [Names -> inode, or 0 when the name does not exist]
          data,      \* [1..MaxInode -> contents, a sequence of bytes]
          fd         \* [Procs -> inode, or 0 when nothing is open]

Inodes == 1..MaxInode

FSType(Bytes) ==
    /\ dir \in [Names -> 0..MaxInode]
    /\ data \in [Inodes -> Seq(Bytes)]
    /\ fd \in [Procs -> 0..MaxInode]

FSInit ==
    /\ dir = [n \in Names |-> 0]
    /\ data = [i \in Inodes |-> <<>>]
    /\ fd = [p \in Procs |-> 0]

Exists(n) == dir[n] # 0

Contents(n) == data[dir[n]]

Linked(i, d, f) == (\E n \in Names : d[n] = i) \/ (\E p \in Procs : f[p] = i)

\* The lowest inode that no name and no descriptor holds.
IsFresh(i) == ~Linked(i, dir, fd) /\ \A j \in Inodes : j < i => Linked(j, dir, fd)

\* An inode nothing links to any more is freed.
Sweep(d, f) == [i \in Inodes |-> IF Linked(i, d, f) THEN data[i] ELSE <<>>]

\* Writing bytes from position 0 over what is there: a longer old tail stays.
Overlay(bytes, old) == bytes \o SubSeq(old, Len(bytes) + 1, Len(old))

\* open(n, O_CREATE|O_TRUNC): the existing inode emptied, or a new one.
OpenTrunc(p, n) ==
    \E i \in Inodes :
        /\ IF Exists(n) THEN i = dir[n] ELSE IsFresh(i)
        /\ dir' = [dir EXCEPT ![n] = i]
        /\ fd' = [fd EXCEPT ![p] = i]
        /\ data' = [data EXCEPT ![i] = <<>>]

\* The same without O_TRUNC: what was there stays.
OpenKeep(p, n) ==
    \E i \in Inodes :
        /\ IF Exists(n) THEN i = dir[n] ELSE IsFresh(i)
        /\ dir' = [dir EXCEPT ![n] = i]
        /\ fd' = [fd EXCEPT ![p] = i]
        /\ UNCHANGED data

\* write and close.
WriteClose(p, bytes) ==
    /\ fd' = [fd EXCEPT ![p] = 0]
    /\ data' = [i \in Inodes |->
                  IF i = fd[p] /\ Linked(i, dir, fd') THEN Overlay(bytes, data[i])
                  ELSE Sweep(dir, fd')[i]]
    /\ UNCHANGED dir

OpenRead(p, n) ==
    /\ Exists(n)
    /\ fd' = [fd EXCEPT ![p] = dir[n]]
    /\ UNCHANGED <<dir, data>>

\* Closing the descriptors of a set of owners: the end of a read, or of a process.
Close(P) ==
    /\ fd' = [p \in Procs |-> IF p \in P THEN 0 ELSE fd[p]]
    /\ data' = Sweep(dir, fd')
    /\ UNCHANGED dir

\* rename(a, b) replaces b in one step; the caller checks that a exists.
Rename(a, b) ==
    /\ dir' = [dir EXCEPT ![b] = dir[a], ![a] = 0]
    /\ data' = Sweep(dir', fd)
    /\ UNCHANGED fd

\* unlink; removing a missing name is the caller's ErrNotExist case.
Remove(n) ==
    /\ dir' = [dir EXCEPT ![n] = 0]
    /\ data' = Sweep(dir', fd)
    /\ UNCHANGED fd
================================================================================
