----------------------------- MODULE CredentialStore -----------------------------
(***************************************************************************)
(* The life of a credential: pgf processes that load or create the master  *)
(* key (secrets/vault.go) and then connect, remove or run an instance      *)
(* (cmd/pgf/main.go) through storage/yamlstore.  Each process handles one  *)
(* command, has store objects of its own, and may die between any two file *)
(* operations.  PGF_MASTER_KEY is unset: with it nobody reads or creates   *)
(* the key file.                                                           *)
(***************************************************************************)
EXTENDS Integers, Sequences, FiniteSets

CONSTANTS Procs,         \* pgf processes, one command each
          Instances,     \* instances of one connector type, in one directory
          FirstRunAlone, \* no process starts while another is about to create
                         \* the key
          MaxInode,      \* bound: inodes
          None

ASSUME CredentialAssumption ==
    None \notin Procs /\ FirstRunAlone \in BOOLEAN /\ MaxInode \in Nat

VARIABLES dir, data, fd,  \* the file system (FileSystem)
          typeDir,        \* whether the type's directory exists
          pc,             \* [Procs -> where the process is]
          cmd,            \* [Procs -> its command, or None]
          vault           \* [Procs -> the key it holds, or None]

\* History.
VARIABLES saved,          \* [Instances -> the process whose connect saved what is
                          \* there, or None: nothing, or it met another connect]
          overlapped      \* instances that two connects worked on at once

files   == <<dir, data, fd>>
history == <<saved, overlapped>>
vars == <<files, typeDir, pc, cmd, vault, history>>

KeyFile == <<None, "master.key">>
Yaml(i) == <<i, "yaml">>

\* Variant of Tmp: the credential is written in place.
TmpIsTarget(i) == Yaml(i)

Tmp(i) == <<i, "tmp">>

Names == {KeyFile} \cup {Yaml(i) : i \in Instances} \cup {<<i, "tmp">> : i \in Instances}

FS == INSTANCE FileSystem

\* A key is named after the process that made it; the file of a credential holds
\* one byte: who stored it, and under which key.
Sealed(p) == [by |-> p, key |-> vault[p]]

Whole(bytes) == bytes # <<>>

Ended == {"done", "failed", "dead"}
PCs == {"new", "load", "readKey", "createKey", "writeKey",
        "mkdir", "openTmp", "writeTmp", "rename", "remove", "prune",
        "openCred", "readCred"} \cup Ended

Commands == [op : {"connect", "rm", "run"}, inst : Instances]

TypeOK ==
    /\ FS!FSType(Procs \cup [by : Procs, key : Procs])
    /\ typeDir \in BOOLEAN
    /\ ~typeDir => \A i \in Instances : ~FS!Exists(Yaml(i)) /\ ~FS!Exists(Tmp(i))
    /\ pc \in [Procs -> PCs]
    /\ cmd \in [Procs -> Commands \cup {None}]
    /\ vault \in [Procs -> Procs \cup {None}]
    /\ saved \in [Instances -> Procs \cup {None}]
    /\ overlapped \subseteq Instances

Init ==
    /\ FS!FSInit
    /\ typeDir = FALSE
    /\ pc = [p \in Procs |-> "new"]
    /\ cmd = [p \in Procs |-> None]
    /\ vault = [p \in Procs |-> None]
    /\ saved = [i \in Instances |-> None]
    /\ overlapped = {}

Goto(p, from, to) ==
    /\ pc[p] = from
    /\ pc' = [pc EXCEPT ![p] = to]

\* Where a process goes once it holds the key: its command's first step.
FirstStep(p) ==
    CASE cmd[p].op = "connect" -> "mkdir"
      [] cmd[p].op = "rm"      -> "remove"
      [] cmd[p].op = "run"     -> "openCred"

\* Processes at work on connecting an instance.
Connecting(i) == {q \in Procs : /\ pc[q] \notin {"new"} \cup Ended
                                /\ cmd[q].op = "connect" /\ cmd[q].inst = i}

--------------------------------------------------------------------------------
(* main and secrets.Load.                                                  *)

Start(p, c) ==
    /\ Goto(p, "new", "load")
    /\ FirstRunAlone => \/ FS!Exists(KeyFile)
                        \/ \A q \in Procs : pc[q] \notin {"load", "createKey"}
    /\ cmd' = [cmd EXCEPT ![p] = c]
    /\ overlapped' = IF c.op = "connect" /\ Connecting(c.inst) # {}
                     THEN overlapped \cup {c.inst} ELSE overlapped
    /\ UNCHANGED <<files, typeDir, vault, saved>>

KeyMissing(p) ==
    /\ Goto(p, "load", "createKey")
    /\ ~FS!Exists(KeyFile)
    /\ UNCHANGED <<files, typeDir, cmd, vault, history>>

OpenKey(p) ==
    /\ Goto(p, "load", "readKey")
    /\ FS!OpenRead(p, KeyFile)
    /\ UNCHANGED <<typeDir, cmd, vault, history>>

\* Variant of BadKey: a key that does not parse is replaced.
BadKeyReplaced(p) ==
    /\ Goto(p, "readKey", "createKey")
    /\ ~Whole(data[fd[p]])
    /\ FS!Close({p})
    /\ UNCHANGED <<typeDir, cmd, vault, history>>

\* A key of the wrong length: the process gives up.
BadKey(p) ==
    /\ Goto(p, "readKey", "failed")
    /\ ~Whole(data[fd[p]])
    /\ FS!Close({p})
    /\ UNCHANGED <<typeDir, cmd, vault, history>>

ReadKey(p) ==
    /\ pc[p] = "readKey" /\ Whole(data[fd[p]])
    /\ Goto(p, "readKey", FirstStep(p))
    /\ vault' = [vault EXCEPT ![p] = data[fd[p]][1]]
    /\ FS!Close({p})
    /\ UNCHANGED <<typeDir, cmd, history>>

\* create writes the key file in place.
CreateKey(p) ==
    /\ Goto(p, "createKey", "writeKey")
    /\ FS!OpenTrunc(p, KeyFile)
    /\ UNCHANGED <<typeDir, cmd, vault, history>>

WriteKey(p) ==
    /\ pc[p] = "writeKey"
    /\ Goto(p, "writeKey", FirstStep(p))
    /\ FS!WriteClose(p, <<p>>)
    /\ vault' = [vault EXCEPT ![p] = p]
    /\ UNCHANGED <<typeDir, cmd, history>>

--------------------------------------------------------------------------------
(* connect: validation, sealing and yamlstore's Put.  The store's mutex     *)
(* belongs to one process and is never contended.                          *)

\* The credential is refused, by the remote service or by the path whitelist.
ConnectRefused(p) ==
    /\ Goto(p, "mkdir", "failed")
    /\ UNCHANGED <<files, typeDir, cmd, vault, history>>

MakeDir(p) ==
    /\ Goto(p, "mkdir", "openTmp")
    /\ typeDir' = TRUE
    /\ UNCHANGED <<files, cmd, vault, history>>

OpenTmp(p) ==
    /\ Goto(p, "openTmp", "writeTmp")
    /\ typeDir
    /\ FS!OpenTrunc(p, Tmp(cmd[p].inst))
    /\ UNCHANGED <<typeDir, cmd, vault, history>>

\* rm of the last instance pruned the directory in between.
OpenTmpFails(p) ==
    /\ Goto(p, "openTmp", "failed")
    /\ ~typeDir
    /\ UNCHANGED <<files, typeDir, cmd, vault, history>>

WriteTmp(p) ==
    /\ Goto(p, "writeTmp", "rename")
    /\ FS!WriteClose(p, <<Sealed(p)>>)
    /\ UNCHANGED <<typeDir, cmd, vault, history>>

Rename(p) ==
    /\ Goto(p, "rename", "done")
    /\ LET i == cmd[p].inst
       IN  /\ FS!Exists(Tmp(i))
           /\ FS!Rename(Tmp(i), Yaml(i))
           /\ saved' = [saved EXCEPT ![i] = IF i \in overlapped THEN None ELSE p]
    /\ UNCHANGED <<typeDir, cmd, vault, overlapped>>

\* Another connect of the instance renamed the shared temporary file.
RenameFails(p) ==
    /\ Goto(p, "rename", "failed")
    /\ ~FS!Exists(Tmp(cmd[p].inst))
    /\ UNCHANGED <<files, typeDir, cmd, vault, history>>

--------------------------------------------------------------------------------
(* rm: yamlstore's Delete.                                                 *)

Remove(p) ==
    /\ Goto(p, "remove", "prune")
    /\ FS!Exists(Yaml(cmd[p].inst))
    /\ FS!Remove(Yaml(cmd[p].inst))
    /\ saved' = [saved EXCEPT ![cmd[p].inst] = None]
    /\ UNCHANGED <<typeDir, cmd, vault, overlapped>>

RemoveMissing(p) ==
    /\ Goto(p, "remove", "failed")
    /\ ~FS!Exists(Yaml(cmd[p].inst))
    /\ UNCHANGED <<files, typeDir, cmd, vault, history>>

\* Variant of Prune: the directory goes with all it holds.
PruneAll(p) ==
    /\ Goto(p, "prune", "done")
    /\ typeDir' = FALSE
    /\ dir' = [n \in Names |-> IF n = KeyFile THEN dir[n] ELSE 0]
    /\ data' = FS!Sweep(dir', fd)
    /\ UNCHANGED <<fd, cmd, vault, history>>

\* The type's directory goes if it is empty.
Prune(p) ==
    /\ Goto(p, "prune", "done")
    /\ typeDir' = \E n \in Names \ {KeyFile} : FS!Exists(n)
    /\ UNCHANGED <<files, cmd, vault, history>>

--------------------------------------------------------------------------------
(* run: yamlstore's Get and the opening of the secrets.                    *)

CredMissing(p) ==
    /\ Goto(p, "openCred", "failed")
    /\ ~FS!Exists(Yaml(cmd[p].inst))
    /\ UNCHANGED <<files, typeDir, cmd, vault, history>>

OpenCred(p) ==
    /\ Goto(p, "openCred", "readCred")
    /\ FS!OpenRead(p, Yaml(cmd[p].inst))
    /\ UNCHANGED <<typeDir, cmd, vault, history>>

\* An empty file reads as a credential without values and opens; a secret sealed
\* with another key does not.
ReadCred(p) ==
    /\ pc[p] = "readCred"
    /\ LET bytes == data[fd[p]]
       IN  Goto(p, "readCred",
                IF Whole(bytes) /\ bytes[1].key # vault[p] THEN "failed" ELSE "done")
    /\ FS!Close({p})
    /\ UNCHANGED <<typeDir, cmd, vault, history>>

--------------------------------------------------------------------------------

\* The process dies; the files stay as they are.
Die(p) ==
    /\ pc[p] \notin {"new"} \cup Ended
    /\ pc' = [pc EXCEPT ![p] = "dead"]
    /\ FS!Close({p})
    /\ UNCHANGED <<typeDir, cmd, vault, history>>

LoadKey(p) == KeyMissing(p) \/ OpenKey(p) \/ BadKey(p) \/ ReadKey(p)
              \/ CreateKey(p) \/ WriteKey(p)

Connect(p) == ConnectRefused(p) \/ MakeDir(p) \/ OpenTmp(p) \/ OpenTmpFails(p)
              \/ WriteTmp(p) \/ Rename(p) \/ RenameFails(p)

Rm(p) == Remove(p) \/ RemoveMissing(p) \/ Prune(p)

Run(p) == CredMissing(p) \/ OpenCred(p) \/ ReadCred(p)

Next ==
    \E p \in Procs :
        \/ \E c \in Commands : Start(p, c)
        \/ LoadKey(p) \/ Connect(p) \/ Rm(p) \/ Run(p) \/ Die(p)

Spec == Init /\ [][Next]_vars

--------------------------------------------------------------------------------
(* Properties.                                                             *)

\* "A 32-byte key derived once and persisted" (vault.go:3): whoever holds a key
\* holds the same one.
OneKey == \A p, q \in Procs : vault[p] # None /\ vault[q] # None => vault[p] = vault[q]

\* Whatever processes died and whichever commands overlapped, a credential in the
\* store can be opened with the key in the key file, the one a next process loads.
Openable ==
    \A i \in Instances : FS!Exists(Yaml(i)) /\ Whole(FS!Contents(Yaml(i))) =>
        FS!Exists(KeyFile) /\ FS!Contents(KeyFile) = <<FS!Contents(Yaml(i))[1].key>>

\* What a connect saved stays, whole, until another connect of the same instance
\* saves or an rm removes it: a connect that is refused or dies, and an rm that
\* prunes the directory of other instances, leave it alone.
SavedStays ==
    \A i \in Instances : saved[i] # None =>
        FS!Exists(Yaml(i)) /\ FS!Contents(Yaml(i)) = <<Sealed(saved[i])>>

\* Unless two connects of an instance overlap, its file is never seen half
\* written, wherever a connect dies.
NeverHalfWritten ==
    \A i \in Instances \ overlapped :
        FS!Exists(Yaml(i)) => Whole(FS!Contents(Yaml(i)))
================================================================================
