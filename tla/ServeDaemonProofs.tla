--------------------------- MODULE ServeDaemonProofs ---------------------------
(***************************************************************************)
(* Proofs about the session cache of the serve daemon, for any number of   *)
(* requests and instances: IInv is inductive, and it implies the safety    *)
(* properties of ServeDaemon.  Then, about one of the sessions it keeps,   *)
(* that of the email connector: its requests work on the right folder as   *)
(* long as those that read at the same time name the same folder, and so   *)
(* when they come one at a time.                                           *)
(***************************************************************************)
EXTENDS ServeDaemon, EmailSession, FiniteSetTheorems, TLAPS

LEMMA TypeInit == Init => TypeOK
  BY ServeAssumption DEF Init, TypeOK, PCs

\* Every step keeps every variable within its type, and an action that is about
\* to run has a session to run on.
LEMMA TypeStep == TypeOK /\ [Next]_vars => TypeOK'
  <1> SUFFICES ASSUME TypeOK, [Next]_vars PROVE TypeOK'
    OBVIOUS
  <1> USE ServeAssumption DEF TypeOK, PCs, Goto, handlerVars
  <1>1. ASSUME NEW r \in Requests, Accept(r) PROVE TypeOK'
    BY <1>1 DEF Accept
  <1>2. ASSUME NEW r \in Requests, HandlerStep(r) PROVE TypeOK'
    <2>1. CASE Hit(r)
      BY <2>1 DEF Hit
    <2>2. CASE Miss(r) \/ Load(r) \/ OpenFails(r) \/ Run(r)
      BY <2>2 DEF Miss, Load, OpenFails, Run
    <2>3. CASE Open(r) \/ CloseDuplicate(r)
      BY <2>3 DEF Open, CloseDuplicate
    <2>4. CASE Insert(r)
      BY <2>4 DEF Insert
    <2>5. CASE Duplicate(r)
      BY <2>5 DEF Duplicate
    <2>6. CASE Refuse(r)
      BY <2>6 DEF Refuse
    <2>7. QED
      BY <1>2, <2>1, <2>2, <2>3, <2>4, <2>5, <2>6 DEF HandlerStep
  <1>3. ASSUME NEW r \in Requests, Finish(r) PROVE TypeOK'
    BY <1>3 DEF Finish
  <1>4. CASE ListenFails \/ Signal
    BY <1>4 DEF ListenFails, Signal
  <1>5. CASE ShutdownStep
    <2>1. CASE Drained \/ Timeout
      BY <2>1 DEF Drained, Timeout
    <2>2. ASSUME NEW i \in Instances, CloseCached(i) PROVE TypeOK'
      BY <2>2 DEF CloseCached
    <2>3. CASE CloseDone \/ Exit
      BY <2>3 DEF CloseDone, Exit
    <2>4. QED
      BY <1>5, <2>1, <2>2, <2>3 DEF ShutdownStep
  <1>6. ASSUME NEW i \in Instances, Remove(i) \/ Connect(i) PROVE TypeOK'
    BY <1>6 DEF Remove, Connect
  <1>7. CASE UNCHANGED vars
    BY <1>7 DEF vars
  <1>8. QED
    BY <1>1, <1>2, <1>3, <1>4, <1>5, <1>6, <1>7 DEF Next

\* Type correctness of the daemon.
THEOREM TypeCorrect == Spec => []TypeOK
  BY TypeInit, TypeStep, PTL DEF Spec

--------------------------------------------------------------------------------
(* The inductive invariant.                                                *)

LEMMA InvInit == Init => IInv
  BY TypeInit, ServeAssumption
     DEF Init, IInv, CacheSound, OwnerSound, UseSound, NoOrphan, ShutdownSound

\* Steps of a handler that touch neither the cache nor a session.
LEMMA QuietKeepsInv ==
  ASSUME IInv, TypeOK', NEW r \in Requests,
         Accept(r) \/ Miss(r) \/ Load(r) \/ OpenFails(r) \/ Refuse(r) \/ Run(r) \/ Finish(r)
  PROVE  IInv'
  <1> USE ServeAssumption DEF IInv, TypeOK, PCs, Goto, Running, Accept, Miss, Load,
          OpenFails, Refuse, Run, Finish
  <1>1. CacheSound'
    BY DEF CacheSound
  <1>2. OwnerSound'
    BY DEF OwnerSound
  <1>3. UseSound'
    BY DEF UseSound
  <1>4. NoOrphan'
    BY DEF NoOrphan, OwnerSound
  <1>5. ShutdownSound'
    BY DEF ShutdownSound, InFlight
  <1>6. QED
    BY <1>1, <1>2, <1>3, <1>4, <1>5

\* Steps of sessionFor that use the cache or open and close sessions.
LEMMA SessionKeepsInv ==
  ASSUME IInv, TypeOK', NEW r \in Requests,
         Hit(r) \/ Open(r) \/ Insert(r) \/ Duplicate(r) \/ CloseDuplicate(r)
  PROVE  IInv'
  <1> USE ServeAssumption DEF IInv, TypeOK, PCs, Goto, Running, Hit, Open, Insert,
          Duplicate, CloseDuplicate
  <1>1. CacheSound'
    BY DEF CacheSound, OwnerSound
  <1>2. OwnerSound'
    BY DEF OwnerSound, CacheSound
  <1>3. UseSound'
    BY DEF UseSound, CacheSound, OwnerSound
  <1>4. NoOrphan'
    BY DEF NoOrphan, OwnerSound, CacheSound
  <1>5. ShutdownSound'
    BY DEF ShutdownSound, InFlight
  <1>6. QED
    BY <1>1, <1>2, <1>3, <1>4, <1>5

\* Steps of the daemon's main goroutine and of other processes.
LEMMA ServerKeepsInv ==
  ASSUME IInv, TypeOK',
         \/ ListenFails \/ Signal \/ ShutdownStep
         \/ \E i \in Instances : Remove(i) \/ Connect(i)
  PROVE  IInv'
  <1> USE ServeAssumption DEF IInv, TypeOK, PCs, Running, handlerVars
  <1>1. CASE ListenFails \/ Signal
    BY <1>1 DEF ListenFails, Signal, CacheSound, OwnerSound, UseSound, NoOrphan,
                ShutdownSound, InFlight
  <1>2. CASE Drained \/ Timeout
    BY <1>2 DEF Drained, Timeout, CacheSound, OwnerSound, UseSound, NoOrphan,
                ShutdownSound, InFlight
  <1>3. ASSUME NEW i \in Instances, CloseCached(i) PROVE IInv'
    <2>1. InstanceOf[cache[i]] = i /\ cache[i] \in Requests
      BY <1>3 DEF CloseCached, CacheSound
    <2>2. CacheSound'
      BY <1>3, <2>1 DEF CloseCached, CacheSound
    <2>3. OwnerSound'
      BY <1>3, <2>1 DEF CloseCached, OwnerSound, CacheSound
    <2>4. UseSound' /\ NoOrphan' /\ ShutdownSound'
      BY <1>3, <2>1 DEF CloseCached, UseSound, NoOrphan, ShutdownSound, InFlight
    <2>5. QED
      BY <2>2, <2>3, <2>4
  <1>4. CASE CloseDone \/ Exit
    BY <1>4 DEF CloseDone, Exit, CacheSound, OwnerSound, UseSound, NoOrphan,
                ShutdownSound, InFlight
  <1>5. ASSUME NEW i \in Instances, Remove(i) \/ Connect(i) PROVE IInv'
    BY <1>5 DEF Remove, Connect, CacheSound, OwnerSound, UseSound, NoOrphan,
                ShutdownSound, InFlight
  <1>6. QED
    BY <1>1, <1>2, <1>3, <1>4, <1>5 DEF ShutdownStep

LEMMA InvStep == IInv /\ [Next]_vars => IInv'
  <1> SUFFICES ASSUME IInv, [Next]_vars PROVE IInv'
    OBVIOUS
  <1>1. TypeOK'
    BY TypeStep DEF IInv
  <1>2. CASE UNCHANGED vars
    BY <1>1, <1>2 DEF vars, handlerVars, IInv, CacheSound, OwnerSound, UseSound,
                      NoOrphan, ShutdownSound, InFlight
  <1>3. CASE Next
    BY <1>1, <1>3, QuietKeepsInv, SessionKeepsInv, ServerKeepsInv
       DEF Next, HandlerStep
  <1>4. QED
    BY <1>2, <1>3

\* The inductive invariant holds in every reachable state.
THEOREM Invariance == Spec => []IInv
  BY InvInit, InvStep, PTL DEF Spec

--------------------------------------------------------------------------------
(* What follows from it.                                                   *)

\* Two requests in flight work on the same session exactly when they are for the
\* same instance.
THEOREM SessionsAreShared == Spec => []SharedSession
  <1>1. IInv => SharedSession
    BY ServeAssumption DEF IInv, TypeOK, CacheSound, UseSound, SharedSession, InUse
  <1>2. QED
    BY <1>1, Invariance, PTL

\* A session is open as long as a request works on it, if Shutdown was patient.
THEOREM SessionsInUseAreOpen == Spec => []OpenWhileUsed
  <1>1. IInv => OpenWhileUsed
    BY ServeAssumption
       DEF IInv, TypeOK, CacheSound, UseSound, ShutdownSound, OpenWhileUsed, InUse, InFlight
  <1>2. QED
    BY <1>1, Invariance, PTL

\* No open session is lost in a race of two first requests.
THEOREM NoSessionIsOrphaned == Spec => []NoOrphan
  <1>1. IInv => NoOrphan
    BY DEF IInv
  <1>2. QED
    BY <1>1, Invariance, PTL

\* A daemon that could wait for its requests exits with every session closed.
THEOREM ExitIsClean == Spec => []CleanExit
  <1>1. IInv => CleanExit
    BY ServeAssumption DEF IInv, TypeOK, NoOrphan, ShutdownSound, CleanExit, InFlight
  <1>2. QED
    BY <1>1, Invariance, PTL

--------------------------------------------------------------------------------
(* The email session.  Its requests share one selected mailbox.            *)

Stages == {"new", "smtp", "client", "take", "dial", "select", "search", "fetch", "list", "append",
           "done", "failed"}

EmailShapes ==
    /\ imap \in Conns \cup {0} /\ dialled \in Nat /\ alive \subseteq Conns
    /\ selected \in [Conns -> Mailboxes]
    /\ action \in [Runs -> Actions] /\ folder \in [Runs -> Folders]
    /\ at \in [Runs -> Stages]
    /\ conn \in [Runs -> Conns \cup {0}]
    /\ found \in [Runs -> Mailboxes] /\ from \in [Runs -> Mailboxes]

\* Requests that select a mailbox and are in flight together name the same one.
Agree ==
    \A q, r \in Busy : action[q] \in Reading /\ action[r] \in Reading => folder[q] = folder[r]

\* The mailbox that a request has selected stays selected until it is done, or
\* none is.
Undisturbed ==
    \A r \in Runs :
        /\ at[r] \in {"select", "search", "fetch"} => action[r] \in Reading
        /\ at[r] \in {"search", "fetch"} /\ conn[r] \in Conns =>
               selected[conn[r]] \in {folder[r], "none"}
        /\ found[r] \in {"none", folder[r]} /\ from[r] \in {"none", folder[r]}

LEMMA FirstCommands ==
    ASSUME NEW r \in Runs, action[r] \in Actions
    PROVE  /\ FirstCommand(r) \in {"select", "list", "append", "smtp"}
           /\ FirstCommand(r) = "select" => action[r] \in Reading
  BY DEF FirstCommand, Actions

LEMMA ShapesInit == EmailAssumption /\ EmailInit => EmailShapes
  BY DEF EmailAssumption, EmailInit, EmailShapes, Mailboxes, Conns, Stages

LEMMA ShapesStep ==
    ASSUME EmailAssumption, EmailShapes, [EmailNext]_emailVars
    PROVE  EmailShapes'
  <1> USE DEF EmailShapes, Stages
  <1>1. ASSUME NEW r \in Runs, Step(r) PROVE EmailShapes'
    <2> USE <1>1
    <2>1. CASE Begin(r) \/ SendEmail(r) \/ NoClient(r) \/ DialFails(r) \/ ListFolders(r)
               \/ CommandFails(r)
      BY <2>1 DEF Begin, SendEmail, NoClient, DialFails, ListFolders, CommandFails, Goes, asked
    <2>2. FirstCommand(r) \in {"select", "list", "append", "smtp"}
      BY FirstCommands
    <2>3. CASE HaveClient(r) \/ TakeClient(r) \/ TakesNil(r)
      BY <2>2, <2>3 DEF HaveClient, TakeClient, TakesNil, Goes, asked
    <2>4. CASE Dial(r)
      <3>1. dialled' \in Conns /\ dialled' \in Nat
        BY <2>4 DEF EmailAssumption, Dial, Conns
      <3>2. QED
        BY <2>2, <2>4, <3>1 DEF Dial, Goes, asked
    <2>5. CASE Select(r) \/ SelectFails(r)
      BY <2>5 DEF Select, SelectFails, Goes, asked, Mailboxes
    <2>6. CASE Search(r) \/ Fetch(r)
      <3>1. Mailbox(r) \in Mailboxes
        BY <2>6 DEF Search, Fetch, Works, Mailbox
      <3>2. QED
        BY <2>6, <3>1 DEF Search, Fetch, Goes, asked
    <2>7. CASE SaveDraft(r)
      BY <2>7 DEF SaveDraft, Goes, asked, Mailboxes
    <2>8. QED
      BY <2>1, <2>3, <2>4, <2>5, <2>6, <2>7 DEF Step
  <1>2. ASSUME NEW c \in Conns, Drop(c) PROVE EmailShapes'
    BY <1>2 DEF Drop, asked
  <1>3. CASE Close
    BY <1>3 DEF Close, asked
  <1>4. CASE UNCHANGED emailVars
    BY <1>4 DEF emailVars, asked
  <1>5. QED
    BY <1>1, <1>2, <1>3, <1>4 DEF EmailNext

LEMMA UndisturbedInit == EmailInit => Undisturbed
  BY DEF EmailInit, Undisturbed

\* A request that selects a mailbox, and the ones that work on the mailbox they
\* have selected, agree on which that is.
LEMMA UndisturbedStep ==
    ASSUME EmailShapes, Undisturbed, Agree, [EmailNext]_emailVars
    PROVE  Undisturbed'
  <1> USE DEF EmailShapes
  <1>1. ASSUME NEW q \in Runs, Step(q) PROVE Undisturbed'
    <2>1. /\ UNCHANGED asked
          /\ \A r \in Runs \ {q} : /\ at'[r] = at[r] /\ conn'[r] = conn[r]
                                  /\ found'[r] = found[r] /\ from'[r] = from[r]
      BY <1>1 DEF Step, Begin, SendEmail, HaveClient, TakeClient, TakesNil, NoClient, Dial,
                  DialFails, Select, SelectFails, Search, Fetch, ListFolders, SaveDraft, CommandFails, Goes
    <2>2. CASE Select(q)
      <3>1. /\ at[q] = "select" /\ action[q] \in Reading /\ conn[q] \in Conns
            /\ selected' = [selected EXCEPT ![conn[q]] = folder[q]]
            /\ at'[q] \in {"search", "fetch", "done"} /\ conn' = conn /\ from' = from
            /\ found'[q] \in {found[q], folder[q]}
        BY <2>2 DEF Select, Works, Goes, Undisturbed
      <3>2. ASSUME NEW r \in Runs, at[r] \in {"search", "fetch"} PROVE folder[r] = folder[q]
        BY <3>1, <3>2 DEF Undisturbed, Agree, Busy
      <3>3. QED
        BY <2>1, <3>1, <3>2 DEF Undisturbed, asked
    <2>3. CASE SelectFails(q)
      BY <2>1, <2>3 DEF SelectFails, Works, Goes, Undisturbed, asked
    <2>4. CASE Search(q) \/ Fetch(q)
      <3>1. /\ Mailbox(q) = folder[q] /\ at[q] \in {"search", "fetch"}
            /\ UNCHANGED <<selected, conn>>
            /\ at'[q] \in {"fetch", "done"}
            /\ found'[q] \in {found[q], Mailbox(q)} /\ from'[q] \in {from[q], Mailbox(q)}
        BY <2>4 DEF Search, Fetch, Works, Mailbox, Goes, Undisturbed
      <3>2. QED
        BY <2>1, <3>1 DEF Undisturbed, asked
    <2>5. CASE TakeClient(q) \/ Dial(q)
      <3>1. /\ at'[q] \notin {"search", "fetch"}
            /\ at'[q] = "select" => action[q] \in Reading
            /\ UNCHANGED <<selected, found, from>>
        BY <2>5, FirstCommands DEF TakeClient, Dial, Goes
      <3>2. QED
        BY <2>1, <3>1 DEF Undisturbed, asked
    <2>6. CASE \/ Begin(q) \/ SendEmail(q) \/ HaveClient(q) \/ TakesNil(q) \/ NoClient(q)
               \/ DialFails(q) \/ ListFolders(q) \/ SaveDraft(q) \/ CommandFails(q)
      <3>1. /\ at'[q] \notin {"select", "search", "fetch"}
            /\ UNCHANGED <<selected, conn, from>> /\ found'[q] \in {found[q], folder[q]}
        BY <2>6 DEF Begin, SendEmail, HaveClient, TakesNil, NoClient, DialFails, ListFolders,
                    SaveDraft, CommandFails, Goes
      <3>2. QED
        BY <2>1, <3>1 DEF Undisturbed, asked
    <2>7. QED
      BY <1>1, <2>2, <2>3, <2>4, <2>5, <2>6 DEF Step
  <1>2. CASE Close \/ (\E c \in Conns : Drop(c)) \/ UNCHANGED emailVars
    BY <1>2 DEF Close, Drop, emailVars, asked, Undisturbed
  <1>3. QED
    BY <1>1, <1>2 DEF EmailNext

\* As long as the requests in flight that read name the same folder, each works
\* on the folder it names, whatever connections break, are dialled anew or are
\* closed under it.
THEOREM AgreeingIsRight ==
    ASSUME EmailAssumption
    PROVE  EmailSpec /\ []Agree => []RightFolder
  <1>1. EmailShapes /\ Undisturbed /\ Agree /\ [EmailNext]_emailVars
            => EmailShapes' /\ Undisturbed'
    BY EmailAssumption, ShapesStep, UndisturbedStep
  <1>2. Undisturbed => RightFolder
    BY DEF Undisturbed, RightFolder
  <1>3. EmailInit => EmailShapes /\ Undisturbed
    BY EmailAssumption, ShapesInit, UndisturbedInit
  <1>4. QED
    BY <1>1, <1>2, <1>3, PTL DEF EmailSpec

\* Where one request is begun at a time, only one is in flight.
LEMMA OneAtATime ==
    ASSUME EmailAssumption, MaxInFlight = 1
    PROVE  EmailSpec => [](\A q, r \in Busy : q = r)
  <1> DEFINE Alone == \A q, r \in Busy : q = r
  <1>1. EmailInit => Alone
    BY DEF EmailInit, Busy
  <1>2. EmailShapes /\ Alone /\ [EmailNext]_emailVars => Alone'
    <2> SUFFICES ASSUME EmailShapes, Alone, [EmailNext]_emailVars PROVE Alone'
      OBVIOUS
    <2>1. ASSUME NEW r \in Runs, Begin(r) PROVE Alone'
      <3>1. IsFiniteSet(Busy)
        BY EmailAssumption, FS_Subset DEF Busy, EmailAssumption
      <3>2. Cardinality(Busy) = 0
        BY <2>1, <3>1, FS_CardinalityType DEF Begin
      <3>3. Busy = {}
        BY <3>1, <3>2, FS_EmptySet
      <3>4. Busy' \subseteq {r}
        BY <2>1, <3>3 DEF Begin, Busy, EmailShapes
      <3>5. QED
        BY <3>4
    <2>2. ASSUME NEW r \in Runs, Step(r), ~Begin(r) PROVE Alone'
      <3>1. r \in Busy /\ \A q \in Runs \ {r} : at'[q] = at[q]
        BY <2>2 DEF Step, SendEmail, HaveClient, TakeClient, TakesNil, NoClient, Dial, DialFails,
                    Select, SelectFails, Search, Fetch, ListFolders, SaveDraft, CommandFails, Goes, Busy, EmailShapes
      <3>2. Busy' \subseteq Busy
        BY <3>1 DEF Busy
      <3>3. QED
        BY <3>2
    <2>3. CASE Close \/ (\E c \in Conns : Drop(c)) \/ UNCHANGED emailVars
      BY <2>3 DEF Close, Drop, emailVars, Busy
    <2>4. QED
      BY <2>1, <2>2, <2>3 DEF EmailNext
  <1>3. EmailInit => EmailShapes
    BY EmailAssumption, ShapesInit
  <1>4. EmailShapes /\ [EmailNext]_emailVars => EmailShapes'
    BY EmailAssumption, ShapesStep
  <1>5. QED
    BY <1>1, <1>2, <1>3, <1>4, PTL DEF EmailSpec

\* One request at a time works on the folder it names: RightFolder, which two
\* requests at a time violate.
THEOREM AloneIsRight ==
    ASSUME EmailAssumption, MaxInFlight = 1
    PROVE  EmailSpec => []RightFolder
  <1>1. (\A q, r \in Busy : q = r) => Agree
    BY DEF Agree
  <1>2. QED
    BY <1>1, EmailAssumption, MaxInFlight = 1, OneAtATime, AgreeingIsRight, PTL
================================================================================
