------------------------------- MODULE ServeDaemon -------------------------------
(***************************************************************************)
(* cmd/pgf/serve.go: the HTTP daemon that runs actions for its callers and *)
(* caches one open session per instance.  Each request is a goroutine; the *)
(* cache is guarded by a mutex that is not held while a session is opened. *)
(* On a signal Shutdown waits for requests in flight, up to a timeout, and *)
(* closeAll then closes the cached sessions.  Credentials are added and    *)
(* removed by other pgf processes.                                         *)
(***************************************************************************)
EXTENDS FiniteSets

CONSTANTS Requests,    \* POST /v1/run requests, each served once
          Instances,
          InstanceOf,  \* [Requests -> Instances]
          None         \* no session

ASSUME ServeAssumption ==
    /\ InstanceOf \in [Requests -> Instances]
    /\ None \notin Requests

\* A session is named after the request that opened it.
VARIABLES server,    \* "serving", "draining", "closing", "closed", "exited", "failed"
          stored,    \* instances whose credential is in the credential store
          mu,        \* whether the cache's mutex is held across steps
          cache,     \* [Instances -> the cached session, or None]
          session,   \* [Requests -> state of the session it opened]
          pc,        \* [Requests -> where its handler is]
          uses,      \* [Requests -> the session its action gets, or None]
          timedOut   \* history: Shutdown gave up waiting

handlerVars == <<session, pc, uses>>
vars == <<server, stored, mu, cache, handlerVars, timedOut>>

PCs == {"new", "lookup", "load", "open", "insert", "closeDup", "action", "run", "replied"}

TypeOK ==
    /\ server \in {"serving", "draining", "closing", "closed", "exited", "failed"}
    /\ stored \subseteq Instances
    /\ mu \in BOOLEAN
    /\ cache \in [Instances -> Requests \cup {None}]
    /\ session \in [Requests -> {"none", "open", "closed"}]
    /\ pc \in [Requests -> PCs]
    /\ uses \in [Requests -> Requests \cup {None}]
    /\ \A r \in Requests : pc[r] \in {"closeDup", "action", "run"} => uses[r] # None
    /\ timedOut \in BOOLEAN

Init ==
    /\ server = "serving"
    /\ stored = Instances
    /\ mu = FALSE
    /\ cache = [i \in Instances |-> None]
    /\ session = [r \in Requests |-> "none"]
    /\ pc = [r \in Requests |-> "new"]
    /\ uses = [r \in Requests |-> None]
    /\ timedOut = FALSE

Running == server \notin {"exited", "failed"}

Goto(r, from, to) ==
    /\ Running
    /\ pc[r] = from
    /\ pc' = [pc EXCEPT ![r] = to]

InFlight == {r \in Requests : pc[r] \notin {"new", "replied"}}

--------------------------------------------------------------------------------
(* handleRun and sessionFor.                                               *)

\* The server hands the request to a handler, which reads and parses the body; a
\* bad body is answered at once.  A connection made before the signal may still
\* bring its request while Shutdown waits, or after it gave up waiting.
Accept(r) ==
    /\ server \in {"serving", "draining"} \/ timedOut
    /\ \/ Goto(r, "new", "lookup")
       \/ Goto(r, "new", "replied")
    /\ UNCHANGED <<server, stored, mu, cache, session, uses, timedOut>>

\* Variant of Hit: returns without unlocking.
HitKeepsLock(r) ==
    /\ ~mu
    /\ cache[InstanceOf[r]] # None
    /\ Goto(r, "lookup", "action")
    /\ uses' = [uses EXCEPT ![r] = cache[InstanceOf[r]]]
    /\ mu' = TRUE
    /\ UNCHANGED <<server, stored, cache, session, timedOut>>

Hit(r) ==
    /\ ~mu
    /\ cache[InstanceOf[r]] # None
    /\ Goto(r, "lookup", "action")
    /\ uses' = [uses EXCEPT ![r] = cache[InstanceOf[r]]]
    /\ UNCHANGED <<server, stored, mu, cache, session, timedOut>>

Miss(r) ==
    /\ ~mu
    /\ cache[InstanceOf[r]] = None
    /\ Goto(r, "lookup", "load")
    /\ UNCHANGED <<server, stored, mu, cache, session, uses, timedOut>>

\* The credential is read and opened; it may be missing, or sealed with another key.
Load(r) ==
    /\ \/ InstanceOf[r] \in stored /\ Goto(r, "load", "open")
       \/ Goto(r, "load", "replied")
    /\ UNCHANGED <<server, stored, mu, cache, session, uses, timedOut>>

Open(r) ==
    /\ Goto(r, "open", "insert")
    /\ session' = [session EXCEPT ![r] = "open"]
    /\ UNCHANGED <<server, stored, mu, cache, uses, timedOut>>

OpenFails(r) ==
    /\ Goto(r, "open", "replied")
    /\ UNCHANGED <<server, stored, mu, cache, session, uses, timedOut>>

\* Variant of Insert: no second look at the cache.
InsertAnyway(r) ==
    /\ ~mu
    /\ Goto(r, "insert", "action")
    /\ cache' = [cache EXCEPT ![InstanceOf[r]] = r]
    /\ uses' = [uses EXCEPT ![r] = r]
    /\ UNCHANGED <<server, stored, mu, session, timedOut>>

Insert(r) ==
    /\ ~mu
    /\ cache[InstanceOf[r]] = None
    /\ Goto(r, "insert", "action")
    /\ cache' = [cache EXCEPT ![InstanceOf[r]] = r]
    /\ uses' = [uses EXCEPT ![r] = r]
    /\ UNCHANGED <<server, stored, mu, session, timedOut>>

\* Another request cached a session first: this one uses that and closes its own.
Duplicate(r) ==
    /\ ~mu
    /\ cache[InstanceOf[r]] # None
    /\ Goto(r, "insert", "closeDup")
    /\ uses' = [uses EXCEPT ![r] = cache[InstanceOf[r]]]
    /\ UNCHANGED <<server, stored, mu, cache, session, timedOut>>

\* Variants of CloseDuplicate: the wrong one is closed; none is.
CloseExisting(r) ==
    /\ Goto(r, "closeDup", "action")
    /\ session' = [session EXCEPT ![uses[r]] = "closed"]
    /\ UNCHANGED <<server, stored, mu, cache, uses, timedOut>>
CloseNeither(r) ==
    /\ Goto(r, "closeDup", "action")
    /\ UNCHANGED <<server, stored, mu, cache, session, uses, timedOut>>

CloseDuplicate(r) ==
    /\ Goto(r, "closeDup", "action")
    /\ session' = [session EXCEPT ![r] = "closed"]
    /\ UNCHANGED <<server, stored, mu, cache, uses, timedOut>>

\* Unknown action, or a path outside the whitelist.
Refuse(r) ==
    /\ Goto(r, "action", "replied")
    /\ uses' = [uses EXCEPT ![r] = None]
    /\ UNCHANGED <<server, stored, mu, cache, session, timedOut>>

Run(r) ==
    /\ Goto(r, "action", "run")
    /\ UNCHANGED <<server, stored, mu, cache, session, uses, timedOut>>

Finish(r) ==
    /\ Goto(r, "run", "replied")
    /\ uses' = [uses EXCEPT ![r] = None]
    /\ UNCHANGED <<server, stored, mu, cache, session, timedOut>>

--------------------------------------------------------------------------------
(* cmdServe: shutdown.                                                     *)

\* The listener breaks: the process exits at once.
ListenFails ==
    /\ server = "serving"
    /\ server' = "failed"
    /\ UNCHANGED <<stored, mu, cache, handlerVars, timedOut>>

\* SIGINT or SIGTERM: Shutdown accepts no new connections.
Signal ==
    /\ server = "serving"
    /\ server' = "draining"
    /\ UNCHANGED <<stored, mu, cache, handlerVars, timedOut>>

\* Shutdown returns, and closeAll takes the mutex.
Drained ==
    /\ server = "draining"
    /\ InFlight = {}
    /\ ~mu
    /\ server' = "closing"
    /\ mu' = TRUE
    /\ UNCHANGED <<stored, cache, handlerVars, timedOut>>

\* Variant of Timeout: Shutdown with a context that never ends.
NoTimeout == FALSE /\ UNCHANGED vars

Timeout ==
    /\ server = "draining"
    /\ InFlight # {}
    /\ ~mu
    /\ server' = "closing"
    /\ mu' = TRUE
    /\ timedOut' = TRUE
    /\ UNCHANGED <<stored, cache, handlerVars>>

\* One round of closeAll's loop.
CloseCached(i) ==
    /\ server = "closing"
    /\ cache[i] # None
    /\ session' = [session EXCEPT ![cache[i]] = "closed"]
    /\ cache' = [cache EXCEPT ![i] = None]
    /\ UNCHANGED <<server, stored, mu, pc, uses, timedOut>>

CloseDone ==
    /\ server = "closing"
    /\ \A i \in Instances : cache[i] = None
    /\ server' = "closed"
    /\ mu' = FALSE
    /\ UNCHANGED <<stored, cache, handlerVars, timedOut>>

Exit ==
    /\ server = "closed"
    /\ server' = "exited"
    /\ UNCHANGED <<stored, mu, cache, handlerVars, timedOut>>

\* pgf rm and pgf connect in another process.
Remove(i) ==
    /\ Running
    /\ i \in stored
    /\ stored' = stored \ {i}
    /\ UNCHANGED <<server, mu, cache, handlerVars, timedOut>>

Connect(i) ==
    /\ Running
    /\ stored' = stored \cup {i}
    /\ UNCHANGED <<server, mu, cache, handlerVars, timedOut>>

--------------------------------------------------------------------------------

\* What a handler does of its own accord; Run lasts as long as the action takes.
HandlerStep(r) ==
    \/ Hit(r) \/ Miss(r) \/ Load(r) \/ Open(r) \/ OpenFails(r)
    \/ Insert(r) \/ Duplicate(r) \/ CloseDuplicate(r)
    \/ Refuse(r) \/ Run(r)

ShutdownStep ==
    \/ Drained \/ Timeout
    \/ \E i \in Instances : CloseCached(i)
    \/ CloseDone \/ Exit

Next ==
    \/ \E r \in Requests : Accept(r) \/ HandlerStep(r) \/ Finish(r)
    \/ ListenFails \/ Signal \/ ShutdownStep
    \/ \E i \in Instances : Remove(i) \/ Connect(i)

Spec == Init /\ [][Next]_vars

\* Goroutines are scheduled and the shutdown timer runs.  Nothing is assumed of
\* Finish: an action may wait on a remote service for ever.
FairSpec ==
    /\ Spec
    /\ \A r \in Requests : WF_vars(HandlerStep(r))
    /\ WF_vars(ShutdownStep)

--------------------------------------------------------------------------------
(* Properties.                                                             *)

InUse(r) == pc[r] \in {"action", "run"}

\* "Sessions are reused across calls" (sessionFor): until closeAll runs, requests
\* for one instance never work on two sessions, even when both found the cache
\* empty, and never on a session of another instance.
SharedSession ==
    server \in {"serving", "draining"} =>
        \A r, q \in Requests : InUse(r) /\ InUse(q) =>
            (uses[r] = uses[q] <=> InstanceOf[r] = InstanceOf[q])

\* No action works on a closed session, neither one closed as a duplicate nor one
\* closed by closeAll, unless Shutdown gave up waiting for it.
OpenWhileUsed ==
    \A r \in Requests : InUse(r) /\ ~timedOut => session[uses[r]] = "open"

\* Every open session is in the cache or about to be inserted or closed by the
\* request that opened it: none is lost in a race of two first requests.
NoOrphan ==
    \A r \in Requests : session[r] = "open" =>
        cache[InstanceOf[r]] = r \/ pc[r] \in {"insert", "closeDup"}

\* closeAll "closes every cached session ... so connections release cleanly": a
\* daemon that could wait for its requests leaves no session open.
CleanExit ==
    server = "exited" /\ ~timedOut => \A r \in Requests : session[r] # "open"

\* "Max wait for in-flight requests": a signal ends the daemon even when an action
\* never returns.
ShutdownEnds == server = "draining" ~> server = "exited"

\* No request is stuck on the mutex: each gets to its action or is answered, or
\* the daemon stops.
Progresses ==
    \A r \in Requests : pc[r] = "lookup" ~> pc[r] \in {"run", "replied"} \/ ~Running

--------------------------------------------------------------------------------
(* None of the safety properties is inductive: a session in use is the      *)
(* cached one as long as closeAll has not begun, a cached one is open, and  *)
(* a session still owned by its opener is not in the cache.                 *)

CacheSound ==
    \A i \in Instances : cache[i] # None =>
        InstanceOf[cache[i]] = i /\ session[cache[i]] = "open"

OwnerSound ==
    \A r \in Requests :
        /\ pc[r] \in {"new", "lookup", "load", "open"} => session[r] = "none"
        /\ pc[r] \in {"insert", "closeDup"} =>
               session[r] = "open" /\ cache[InstanceOf[r]] # r

UseSound ==
    server \in {"serving", "draining", "failed"} =>
        \A r \in Requests : pc[r] \in {"closeDup", "action", "run"} =>
            uses[r] = cache[InstanceOf[r]]

ShutdownSound ==
    /\ timedOut => server \in {"closing", "closed", "exited"}
    /\ server \in {"closing", "closed", "exited"} /\ ~timedOut => InFlight = {}
    /\ server \in {"closed", "exited"} /\ ~timedOut =>
           \A i \in Instances : cache[i] = None

IInv == TypeOK /\ CacheSound /\ OwnerSound /\ UseSound /\ NoOrphan /\ ShutdownSound
================================================================================
