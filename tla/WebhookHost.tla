------------------------------ MODULE WebhookHost ------------------------------
(***************************************************************************)
(* pgf webhooks (cmd/pgf/webhooks.go): resolves its arguments to mounts,   *)
(* opens their sessions, enables each trigger upstream, serves requests    *)
(* until a signal, waits a while for those in flight and undoes what it    *)
(* has done in reverse order.  Requests run Handle of the webhook          *)
(* connector (connectors/webhook/incoming.go): checks, one event on        *)
(* standard output, a response.                                            *)
(*                                                                         *)
(* External: the upstream services, which know a trigger as registered or  *)
(* not, and senders, which repeat a delivery whose answer was no success.  *)
(***************************************************************************)
EXTENDS Naturals, Sequences, FiniteSets, SequencesExt

CONSTANTS MountLists,  \* what resolveMounts can return: sequences of mounts,
                       \* each with its session and its path
          Deliveries,  \* what senders have to deliver, each to one mount
          MaxTries     \* bound: requests a sender makes for a delivery

\* resolveMounts opens one session for each argument and pairs it with every
\* webhook trigger of the connector; no connector has two of them.
Unshared(ms) == \A i, j \in DOMAIN ms : ms[i].session = ms[j].session => i = j

ASSUME ConstAssumption == /\ MaxTries \in Nat
                          /\ \A ms \in MountLists : /\ ms \in Seq(Range(ms)) /\ ms # <<>>
                                                    /\ Unshared(ms)

VARIABLES mounts,      \* the mounts of this run
          noRegister,  \* the flag --no-register
          pc,          \* where cmdWebhooks is; "dead" after os.Exit, a signal
                       \* it does not handle yet, or a crash
          k,           \* the mount to enable next
          open,        \* [DOMAIN mounts -> BOOLEAN], by mount as none share
          upstream,    \* mounts registered with their service
          teardown,    \* stack of what is left to undo
          timedOut,    \* Shutdown gave up on requests in flight
          broken,      \* the JSON encoder has failed to write once
          to,          \* [Deliveries -> DOMAIN mounts]
          genuine,     \* deliveries that pass method, secret and signature
          req          \* [Deliveries -> where its current request is]

\* History.
VARIABLES tries,       \* [Deliveries -> requests made]
          failed,      \* [Deliveries -> requests that ended without success]
          acked,       \* deliveries whose sender was told they arrived
          emitted,     \* [Deliveries -> events written for it]
          refusals     \* mounts whose OnDisable the service refused

hostVars == <<mounts, noRegister, pc, k, open, upstream, teardown, timedOut, refusals>>
reqVars  == <<broken, to, genuine, req, tries, failed, acked, emitted>>
vars == <<hostVars, reqVars>>

Init ==
    /\ mounts \in MountLists /\ noRegister \in BOOLEAN
    /\ pc = "resolve" /\ k = 1
    /\ open = [i \in DOMAIN mounts |-> FALSE]
    /\ upstream = {} /\ teardown = <<>> /\ timedOut = FALSE /\ refusals = {}
    /\ broken = FALSE
    /\ to \in [Deliveries -> DOMAIN mounts] /\ genuine \in SUBSET Deliveries
    /\ req = [d \in Deliveries |-> "idle"]
    /\ tries = [d \in Deliveries |-> 0] /\ failed = [d \in Deliveries |-> 0]
    /\ acked = {} /\ emitted = [d \in Deliveries |-> 0]

Active == {d \in Deliveries : req[d] # "idle"}

\* The end of the process ends every request in flight.
Abandon == /\ req' = [d \in Deliveries |-> "idle"]
           /\ failed' = [d \in Deliveries |-> IF d \in Active THEN failed[d] + 1 ELSE failed[d]]
           /\ UNCHANGED <<broken, to, genuine, tries, acked, emitted>>

(***************************************************************************)
(* The host.                                                               *)
(***************************************************************************)
Resolve == /\ pc = "resolve"
           /\ pc' = "enable"
           /\ open' = [i \in DOMAIN mounts |-> TRUE]
           /\ UNCHANGED <<mounts, noRegister, k, upstream, teardown, timedOut, refusals, reqVars>>

\* ServeMux panics on a path it has already; deferred calls still run.
Taken == \E i \in 1..(k - 1) : mounts[i].path = mounts[k].path

PathTaken == /\ pc = "enable" /\ k <= Len(mounts) /\ Taken
             /\ pc' = "teardown"
             /\ UNCHANGED <<mounts, noRegister, k, open, upstream, teardown, timedOut, refusals, reqVars>>

Closing(i) == [do |-> "close", mount |-> i]
Disabling(i) == [do |-> "disable", mount |-> i]

\* Mutant: the undoing of a mount is put off until all are enabled.
MountUnrecorded ==
    /\ pc = "enable" /\ k <= Len(mounts) /\ ~Taken
    /\ upstream' = IF noRegister THEN upstream ELSE upstream \cup {k}
    /\ teardown' = IF k < Len(mounts) \/ noRegister THEN Append(teardown, Closing(k))
                   ELSE Append(teardown, Closing(k)) \o <<Disabling(k)>>
    /\ k' = k + 1
    /\ UNCHANGED <<mounts, noRegister, pc, open, timedOut, refusals, reqVars>>
Mount == /\ pc = "enable" /\ k <= Len(mounts) /\ ~Taken
         /\ upstream' = IF noRegister THEN upstream ELSE upstream \cup {k}
         /\ teardown' = Append(teardown, Closing(k))
                          \o (IF noRegister THEN <<>> ELSE <<Disabling(k)>>)
         /\ k' = k + 1
         /\ UNCHANGED <<mounts, noRegister, pc, open, timedOut, refusals, reqVars>>

\* fail() is os.Exit, which runs nothing that was deferred.  OnEnable may have
\* failed before or after the service registered the trigger.
EnableFails == /\ pc = "enable" /\ k <= Len(mounts) /\ ~Taken /\ ~noRegister
               /\ upstream' \in {upstream, upstream \cup {k}}
               /\ pc' = "dead"
               /\ UNCHANGED <<mounts, noRegister, k, open, teardown, timedOut, refusals, reqVars>>

\* Signals are handled and the listener is started.
Listen == /\ pc = "enable" /\ k > Len(mounts)
          /\ pc' = "serve"
          /\ UNCHANGED <<mounts, noRegister, k, open, upstream, teardown, timedOut, refusals, reqVars>>

\* A session that cannot be opened, an address in use, a signal before Listen,
\* a crash.
Die == /\ pc \notin {"exit", "dead"}
       /\ pc' = "dead"
       /\ Abandon
       /\ UNCHANGED <<mounts, noRegister, k, open, upstream, teardown, timedOut, refusals>>

Signal == /\ pc = "serve"
          /\ pc' = "shutdown"
          /\ UNCHANGED <<mounts, noRegister, k, open, upstream, teardown, timedOut, refusals, reqVars>>

\* Mutant: Shutdown is not waited for.
DrainedAtOnce == /\ pc = "shutdown"
                 /\ pc' = "teardown"
                 /\ UNCHANGED <<mounts, noRegister, k, open, upstream, teardown, timedOut, refusals, reqVars>>
Drained == /\ pc = "shutdown" /\ Active = {}
           /\ pc' = "teardown"
           /\ UNCHANGED <<mounts, noRegister, k, open, upstream, teardown, timedOut, refusals, reqVars>>

\* Mutant: Shutdown without a deadline.
NeverTimesOut == FALSE /\ UNCHANGED vars
\* Five seconds are over and requests are still in flight; they go on.
Timeout == /\ pc = "shutdown" /\ Active # {}
           /\ pc' = "teardown" /\ timedOut' = TRUE
           /\ UNCHANGED <<mounts, noRegister, k, open, upstream, teardown, refusals, reqVars>>

\* What is undone next.
Top == teardown[Len(teardown)]

Close == /\ pc = "teardown" /\ teardown # <<>> /\ Top.do = "close"
         /\ open' = [open EXCEPT ![Top.mount] = FALSE]
         /\ teardown' = Front(teardown)
         /\ UNCHANGED <<mounts, noRegister, pc, k, upstream, timedOut, refusals, reqVars>>

\* OnDisable needs the session; its error is printed and no more.
Disable == /\ pc = "teardown" /\ teardown # <<>> /\ Top.do = "disable"
           /\ \/ open[Top.mount] /\ upstream' = upstream \ {Top.mount} /\ UNCHANGED refusals
              \/ open[Top.mount] /\ refusals' = refusals \cup {Top.mount} /\ UNCHANGED upstream
              \/ ~open[Top.mount] /\ UNCHANGED <<upstream, refusals>>
           /\ teardown' = Front(teardown)
           /\ UNCHANGED <<mounts, noRegister, pc, k, open, timedOut, reqVars>>

Exit == /\ pc = "teardown" /\ teardown = <<>>
        /\ pc' = "exit"
        /\ Abandon
        /\ UNCHANGED <<mounts, noRegister, k, open, upstream, teardown, timedOut, refusals>>

(***************************************************************************)
(* Requests.                                                               *)
(***************************************************************************)
\* A connection accepted before the signal may bring its request after it, as
\* long as Shutdown has not seen it idle.
Request(d) == /\ pc \in {"serve", "shutdown"} \/ (pc = "teardown" /\ timedOut)
              /\ req[d] = "idle" /\ d \notin acked /\ tries[d] < MaxTries
              /\ req' = [req EXCEPT ![d] = "check"]
              /\ tries' = [tries EXCEPT ![d] = @ + 1]
              /\ UNCHANGED <<hostVars, broken, to, genuine, failed, acked, emitted>>

\* The sender sees the answer, or the loss of it, to its request.
Ends(d, success) ==
    /\ req' = [req EXCEPT ![d] = "idle"]
    /\ acked' = IF success THEN acked \cup {d} ELSE acked
    /\ failed' = IF success THEN failed ELSE [failed EXCEPT ![d] = @ + 1]

Pass(d) == /\ req[d] = "check" /\ d \in genuine
           /\ req' = [req EXCEPT ![d] = "emit"]
           /\ UNCHANGED <<hostVars, broken, to, genuine, tries, failed, acked, emitted>>

\* 405, 401, or 400 when the body cannot be read.
Reject(d) == /\ req[d] = "check"
             /\ Ends(d, FALSE)
             /\ UNCHANGED <<hostVars, broken, to, genuine, tries, emitted>>

\* Mutant: the error of emit is dropped.
EmitUnchecked(d) == /\ req[d] = "emit"
                    /\ \/ ~broken /\ emitted' = [emitted EXCEPT ![d] = @ + 1] /\ UNCHANGED broken
                       \/ broken' = TRUE /\ UNCHANGED emitted
                    /\ req' = [req EXCEPT ![d] = "respond"]
                    /\ UNCHANGED <<hostVars, to, genuine, tries, failed, acked>>
Emit(d) == /\ req[d] = "emit" /\ ~broken
           /\ emitted' = [emitted EXCEPT ![d] = @ + 1]
           /\ req' = [req EXCEPT ![d] = "respond"]
           /\ UNCHANGED <<hostVars, broken, to, genuine, tries, failed, acked>>

\* The encoder keeps its first error and returns it ever after: 500.
EmitFails(d) == /\ req[d] = "emit"
                /\ broken' = TRUE
                /\ Ends(d, FALSE)
                /\ UNCHANGED <<hostVars, to, genuine, tries, emitted>>

\* The configured response; or 500 when response_file cannot be read, no
\* answer when response_status is no status, or an answer that gets lost.
Respond(d) == /\ req[d] = "respond"
              /\ \E success \in BOOLEAN : Ends(d, success)
              /\ UNCHANGED <<hostVars, broken, to, genuine, tries, emitted>>

HostStep == \/ Resolve \/ PathTaken \/ Mount \/ Listen
            \/ Drained \/ Timeout \/ Close \/ Disable \/ Exit

HandlerStep(d) == Pass(d) \/ Reject(d) \/ Emit(d) \/ EmitFails(d) \/ Respond(d)

Next == \/ HostStep \/ EnableFails \/ Signal \/ Die
        \/ \E d \in Deliveries : Request(d) \/ HandlerStep(d)

Spec == Init /\ [][Next]_vars

\* cmdWebhooks goes on, and five seconds end.  Nothing is assumed of handlers,
\* which may wait for a slow sender for ever.
FairSpec == Spec /\ WF_vars(HostStep)

(***************************************************************************)
(* Properties.                                                             *)
(***************************************************************************)
\* The state has the shape the comments above give it, and only a host that
\* serves, or is about to leave, has requests.
TypeOK ==
    /\ pc \in {"resolve", "enable", "serve", "shutdown", "teardown", "exit", "dead"}
    /\ k \in 1..(Len(mounts) + 1)
    /\ open \in [DOMAIN mounts -> BOOLEAN]
    /\ upstream \cup refusals \subseteq DOMAIN mounts
    /\ teardown \in Seq({Closing(i) : i \in DOMAIN mounts} \cup {Disabling(i) : i \in DOMAIN mounts})
    /\ timedOut \in BOOLEAN /\ broken \in BOOLEAN
    /\ req \in [Deliveries -> {"idle", "check", "emit", "respond"}]
    /\ Active # {} => pc \in {"serve", "shutdown"} \/ (pc = "teardown" /\ timedOut)
    /\ \A d \in Deliveries :
          tries[d] = failed[d] + (IF req[d] # "idle" \/ d \in acked THEN 1 ELSE 0)

\* Senders are told the truth: a delivery that was acknowledged has its event,
\* one that no check lets pass has none, and an event comes a second time only
\* if the sender was not told of the first.
AcksMatchEmits ==
    \A d \in Deliveries :
        /\ d \in acked => emitted[d] > 0
        /\ emitted[d] > 0 => d \in genuine
        /\ emitted[d] <= failed[d] + (IF d \in acked \/ req[d] = "respond" THEN 1 ELSE 0)

\* A host that comes to its end, by a signal or by a path mounted twice, leaves
\* nothing registered but what the service refused to give up, and no session
\* of a mount open.
LeavesNothing ==
    pc = "exit" => /\ upstream \subseteq refusals
                   /\ \A i \in 1..(k - 1) : ~open[i]

\* No request is handled on a session that is closed, unless it has outlived
\* the time that Shutdown waits.
OpenWhileHandled == \A d \in Active : open[to[d]] \/ timedOut

\* A signal ends the host in bounded time, whatever its requests do.
SignalEnds == pc = "shutdown" ~> pc \in {"exit", "dead"}
================================================================================
