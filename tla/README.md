# Formal models of pantograf

pantograf is a Go framework of connectors: a command line (`pgf`) and a daemon
run *actions* and *triggers* of connectors (telegram, rss, email, matrix, ...)
against credentials that are sealed at rest and a small per-instance state store.
This directory holds TLA+ models of the parts of the program whose correctness
depends on the order of steps, TLC configurations that check them on small
instances, and proofs, checked by TLAPS, of the properties that matter most for
every instance.

Contents: 1 inventory of the system, 2 modules and plan, 3 how each module
corresponds to the code, 4 runs, bounds and fairness, 5 disagreements between
code and documentation, 6 proofs, 7 what is not modelled.

Paths below are relative to the repository's root (`src/`); `PROJECT.json` maps
every definition to its lines.

## 1. Inventory

### Components, their state and their operations

| Component (source) | State | Operations | Interacts with | What is hard |
|---|---|---|---|---|
| telegram messages trigger (`connectors/telegram/updates.go`) | local offset, current batch; saved offset in the state store | `Subscribe` (start modes, long poll, emit, save), `get-updates` | Bot API (HTTP), state store, sink | crash between emit and save, lost replies, confirming by offset, a second consumer |
| rss watermark (`connectors/rss`) | saved watermark; the trigger's `includeBacklog` | new-items `Subscribe`, `list-new`, `mark-seen`, `reset` | feed (HTTP), state store, sink | read-modify-write without a lock, a feed that rolls, ignored errors |
| instance state store (`state`, `state/fsstore`) | a value file, a temporary file and a sidecar per key; one mutex per store object | `Get`, `Put`, `Delete`, `Keys`; `Manager.For` | file system; every connector with state | several objects on one directory, crash between file operations, unlocked readers |
| serve daemon (`cmd/pgf/serve.go`) | session cache, mutex, server | `POST /v1/run`, `sessionFor`, shutdown, `closeAll` | credential storage, vault, connectors | two first requests, shutdown with requests in flight |
| webhooks host (`cmd/pgf/webhooks.go`), incoming webhook (`connectors/webhook`) | mounted triggers, sessions, listener | `OnEnable`, `Handle`, `OnDisable`, teardown | connectors, HTTP senders, sink | failure on the way up, teardown order, answer lost after emit |
| email session (`connectors/email`, `transport/imap`, `transport/smtp`) | lazily dialled IMAP client, its selected mailbox | send, read, search, flag, move | IMAP and SMTP servers | one session shared by the daemon's requests, dropped connections |
| matrix sync trigger (`connectors/matrix/trigger.go`) | `since` token, saved `next_batch` | `Subscribe` (seed, loop, save) | homeserver, state store, sink | as telegram, plus limited timelines |
| master key and sealing (`secrets`) | key from the environment or a key file | `Load`, create, `Seal`, `Open` | credential values | first run by two processes, crash while creating |
| credential storage (`storage/yamlstore`) | one YAML file per instance | `Put`, `Get`, `Delete`, `List` | file system | delete and prune beside put, crash during put |
| command line (`cmd/pgf/main.go`, `paths.go`, `wizard.go`) | none of its own | connect, instances, rm, run, watch; parameter parsing, path whitelist | all of the above | steps of a connect that fail half way; rm and connect beside a running daemon |
| connector contract (`connector`) | registry | `Register`, values, schema visibility, trigger and sink contract | all connectors | conversions at their edges |
| http transport (`transport/http`) | client settings | JSON requests, multipart upload, `Backoff`, `RetryOn` | REST connectors | repeating a request the service may have done; pipe between writer and request |
| file connector (`connectors/file`) | files under a root, or S3 objects | get, put, delete, list, search | file system, S3 | partial writes of downloads |
| web and jina connectors (`connectors/web`, `connectors/jina`) | response cache | fetch, search, render | HTTP, browser | cache expiry |
| lexoffice, paperless | remote documents | contacts, vouchers, uploads | REST APIs | create, then attach, with a failure in between; uploads that are queued |
| the other REST connectors (telegram and matrix actions, synapse, llm, whisper, youtrack, bunny, infisical) | none here, except a token that an infisical session caches | one call: checks, lookups, a request, follow-ups, a local file | REST APIs | which fields an update sends, what a lost answer means, what follows after the effect |

### What makes each component correct

* A polling trigger is an at-least-once source: an item leaves the source, or
  falls behind the saved position, only after the consumer has seen it or asked
  to skip it. Within a run nothing is emitted twice or out of order; after a
  crash the repetition is bounded; and as long as polls get through, everything
  arrives.
* The state store behaves like an atomic map whatever calls overlap, a reader
  never sees half a value, and a crash leaves nothing that reaches a later value.
* The daemon opens one session per instance, never runs an action on a closed
  one, loses none, and shuts down in bounded time.
* All processes hold one master key, what is stored opens with it, and a connect
  either happened or did not.
* A webhook's sender is told that a delivery arrived only if its event was
  emitted, and a host that ends has disabled what it enabled.
* An action that is reported as done has done what it was asked, once, and
  nothing else; one that is reported as failed has done nothing, unless nobody
  can know.
* An email request works on the folder it names.

### How the components interact

`pgf watch` opens a session with `stateMgr.For(instance)` and runs one trigger's
`Subscribe` with a sink that prints; `pgf serve` keeps sessions open and runs
actions for many callers at once; `pgf run` opens, runs and closes. A trigger in
one process and actions in another meet only in the instance's state directory
and at the remote service. That is where most hazards are: the mutex of
`fsstore` and that of the session cache do not reach across processes, and
connectors read, compute and write their state in separate calls. The complete
list of hazards, each at its line, is in `PROJECT.json`.

## 2. Modules and plan

| Module | Role |
|---|---|
| `AtLeastOnce` | abstract specification of a polling source and its consumer |
| `TelegramTrigger`, `MCTelegramTrigger` | the telegram trigger, its server and `get-updates`; implements `AtLeastOnce` |
| `MatrixSync` | the matrix trigger and its homeserver; implements `AtLeastOnce` |
| `RssWatermark` | the rss trigger and actions over one watermark and a rolling feed |
| `FileSystem` | external: names, inodes, descriptors; used by `FsStore` and `CredentialStore` |
| `AtomicStore` | abstract specification of a state store: linearizable Get, Put and Delete |
| `FsStore`, `MCFsStore` | the state store over `FileSystem`; implements `AtomicStore` with one store object |
| `CredentialStore`, `MCCredentialStore` | master key, credential storage and the commands connect, rm and run over `FileSystem` |
| `ServeDaemon`, `MCServeDaemon` | the daemon's requests, session cache and shutdown |
| `WebhookHost`, `MCWebhookHost` | `pgf webhooks`, the incoming webhook's handler, and senders that try again |
| `EmailSession` | an email session with its one IMAP client, and the requests that use it |
| `ActionRow` | the form in which an action's `Run` is written down |
| `BunnyActions`, `FileActions`, `InfisicalActions`, `LexofficeActions`, `LlmActions` (with whisper), `MatrixActions`, `PaperlessActions`, `SynapseActions`, `TelegramActions`, `YouTrackActions` | the actions of each connector, one row each |
| `ActionCall`, `MCActionCall` | what a row means: an agent's calls, transport, retries, late requests; `MCActionCall` composes it with all connectors |
| `TelegramTriggerProofs`, `RssWatermarkProofs`, `MatrixSyncProofs`, `FsStoreProofs`, `CredentialStoreProofs`, `ServeDaemonProofs`, `WebhookHostProofs`, `ActionCallProofs` | theorems about the module each is named after; `ServeDaemonProofs` also holds those about `EmailSession`, which it extends too |

The order followed, most important behaviour first: telegram trigger with its
contract; state store; rss watermark; serve daemon; credential lifecycle; matrix
trigger against the same contract; webhooks host; email session; the actions of
ten connectors over one model of a call. Proofs came after each of them.

What remains worth doing:

1. The rest of the credential lifecycle: watch and the daemon as readers of
   `CredentialStore`, the key from the environment, state that outlives rm.
2. Operators checked against reference definitions: parameter parsing, the path
   whitelist, `Values` conversions, the delays of `Backoff`.
3. The pipe of the multipart upload, the local file driver over `FileSystem`,
   the web connector's cache.

Every safety property of a passing run is proved; proofs would follow these
models as they come.

## 3. Correspondence with the code

All models follow one convention: an action is what happens between two points
at which something else can intervene: a network reply, a file operation, a
lock, a call of the sink. A call that fails without changing anything
is a stuttering step and has no action of its own. Definitions called "Variant
of ..." are the code with a plausible mistake, used to check that the properties
can fail; no specification contains them. Variables marked "history" record the
past for the properties; no action's guard reads them.

### TelegramTrigger

`lastId` and `queue` are the server: the Bot API keeps every update until a
`getUpdates` call carries a higher offset (`Retained`), and answers with the
oldest ones (`Batches`). Ids ascend but need not be consecutive. `persisted` is
the `offset` key of the state store. `offset`, `batch` and `pc` are
`Subscribe`'s local state.

* `StartAt`, `StartDrain`, `Resume`: the three branches on `start_offset`
  (149-168). `Resume` covers `loadOffset` that finds nothing, fails, or reads a value
  that does not parse.
* `DrainPeek`, `DrainAck`: the two calls of the drain branch. The first asks for
  one update without an offset, the second confirms it and ignores the outcome.
* `PollRequest`, `PollReply`, `PollError`: a request takes effect at the server
  before its reply arrives or is lost.
* `Emit`, `Save`: one update of the batch; `saveOffset` after the last one, whose
  error is ignored (`persisted' \in {persisted, offset}`).
* `Stop`: cancellation, an error of the sink, death of the process. Nothing is
  written on the way out, so they are one action.
* `GetUpdates`: the action of the same name, from another process.

Payloads, filters on update types and the backoff's duration are abstracted.

### FsStore

`dir`, `data`, `fd` are `FileSystem`'s directory, inodes and descriptors; an
`os.WriteFile` is an open that truncates and a write, an `os.ReadFile` an open
and a read. A `Handle` is one value of `Manager.For` with its mutex; two handles
are two processes, or a trigger and the daemon. `Put` is `CallPut`, `Acquire`,
`OpenTmp`, `WriteTmp`, `RenameTmp` (or `RenameFails`), `OpenSidecar`,
`WriteSidecar`, `Release`; `Delete` is two removals without the mutex; `Get` an
open and a read; `Keys` a directory listing and one read per sidecar. `Crash(h)`
ends the process that owns a handle between any two of these.

Each operation that writes can fail, as often as it likes: an open or a rename
(`FileFails`), a write after any part of its bytes (`WriteFails`), a removal
(`RemoveFails`). The call then ends with an error and leaves behind what it had
done: half a temporary file, a new value with an empty sidecar, a sidecar
without a value. Reads do not fail; in the code a sidecar that cannot be read is
left out of the listing without a word.

Values are sequences of bytes of different lengths, so that a write over a
longer file's tail shows. The file name is the key itself instead of its hash,
and `Keys` is not filtered by prefix. The page cache is taken as durable: the
death of a process is modelled, power loss is not (the code never syncs).

Four histories serve the properties: `settled` (keys whose last change is a
returned Put that no Delete overlapped), `disturbed` (Puts that a Delete of the
same key overlaps), `owed` (keys a running `Keys` has to list), `alone` (the
call that no other has overlapped and no operation has failed).

### RssWatermark

Items are numbered in the order of publication and the feed shows the last
`Window` of them (`FeedAt`). `Diff` is `diffItems`: walking from the newest item
until the watermark, all of the feed when it is not found, nothing or everything
on a first run. `Saved` is `saveWatermark` with the condition its callers put
before it. The trigger's poll is `Poll`, `Load`, `Emit`..., `Save`; `list-new`
is fetch, load, save and return; `mark-seen` and `reset` are one write each.
`local` holds the feed, watermark and result of a poll or call while it is
working on them, which is what makes the race between two callers visible.

Not every participant is at work in every deployment: `Init` chooses one of
`Deployments`, a set of callers with or without the trigger, and who is not part
of it is `"absent"` for ever. What the trigger emitted is recorded for a trigger
that has the instance to itself (`OwnInstance`): where actions run beside it, the
two surface new items for each other.

`excused` records items the program is allowed to skip: those of a feed found
without a watermark and without `include_backlog`. `seen` is what `list-new` has
returned since somebody set the watermark by hand. Three histories tell overlaps
apart: `begun` is where the watermark was when a poll or call began to fetch,
`alone` the poll or call beside which nothing else has run since, and `settled`
says that the watermark was last written by one of these, or by a `mark-seen` or
`reset` while nothing was in progress. With them `ReturnedOnce` and
`WatermarkForward` say what is left of the documented "atomic read + advance"
when calls overlap; `AtomicAdvance` is the documented promise itself, which the
run `rss_shared` violates.

### CredentialStore

A process is one `pgf` command: `Start` chooses connect, rm or run and an
instance. All files are names of one `FileSystem`: the key file, and per
instance its yaml file and `yamlstore`'s temporary file. `KeyMissing`,
`OpenKey`, `BadKey`, `ReadKey`, `CreateKey`, `WriteKey` are `secrets.Load` and
`create`; a key is named after the process that made it, and a file that was
created and not written yet is one that does not parse. `MakeDir`, `OpenTmp`,
`WriteTmp`, `Rename` are `Put`; `Remove` and `Prune` are `Delete`, where
`typeDir` is the connector type's directory, which goes only when it is empty;
`OpenCred` and `ReadCred` are `Get` followed by the opening of the secrets.
`ConnectRefused` stands for failed validation and for the path whitelist. A type
directory that is not empty cannot be removed, so `Prune` of one is a stutter.
`Die` ends a process between any two of these, with what it has written so far.

A credential is one byte, who stored it and under which key, so a write of it is
whole or not there; files torn by writes of different lengths are the subject of
`FsStore`. The processes' mutexes are never contended and have no variable.
An empty yaml file parses as a credential without values, so `ReadCred` lets it
pass. `saved` and `overlapped` are histories.

### ServeDaemon

Each request is a goroutine with its own `pc`. `Hit`, `Miss`, `Insert` and
`Duplicate` are the critical sections of `sessionFor`; `mu` is true only while
the mutex is held across steps, which the code does in `closeAll` alone.
`Load` reads and opens the credential, `Open` calls the connector: both without
the mutex. `CloseDuplicate` is the loser of a race closing its own session.
`Signal`, `Drained` or `Timeout`, `CloseCached`, `CloseDone` and `Exit` are
`cmdServe`'s shutdown. After a timeout the handlers still run, until `Exit`.
`Remove` and `Connect` are other `pgf` processes. `Accept` includes requests on
connections that existed before the signal. Sessions are named after the request
that opened them.

### MatrixSync

A `next_batch` is a position in the homeserver's stream of events, and
`Timeline` is what a sync from a position returns: for each room the last `Limit`
events. `room` and `wanted` say to which room an event belongs and whether
`filter_types` asks for its type; both are fixed at the start, for every
assignment. `Seed` and `SeedSave` are the sync without a timeline that a first
start makes (70-81); `Sync`, `Emit` and `Save` are the loop. Rooms are ranged over in
the order of a Go map, which is any order: `Due` is the oldest event of the room
being worked through, or of any room once that one is done. A sync that is not
answered repeats from the same position and is a stutter. `skipped` and `cut`
are histories: what was there at a seed sync, and what a limited timeline leaves
out, because `Subscribe` never looks at the flag.

### WebhookHost

`Resolve`, `Mount` (or `PathTaken`, `EnableFails`), `Listen`, `Signal`, `Drained`
or `Timeout`, `Close`, `Disable` and `Exit` are `cmdWebhooks` in its order;
`teardown` is its stack of deferred functions. `Die` stands for every end that runs no
deferred function: `os.Exit` in `fail`, an address in use, a signal before
signals are handled, a crash. A delivery's request goes through the checks
(`Pass`, `Reject`), `emit` on the JSON encoder, which keeps its first error and
returns it ever after (`broken`), and the response. `Respond` ends with or
without success: `response_file` may be unreadable, `response_status` invalid,
or the answer lost. A sender repeats what was not acknowledged, `MaxTries` times.
A request can also begin during `Shutdown`, on a connection accepted before, and,
when `Shutdown` gave up, during the teardown (`Request`).

### EmailSession

`imap` is the session's cached client; `selected` is the mailbox that each
connection has selected on the server. Every action is a path of commands:
`Begin`, `HaveClient` with `TakeClient`, or `NoClient` and `Dial`, then `Select`, `Search`, `Fetch`,
`ListFolders` or `SaveDraft`; `send-email` has a connection of its own. `Drop` is a
connection that breaks, `Close` the daemon's `closeAll`. The test for a client and
its use are two steps; a `Close` in between leaves nil, on which the request's
first command panics (`TakesNil`), and the server ends that request. `MaxInFlight` is how
many requests the caller lets run at a time: 1 is `pgf run`, or a client of the
daemon that waits; more is any other client. `found` and `from` record the
mailbox of the numbers and of the messages that a request returns.

### ActionRow, ActionCall and the connectors

Most connectors consist of actions of the same pattern: apply the defaults,
check what is required, perhaps look something up, build a body, send a request,
look at the status, perhaps make a second change or write a file. `ActionRow`
says which of these an action does and with which parameters; a row's fields are
explained there. A connector's module is the list of its rows, each mapped to the
`Schema` and `Run` it was read from. Three groups of parameters are kept apart
because the program treats them differently: those the body `always` carries,
those it carries when they are not zero (`set`), and those it carries when the
caller passed them (`has`). Defaults of a schema are part of a row: synapse
set-password sends `logout_devices` with its default in every body, infisical's
secret actions `type`.

`ActionCall` runs an agent's calls on one thing at the service. `Begin` and
`BeginRefused` are the checks of `Run`; `Lookup`; `SendRequest` with `Retry` is
`transport/http` with `RetryOn`; `Serve`, `ServeLater` and `Refuse` are the
service; `Receive`, `Refused` and `GiveUp` are what the client makes of the answer;
`FollowUp` and `FollowUpFails` come after the effect; `CreateFile`, `Copy` and
`SaveFails` are `os.Create` and `io.Copy`. `GiveUp` covers the timeout, a broken
connection and an answer that cannot be decoded. A request given up may still
reach the service: it stays in `late` until it is done (`Late`) or refused, also
during a later call. `known` is what an agent would conclude from what it was
told, `doubts` the calls whose outcome it cannot know. Of an update it concludes
that what it passed, and what the action's schema or description shows a default
of (`Shown`), has been changed, and nothing else: an update that carried a zero for
a parameter nobody passed would make `known` untrue (`KnownIsTrue`), which shows
when an earlier call has set that field.

The service is one thing of the action's kind with one field for each body
parameter. That a parameter has an admissible value, and how it is formatted, is
left out; so are parameters that only page or filter what is read.

## 4. Runs

| Run | Module and configuration | Distinct states | What it shows |
|---|---|---|---|
| `telegram` | `MCTelegramTrigger`, `Telegram.cfg` | 79,343 | no loss, redelivery of at most one batch, order, refinement of `AtLeastOnce`, delivery in the end |
| `store_one_handle` | `MCFsStore`, `StoreOneHandle.cfg` | 448,684 | whole values, linearizability, complete listings |
| `store_two_handles` | `MCFsStore`, `StoreTwoHandles.cfg` | 890,880 | a Put that runs alone repairs whatever races, failed writes and crashes left |
| `rss` | `RssWatermark`, `Rss.cfg` | 686,445 | trigger alone: nothing skipped, order, emission in the end; two callers, or a caller and the trigger, at once: what overlaps moves the watermark back no further than where it found it, and a call by itself repeats nothing |
| `rss_shared` | `RssWatermark`, `RssShared.cfg` | violation | two `list-new` calls at once return the same items |
| `serve` | `MCServeDaemon`, `Serve.cfg` | 39,036 | shared and open sessions; clean exit; shutdown ends; nobody stuck |
| `credentials` | `MCCredentialStore`, `Credentials.cfg` | 35,098 (symmetric) | one key, everything stored opens with it, what was saved stays, nothing half written |
| `credentials_first_run` | `MCCredentialStore`, `CredentialsFirstRun.cfg` | violation | two processes that start together create two keys |
| `matrix` | `MatrixSync`, `Matrix.cfg` | 738,400 | order within each room, refinement of `AtLeastOnce` with its two exceptions, emission in the end |
| `webhooks` | `MCWebhookHost`, `Webhooks.cfg` | 108,764 | acknowledgements match events; nothing left registered or open; no request on a closed session; a signal ends the host |
| `email_shared` | `EmailSession`, `EmailShared.cfg` | violation | two requests side by side: one reads the other's folder |
| `actions` | `MCActionCall`, `Actions.cfg` | 597,237 | what is reported as done is so, and updates change nothing else; no effect twice; a failed call did nothing; every call returns |

### Bounds and why they are enough

* Telegram: 4 ids, batches of at most 2, 2 stops, `start_offset` 0, 2, -1 and -3,
  `get-updates` with offset 3. Four ids fill two batches, so that a stop can fall
  between batches and within one, with the saved offset a whole batch behind;
  gaps between ids occur. The bounded redelivery needs more queued
  than one batch: 4 against 2.
* Store: one key, values of one and two bytes, two callers. Every interference
  is between calls on the same key, and every file belongs to one key. Six
  inodes are enough for what two callers can create and leave behind. Two
  handles with both processes mortal cover every pair of interfering Puts; a
  third caller would only add a Put to the same temporary file.
* Rss: 5 items over a feed of 3: the feed can roll past the watermark by
  exactly, and by more than, its size between two polls. The deployments are the
  trigger by itself, two callers, and a caller beside the trigger: two actors are
  what every race over the watermark needs, and two callers can also die,
  `mark-seen` and `reset` at any point of each other's calls. `rss_shared` has the
  two callers and three items, enough for both to read the same watermark.
* Serve: three requests, two for one instance (the race) and one for another
  (independence, and a second entry for `closeAll`). Each request is served once:
  a further one finds the cache in a state these can leave behind.
* Credentials: three processes on two instances of one type: two that overlap and
  one that finds what they leave; the second instance is what rm must not prune.
  Processes and instances are interchangeable, hence the symmetry sets. Seven
  inodes are one for each of five names and two more held open. `FirstRunAlone`
  says that no process starts while another is about to create the key.
* Matrix: two rooms, four events, timelines of two events, two stops. Three
  events of one room are what a limited timeline needs, and the fourth is one of
  the other room in between; two stops let a restart repeat a repeated sync. All
  assignments of events to rooms and types are initial states. Loads do not fail
  in the run: a failed load makes a new seed sync, which the properties excuse
  (`skipped`), so it would only hide what the run is after; the proofs cover both.
* Webhooks: lists of two and three mounts, one of them with a path that is taken
  (by the next mount, or by the last of three); two deliveries, to any mounts,
  each genuine or not; two tries each, the least at which an event can come twice.
* Email (`email_shared`): two requests of any action and folder, two folders, two dials. Two
  requests and two folders are the least with which one can read another's folder.
* Actions: two calls of any two actions of one kind, in any order, each with all
  its required parameters but one at most and one optional one, any of them at
  its zero. Two calls are what a request needs that arrives late during a later
  call, and what an update needs that undoes an earlier one. `MaxAttempts` = 5 is
  the code's own limit.
* `CHECK_DEADLOCK FALSE` is used for the daemon and the webhooks host, which
  exit, for the credential commands and email requests, each of which ends, and
  for the agent, which stops after `MaxCalls`. The triggers and the store never stop,
  within their bounds, because their loops go on polling or serving.

### Fairness

* Telegram: weak fairness of each step of `Subscribe` (a goroutine that is
  scheduled) and of `Start` (whoever runs `pgf watch` restarts it); strong
  fairness of `PollReply`: the loop retries for ever, so a network that fails
  only some of the time lets a reply through. No fairness of `Arrive`,
  `GetUpdates` or `Stop`, which is bounded by `MaxStops`.
* Rss: weak fairness of the trigger's steps, for the same reasons; stops are
  bounded; a save may fail every time and the property still holds.
* Serve: weak fairness of handlers and of the shutdown sequence, whose timeout is
  a timer. None of `Finish`: an action may wait on a remote service for ever.
  `Progresses` therefore speaks of reaching the action, and `ShutdownEnds` holds
  although actions hang.
* Matrix: weak fairness of `Step`, that is of the goroutine, of a sync that is
  repeated for ever, and of whoever starts the trigger again. A sync that fails is
  a stutter, so this says that not every one fails.
* Webhooks: weak fairness of the host's own steps, `Timeout` among them, which is
  a timer. None of handlers or senders: `SignalEnds` holds although requests hang.
* Actions: weak fairness of `CallStep`, since `GiveUp` is the client's timeout.
  None of the service, which need not answer at all.
* Email: no liveness is stated and no fairness assumed; a broken connection is
  never replaced.

## 5. Where code and documentation disagree

Three disagreements are runs with the expected result "violation", and findings in
`PROJECT.json` with the lines quoted:

1. The master key is documented as derived once, but two processes that start
   together on a fresh machine each create one, and what the loser seals cannot
   be opened again (`credentials_first_run`).
2. The daemon's source says that connectors are safe for concurrent requests
   because their clients handle concurrency. The requests of an email session
   share one IMAP connection without a lock around SELECT and what follows, so
   that a request can return messages of another request's folder
   (`email_shared`).
3. `list-new` is documented as an atomic read and advance, but reads and writes the
   watermark in separate steps without a lock: two calls that overlap return the
   same items (`rss_shared`). When the one that fetched the older feed saves last,
   the watermark moves back as well, and the next call returns items again;
   `ReturnedOnce` and `WatermarkForward` bound the damage.

The rest of this section is for a reader who changes this code. These can be
seen in the models, by enlarging a constant or by reading a definition:

* telegram: `start_offset` = -1 is documented as "only future updates" but
  confirms only the oldest queued update (`DrainPeek`, `DrainAck`; `OnlyFuture` would
  be violated); the rest of
  the backlog is emitted.
* state store: documented as safe for concurrent use with atomic writes, but the
  temporary file's name is fixed and the mutex belongs to one store object. With
  two objects a Get can return a value nobody put (`GetIntact` with two handles).
  `Keys` can miss a key while a Put of it rewrites the sidecar (`KeysComplete`
  excuses it), and a Delete that overlaps a Put of the same key can leave a
  value without a sidecar, or the reverse. A Put that fails to write the sidecar
  reports an error although the value is replaced (`WriteFails`; `Fail` of
  `AtomicStore` allows it).
* rss: a failed read of the watermark is taken for a first run, so that items are passed
  over (`Faults` with `"load"`). `include_backlog` is documented to apply as long
  as there is no watermark, but a first poll of an empty feed uses it up
  (`Backlog`).
* matrix: a failed read of `next_batch` makes a fresh seed sync, and a seed whose
  save fails is made again at the next start; both skip what lies in between
  (`LoadCanFail`). A timeline's limit counts events of all types, so that
  unwanted ones can push wanted ones out, and nobody fetches the gap (`cut`).
* webhooks: `fail` is `os.Exit`, so an `OnEnable` that fails, an address in use,
  or a signal before `Listen` leaves earlier mounts registered (`EnableFails`,
  `Die`). A path mounted twice panics, and the teardown does run. After its first
  failed write the JSON encoder fails every later event (`broken`). A
  `response_file` that cannot be read, or a `response_status` that is none, fails
  a request whose event has been emitted: the sender tries again and the event
  comes twice. Two webhook triggers of one connector would share a session, and
  the teardown would close it before the first one's `OnDisable`; no connector
  has two.
* email: a broken IMAP connection stays in the session, and every later request
  on it fails. Two requests that dial at the same time leave one of the
  connections unclosed. A negative `limit` makes search-emails slice beyond its
  result and panic.
* credentials: a process that dies while it creates the key leaves an empty file
  that every later start refuses (and must refuse: a new key would make stored
  credentials unreadable). Two overlapping connects of one instance can leave an
  empty credential until the slower one has written, and the slower one reports
  failure although its credential is the one stored.

And these in the rows of the connectors' modules:

* synapse create-user documents that an omitted password is left unchanged on an
  update, but always sends `admin` and `deactivated`, so that an update that does
  not mention them takes the admin role away and reactivates the account
  (`CreateUser` is an `Upsert` that carries both `always`). set-password logs out
  all devices unless told otherwise, as its schema shows (`logout_devices`).
* youtrack update-issue documents that only the supplied fields are changed, but
  a new description also sets `usesMarkdown` to its default (a pair in the row,
  whose default the schema shows).
  create-issue links by an endpoint that a comment in the same file says answers
  405.
* bunny set-force-ssl without `force_ssl` switches it off (`SetForceSSL`).
* infisical: a comment says that destructive actions do not fall back on a
  default scope, but delete-secret and delete-folder do.
* matrix send-message makes a new transaction id for each `Run`, so the id
  protects no retry that a caller makes.
* A voucher that was created but whose answer has no id, with a file to attach,
  is reported as failed (`GiveUp`): `cmdRun` and the daemon drop a result that
  comes with an error. The caller cannot tell it from one that was not created.
* A download that fails half way has already truncated the file that was there
  (`CreateFile`). The local file driver's put uses a fixed `.tmp` name beside the
  file, so that two puts of one file share it.
* A comment in `connector.go` says that `Run` gets parameters with defaults
  applied; each action applies its own.

Outside the models, but in the list of hazards: when the publisher withdraws the
very item the rss watermark names, all of the feed counts as new again; and rss
items without any identifying field are emitted with an empty id.

## 6. Proofs

All proofs hold for every value of the constants that satisfies the modules'
assumptions, which say what the constants are: numbers, sets, a function from
requests to instances. Three of them say more.
`RowsAssumption` of `ActionCall` says that what a partial update carries without
having been passed it has a default its caller can see (`ShowsDefaults`); TLC
evaluates it on the rows of all ten connectors. An action whose body resets what
it was not passed and shows no default of is no partial update, and has another
effect in its row. `ConstAssumption` of
`WebhookHost` says that no two mounts of one run share a session, which holds
for the connectors there are. `NoneAssumption` of `FsStore` says that the mark
for "nothing" is no call and no stored value.

Some theorems have a hypothesis, which is a fact about a deployment:
`TriggerAlone` (the rss trigger's theorems), `OneStore` (the state store),
`FirstRunAlone` (the master key), `[]Agree` or `MaxInFlight` = 1 (email). Section 5 says what
goes wrong without each; for the last two a run shows it. `EmailAssumption`, that
`MaxInFlight` and `MaxDials` are natural numbers, is a hypothesis of the email
theorems.

### TelegramTriggerProofs

`TypeCorrect`, `Invariance`, then `NothingIsLost`, `SavedOffsetIsSafe`,
`RunsAreInOrder`, `TriggerIsAtLeastOnce` and `RedeliveryIsBounded`.

`NoLoss` is not inductive: the next poll confirms what is below the in-memory
offset, so that offset has to be safe as well (`SafeOffset`); it moves past the
batch's oldest update, so nothing may be missing between offset and batch
(`BatchSafe`); and an update that arrives must not fall below an offset already
chosen (`BoundedOffset`: at most the next id, or chosen by the caller). `RunSafe`
keeps the run below the offset. `IInv` is their conjunction. Each action has a
lemma; four actions that only dismiss or drop share `DismissingKeepsInv`.

For `RedeliveryIsBounded`, `WindowInv` says that what could be repeated is the
oldest part of the queue and, with the current batch, never exceeds `Limit`. The
step that matters is a poll: the delivered part and the new batch both start at
the oldest update left, so one contains the other.

`TriggerIsAtLeastOnce` maps polls to `Forget`, emission to `Deliver`, explicit
offsets and the drain to `Dismiss`.

### RssWatermarkProofs

`NothingIsSkipped` and `RunsAreInOrder`, under `TriggerAlone`: no other caller on
the instance, no failing load, no `include_backlog`. The violations above show
that the last two conditions matter to `NoSkip`; a concurrent `reset` or
`list-new` may move the watermark under a poll. Saves may fail and stops happen
at any point. `TriggerInv`: everything in the feed that ended with the watermark
has been dealt with; a run is at or before the watermark between polls; during a
poll, what is left to emit is `lo..n`, the end of the fetched feed `FeedAt(n)`.
`FreshOfFeed` and `WatermarkOfFeed` are the lemmas on `diffItems` behind it:
what is not new was in the watermark's own feed, also when the feed has rolled
past it.

`NothingTwice` and `WatermarkAdvances` have no hypothesis: they hold for any
callers and deployments, whatever overlaps, fails or dies. `SharedInv`
(`SharedInvariance`) says of each poll or call in progress that it works on
`FeedAt(n)` for some `n` between the watermark it began at and what is published
now, and that what it will save is the end of that feed (`CallSound`). That alone
bounds a save by `begun`. For one that is still alone it adds that neither the
watermark nor anything returned has passed `n`, and that nothing else has moved
the watermark it read; `Quiet` adds that nothing returned is beyond a settled
watermark. `FreshIsAbove` then gives that what `diffItems` finds new lies strictly
above the old watermark and at or below the new one, also when the feed has
rolled past it.

### FsStoreProofs

For any number of store objects over one directory, whichever of their writes
fail and wherever their processes die: `TypeCorrect`, and `SoloPut`, a Put that
no other call overlaps and no operation fails stores its value. `TypeInv` adds to the types that no inode has two names (`Distinct`) and
that a caller is at a step of the call it made (`CallSound`); `AloneSound`
follows a Put that has been alone from its start, file by file. It needs no lock:
what earlier Puts left in the temporary file goes when it is opened.

Under `OneStore`, all callers share one store object: `ValuesAreWhole`,
`GetsAreWhole`, `KeysAreComplete`, and `StoreIsAtomic`, the refinement of
`AtomicStore`. With two objects the mutex protects nothing between them. The
invariant is `StoreInv` (`StoreInvariance`):

* `LockSound`: who is between `Acquire` and `Release` holds the mutex. Hence at
  most one caller has a temporary file or a sidecar open for writing.
* `PutSound`: the descriptor of `WriteTmp` is the temporary file's and nobody
  else's; before the rename the file holds the whole value. The sidecar's
  descriptor is no other file's, but a Delete, which takes no lock, may have
  removed its name; then the Put is in `disturbed`.
* `GetSound`: a Get reads an inode that is no temporary file and no sidecar, with
  or without its name. That is why neither a Put nor a Delete changes what it
  reads: a rename and a removal leave the inode alone.
* `ListSound` and `SettledSound`: a listing owes settled keys only, a settled key
  has its sidecar and no call that changes it, and a key that is owed is to be
  read or was found.

The lemmas on file operations (`OpenTruncFacts`, `WriteCloseFacts`,
`RenameFacts`, `RemoveFacts`, `CloseFacts`) say which names and descriptors keep
their contents. A step under the mutex preserves the invariant by `HolderStep`,
any other by `QuietStep`; each action only shows the few facts those ask for.
`FailFacts` says the same of all the ways to fail: a call that fails changes at
most what its own descriptor holds, which no value file and no Get shares.

`StoreIsAtomic` maps the rename, the removal of the value file and the opening
(or absence) of the value file to `Effect`, the begin and the end of a call to
`Call` and `Return`, a failing operation to `Fail`, and the end of the process to
`Crash`. All other steps are stutters (`StutterMap`), the Gets of other callers included: `ReadersKeep`. `Keys`
is not part of the abstract store.

### CredentialStoreProofs

`TypeCorrect`, `SavedCredentialsStay` and `CredentialsAreWhole`, for any
processes, instances and commands, whatever overlaps and wherever a process
dies. `IInv` (`Invariance`) adds `FilesSound`, what the key file, a temporary
file and a connector's file can hold, and `ProcSound` and `ConnectSound`, what a
process has open and has written at each step. A connect that overlaps another of
its instance shares its temporary file; `overlapped` names those instances, and
the two theorems promise nothing of what such connects write.

`OneKeyForAll` and `CredentialsOpen`, under `FirstRunAlone`: no process starts
while another is about to create the key file. The run `credentials_first_run`
violates `OneKey` without it. `KeySound` is a disjunction of three phases, and
each action keeps the phase or moves to the next: no key and at most one process
about to create it (`NoKey`); an empty key file, being written or left by a
process that died (`EmptyKey`); and a key that everybody has loaded and
everything is sealed with (`KeyIs`). A process that finds an empty file gives up,
so the second phase never leads back to the first.

### ServeDaemonProofs

`SessionsAreShared`, `SessionsInUseAreOpen`, `NoSessionIsOrphaned`, `ExitIsClean`,
for any number of requests and instances. `IInv` adds to the types that a cached
session is open and of its instance (`CacheSound`), that a session between
opening and insertion is open and not cached (`OwnerSound`), that a session in
use is the cached one until `closeAll` begins (`UseSound`), and what the phases
of shutdown guarantee when nothing timed out (`ShutdownSound`).

The module also holds two theorems about `EmailSession`, which is what the
daemon's requests run on. `AgreeingIsRight` says how far an email session can be
shared: any number of requests work on the folder they name as long as those in
flight that select a mailbox name the same one (`Agree`), whatever connections
break, are dialled twice or are closed under them. A mailbox that a request has
selected then stays selected until the request is done, or none is
(`Undisturbed`), and a command for which none is selected fails. `AloneIsRight`
is the case of `MaxInFlight` = 1, `pgf run` or a client that waits: where one request
begins at a time, no two are in flight (`OneAtATime`), so they agree. The run
`email_shared` shows that a hypothesis is needed.

### MatrixSyncProofs

`TypeCorrect`, `RunsAreInOrder` and `Refinement`, with failing loads or without.
`Positions` says of the saved and of the current position that every wanted event
up to it was emitted, skipped or cut; during a reply, that what is missing up to
the reply's own position is in `todo`. `Order` keeps a run at or before the
current position between replies and, within one, before every event of the same
room still to come; that is where `Due` matters. The refinement needs one step
more than telegram's: `Save` may make several events final at once, and `Sync`
dismisses what its timeline leaves out.

### WebhookHostProofs

`SendersAreToldTheTruth` rests on `Told`, which says for each step of a request
what has been checked and emitted. `NothingIsLeft` and `SessionsAreOpen` rest on
`Recorded`: for each mount that is registered and not refused, the stack holds
its `disable`, above its `close`, and a session is open exactly as long as its
`close` is on the stack. The work is in what `Append` and `Front` do to that
order (`MountRecorded`, `PopRecorded`). `TypeCorrect` adds that every sender's
requests are its failures and at most one more (`Tally`).

### ActionCallProofs

`TypeCorrect`, `OneEffect`, `FailureIsClean` and `WhatIsKnown`, for every set of rows that satisfies `RowsAssumption`, so for the
ten connectors and any that is added. `Counted` is the heart of the second and third:
a request is either done or still late, never both, and one that was refused or
not sent is neither. `WhatIsKnown` needs `Sound`: what is known is true outside of
the fields that a call of unknown outcome touches, and when the service has done
the current request, what the agent is about to learn is true as well and stays
so if a late request comes in between (`LearnsHolds`, `LearnsStable`).

### Only model-checked

Liveness (`EventuallyDelivered`, `EventuallyEmitted`, `ShutdownEnds`,
`Progresses`, `SignalEnds`, `Returns`) is beyond the prover, which knows neither
fairness nor ENABLED. That the hypotheses of the theorems are needed is shown by
counterexamples on bounded instances only.

## 7. Not modelled

Left out, and why:

* The web and jina connectors: their actions only read, and what could be wrong
  in them is extraction and parsing; the web connector's cache is by key and age.
* The connectors' credential forms and their validation, the registry, listing
  and schema output: they change nothing after start, or nothing at all.
* Formats and conversions: MIME, HTML, XML and feeds, voucher amounts (floating
  point), signatures, the values of parameters. `ActionCall` knows a parameter as
  left out, zero, a default or a new value, which is what the actions' control
  depends on.
* The delays of `Backoff`: in every model a retry comes at any time.
* The pipe between `PostMultipart` and its writer: when the request cannot be
  built nobody reads it and the goroutine stays blocked. The path and base URL
  that could make it fail are fixed before an upload starts.
* Credentials that change under a running session: the daemon and the triggers
  keep what they opened, and nothing in the source promises otherwise. That the
  saved telegram offset survives rm and connect with another bot follows from it.
* The key from the environment, and a secret whose text begins with `sealed:`,
  which `SealValues` takes for sealed already.
* The S3 driver, which wraps a library; the wizard; examples and agent
  instructions.
