# Verification of lark-codex-bridge

The bridge connects a Lark (Feishu) bot with a local Codex app-server.  A chat
message is received, stored, turned into a Codex turn, and the answer is stored
and delivered back to the chat.  Nothing in between may be lost or done twice,
although the process can die at any time, both remote ends can answer late or
not at all, and every queue is bounded.

This directory holds TLA+ models of the code under `src/src`, TLC
configurations that check them on small instances, and TLAPS proofs.
`PROJECT.json` maps every definition to the lines it models.

## 1. The system

| component | state it keeps | operations | talks to |
| --- | --- | --- | --- |
| channel sidecar (`channel/sidecar.rs`, `sidecar/*.cjs`) | a Node process with the official SDK, its session, write queue and event worker | configure, deliver, acknowledge, restart, shut down | intake; the inbound source of the shipped program |
| native Lark transport (`lark/transport.rs`, `bridge.rs`, `fragments.rs`, `token.rs`) | connection state, fragment buffers, tenant token | connect, receive, reassemble, ack, ping, reconnect | intake, outbox pump (connection watch) |
| intake (`runtime/intake.rs`) | none; a hook into the store | register one event, replay at start | store, router |
| router (`runtime/router.rs`) | resident actors, retry queue, supervisor watch | route, retry, evict an idle actor, interrupt, shut down | scope actors, store |
| scope actor (`runtime/scope.rs`) | mailbox, deferred work, pending media, state, active turn | debounce, claim, prepare thread, start turn, project progress, finalise | store, Codex client, reply sink, attachments, contexts |
| Codex supervisor and client (`codex/*.rs`) | epoch, state, pending requests, subscriptions | start, restart with backoff, degrade, call, subscribe, interrupt | child process or sidecar |
| durable store (`store/*.rs`) | SQLite tables: inbound events, scopes, threads, turns, outbox, receipts, attachments, leases, adoptions, external writes | one transaction per request on one writer thread | everybody |
| reply sink and outbox pump (`outbox/*.rs`) | claimed batch, transport watch | enqueue, claim, send, record the receipt, retry, release, recover, sweep | store, Lark API |
| attachments and ASR (`runtime/attachments.rs`, `asr.rs`) | content-addressed files, leases, workspaces | fetch, lease, release, reconcile, collect | store, Lark API |
| context registry (`runtime/context.rs`) | per-turn capability handles | register, activate, read, revoke | nobody yet: `scope.rs:2660` starts every turn without one |
| thread adoption (`runtime/adoption*.rs`, `store/adoption.rs`) | saga row, dedicated client | adopt, fence, reap, release | store, a dedicated Codex process |
| external writes (`codex/external*.rs`, `store/external*.rs`) | endpoint and thread state, intents | reconcile, prepare, send, settle | store, external endpoint |
| rendering, normalisation, configuration, CLI | none to speak of | pure conversions | all of the above |

What is hard here:

* **crash windows.**  Every side effect (a POST to Lark, a `turn/start` to Codex)
  happens between two transactions.  After a restart the code must tell "not
  done", "done" and "unknown" apart from the rows alone.
* **unknown outcomes.**  A 5xx, a dropped connection and a timeout may all have
  been applied.
* **order.**  Rows of one table are claimed in batches, parked for retries, and
  returned when the connection drops; replies must still appear in order.
* **hidden couplings.**  A card update needs the row of the first card; a sweep
  deletes old rows; a fallback makes a row longer than the one admitted.
* **bounded everything.**  A full queue, table or pool must refuse without
  forgetting.

What makes each part correct:

| part | correct when |
| --- | --- |
| ledger | one message is one live row, whatever event ids it comes under; a settled row is answered, or its turn had nothing to say; the table is one the startup scan accepts |
| scope actor | an event is handed to Codex at most once and in order, and a message under a second event id only after the first was rejected; one turn per scope executes at a time; nothing is waited for in vain |
| router | every event is routed, refused with a notice or kept for a retry; only idle actors go |
| outbox | a reply Lark may have accepted is not posted again; replies leave in order; every row ends; the bounds hold |
| client | "not applied" is true, "unknown" ends the connection; a subscriber hears a thread without holes or is told so |
| supervisor | no second process tree beside one that may be alive; success only when nothing is left; every stop ends |
| attachments, ASR | no leased file is collected, disk and table agree in the end; decoded speech stays where it may be erased, and is; no child process stays unnoticed, and none is signalled that is not ours |
| adoption, external writes | a thread has one writer, and a turn reaches only the process of its generation; an intent is sent at most once and settled after a restart |
| inbound sources | an acknowledged event is durable, and on its way unless an actor dropped it for the next start to find; an acknowledgement answers the event it names; what fragments hold is given back; a bridge that is up hears |

## 2. Modules

| module | models | instances |
| --- | --- | --- |
| `Outbox` (`OutboxProofs`) | the outbox table, the reply sink, the pump | `MCOutbox` |
| `Ledger` | `inbound_events`, `turns`, `threads` and the transactions on them | through `Turns` |
| `Turns` (`TurnsProofs`), extends `Ledger` | the router, the scope actors, Codex as they see it | `MCTurns` |
| `Rpc` | one connection to an app-server: the RPC actor on the stream transport, and the server | through `Client` |
| `Client` (`ClientProofs`), extends `Rpc` | `AppServerClient`: calls and their guards, the router task, routes, mailboxes | `MCClient` |
| `Attachments` | cache, rows, leases, garbage collection, reconciliation | through `Media` |
| `Asr` | transcription workspaces, their cleanup, child processes | through `Media` |
| `Media` (`MediaProofs`) | the media of a turn: both of the above | `MCMedia` |
| `ExternalStore`, `External` (`ExternalProofs`) | the tables of a shared endpoint; coordinators, writers and readers on it | `MCExternal` |
| `AdoptionStore`, `Adoption` | the adoption saga and mapping; domains, operations, drains, routes | through `Ownership` |
| `Owner` | abstract: what anybody who owns a process tree promises | `KeepsPromise` |
| `Supervisor` | the supervisor with its process tree | through `Ownership` |
| `Ownership` (`OwnershipProofs`, `AdoptionProofs`) | adoptions beside the supervisor, and the shutdown that waits for both | `MCOwnership` |
| `Intake` | the handler of an inbound event, the durable queue, the driver | through `Inbound` |
| `ChannelSidecar`, `LarkSocket` | the two inbound sources | through `Inbound` |
| `Inbound` (`InboundProofs`) | either source with the intake; starts, stops and crashes of the bridge | `MCInbound` |

Operators called "mutant" in a comment are wrong variants of the definition below
them; `PROJECT.json` says which property notices which.

### Outbox

| state | code |
| --- | --- |
| `outbox` | the `outbox` table; `posts` and `patches` are history: how many requests for the row Lark may have accepted |
| `clock` | `now_ms()`, the wall clock |
| `storeUp` | the writer thread serves jobs |
| `pc`, `claimed`, `cur`, `answer` | where `pump.rs::run` is, the claimed rows it has not sent, the row it sends, the outcome it has to record |
| `connected`, `shutdown`, `accepted` | the transport watch, the pump's cancellation token, progress rows whose enqueue this process saw succeed |

One action per step the pump can be interrupted after: `Claim`, `StartSend`,
`LarkAnswers`, `WriteReceipt`, `BeginRelease`, `ReleaseTail`, `Start`, `Stop`,
`Crash`, and the two producers `Enqueue` and `EnqueueBatch`.  `Verdict` and
`Receipt` are the decisions of `record_failure` and
`record_final_card_patch_failure`.  Payload texts are reduced to the operation
the row asks for and its size.

### Ledger and Turns

| state | code |
| --- | --- |
| `inbound`, `turns`, `thread`, `made`, `seen` | `inbound_events`, `turns`, the active row of `threads`, the scope of every thread, the order of `first_seen_ms` |
| `queue`, `retries` | the bounded channel from the receipt boundary to the router, the router's retry queue |
| `actor[s]` | the mailbox and the local variables of `run_scope_actor` and `process_batch`; `pc` is the await it stands at; `shown` the published `ScopeState` |
| `eviction` | the actor `route_one` is waiting for |
| `codex`, `exec` | epoch, client and terminal flag as the supervisor publishes them; turns the app-server executes |
| `proc` | the bridge process |
| `submitted`, `final`, `delivered`, `faults` | history: turn/start requests Codex may have seen, durable final replies; the bounds |

The router is one task that handles one event at a time; `RouteIgnored`,
`RouteRefused`, `RouteNoCodex`, `RouteOverloaded`, `RouteEvicts` and
`RouteToActor` are the exits of `route_one`.  Each takes its event from the
queue or from the retry queue, and `Popped` says where it goes when the store
fails.  An actor is split at every await after which it may be cancelled, the
process may die, or somebody may have changed what it read.  Event contents are
reduced to their kind, because the kind decides the path: a text that can share
a batch, a message that cannot, media, a command.  `Quiet` are the turns that Codex
completes with nothing to show: `PersistFinal` then enqueues no row, as the sink does
for `ProjectedReply::Empty`.

Some reductions to know of:

* the store refuses a job or commits it; the job that commits and still reports
  an error (`writer.rs:100`) is part of `Outbox`, not of `Turns`;
* Lark redelivers what was not acknowledged; a full queue leaves an event
  unacknowledged, and the model counts redelivery as another `Deliver`;
* the sweep of old rows runs when Lark no longer redelivers the message
  (`DEDUP_TTL` is seven days);
* staged media and progress cards are left out of the actor; attachments are in
  `Media`; `wait_for_epoch_end` is taken as in production, with an attachment cache.

### Rpc and Client

`rpcq`, `pending`, `reply`, `out`, `inbox` are the command channels, the pending
map, the oneshot of every request and the two directions of the pipe; `events`
and `held` the lossy and the reliable event channel and the event that waits for a
place; `lease` and `serverPending` the requests of the server.  `Client` adds
`cmds` (commands of the router task), `routes` (deferral, pending start, the
remembered outcomes of every thread), `box` (mailboxes) and `call[c]`, where a call
stands.  A call is split at its awaits: the command and its acknowledgement, the
request and its answer, the observation; it can time out or be dropped at each,
and `FailClosedOn` is what its guard does then.  Histories: `sent` (reports that must
not get lost), `got` (what the subscriber took), `asked` (answers per request).
Left out are `error` and `item/started` reports, and a `start_turn` future that is
dropped between the router's acknowledgement and its first poll (`client.rs:635`).

### Attachments, Asr and Media

`rows`, `leases` and `file`, `temp` are the tables and the directory; `lock` is the
mutation lock, `job` the detached task that commits a lease, `pass` the snapshot
and the classes a reconciliation works from.  A fetch is downloaded, installed
under the lock, committed outside of it.  The leases of a turn are released once,
after its resolution or after the end of the epoch of an uncertain turn; a release that
fails is not tried again.  Turns in `Doubtful` may take these ways: `uncertain` (waits
for the end of the epoch), `abandoned` (its end could not be recorded), `kept` and
`stuck` (the release failed).  In `Asr` a workspace is a directory with a marker,
perhaps decoded speech and perhaps a cleanup claim, which is created (`partial`) and
then filled (`full`); when its writer fails or dies between the two it is `torn`.  Two
cleaners (the transcription's own, the sweeper's) go through the same file system calls
one at a time, and each call can fail or be the last before a crash.  `child` is a
process group with its leader and the authority to signal it.  Somebody else may take
the leader's status (`StatusTaken`), after which the poll fails with ECHILD and the
identity is lost; a dropped future signals the group at once and leaves the leader to a
task of its own (`DetachedReap`).

### ExternalStore and External

`db` holds the endpoint row with its epoch, threads, recorded outcomes, write
fences, intents and approval claims; `ses[s]` one session (a reader or a writer)
with its epoch, its event queue and where it stands; `wire` the requests that may
still take effect, `effects` and `answers` what they did.  A newer session reserves
a newer epoch at any moment.  The scenes of `MCExternal` choose who takes part.
The answer to an approval and the write that records a denial are one step
(`SendAnswer`), and so are the registration of a thread and the wake-up that follows it
(`ManageThread`).

### AdoptionStore, Adoption, Supervisor, Ownership

`saga` and `map` are `thread_adoptions` and the mapping of a scope; `past[s]` what the
bridge made for a scope, active or archived, which `/new`, `/resume` and a first message
archive, reactivate and record without a look at any saga; `own[s]` the
domain the coordinator holds in memory, `procs` every dedicated process that was
ever launched with what it may write, `route[s]` a message on its way to a domain: the
saga is read, the domain looked up under the lock (`routed`), the batch claimed
(`claimed`) and the turn started, with awaits between and nothing read again.
Operations (adopt, release, recover) are split at every transaction and every call
to the process.  `Supervisor` models the loop of `run_supervisor` with trees of
processes that can be left, reaped by somebody else, or not confirmed gone.
`Owner` is the specification it implements: at most one tree that may be alive
while a client is served, no replacement beside it, success only when nothing is
left.

### Intake, ChannelSidecar, LarkSocket, Inbound

`calls` are the handlers in flight (`normalize`, `hook`, `queue`), `jobs` the
registrations of handlers that were dropped, `inq` and `held` the durable queue and
what router and actors hold.  A copy leaves with its row taken (`Take`), or is dropped
with the row still received (`Miss`, remembered in `missed`) because the store failed
while an actor prepared, read for or claimed it, or because the actor was evicted with
it.  A malformed message fails to normalise at every delivery.  `ChannelSidecar` has
both ends of the pipe: Node's waiters and outbound queue, the Rust session, its
bounded write queue and the event worker.  A child is reaped (`Reaped`) or its cleanup
is not confirmed (`Orphaned`), which ends the source for good with the child perhaps
alive.  `LarkSocket` has fragments with their byte accounts, pings and the watchdog.
`Inbound` starts one of the two sources, and knows what the platform was told and
redelivers.

## 3. Runs

| run | expects | question |
| --- | --- | --- |
| `outbox_live` | pass | a card and a two-part answer with lost receipts, disconnects, stops and crashes: can a row be posted twice or overtake another, and does every row end? |
| `outbox_table` | pass | a card, its update and its finalize and a row no codec reads, in a table of two live rows, with a clock that steps back and a writer that lies: are the bounds kept, do settled rows stay settled, does every anchor outlive its users? |
| `outbox_double_final` | violation | can a final answer be visible twice? |
| `turns_replay` | pass | one message under two event ids, a `/new` and group media, any two faults: is an event handed to Codex twice, or a second id of a message while the first is not rejected; is one settled in silence that had something to say; does one leave a table the next start refuses? |
| `turns_order` | pass | two texts, one of them twice, one that must be alone, a `/stop`, and media: can debounce, deferral or overload forget or reorder one? |
| `turns_scopes` | pass | two scopes, a `/resume`, one actor slot, one permit, a failing Codex: can two turns of one scope execute at a time, or a turn run on a thread of the other scope? |
| `turns_live` | pass | two scopes and one permit: can everybody wait for everybody? |
| `client` | pass | turns, a resume, a release, an interrupt and requests of the server on one connection that times out, repeats itself or dies: can a caller or a subscriber be told something untrue? |
| `media` | pass | two turns, one of which may end uncertain or fail to release, and a voice message: can a file be taken from a turn, a foreign process be signalled, a child stay unnoticed, decoded speech stay without a torn claim; do disk and tables agree in the end? |
| `external` | pass | coordinators of one endpoint, alone and in pairs: can a mutation happen twice, unfenced, on somebody else's turn; can a reader miss the end of a turn; can an approval be answered twice? |
| `ownership` | pass | two scopes that adopt threads beside their own, and a supervisor: can a thread be declared free while somebody writes it, two scopes map one thread, a turn reach a process of another generation, a second tree be started, a shutdown hang? |
| `inbound` | pass | two messages, perhaps one that is malformed, through either source: can a receipt be all that is left of one, can the bridge be up and deaf other than by a ledger full of dropped copies? |

The runs of the composed modules start from *scenes*: each scene names who takes
part, how many faults may happen and how often one may ask.  A behaviour keeps its
scene.  This replaces a product of all features at once by the combinations that
interact, and every action fires in some scene.

**Bounds.**  Two or three rows or messages are enough for every pair the
properties speak of plus one bystander.  Capacities are 1 to 4, small enough to
be hit.  One or two faults per behaviour, of any kind and at any place, reach
every recovery path and every recovery path interrupted once.  Some bounds
deserve a word:

* `QueueCap` is large in `turns_order`: an event that does not fit the queue is
  not acknowledged, which is not forgetting it;
* `MaxRows = 2` in `turns_replay`: three messages meet a table with two places;
* `MaxDeliveries = 1` in `turns_live`: a second copy may be poisoned (section 5)
  and would never leave the retry queue;
* the faults of `turns_live` leave out the refused store job, the failed
  projection and the lagging subscription.  After them an actor waits for the end
  of an epoch that may be healthy; `docs/modules/runtime.md` describes that wait as
  intended;
* the faults of `turns_scopes` leave out the refused store job and the failed
  projection, after which `OneTurnPerScope` does not hold (section 5);
* `client` has one place in every channel, and more reports and requests than
  places; `FailClosed` is FALSE, the policy of the bridge's own app-server;
* `media` has one row of room for two contents, so that every fetch may have to
  collect, and one doubtful turn (`t1`) beside one whose leases must go; `external`
  and `ownership` bound epochs and operations per scene;
* `Quiet = {1}` in the `Turns` runs: the first turn may be one with nothing to show;
* `inbound`: two places in the queue, two permits, a ledger with one received row, so
  that a second registration is refused while the first waits, one partial message,
  one event and two writes in the sidecar (two and three in one scene), three calls of
  the handler at a time.

**Deadlock** is checked in the `Outbox` runs.  The other behaviours end when all
deliveries, calls or requests are used up, so there it is not.

**Fairness**, and why the code justifies it:

* `Outbox!FairSpec`: the pump is one task of a running executor, time passes, and
  the transport reconnects (`lark/transport.rs` retries for ever);
* `Turns!FairSpec`: the router and every actor are tasks of the executor, the
  supervisor restarts Codex, a stop finishes, the service manager restarts the
  process, every turn ends;
* `Media!MediaFairness`: tasks run, the process is restarted, and strong fairness
  for the lock of a reconciliation, because tokio's mutex is first come first
  served.  Nothing is assumed about the release of a turn's leases, which may fail and is
  then over: reconciliation finds the leases of turns whose row has a known end;
* `External!Spec`: only a reader's own steps (`ThreadsSettle` is about a reader
  that is left alone);
* `Ownership!OwnSpec`: the supervisor task, the operations of a scope and the
  shutdown run;
* `Inbound!InSpec`: handlers, worker, writer, session, Node and the socket run;
  fragments age; the connect deadline fires when "connected" was never queued; a
  stop ends.  Strong fairness only for the platform, for every fragment of every message
  separately: it keeps sending what it has no receipt for.

Nothing is assumed about crashes, deliveries or faults.

## 4. Proofs

`OutboxProofs` proves for every value of the constants that satisfies
`OutboxAssumption` (among others, every part of an answer but the first is a plain
reply, as `final_rows` builds them), and under `Reliable` (the clock is not set back,
the writer reports what it commits):

* `PostedAtMostOnce`: a row Lark may have accepted is not posted again;
* `ParkedHolds`: a row parked for a retry holds every later live row back;
* `InOrder`: rows go on the wire in id order.

Both parts of `Reliable` are needed: with `ClockStepsBack` set to TRUE in
`OutboxLive.cfg` TLC breaks `ParkedRowHoldsSuccessors`, with `WriterMayDie` it
breaks `SendsInOrder`, and with the latter `AtMostOncePost` fails as well
(section 5).

The inductive invariant is `IInv`.  `AtMostOncePost` alone is not inductive:
a receipt that is given up leaves a row `sending` in a running process, and a
later retry of an earlier row re-parks everything live behind it.  Why is the
posted row never among those?  Because a row that may have been posted lies below
every row the pump can still send (`PostedBelow`), which in turn holds because the
claim is always a prefix of what may be sent (`ClaimIsPrefix`), because a parked
row holds its successors (`ParkedRowHoldsSuccessors`), and because claimed rows
are due (`SendingDue`).  `IdsUnique`, `PumpHolds` and `PostsKnown` tie the pump's
memory to the table.  `NextInv` has one lemma per action; the producers share the
relation `Grown` between the table before and after an enqueue.

What the table keeps needs no `Reliable`:

* `TypeCorrect`: every state is well typed, so the table holds only state texts
  that `OutboxState::parse` reads back;
* `SettledForGood`: a settled row changes only by retention, an uncertain one never;
* `AnchorsKept`: no sweep deletes the anchor that a live update or finalize needs;
* `CapacityStaysBounded`: the bounds on rows and on bytes, of the queue and of the
  whole table (`RowsStayBounded` is its first half).

Their invariant is `WInv`: the rows in the pump's hands are live (`HeldLive`), though
no longer all `sending` once a receipt was committed and reported as failed; and what
a live update or finalize names as its anchor was enqueued as a progress row
(`OpsKnown`), which is what the exception in `sweep_terminal_rows_inline` asks for.
The bytes are a sum over a set, a fold of the library.  `BytesIn` is shown to be the
number of elements of a set (each byte of each row is one), about which the library has
theorems; then an enqueue adds what it checked, a sweep and a settling only take away,
and the fallback card is the one write that makes a row longer.
Each action is shown to do to each row one of the things `Change` lists.  The attempt
to prove that a settled row never becomes live again failed for a good reason: when
the parts of an answer are enqueued a second time after their retention, the inline
sweep for the first part may delete the row of the second, which the same
transaction then inserts afresh.  `SettledRowsStay` now says exactly that.

`TurnsProofs` proves `TurnsStayHome` for every value of the constants, every kind
of fault included: a turn runs on a thread that was made for its scope.  The
inductive invariant `HInv` adds to `ThreadsStayHome` that the active thread of a
scope was made for it (`ActiveHome`), without which a turn could begin on a foreign
thread, and as much of the types as the argument needs (`Shapes`).  The actions
change much, but only five things happen to turns and threads: `HomeStep` is their
disjunction, `HomeKept` shows that each keeps `HInv`, `NextHomes` that every action
does one of them.

It goes on with the ledger and the actors, again for every value of the constants
and every kind of fault:

* `TurnsTyped`: every state is well typed;
* `NothingRunsTwice`: no event is given to Codex twice, and of two event ids of one
  message both only when the row of one was rejected;
* `EveryRestartScans`: the scan of the next start succeeds on every table that the
  process can leave behind;
* `NothingSettledInSilence`: a message is settled only with its reply committed, or
  after the final reply of its turn was durable; media, a turn interrupted with its
  thread and a turn that completed with nothing to show are settled without one.

They share the invariant `SInv`.  `SubmittedOnce` alone is not inductive: what keeps
a claim from submitting again is that a row still `received` was never submitted, and
that a row swept after its turn is not redelivered (`Fresh`).  An actor between the
claim and the resolution holds a turn of its own scope that is still open, with the
rows of its batch claimed for that turn (`OwnTurn`), which is also why the resolution
of a batch changes the rows of that batch and no others, as `ScanPasses` needs.

* `OneTurnAtATime`: Codex does not execute two turns of one scope, under `Reliable`
  (no store job and no final reply is refused).

Both halves of `Reliable` are needed: with "store" or with "sink" in `MayHappen` TLC
breaks `OneTurnPerScope` (section 5).  The invariant is `OInv`, kept by every step from
a state with `SInv`.  A turn that is executing is attended: the actor of its scope is
past the submission of exactly this turn, on the connection that executes it, and if it
is already finalising the turn it is to wait for the end of that connection
(`ExecAttended`).  An actor that is evicted while the process runs showed Idle, hence
is not so far (`ActorsCalm`); a stop of the process may leave a turn unattended, but
then nothing new begins before Codex is gone (`ProcessCalm`).

`Filtered` and `Unique` are recursive functions over a sequence.  `LeastNat` and `UpTo`
give induction over the natural numbers for a set in place of a property (a set of
numbers that is not empty has a least element, `WFMin`), and with it what these
functions keep is proved; the library's `SelectSeq`, for which there is no such fact,
is therefore not used in `Ledger` and `Turns`.

`ClientProofs` proves, from `RpcAssumption` alone:

* `OutcomeStaysTrue`: a call that returns "not applied" was not executed and never
  will be, and after an unknown outcome the epoch ends;
* `AskedAtMostOnce`: a request of the app-server gets at most one answer, and is
  given up only by ending the connection;
* `DeferralStaysOwned`: a thread holds its reports back only for a start that is under
  way, or the epoch ends.

"Not applied" is true for good only if no copy of the request is left that the
app-server could still take.  So the invariant says that a frame is in one place,
the actor's queue or the pipe (`WireInv`), and ties the stage of a call, its reply
and the refusals under way to the place of its request (`CallInv`); `AskInv` does the
same for the lease of an answer.  For these two the router's own state does not
matter: its steps are all quiet (`QuietStep`).

`DeferralIsOwned` is about that state.  `RouteInv` says that a pending start belongs
to a `turn/start` of this thread and has an owner (`PendInv`: its call, or an abort or
a turn in the router's queue), and, per call, where no thread may wait for it
(`StartOf`): before its begin command is handled, after a refusal of it, and once its
last command is done; a begin is queued once, and never while the start is pending.
Without the second part a begin that is handled after its caller gave up would leave
the thread deferring.  Everything the router does with a report is shown to settle
(`Settles`): it makes no start pending, and ends a deferral at most.  `StopDeferring`
routes the deferred reports with a fold, a chosen solution of an equation over the
sets of places: `FoldSolvable` proves that there is a solution, by extending one for
sets of at most n places to n + 1, and `FoldSettles` that any solution settles.

`MediaProofs` proves, from `AttachmentsAssumption`, `AsrAssumption` and
`MediaAssumption` (a transcription has a source that somebody wants):

* `SpeechStaysErasable`: decoded speech is always in a directory that a later sweep
  may clean, whatever call of a cleaner fails or is the last before a crash - unless
  that call was the one that fills the cleanup claim (section 5);
* `ChildrenAreOwned`: a group is signalled only while its leader is reaped neither by
  the bridge nor by anybody else, and a transcription that returns leaves no process of
  it unless it could not confirm its end; the lost identity, the failed poll and the
  dropped future with its detached reaping are among the paths;
* `FilesAlwaysStay`: no file is taken from under a turn or an installation, for any
  number of turns, files, reconciliations and faults.

The first two share an invariant that says in which order a cleaner goes and that
nobody cleans a running transcription (`Untouched`, `ErasedFirst`), that a claim which
is neither complete nor torn has a cleaner who is writing it (`ClaimWritten`), and
when the authority to signal a group is held (`Signals`); the third ties the snapshot
of a reconciliation and the detached lease jobs to the rows.

`OwnershipProofs` proves `OwnerRefined`: the supervisor implements `Owner`, so it
starts no second tree beside one that may be alive and reports success only when
nothing is left.  `Owner` counts trees that may be alive.  The invariant `SupInv`
says that all trees but the last are gone (`Earlier`), so that the count is 0 or 1;
each step is then one of the moves of `OwnerMove`, each a step or a stutter of
`Owner`.

`AdoptionProofs` proves, from `AdoptionAssumption` and `ScenesAssumption` (a scene
starts with mappings the bridge could have stored):

* `ReleasedStaysGone`: a generation is declared over only when no process of it can
  write its thread;
* `TableStaysSound`: the table stays one that `startup_fence` accepts, no two live
  sagas name one thread and no two scopes have it as their active mapping (a saga of one
  scope and a mapping of another may meet in one thread: section 5);
* `TurnStaysOwned`: an action property; a turn reaches only the process that resumed
  that thread for the generation that saga and mapping name when it starts.  The
  generation may have been fenced since the route was taken, but is not being released.

That nobody looks again between the route and the start is made good by `Granted`: the
actor of a scope does one thing at a time, so no release or recovery of its own begins
in between, and what others do meanwhile (a drain, a monitor, a shutdown) can fence the
generation but not leave it.

What connects the table with processes it does not know is that a process that can
write belongs to the generation the table names, and that wherever the code may
still declare this generation over, the only such process is the one it is about to
shut down, or there is none.

`InboundProofs` proves, from `IntakeBounds` (`ReceivedMax` not above the queue and
the budget, as `limits.rs` has it) and `ScenesAssumption` (what was told before the
start is foreign, and the sidecar has more places for frames than for events: `app.rs`
takes `NodeSidecarConfig::default`, 128 and 64, while `validate` alone would admit other
values):

* `AckedStaysKept`: an acknowledged message is in the ledger and, until its row is
  taken, where the router finds it, unless an actor dropped its copy; and a restart,
  which queues it again, has room for what was received;
* `CopiesAlwaysAgree`: every copy of a message has the scope of its row;
* `AcksAlwaysMatch`: an acknowledgement on its way to Node answers one event, once, and
  the write queue has room for every answer until Node has given up on an event;
* `FragmentsStayAccounted`: the reassembler counts what it holds and keeps its bounds.

For the socket the outcome of the handler is the acknowledgement.  For the sidecar
it travels over the worker, the write queue and the pipe to a waiter with the same
id, and ids are used again; the invariant says that an event on its way is in one
place (`Once`), that Node reuses no id of one that is (`Awaited`), and that what
arrives is about the waiter's message (`Matched`).  `Rooms` bounds the write queue: Node
waits for no more events than it may, the answers queued are of different events it waits
for, and at most one other frame, configure, is before them (`QueueLength`).  `FragInv`
ties the reassembler's counter to its entries; the sum is a fold, and again the number of
elements of a set.

`ExternalProofs` proves, from `ExternalStoreAssumption` and `ExternalAssumption`
(identities of turns and requests are different, a target is a turn of the same
thread):

* `VerdictIsTrue`: what is recorded of a mutation is what happened, and it happened
  at most once;
* `MaybeStaysFenced`: while a mutation may still take effect nobody else can take the
  fence of its thread;
* `TargetStaysOwn`: the bridge steers, interrupts and extends only what the same Lark
  actor made;
* `ReadyStaysComplete`: a thread that is ready misses no turn that has ended, unless
  its event is still to be taken;
* `AnsweredAtMostOnce`: an approval is answered at most once, and never before its
  claim shows it;
* `KnowledgeIsKept`: an action property; a recorded outcome is never recorded
  otherwise, and no reconnect opens an uncertain fence.

The invariant has a part for the tables, which every transaction keeps and which
makes the different ways to end an epoch the same (`CloseAll`), and one part per
question: `VerdictInv` follows a mutation from its command over the wire to its
answer, `OwnInv` says who made a target, `AnswerInv` follows approvals and has to
say which events are still in the queues of sessions that were superseded, and
`ReadyInv` says where the end of a turn is while a thread is reconciled.

All inductive invariants hold on the instances of section 3 as well: each was
checked with TLC before it was proved.

Only model-checked, and why:

* the liveness properties `RowsSettle`, `Drains`, `MediaSettles`, `ThreadsSettle`,
  `StopsAndSettles`, `NeverDeaf`: liveness under fairness is out of the prover's reach;
* `HeardInOrder`: it compares what `SelectSeq` and `SetToSortSeq` return, about which
  nothing can be proved here without induction over sequences; `DeferralStaysOwned`
  needs of the fold over the deferred reports only what every step of it keeps, while
  `HeardInOrder` would need the very sequence it produces.  Nor does it hold for
  every value of the constants: a completion repeated after its route was released, or
  after `OutcomeCap` others, is delivered again (section 5);
* `KeptInOrder`: it holds under the restrictions of `turns_order` only (section 3), so a
  theorem about every value of the constants would be false.

None of the modules declares a RECURSIVE operator.

## 5. Where code and documentation disagree

Shown by a run:

* **a final answer twice** (`outbox_double_final`).  A PATCH of the final card
  answered 5xx may have been applied and is retried; if the retry is rejected the
  pump posts the standalone fallback too.

Reachable in the models, excluded from the runs by their bounds:

* **two turns of one scope**: if the store refuses the resolution of an uncertain
  turn, `finalize_uncertain_and_settle_attachments` returns before
  `wait_for_epoch_end` (`scope.rs:3516`; `docs/modules/runtime.md:82` says that the
  resources of an uncertain turn wait for the end of the epoch); a final reply that
  cannot be projected ends the same way.  With "store" or "sink" in `MayHappen` TLC
  breaks `OneTurnPerScope`;
* **an evicted actor with work**: between taking an item and showing `Debouncing`
  an actor looks idle (`scope.rs:936`); the router may cancel it
  (`router.rs:1321`), and the event waits for the next start of the process.
  `docs/modules/runtime.md:47` says that running actors are not evicted.  An actor also
  lets go of what it holds when the store fails (`scope.rs:904`, 965, 1988, 2042).  The
  rows stay `received` and count against the bound on received rows, so that enough of
  them make the bridge refuse every further registration until it is started again
  (`Filled`, the exception of `NeverDeaf`);
* **a message twice under two event ids**: duplicates of a message are looked for among
  the rows that were not rejected (`dedup.rs:1890`), and a failed or uncertain turn
  rejects its rows.  The same message under another event id is then registered and
  handed to Codex again; `docs/modules/runtime.md:14` lists de-duplication by message id.
  `SubmittedOnce` counts event ids and says when a second one may follow;
* **a torn claim**: `create_private_file` creates the cleanup claim, secures it and then
  writes it (`asr.rs:696`); if the process dies or a call fails in between,
  `ensure_cleanup_claim` refuses that claim at every later cleanup and sweep (666-690)
  and the decoded speech stays.  The comment at `asr.rs:543` counts on a later sweep
  that can recreate the claim after a crash;
* **leases that stay**: `release_attachments` is called once (`scope.rs:3056`) and its
  error is not retried.  The leases of a turn with a known end are found as stale at a
  reconciliation; those of an uncertain turn whose release failed, or that a crash caught
  waiting for the end of its epoch (`scope.rs:3504`), stay for good;
* **a saga and a mapping on one thread**: `record_active_thread_with_context_tools`
  (`sessions.rs:346`) and `reactivate_archived_thread` (477) look at no saga.  Scope b
  archives its thread with `/new`, scope a reserves it, b takes it back with `/resume`:
  both have a claim, where `docs/thread-adoption.md:169` says that "a global uniqueness
  constraint prevents two Feishu scopes from reserving or mapping the same Codex thread".
  The adoption is not committed while b maps the thread, so only b runs turns on it;
* **a turn on a fenced thread**: between `adoption.route` (`scope.rs:2085`) and
  `start_turn` (2314) the actor subscribes, claims and assembles its input, and nothing
  looks at the saga again.  A fence that is written in between does not stop the turn;
* **a poisoned retry**: a copy of an event that was rejected for another reason
  fails with `InvalidTransition` at every retry (`dedup.rs:2576`) and keeps its
  place in the retry queue, which `limits.rs:416` describes as one for transient
  failures;
* **`/stop` waits**: it is an ordinary mailbox item (`scope.rs:721`) and is executed
  when the turn it was to stop is over; `docs/modules/runtime.md:70` says that it
  does not queue;
* the same conflict of reasons inside a batch (a second copy overflows the mailbox
  and is rejected as overloaded, then the policy refuses the first) makes
  `reject_item` fail and drops the rest of the batch until the next start.
  `turns_order` therefore refuses only messages with one copy;
* with a clock that steps back, a released tail is parked later than a row
  enqueued after it, and is sent after it (`pump.rs:1024`);
* a retry receipt that commits and reports an error lets the pump go on with rows
  the commit returned to `pending`; a restart posts them again (`pump.rs:962`);
* `/new` whose reply fails is replayed after a restart and archives the thread that
  was started since (`scope.rs:1304`).

Seen while modelling:

* a turn that completes with nothing visible is settled without a message
  (`outbox/sink.rs:190`, 219; intended: `docs/modules/replies-and-outbox.md:18`,
  `tests/reply_projector.rs:139`), so that "settled" does not always mean "answered";
* a turn that a crash leaves `starting` or `running` stays open: startup replays
  received rows only, although `docs/architecture/store.md:53` lists the
  classification of open turns.  Open turns count against
  `STORE_RECOVERY_TURN_MAX_ROWS`, and their attachment leases are never stale;
* the final reply and the resolution of a turn are two transactions;
  `docs/modules/store-and-recovery.md:60` lists them as one;
* **client**: a completion repeated after its route was released, or after
  `OutcomeCap` others, is delivered again; an invalidated route makes the next
  authoritative report end the connection;
* **supervisor**: `finish_running_epoch` waits for the exit of the process or a stop
  (`supervisor.rs:959`): a client that died alone stays published until then;
* **adoption**: the capacity check of `begin_acquisition` does not count recoveries
  (`adoption_coordinator.rs:1782`) although that of a recovery counts acquisitions; a
  domain lost while a release begins whose first transaction fails is given back
  without a monitor and its saga stays `owned` until the next message
  (`adoption_coordinator.rs:1294`), where `docs/thread-adoption.md` says that an
  unexpected exit is fenced; `fence` (1224) has no caller;
* **external**: `StopReader` ends the latest epoch, whoever reserved it
  (`external_recovery.rs:591`); a read the server refuses after the fence was taken
  leaves it taken until the session ends;
  `docs/external-codex-write-coordination.md:52` says that a timeout sends a default
  denial, but with an approval timeout of a second or more the claim is stale by
  then, nothing is sent and the connection is dropped;
* **sidecar**: the event worker ends for good when the write queue is full at a
  completion (`sidecar.rs:1178`), and the session answers "intake_unavailable" until
  the late acknowledgement of an event Node has abandoned ends the process
  (`NeverDeaf` shows that it does); the session looks for the exit of the process
  before it reads a line (`sidecar.rs:897`), so that a fatal state followed by the
  exit can be taken for a crash, where `docs/channel-wire-v1.md` says that it
  degrades for good; a fatal SDK error before the configure response is not
  reported and the start is retried; a protocol error does not reset the backoff as
  the other crashes do (`sidecar.rs:938`); a "connected" state dropped by a full queue
  costs a bootstrap until the connect deadline;
* **native socket**: every ping re-arms the watchdog, so with a ping interval not
  above `pong_timeout` a silent link is never noticed (`transport.rs:739`);
* **both sources**: an event that does not normalise (`bridge.rs:437`,
  `normalize.rs:775`) is negatively acknowledged each time it is redelivered; `NeverDeaf`
  shows that it does not keep other messages out.

## 6. Not modelled

* The **context registry** (`runtime/context.rs`): no turn is started with a context
  lease.  One thing its user should know: `revoke_turn_and_wait` does not wait
  for a response of a handle that has expired, against its comment (1438-1441).
* **Rendering, prompts, quotes, command parsing, configuration, CLI, HTTP, tokens,
  migrations**: conversions and I/O without a protocol.  **Live status**: reporting.
* The JavaScript of the **Codex sidecar**, and outbound requests through the
  **channel sidecar**.
* In modelled parts: power loss with `synchronous = NORMAL`; a message that Lark
  redelivers after its row was swept; `defer_outbox_after`, which nothing calls;
  staged media and progress cards in the actor; settings that change while the
  bridge runs, other than an event becoming refused; a resume that an orphaned
  process executes after the probe of a recovery; a reap by somebody else between
  an observation and the signal that follows it; the store error of an approval that is
  about to be answered; a fragment refused for its own size or for a total that does not
  fit the others (`fragments.rs:234`, 255), which changes nothing; Windows job objects.

## 7. Plan

Done: the modules of section 2 and the proofs of section 4.

Next, in this order:

1. the part of `HeardInOrder` that holds for every value of the constants (a turn is
   heard from its start), with the fold and the filter as recursive functions;
2. an abstract `Delivery` (a message is absent, pending, settled or unknown) and the
   proof that `Outbox` implements it;
3. staged media and progress cards in the actor; the JavaScript relay of the Codex
   sidecar.
