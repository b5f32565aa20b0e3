# TLA+ verification of nostr-multi-platform

This directory holds TLA+ models of the nostr-multi-platform (NMP) kernel, the
TLC configurations that check them and the TLAPS proofs about them.  Everything
is translated from the Rust sources; paths below are relative to
`crates/nmp-core/src/` unless they name another crate (`nmp-store/...` is
`crates/nmp-store/src/...`).

## The system

NMP is a Rust framework for Nostr clients on several platforms.  A single actor
thread owns the kernel; it takes one message at a time (a host command, a relay
event, a signer reply, an idle tick), changes the state, and returns outbound
frames.  Other threads (relay workers, signers, stores, the host) only exchange
messages with it.

| component | state it keeps | operations | hard behaviour | what makes it correct |
|---|---|---|---|---|
| publish engine (`publish/engine*`, `publish/state.rs`) | per publish and relay: pending, in flight, accepted, in backoff, given up; unavailable relays | start, ack, tick, retry, cancel, relay up/down/auth, resume | timeouts against late answers, crash between send and answer, relays shared by publishes, backoff across restarts | no intent lost, nothing settled reopened, backoff honoured, everything settles |
| publish store (`publish/fs_store.rs`) | one durable record per open publish | upsert, delete, load_pending | writes fail; crash between writes | the record agrees with the row |
| emit gate (`publish/policy.rs`) | none | validate_publish_routing, relay_emit_is_sanctioned | replay of old records, retargeting | private envelopes reach pinned inboxes only |
| kernel publish wiring (`kernel/publish_*`, `kernel/handle_correlation.rs`, `kernel/identity_state.rs`) | handle/correlation index, bounded publish queue | publish, retry, cancel, drain of terminals | duplicate publishes, eviction, Stop/Start in one process | host verdicts are consistent and always come |
| action ledger (`kernel/action_ledger.rs`) | verdicts and stages per correlation id | record, take | order of producers | one verdict per dispatch |
| actor lifecycle (`actor/dispatch/cmd_lifecycle.rs`, `actor/loop_context.rs`) | running flag | Start, Stop, Reset, idle tick | commands while stopped | resumable at any time |
| relay events (`actor/dispatch/relay_events.rs`, `actor/relay_mgmt.rs`) | relay controls, `connected_urls` | Opened, Failed, Closed, Frame; spawn, sweep, reconnect | stale events of an old slot generation; what counts as a reconnect | the actor follows the pool; planned subscriptions are served again |
| relay pool and workers (`nmp-network`) | slots, generations, worker threads, pending frames | open, send, close, reconnect, preamble | threads, reconnect backoff, close racing reconnect, failed writes | no dead slot handed out, frames keep their order, no thread leaks |
| event store (`nmp-store/mem`) | events, tombstones, provenance, indexes, coverage rows | insert, delete, purge, gc, read | order of arrival of deletions and replacements; collection cut short | what is kept follows from the set of events, not from their order |
| ingest log and pull cursors (`nmp-store/mem/ingest_log.rs`, `kernel/pull_cursor.rs`, `kernel/store_wakeup.rs`) | log, floor, claims, registry, wakes | append, trim, open, advance, close, drain | host threads read while the actor appends and trims; shed commands | nothing is skipped silently, every entry reaches its host, the log is bounded |
| host page reads and feed pager (`nmp-native-runtime/app_mirror.rs`, `nmp-feed/pager.rs`) | a copied position | read a page, rebase on a gap | the copy is stale when used | as above |
| subscriptions (`subs/`), planner (`nmp-planner`) | interests, current plan, wire subs | register, recompile, diff, EOSE | recompile racing EOSE and reconnect | the wire matches the plan |
| NIP-42 (`nmp-nip42`) | per relay handshake | challenge, sign, OK | late sign replies, reconnect mid handshake | no REQ leaks while paused |
| signing (`actor/pending_sign`, `nmp-signers`, `nmp-nip46-runtime`) | parked operations | park, resolve, time out | late replies, account switch | each parked operation ends once |
| wallet (`nmp-wallet`) | Cashu proofs, saga, write-ahead log | send, redeem, melt, recover | crash between mint, relay and disk; account switch | no proof lost or counted twice |
| channels (`actor/`) | bounded mailboxes, drop counters | send, shed | overload | drops are counted |
| negentropy, messaging, feeds, NIP crates, runtimes, tooling | see `PROJECT.json` | | | |

The engine is called by the kernel within one turn of the actor; a call emits
frames into a queue that the actor sends after the call, and records verdicts
that the kernel drains into its views before the turn ends.  The publish store is
written through inside the calls.  Frames reach the socket through the pool: the
actor holds a handle (slot and generation), a worker thread per generation owns
the socket, and its events come back through a translator thread that drops those
of an older generation.  Accepted events go into the event store, whose mutations
append to the ingest log; hosts read the log page by page on their own threads
and are woken by the frames the actor emits.  `PROJECT.json` lists every
component, the ones not modelled included, and under `hazards` what is hard to
test, at its line.

## Modules

| module | models |
|---|---|
| `PublishEngine` | the engine, its store, the relays, the process; the properties |
| `DurableOutbox` | abstract: what the engine promises its host |
| `PublishKernel` | the kernel around the engine (extends it): commands, index, queue, what the host hears |
| `EventStore` | the in-memory event store |
| `PullLog` | ingest log, cursor registry, wakes, host reads, feed pager |
| `RelayPool` | actor, pool, translator and worker threads of one relay URL |
| `MCPublishEngine`, `MCPublishKernel`, `MCEventStore`, `MCPullLog`, `MCRelayPool` | symmetry sets, model values and event sets for TLC |
| `PublishEngineProofs` | type correctness, honest deadlines |
| `PublishDurabilityProofs` | rows and records, no failure while a relay is out of reach |
| `PublishOutboxProofs` | the refinement, and that an acceptance is for good |
| `PublishPrivacyProofs` | the emit gate |
| `PublishKernelProofs` | what the host hears: verdicts, promises, cancellations |
| `PullLogProofs` | wakes, retention, bounds and positions of the log, and that no skip is silent |
| `EventStoreProofs` | every invariant of the event store |
| `RelayPoolProofs` | every safety property of the relay pool |

### PublishEngine

`in_flight[h][r]` is `InFlight::per_relay` with two more facts folded in: the
time left to the entry's next deadline (`timer`: the in-flight deadline of an
`InFlight` entry, the retry instant of a `RelayError` entry) and whether the
relay was selected as a verified private inbox (`pinned`).  A handle without a
row maps every relay to `Absent`.  `store` is the durable record in the same
shape, `unavailable` is `unavailable_relays` (`auth` is an entry without a
clock, `down` one with), `frames` is the world outside: a frame sent on a live
connection (`open`) may be answered, one from an earlier connection (`past`) can
only come back as an echo of the stored event.  `pending_terminals` holds the
verdicts of the last call only, since the kernel drains them at once.

Time is relative.  The code compares `now_ms` with an instant plus a delay; the
model keeps the remaining time, and `TimePass` counts every timer down by one,
those of durable records too, because the code stores absolute instants.  A
retry instant that has passed and one that is missing from `pending_retries` are
read alike everywhere, and are both timer 0.

| action | code |
|---|---|
| `StartPublish`, `StartPublishStoreError`, `StartPublishNoTargets` | `start_publish_inner`: success, failed persist (the row stays), empty resolver result |
| `Tick` | `tick`: both sweeps, dispatch, finalize |
| `OnAck` | `on_ack`: fold an answer, or park the relay for AUTH |
| `RetryNow`, `CancelByHandle` | `retry_now`, `cancel_by_handle` |
| `MarkRelayAvailable` | `mark_relay_available`: retarget, dispatch to this relay, finalize |
| `MarkRelayUnavailable` | `mark_relay_unavailable`: demote and persist |
| `Start`, `Stop` | the lifecycle commands: every Start resumes from the store, also one sent to an actor that runs; Stop closes the sockets |
| `Crash`, `TimePass` | the environment |

`Finalize` is `finalize_completed_rows`; `on_ack` has its own copy of the same
steps and uses the same operator.  The resolver is external: the targets, and
for a private envelope which of them are pinned, are chosen freely, and freely
again when a reconnect re-resolves them.

Left out: the rendered status view and its recent lists, toasts, log lines, the
JSON of frames and records, URL canonicalisation (a relay is its canonical URL),
`UnsupportedAction` (no caller reaches it).

A Start that reloads a record may put an entry back in flight on a relay that is
down or waits for AUTH.  Such an entry is `Stranded`: no answer can come,
`next_deadline_ms` does not look at it, `tick` times it out.  `DeadlineIsHonest`
and `UnreachableIsNotFailure` name the exception, and the latter says that nothing
but a Start makes one.

### DurableOutbox

The promise without rows, timers, attempts, sockets or restarts: a record per
publish that names relays and remembers which of them took the event.  A record
is accepted or refused, carried on (it may learn of an acceptance, or of more
relays, and forgets neither), settled with exactly one verdict that is true of
it, or withdrawn; the event is sent only to relays its record names.
`PublishEngine!Outbox` maps `open` to `running`, `targets` and `taken` to the
stages in `store`, `reached` to `frames`, and `said` to the statuses in
`pending_terminals`.  The map reads the disk, never the rows, so a crash, a
restart, a timeout or a demotion must be invisible in it.

### PublishKernel

One action is one command or event together with the drain that follows it in
the same turn.  `index` is `HandleCorrelationIndex` (oldest pair first), `queue`
the bounded publish queue, `host[c]` what the host heard for correlation id `c`,
`withdrawn` a history variable: handles the user cancelled and nobody published
since.  `Publish` is `run_publish_engine_at` with its four outcomes,
`PublishRefused` its routing gate, `RetryPublishNow` and `CancelPublish` the two
verbs with their fallbacks, `EngineEvent` the relay events and Start/Stop,
`KernelTick` the idle tick, `KernelCrash` the death of the process.  The host
cancels with ids it holds.  Frames of commands sent while the actor is stopped
are queued by the code and sent at Start; the model emits them at once, which
differs only in when the relay may answer, and answers wait for `running`.

Event ids and dispatch ids are told apart (`IdAssumption`: 64 hex digits against
the 32 that `substrate/host_op.rs` mints), as `resolve` needs to look an id up in
both columns.  `record` of a handle that is already filed leaves its old dispatch
id mapped in the code and replaces the pair in the model; it does not happen, since
a filed handle has a row and a publish with a row is refused as a duplicate.

### EventStore

One action is one call of the `EventStore` trait on the in-memory backend, which
holds one mutex for the whole call.  An event is an id with the fields the store
reads; the set of events that exist is a constant (`Event`), relays deliver what
they hold (`Serves`) in any order and any number of times, and a filter is sent to
some of them (`AskedAt`).

| action | code |
|---|---|
| `Insert` | `insert` with its early returns in order: ephemeral, expired, tombstoned (a stranger's row is dropped), address tombstone, redelivery, kind:5, supersession, plain |
| `Get` | `get_by_id`, which moves the event to the end of `access_index` |
| `Purge`, `PurgeRelay` | `delete_by_filter`; by relay it is retention and the log stays silent |
| `GcStep` | `gc_step_with_pins`: reap, evict for room, purge old tombstones; cut short at any event by the time budget |
| `RecordCoverage` | the row an EOSE or a negentropy session writes, whatever the store still holds |
| `Tick` | the clock |

`access_index` keeps the order of last use as pairs of an earlier and a later id;
the code keeps sequence numbers and compares them.  `delivered`, `retired`,
`purged`, `mirror` and `forgotten` are history: what relays sent, what retention
took, what the host removed, what a consumer of the log holds, and what eviction
took under each coverage row since the row was last written.
The properties are stated over the events alone (`Newer`, `OwnDeletion`,
`Excused`), not over the store's bookkeeping.

An addressable event without a `d` tag has no address.  `handle_supersession`
compares it with every address of its author (`mem/insert.rs:246`, `None => true`)
where the LMDB backend gives it no rival (`lmdb/insert.rs:378`) and the guide says
that per-`d`-tag slots stay independent (`docs/builder-guide/21-framework-magic.md`).
The model does what the in-memory code does: such an event may displace any article
of its author and be refused for any (`Displaces`), and `Newer`, the relation of
`HeadIsNewest`, is only about events that have an address: the proof of
`HeadIsNewest` fails without the distinction, and for this reason.  A deletion binds
only while it `Stands`: a kind:5 that expires or that its author deletes is gone
from the store before its own effect is.

### PullLog

| action | code |
|---|---|
| `Ingest`, `Collect` | `log_append` and `log_gc_trim`, from the accepted path (which arms wakes) and from deletions outside it (which do not) |
| `RunCommand` | `OpenPullCursor`, `AdvancePullCursor`, `UnregisterPullCursor` off the actor's inbox |
| `Emit`, `OtherChange` | `make_update` with `drain_pull_wakes`: the flush of a running actor, when something changed |
| `EmitNow` | the frame that Start and Stop send whatever the flags say (and, with `running` as it is, every command that emits at once) |
| `HostOpen`, `HostClose`, `Snapshot`, `ReadPage` | the host thread: commands that a full inbox sheds, and `mirror_pull_page_raw_bytes` as two steps, the copy of the position and the read |
| `Pull`, `Rewind` | one turn of the feed pager's drain, and a restart of the feed |

An entry is a hit or a miss of the one interest shape, or a deletion.  `Oversize`
names entries whose raw event alone is over the byte cap of the read: `encode_page`
cuts the page before such a row, and when it is the first it returns
`RAW_TOO_LARGE` and no page, so `ReadPage` leaves the host `refused`, without a
position to post (`app_mirror.rs:192`; the doc of the function at line 242 says that
at least one entry is always delivered).  A refused host reads again at the next
wake, and is refused again.  `seen`, `lost`, `rebased`, `ops`, `promised` and `kept`
are history.

### RelayPool

Everything the pool and the actor keep is keyed by URL, so the module models one
URL and several slot generations.  Four kinds of thread take turns: the actor
(`control`, `connected`, `queued`, the planner's `plan` and the wire `rows`), the
pool's `slot` under its mutex, the translator, and one worker per generation with
its inbox, pending frames, registered preamble and the `wire`, what the relay has
received on the current connection.

`poolEvents` is the actor's inbox and its `relay_backlog` in order of arrival,
`staged` how many of the oldest are in the backlog.  With `MayFlood` other relays'
mail fills them: `Translate` offers its event to an inbox that may shed it, and the
actor serves the oldest event of the backlog or, past a batch of sixteen, the oldest
one still in the channel (`Serveable`).  `garbled` is history: the generations whose
newest event was shed or served before an older one of theirs.

| action | code |
|---|---|
| `Translate` | one turn of `translator_loop` with `apply_prepared`, and `RelayMailSink::send_event` (`Offered`) |
| `Stage` | `drain_command_lane` moves relay mail into the backlog |
| `Dial`, `DialFails`, `Redial` | `run_relay_worker`, its backoff and its permanent failures |
| `Flush`, `WriteFails`, `FlushFails`, `ReadFails`, `ObeyShutdown` | the turns of `run_connected_relay` |
| `AbsorbWhileWaiting` | `wait_before_reconnect` |
| `OpenInterest`, `CloseInterest` | a plan diff of one frame, routed or queued |
| `Start`, `Stop`, `AddRelay`, `RemoveRelay`, `ReconnectRelays`, `RegisterPreamble`, `SweepIdle` | the commands and sweeps that touch a relay control |
| `HandleOpened`, `HandleFailed`, `HandleClosed` | `handle_relay_event` on the event `Serve` takes, with the generation filter |

`RemoveRelay` evicts the wire rows of the URL (`Kernel::relay_removed`) and shuts the
worker; the recompilation it asks for is an `OpenInterest` or a `CloseInterest`.

`Health` takes the arms of the translator in the code's order as exclusive cases;
`SentFrames` folds `WithFrame`, one turn of `drain_pending`, over the inbox.

Left out: frames received, how long a backoff lasts, NIP-42 pauses, the startup
requests of a first connection, `Pool::shutdown`.

## Runs

| run | instance | checks |
|---|---|---|
| `PublishDurability` | 1 publish, 2 relays, 3 attempts, crash and stop | type and attempt budget; no completed row lingers; intents, acceptances and cancellations are durable; accepted is never sent again; the engine implements the outbox |
| `PublishShared` | a public and a private publish, 1 relay, failing store, crash | the emit gate |
| `PublishLiveness` | 1 publish, 2 relays, crash, Stop and Start at any time, fairness | everything settles; a dead relay does not block; unreachable is not failure; `next_deadline_ms` is when a tick has work; both but for entries a Start stranded |
| `KernelRestart` | 1 private publish, 2 ids, stop, early publish, crash | no contradictory verdicts; a cancel is the last word; a cancelled publish stays cancelled; bounds |
| `KernelFaults` | 1 publish, 2 ids, failing store, crash, Stop and Start, fairness | only a Start takes a dispatch the host waits on away from its row, and a row that keeps it answers |
| `StoreArticles` | 2 versions of an article, 2 deletions, an expiring note, 2 relays | tombstones exclude, indexes agree, nothing is lost or kept against its author, the head is the newest, the log is honest and so are coverage rows about what is evicted under them, deletions stick |
| `PullLog` | 1 protected cursor, 1 pager, 3 entries, one of them oversize, inbox of 2, Stop and Start, fairness | no silent skip but one (below), protected entries are kept, bounds, wakes match, positions never go back, every entry reaches its host unless the read is refused |
| `RelayPool` | 1 subscription, 2 generations, 4 commands and faults, an inbox that sheds and reorders, fairness | no dead slot is handed out, the actor follows the pool unless a newest event was garbled, preamble first, no orphaned subscription, silent reconnects replay, no worker leaks |
| `KernelLostPromise`, `StoreStranger`, `PullGap`, `ReconnectForgets` | as small as shows it | violations: see Findings |

Bounds.  Rows of different publishes touch only through a shared relay, the
queue and the index, so one publish is enough for row properties and two for the
shared ones.  Two relays give every mix of settled, open and unavailable.  Three
attempts separate first, middle and last; deadlines and backoffs of one or two
units put each timer before, at and after every other event.  In the store, two
versions of the same second reach the tie-break, two seconds separate a deletion
that is young from one that is purged, and room for two of five events makes the
collector evict.  In the log, three entries against a log of one and a lag of two
put the floor before, at and after each reader; a page and a scan budget of two
make pages full and cut.  In the pool a second generation is all that a stale
event or handle needs; four commands and faults together (a Start that ends a
Stop is free) reach open, stop, close and start, a failed write between a REQ and
its CLOSE, and a denial followed by a reconnect.  The proofs remove the bounds
for the properties they cover.

Deadlock is checked in the publish and store runs.  The pool and log runs turn it
off: with the commands, faults or sequence numbers of the instance used up every
thread may rightly be waiting.

Fairness.  The publish runs assume weak fairness of `Tick` (the actor loop ticks
the engine on every idle pass while it runs, `actor/loop_context.rs`) and of
`TimePass`; nothing is assumed of relays, the host, Start or the resolver, and
the liveness properties say from which behaviour of relays, of the running flag
and of the host they follow.  One of these is that Starts end: each Start reloads
the records, with the timers and attempts they had when they were written, so a
host that sends Start for ever can keep a publish open for ever.  `PullLog`
assumes it of the actor's commands and frames (one loop serves both, at least every
250 ms, the frames only while it runs; the property is about an actor that does not
stay stopped) and of a host thread that is in the middle of a read.  `RelayPool` assumes it of the translator, the actor's event
loop and the workers, each of which blocks on a channel or a poll that the event
wakes; faults are finite in every behaviour, so a relay that can be dialled is.

What does not hold, as the code is written:

- a Start puts back records older than the rows, so a row may count as in flight on
  a relay that is down, and be timed out and reported as failed there;
- the promises of `PublishKernel` need the index to be larger than the number of
  live dispatches;
- after a failed write the host may hear failed and then published;
- a deletion stops binding once its tombstone is purged by age;
- a coverage row written by an EOSE also covers a matching event that was evicted
  before, and removing the events of a relay lowers no row: `CoverageHonest` is about
  eviction under a row that is there;
- entries that are only collected reach a host with the next accepted event, and a
  cursor whose next row is over the cap does not move;
- when the newest event of a worker is shed, or let past an older one of the same
  worker, `connected_urls` stays wrong until that worker's next event, and a
  reconnect in between replays nothing.

### Findings

- `KernelLostPromise`: every Start, not only the one after a relaunch and also one
  sent to a running actor, replaces rows by their records and drops the correlation
  id the host waits on.
- `StoreStranger`: a stranger's kind:5 that arrives before the note it names
  keeps its place in the tombstone row when the author's own kind:5 is merged
  into it; the note's insert then drops the row as foreign and stores the note.
- `PullGap`: on a gap a reader takes `first_available_seq`, which is inclusive,
  as its position, which is exclusive; the first entry still in the log is
  skipped.  `SkipsAreReported` is the property with this one entry excepted.
- `ReconnectForgets`: the Failed arm clears the set from which the Opened arm
  tells a reconnect from a first dial, so after a reported failure the planned
  subscriptions are not sent to the new connection.  `SilentReconnectReplays` is
  what does hold.

## Proofs

Every theorem holds for arbitrary sets of handles, relays, ids, events, cursors
and subscriptions and for any limits, under the named assumptions of its module
(positive budgets, natural deadlines, well-formed events).  Where a theorem has a
hypothesis of its own, TLC shows a counterexample without it.

Each property rests on an inductive invariant that TLC checked on the run's
instance before it was proved.  The induction over steps is one lemma per action.

### Publish engine

- `TypeCorrect`: `Spec => []TypeOK`.  `TypeOK` is not inductive: an entry about
  to be dispatched must have an attempt left, so `TypeInv` adds that an open entry
  other than `InFlight` has used fewer than `MaxAttempts`, and that `Pending` and
  settled entries carry none.
- `NoLinger`: `Spec => []NoCompletedRowLingers`, even if every store write fails.
  One case per call; the calls that dispatch end in `Finalize`.
- `IntentDurable`, `SettlementDurable`, `NoGhost`: with a working store
  (`~StoreMayFail`), the record agrees with the row.  The inductive invariant
  `DurabilityInv` is `TypeInv`, `NoCompletedRowLingers` and `WriteThrough`: each
  row `Agrees` with its record (same relays; what the record settled is settled
  alike in memory; an acceptance is in both), no record is of a completed publish,
  and while the actor runs every record has its row.  The agreement is weaker than
  equality because `tick` and the dispatch after `persist` change rows without
  writing them; each such change is shown to keep any record in agreement
  (`DispatchAgrees`, `TickedAgrees`, `DemotedAgrees`), and each write to establish it.
- `EngineImplementsOutbox`: with a working store, `Spec => ImplementsOutbox`.
  From `DurabilityInv` every call is shown to be, for each publish, one of the
  outbox's five steps with a permitted send, or no change of what the outbox shows.
  `AcceptedForGood` follows from the same invariant.
- `PrivatePinned`: `Spec => []PrivateStaysPinned`, with no assumption on the store:
  the invariant says it of the records as well, since a restart reads them back.
- `DeadlinesAreHonest`: with no assumption on the store, the process or the host.
  The invariant is `LineInv`: `Pending` entries, in memory and on disk, wait for
  nothing (`dispatch_due` does not look at their clock, `next_deadline_ms` does).
  With it a tick changes the entry of a relay exactly when `next_deadline_ms` sees
  work for it, unless the entry is stranded.
- `UnreachableIsPending`: with a working store.  It is an action property proved from
  `DurabilityInv`, which is why it stands in `PublishDurabilityProofs`: the demotion
  of a dropped relay must be on disk, or the next Start undoes it (a failed write is
  the counterexample otherwise).  No call but `Start` strands an entry (`StrandStep`),
  and none settles a relay that is owed and away (`DownIsNotSwept`,
  `DownIsNotDispatched`, `OpenGetsNoVerdict`).

### Kernel

- `KernelTypeCorrect`: shapes and bounds of the index, the queue and the host's view.
- `VerdictsAgree` (working store): no id is told both published and failed.  `OneVoice`
  says that an id carried by a row was dispatched, has heard no verdict and is
  carried by no other row; every step is, for each id, a `VoiceMove`: at most one
  verdict, and only if afterwards no row carries the id.  A failed write breaks it:
  the host is told failed, the row stays and is sent.
- `WithdrawnIsFinal` (working store): a cancelled publish has neither row nor record;
  the record is what the next Start would bring back.
- `PromisesAreBacked` (an index with room for all handles; failing store, crashes,
  Stop and Start at any time): `Spec => OnlyStartBreaksPromises`.  Each step is shown
  to keep a waiting id on a live row, to answer it, or to be a Start that reloads the
  record of its row (`HonouredStep`).  `Named`, that the id of a
  row is one the host was given, and filed in the index under that row while the
  host waits, is the invariant it needs: a cancel by the id finds the row.  `EveryPromiseIsBacked`, without the exception, is what
  `KernelLostPromise` violates.
- `CancelIsFinal` (working store, room in the index): an id told cancelled hears no
  more.  Each row's id is filed under it and under no other handle, so the cancel finds the row
  (`Silenced`).  An evicted pair or a failed write leaves a row that no cancel finds.

### Event store

`StoreInv` is the conjunction of the properties with what makes them inductive:
`Accounted` (what is stored was delivered and not retired), `TombsJustified` and
`AddrsJustified` (each tombstone has an expiry, or a delivered kind:5 of its
deleter, behind it), `OneVersion` (no two versions of one address), and
`DeletionKept` (the author's young deletion is on record, at its own time or a later
one).  An insert is first shown to be one of four shapes (`InsertCases`: refused,
redelivered, a deletion, a replacement) and a collection to be one shape whatever
cut it short (`GcCases`); the invariant is then shown for each.

- `StoreTypeCorrect`, `TombstonesExclude`, `IndexesAlwaysAgree`, `LossIsJustified`,
  `NewestIsKept`, `LogIsComplete`, `CoverageIsHonest`, `DeletionsStick`: the eight
  invariants of the run, for any events in any order of arrival.  `CoverageHonest`
  is inductive through `Lowered`: a pass that evicts lowers each row below the oldest
  event it takes, so what earlier passes took under the same row stays above it.

### Pull log

`LogInv` is `Shape` (the log is the interval above the floor, the claims are those
of the registry), `PromisesPast` (no cursor was promised an entry that does not
exist), `OpenOnce` (a host opens its cursor once, so no open command of a registered
cursor is waiting), `WakesMatchLag` and `ProtectedKeepsItsEntries`.

- `WakesAgree`, `ProtectedKept`: the last two conjuncts.  `LogBounded`: the log never
  holds more than `LogMax` entries or the protected lag, from what one trim leaves
  (`FloorFacts`).  `NeverRewinds`: no step moves a registered cursor back; `OpenOnce`
  is what rules out an open that would.
- `LogTypeCorrect`, `SkipsReported`: `Bounds` adds the ranges of the history, and
  `Accounted` follows a position wherever it travels: what a page covers, what an
  advance waiting in the inbox claims, what the registry holds and what a host has
  copied are each covered by entries seen, lost or out of scope.  That a page covers
  what it says is `PageCovers`; it needs that the first n matches of a scan leave
  none behind them, and are all of them when they are fewer than n (`FirstNFacts`, by
  counting).

### Relay pool

`PoolInv` (`PoolInvariant`) joins the four threads: `Linked` (the actor has a
handle exactly while the pool holds the sender, and it is the slot's), `Tidy` (nothing
is heard of a generation before its turn, an ended thread owns nothing), `ShutdownsAreFinal`,
`LastWordCounts` (the last word
of a worker that returned is on its way or was taken), `NewsTravels` (an open socket
is known, or its Connected is the last event of its generation in one of the two
channels, or the inbox has garbled it), `PreamblesAhead`, and `ClosesFollow` (behind each REQ of a subscription
outside the plan there is a CLOSE: on the wire, pending, in the inbox or still queued
with the actor).  Worker steps and socket faults are first shown to be sound moves of
one worker (`WorkerMoves`), which keep the invariant together (`MovesKeep`).

- `PoolTypeCorrect`, `DeadWorkersAreReplaceable`, `ConnectionsAreKnown`,
  `PreambleGoesFirst`, `ClosedSubscriptionsClose`: its consequences.

`Forget` (kernel) and `SentFrames` (pool) are recursions over a sequence.  The
provers cannot do induction over data; the proofs take the least index at which the
claim fails, from the well-foundedness of the naturals, and show that there is none.

### Only model-checked

Liveness, as fairness is out of the prover's reach: `SettlesWhenAvailable`,
`DeadRelayDoesNotBlock`, `HostHearsBack`, `EntriesReachTheirHost`,
`SilentReconnectReplays`, `ClosedWorkersEnd`; and the four violations.

## Not modelled

- `Reset` of the actor, and session restore: it rebuilds the kernel around the
  same stores, and the publish records then wait for the next Start.
- The planner, the router and the resolver: pure functions of the relay lists;
  `RelayPool` and `PublishEngine` take their results as arbitrary.
- The LMDB backend: it is written to agree with the in-memory one and differs in
  transactions and encoding.
- Frame ingestion, signature verification, read models, feeds, threads,
  projections and FlatBuffers encodings: views and conversions over the store.
- NIP-42, pending signs, negentropy: their own state machines, with deadlines and
  account switches; only the effect of AUTH on publishing is modelled.
- The wallet.  Its Cashu saga and write-ahead log are the largest state machine
  left; a crash between the published token event and the signed history event is
  listed as a hazard.
- Cryptography, MLS, user interfaces, tooling and generated code.

## Plan

Every invariant and every action property the runs check is proved; what is left
is more of the system.

1. `PublishKernel` implements an abstract dispatch service (one verdict per id)
   as a refinement, from the invariants above; weaker hypotheses for
   `VerdictsAgree` when store writes fail.
2. `CashuSaga`: operation journal, mint, relay and disk as separate actors, crash
   and recovery; no proof lost, none counted twice.
3. `Subscriptions`: registry, recompilation, one-shot requests, the AUTH gate; the
   wire refines the plan; composed with `RelayPool`.
4. `AuthDriver`, `PendingSign`, `ActionLedger` with stage history, mailboxes.
5. Negentropy sessions.
