# A TLA+ verification of nntp-proxy

nntp-proxy stands between NNTP clients and several backend news servers. A
client sends commands; the proxy chooses a backend for each of them, keeps what
it learns about missing articles, retries elsewhere, and forwards exactly one
response. This directory holds TLA+ modules of the parts where that is hard to
get right, TLC configurations that check them on small instances, and TLAPS
proofs for instances of any size. Source paths below are relative to `src/src`.

## The system and its parts

| Part | Source | Module |
| --- | --- | --- |
| Article retry loop | `session/handlers/article_retry.rs`, `command_execution.rs`, `session/session_error.rs` | `ArticleRetry` |
| Tiered selection by availability | `router/mod.rs`, `cache/availability.rs` | `Routing` |
| What a lookup promises | the two above, seen from the client | `ArticleLookup` |
| Persistent availability index | `cache/availability_index.rs` | `AvailabilityIndex` |
| What the index promises | recording, lookup, restart | `NegativeFacts` |
| Connection pool, replacement cooldown | `pool/provider.rs` | `ConnectionPool` |
| Connection ownership and pool fate | `pool/connection_guard.rs`, `session/response_transfer.rs` | `PipelinedBatch` |
| Pipelined article window, batch lease | `session/handlers/per_command.rs` | `PipelinedBatch` |
| Stateful session, hybrid mode | `session/handlers/stateful.rs`, `hybrid.rs`, `session/state.rs` | `StatefulSession` |
| Order of backend and local replies | `session/multiline_framing.rs` | `StatefulSession` |
| Load accounting, stateful slots | `router/mod.rs`, `router/backend_info.rs` | planned |
| Terminator search over split chunks | `session/multiline_framing.rs` | planned |
| Adaptive precheck | `session/precheck.rs` | planned |
| Article cache, hybrid cache | `cache/article.rs`, `cache/hybrid.rs`, `cache/ttl.rs` | planned |
| Authentication, set-up of backend connections | `auth/handler.rs`, `session/auth_state.rs`, `pool/deadpool_connection.rs` | planned |
| Buffer pool, prewarming, life cycle, metrics | `pool/buffer.rs`, `pool/prewarming.rs`, `proxy/lifecycle.rs`, `metrics/` | planned |
| Configuration, TLS, TUI, process start-up | `config/`, `tls.rs`, `tui/`, `runtime.rs` | not modelled: sequential set-up, I/O and rendering |

How they interact: a client's session reads a *batch* of commands
(`per_command.rs`). A request for an article goes through the retry loop, which
loads what the cache knows of the article, asks the selector for a backend of
the first tier that may have it, checks a connection out of that backend's pool,
exchanges one request and response, and either forwards the response or learns
something (430: this provider lacks the article; failure: not this backend
again) and goes on. With a single backend a batch may instead be written
upstream ahead of its responses. A connection proven clean is kept for the rest
of the batch or returned to the pool; any other is removed. What is learned about
missing articles goes into the availability index, which survives restarts. A
session that needs a server's state (a selected group) becomes *stateful*: it
keeps one backend connection and relays lines and replies between it and the
client, with its own replies in between.

`PROJECT.json` lists every part, the hazards at their lines, and the lines each
definition translates.

## The modules

### Routing, ArticleLookup, ArticleRetry

`Routing` holds the selector's tier filter as constant operators. A *slot* is a
provider's bit in the availability bitmap; two accounts of one provider share it.
`Selectable` is the code's `select_backend` on an article route: a tier is passed
over only if all of its backends are known to miss the article.

`ArticleRetry` runs the loop of several sessions that ask for one article.
`missing` and `suppressed` are the request's `ArticleAvailability` and
`SuppressedBackends`; `retry`, `prefetched`, `swept` the loop's three flags; `pc`
says where the session awaits. `Start` loads the shared facts; `Exhausted`,
`FirstPass`, `RetryPass` are the loop condition and its two branches; the
`Sweep...` actions deliver the STAT replies of a parallel sweep one by one;
`Route`/`NoRetryableBackend` are routing; `BackendUnavailable`,
`ArticleNotFound`, `Forwardable` an attempt's outcomes. A transfer to the client
is `WriteChunk` (`wrote`: the client has part of the response) and ends in
`WriteSucceeds`, `ClientWriteFails` or `BackendReadFails`. The error goes through
the code's own classification (`FromClientWrite`, `AfterClientDelivery`,
`BlocksAnotherResponse`), and only that decides in `TransferFailed` whether the
loop may go on; `sent` counts the responses begun. `BackgroundProbe` is a prefetched STAT that outlives its request.
`Forget` and `Expire` are facts ageing out of the cache and articles out of
servers.

`ArticleLookup` is the abstract specification: each request is answered once, 430
is said only when no server holds the article, and a request stays unanswered only
if it waits for a backend or the client for ever (`Waiting`).

Assumptions: articles expire but do not come back; the cache stores availability
only, so it never answers by itself; adaptive precheck is off; requests name a
message-id; `retry_once`'s two tries are one outcome. With `SteadyLoad = FALSE`
a tier's pool loads may move while the selector reads them, so it may find
nobody with capacity.

### NegativeFacts, AvailabilityIndex

One shard of the index, for the keys of one block. `started`, `facts`, `current`,
`live`, `next` are the filter's fields. Where the code keeps a bit the model keeps
the time the provider was observed to miss the article, which no action reads, so
properties can speak of ages. Every operation reads the clock before it takes the
lock: `Readings` are the values it may hold by then. `Save` and `Restart` go
through the file format, which holds absolute times; a restart re-anchors them to
its own clock and translates the slots to the provider table of the new
configuration.

`NegativeFacts` is the abstract store: it may forget, knows a fact right after it
is recorded and never makes one up.

Assumptions: the clock does not go back; hash functions are abstracted (keys are
those that share a block and have distinct fingerprints); the victim of an
eviction is any entry; a TTL of zero is excluded. The TTL of `u64::MAX`, which
never rotates, and the latch that skips lookups in an index that has never been
filled are left out: the first has no retention to bound, the second only saves
time.

### ConnectionPool

A pool of one backend. `max` is deadpool's `max_size`, `cooldowns` the atomic
`active_cooldowns`. `remove_with_cooldown` is split where another thread can come
between: `CheckCap` (the load), `Count` (the add, which also computes the new
size), `Shrink` (the resize), `Drop` (the socket, and the timer); an expiry is
`Expire` and `Restore`, a clearing `ClearRead`, `ClearEmpty`, `ClearRestore`.
With `SingleThread = TRUE` (the default, `threads = 1`) none of these awaits and
no other call comes between. A connection is being opened ("connecting", an await)
between `Connect` and `Connected` or `ConnectFails`. deadpool is external: its
source is not in the repository, and the model gives out a slot only while the
pool's size is below `max_size`, as comments in `provider.rs` rely on. No property
depends on that. `CooledPlacesKept` speaks of the maximum alone: it leaves out the
place of each cooling connection. It does not say that the server's own limit is
kept, since a removal past the cap, or during shutdown, drops its socket without a
cooldown. The guard that takes a cooldown's count back is made inside the spawned
task, so a task dropped before its first poll would never count down; tokio drops
one only when the runtime ends. The model ends where shutdown closes the pool.

### PipelinedBatch

One session and the connections it uses, over several batches, of one client or
of one after another: concurrent sessions merely hold other connections. Of each
connection the model keeps where it is (`place`), the guard's `phase`, whether
bytes are queued on it (`pending`), and `owed`: the requests whose replies the
server has still to send. A reply read from a connection answers the first
request owed, whoever reads it; that is what makes a dirty connection harmful.

`stage` is where the session is: "route" and "send" before the window is
upstream, "window" in `forward_sent_article_window_responses`, "seq", "try" and
"wait" in sequential execution, "probe" while the STAT asked before a retry is
out, "switch" while the session becomes stateful, "tail" before the lease is
completed. The
`Window...` actions are the iterations of the window loop with each of their
exits; `Checkout...` the branches of `checkout_direct_backend_connection`; the
rest are an attempt's outcomes and `release_or_reuse_connection`. An action whose
name ends in `Leaves` is the same step when the write to the client fails.

Assumptions: bytes the server sends without being asked only come with the last
reply owed, and not between the reply to a STAT probe and the request behind it;
a transfer that fails is one outcome, after the first byte or before
it; the branch of the window loop that would send a request whose turn has come
is left out, and `WindowExact` shows that it is never taken.

The bytes of a trailing command that makes the session stateful are counted twice:
`handle_trailing_command` adds them before it hands the command over, and
`stateful_initial_client_bytes` adds them to the total it is handed, which the doc
comment describes as "Bytes already transferred client→backend". `Switched` does
the same, and `BytesRecordedOnce` says "once" of all other requests.

A client that leaves in the middle of a window makes `abandoned` true: from then
on a pooled connection may owe replies (`batch_dirty`, below), and `AnswersMatch`
and `PooledClean` say nothing more.

### StatefulSession

The loop of one stateful session between a client that pipelines lines, in pieces,
and a backend that answers in parts. `pending` is `BackendReplyTracker`'s queue,
`ordered` `BackendResponseOrder`'s, `writes` is `pending_backend_writes`;
`unflushed` are the requests in the buffered writer, some of which may be sent
early (`SentEarly`). `WriteReady`, `Drain`, `Select` are the three branches at the
top of the loop; `ReadBackend`, `ReadClient`, `ReadLastLine` what its reads may
return; `Forward` and `AnswerHere` what happens to a line. `Accept` is the
framing of one part of a reply, `ReadBackend` folds it over what was read. `Init`
includes the session that enters the loop with the command it switched on.

Assumptions: a backend sends nothing unasked and no overlong status line; the byte
counters and the accounting of stateful slots are left out.

## What the runs check

| Run | Instance | Shows |
| --- | --- | --- |
| `retry` | 2 sessions, 3 providers, 2 tiers | shared and local facts are true, no wrong 430, tiers respected, at most one response however a transfer fails, each failed attempt uses up its backend |
| `shared_slot` | 2 accounts of one provider, 2 others | a 503 about an article that exists means the servers to ask first have failed; tiers and 430s stay right; the loop implements `ArticleLookup`: only a silent peer keeps a request unanswered |
| `index` | 2 keys in a one-entry block, 7 instants | facts live less than three intervals, never look younger than they are, are never stranded |
| `index_layout` | layouts reorder and drop providers | no fact is moved to another provider or article; implements `NegativeFacts` |
| `pool_single` | size 4, 7 connections, one thread | the cooldown counter is exact, at least half is kept, size comes back, the maximum leaves out the places of cooling connections |
| `batch` | 2 batches of up to 4, window 2 | requests answered once, in order and with the reply to their own request, bytes of pipelined requests recorded once, leases can be completed, `in_flight` exact, pooled connections clean |
| `batch_backends` | 2 backends, sequential execution | pooled connections are clean even when clients leave, leases can be completed, every batch ends unless a peer stays silent |
| `stateful` | 3 lines of any kind, window 2 | replies are whole and in order, the tracker awaits exactly what is to come, every complete line is answered |

Bounds. Two sessions are enough for one to act on what another learned, three
providers in two tiers for a tier with an untried, a failed and a missing member.
Seven instants with an interval of two cover three rotations, a stale reading and
a restart. Two more connections than the pool's size let replacements meet
connections that are still cooling. A window of two with four requests is
refilled twice, and the second batch finds what the first left in the pool.
Three lines let a local reply stand between two of the backend, and a piece of a
line behind a window of two that is not full.
`MaxBackground`, `MaxTime`, `Skew`, `MaxBatch`, `MaxBatches`, `MaxLines` bound what would be
unbounded. Identities that nothing distinguishes are symmetric, except in runs
with a liveness property.

Fairness. `ArticleRetry` and `PipelinedBatch` assume weak fairness of the steps a
session takes by itself, since the runtime polls a task that is ready. An exchange
with a backend, a transfer or a write to the client is not fair: the code reads
replies without a timeout (`session/backend.rs:155-170`; the timeouts for reads
and commands in `constants.rs` are named only by a unit test), so a peer that stays connected and
silent holds its session for ever. The liveness properties say that nothing else
does: `LookupSpec` that a request which does not wait for ever is answered,
`BatchTerminates` that a batch ends or is stuck for good at one exchange.
Nothing is assumed of clients reading
batches, of background probes, of expiry or of other tasks. `StatefulSession`
assumes weak fairness of its loop and of the server's answers to what it has
received; nothing makes the client go on sending, or a buffered writer send
before it is flushed. As the number of lines is bounded, `EveryLineAnswered` can
say that again and again all complete lines are answered. `ConnectionPool` and
`AvailabilityIndex` state no liveness.

## Where code and comments disagree

Four runs show a behaviour that a comment excludes; `PROJECT.json` quotes each.

- `exhausted_503`: a sweep that learns 430 from the last providers is followed by
  routing, not by the loop condition; the client is told 503 instead of 430.
- `index_ttl`: a late first insert after a rotation postpones the next one, so
  facts are kept for up to one and a half times the TTL. `RetentionBound` is what
  holds instead.
- `pool_restore`: with several worker threads two expiries can apply their resizes
  in the other order, and the pool stays smaller for good; counter and maximum are
  updated in separate steps. In the same way the cap on cooldowns can be passed
  (`HalfKept`) and the places of cooling connections given out again
  (`CooledPlacesKept`). With one thread, the default, all of it holds
  (`pool_single`); the counter is exact on any number of threads (proved).
- `batch_dirty`: when a client leaves in the middle of a window, the fate of the
  connection is decided by the reply just read. Later replies that have not
  arrived yet are not taken into account, and the connection goes back to the
  pool. In sequential execution this cannot happen (`batch_backends`).

## What is proved

For all values of the constants that satisfy the named assumptions, in
`ArticleRetryProofs` (from `RoutingAssumption`, `RetryAssumption`),
`AvailabilityIndexProofs` (from `IndexAssumption`) and `ConnectionPoolProofs`
(from `PoolAssumption`):

- `TypeCorrectness`, `FactsCorrectness`, `NotFoundCorrectness`, `TierCorrectness`,
  `ResponseCorrectness`: the invariants of run `retry`. The inductive invariant
  adds two things. `TierKnown`: a session attempting a backend *knows* that
  earlier tiers miss the article, since `TierDiscipline` alone does not say why it
  stays true. `ReplyState`: how `pc`, `wrote`, `sent` and `reply` go together; one
  lemma shows that every error the loop goes on after leaves the client without
  bytes. Facts stay true because providers only lose articles.
- `BackendErrorCorrectness`: the action property of run `shared_slot`. When nothing
  is selectable, the first tier with a backend not known to miss the article
  consists of failed and of missing backends; a least such tier exists by
  well-foundedness, and `FactsCorrectness` makes what is known true.
- `AttemptsCorrectness`: the action property of run `retry`.
- `LookupRefinement`: every step is a step or a stutter of `ArticleLookup`.
- `TypeCorrectness`, `AgeCorrectness`, `ReachabilityCorrectness`,
  `FactsCorrectness`, `RetentionCorrectness` for the index. `FilterOK` says when
  each generation started relative to `next`, that a fact is at least as young as
  its generation's start and not younger than the last real 430; `FileOK` says the
  same of the file. `RetentionBound` follows by arithmetic on the two generations'
  starts, for any TTL, and any staleness of clock readings.

- `TypeCorrectness` and `CounterCorrectness` for the pool, on any number of threads:
  each cooldown in progress is one connection that cools or one call that has
  counted, so the counter is a cardinality, and each step changes both alike.
- `HalfCorrectness`, `RestoreCorrectness`, `CooledPlacesCorrectness`, assuming one thread.
  `OneThread` adds that at most one connection or clearing is inside a call
  (`Alone`) and how `max` and `cooldowns` go together while it is (`InStep`,
  `InStepClear`): they agree except between the two updates of one call. The places
  then follow from the exact counter: cooling connections are among those counted.

Only model-checked: liveness (`LookupSpec`'s fairness part, `BatchTerminates`,
`EveryLineAnswered`), `StoreSpec`, and everything
about `PipelinedBatch` and `StatefulSession`. Liveness under fairness is outside
the prover's reach.

## Plan

1. `RouterLoad`: pending counts, `CommandGuard`, stateful slots and the session's
   switch, cancellation of a query between `mark_backend_pending` and
   `complete_command`; the weighted and least-loaded choice as operators against a
   reference.
2. `MultilineFraming`: terminator search over split chunks against a definition on
   the whole stream, and the suffix that belongs to the next reply.
3. `Precheck`, then a composition with `ArticleRetry`; `ArticleCache` (merge,
   tier-aware expiry, invalidation racing an insert).
4. A composition of sessions with `ConnectionPool`: contention for the last
   connection, cooldowns that healthy connections cost.
5. `Auth`, connection set-up, buffer pool, life cycle, metrics.
6. Proofs: `AnswersInOrder`, `LeaseReusable` and `WindowExact` of
   `PipelinedBatch`; `TrackerExact` and `RepliesInOrder` of `StatefulSession`; the
   refinement of `NegativeFacts`; framing lemmas.

## Not modelled

Parsing of configuration, command lines and article bodies, yEnc, compression,
TLS, sockets and DNS, logging and the terminal interface are data conversion or
I/O without concurrent state. deadpool, foyer and tokio are external and appear
only as the code relies on them.
