----------------------------- MODULE ArticleRetry -----------------------------
(***************************************************************************)
(* How a client session finds an article by message-id                     *)
(* (session/handlers/article_retry.rs and command_execution.rs).           *)
(*                                                                         *)
(* Several sessions ask for one article at a time.  Each keeps its own     *)
(* copy of the negative availability (which providers answered 430) and    *)
(* its own set of suppressed backends (those that failed this request),    *)
(* and shares with the others the cache of negative facts.  Background     *)
(* STAT probes feed the same cache.  A session runs the retry loop:        *)
(*                                                                         *)
(*   idle --Start--> loop --RetryPass--> sweep --EndSweep--> route         *)
(*                   loop --FirstPass--> route --Route--> attempt          *)
(*                               attempt --Forwardable--> write            *)
(*                                                                         *)
(* and comes back to "idle" with a reply.  A response is forwarded chunk   *)
(* by chunk; a transfer that fails yields an error, and what the error is  *)
(* decides whether the loop may go on.                                     *)
(*                                                                         *)
(* The cache here is the availability-only one: it stores no payloads, so  *)
(* it never answers a request by itself.                                   *)
(***************************************************************************)
EXTENDS Routing

CONSTANTS Sessions,       \* client sessions asking for the article
          StatMissing,    \* backends configured with stat_missing
          SteadyLoad,     \* TRUE: no pool load moves while one selection scans
          MaxBackground,  \* bound: background probes outstanding per backend
          NoBackend       \* no attempt in progress

ASSUME RetryAssumption ==
    /\ StatMissing \subseteq Backends
    /\ SteadyLoad \in BOOLEAN
    /\ MaxBackground \in Nat
    /\ NoBackend \notin Backends

\* ARTICLE and BODY behave alike; HEAD is swept but not prefetched; STAT is
\* neither.
Kinds == {"fetch", "head", "stat"}

Replies == {"forwarded", "notFound", "backendError", "closed"}

PCs == {"idle", "loop", "sweep", "route", "attempt", "write"}

VARIABLES
    holders,     \* slots whose provider holds the article
    cache,       \* slots cached as having answered 430 for it
    background,  \* background[b]: prefetch STATs outstanding at b
    pc,          \* where each session is in the retry loop
    kind,        \* the request's command
    missing,     \* request-local negative availability
    suppressed,  \* request-local suppressed backends
    retry,       \* is_retry_attempt
    prefetched,  \* non_primary_tier_prefetch_started
    swept,       \* retry_stat_sweep_done
    probing,     \* backends with a sweep probe outstanding
    target,      \* the backend of the current attempt
    wrote,       \* bytes_written > 0 in the transfer in progress
    sent,        \* responses of which the client may have a byte
    reply        \* "none", "pending", or the outcome of the last request

shared  == <<holders, cache, background>>
request == <<kind, missing, suppressed, retry, prefetched, swept, probing,
             target, wrote, sent>>
vars    == <<shared, pc, request, reply>>

HasArticle(b) == slot[b] \in holders

\* spawn_non_primary_tier_stat_prefetch: one STAT to every eligible provider
\* outside tier 0, for ARTICLE and BODY only.
Prefetch(k, miss, supp) ==
    LET cands == IF k = "fetch"
                 THEN {b \in ProbeCandidates(StatMissing, miss, supp) : tier[b] > 0}
                 ELSE {}
    IN background' = [b \in Backends |->
                         background[b] + (IF b \in cands THEN 1 ELSE 0)]

\* parallel_retry_stat_sweep's candidates; a round of one is not worth it.
SweepCandidates(s) ==
    LET cands == ProbeCandidates(StatMissing, missing[s], suppressed[s])
    IN IF kind[s] # "stat" /\ Cardinality(cands) >= 2 THEN cands ELSE {}

Init ==
    /\ holders \in SUBSET Slots
    /\ cache \in SUBSET (Slots \ holders)  \* facts restored from the last run
    /\ background = [b \in Backends |-> 0]
    /\ pc         = [s \in Sessions |-> "idle"]
    /\ kind       = [s \in Sessions |-> "stat"]
    /\ missing    = [s \in Sessions |-> {}]
    /\ suppressed = [s \in Sessions |-> {}]
    /\ retry      = [s \in Sessions |-> FALSE]
    /\ prefetched = [s \in Sessions |-> FALSE]
    /\ swept      = [s \in Sessions |-> FALSE]
    /\ probing    = [s \in Sessions |-> {}]
    /\ target     = [s \in Sessions |-> NoBackend]
    /\ wrote      = [s \in Sessions |-> FALSE]
    /\ sent       = [s \in Sessions |-> 0]
    /\ reply      = [s \in Sessions |-> "none"]

\* Bound: every active request may still add two prefetch rounds.
BackgroundRoom ==
    \A b \in Backends :
        background[b] + 2 * (1 + Cardinality({s \in Sessions : pc[s] # "idle"}))
            <= MaxBackground

\* route_and_execute_request up to the loop: copy the cached facts, start the
\* first prefetch round.
Start(s) ==
    /\ pc[s] = "idle"
    /\ BackgroundRoom
    /\ \E k \in Kinds :
        /\ kind' = [kind EXCEPT ![s] = k]
        /\ Prefetch(k, cache, {})
    /\ missing' = [missing EXCEPT ![s] = cache]
    /\ sent' = [sent EXCEPT ![s] = 0]
    /\ reply' = [reply EXCEPT ![s] = "pending"]
    /\ pc' = [pc EXCEPT ![s] = "loop"]
    /\ UNCHANGED <<holders, cache, suppressed, retry, prefetched, swept, probing,
                   target, wrote>>

\* The handler returns with outcome r, after n more responses have reached the
\* client; its local state is gone.
Return(s, r, n) ==
    /\ reply'      = [reply EXCEPT ![s] = r]
    /\ sent'       = [sent EXCEPT ![s] = @ + n]
    /\ wrote'      = [wrote EXCEPT ![s] = FALSE]
    /\ pc'         = [pc EXCEPT ![s] = "idle"]
    /\ kind'       = [kind EXCEPT ![s] = "stat"]
    /\ missing'    = [missing EXCEPT ![s] = {}]
    /\ suppressed' = [suppressed EXCEPT ![s] = {}]
    /\ retry'      = [retry EXCEPT ![s] = FALSE]
    /\ prefetched' = [prefetched EXCEPT ![s] = FALSE]
    /\ swept'      = [swept EXCEPT ![s] = FALSE]
    /\ target'     = [target EXCEPT ![s] = NoBackend]
    /\ UNCHANGED <<shared, probing>>

\* A reply of the proxy's own is written, or its write fails and ends the
\* session.
ReturnLocally(s, r) == Return(s, r, 1) \/ \E n \in {0, 1} : Return(s, "closed", n)

\* Mutant of Exhausted: a failed backend counts as one without the article.
ExhaustedCountsFailures(s) ==
    /\ pc[s] = "loop"
    /\ AllExhausted(missing[s] \union {slot[b] : b \in suppressed[s]})
    /\ ReturnLocally(s, "notFound")

\* The loop condition fails: every configured slot is known missing.
Exhausted(s) ==
    /\ pc[s] = "loop"
    /\ AllExhausted(missing[s])
    /\ ReturnLocally(s, "notFound")

\* A first pass goes straight to routing, after the second prefetch round.
FirstPass(s) ==
    /\ pc[s] = "loop"
    /\ ~AllExhausted(missing[s])
    /\ ~retry[s]
    /\ IF prefetched[s]
       THEN UNCHANGED background
       ELSE Prefetch(kind[s], missing[s], suppressed[s])
    /\ prefetched' = [prefetched EXCEPT ![s] = TRUE]
    /\ pc' = [pc EXCEPT ![s] = "route"]
    /\ UNCHANGED <<holders, cache, kind, missing, suppressed, retry, swept,
                   probing, target, wrote, sent, reply>>

\* A retry sweeps the remaining providers with parallel STATs, once.
RetryPass(s) ==
    /\ pc[s] = "loop"
    /\ ~AllExhausted(missing[s])
    /\ retry[s]
    /\ probing' = [probing EXCEPT ![s] = IF swept[s] THEN {} ELSE SweepCandidates(s)]
    /\ swept' = [swept EXCEPT ![s] = TRUE]
    /\ pc' = [pc EXCEPT ![s] = "sweep"]
    /\ UNCHANGED <<shared, kind, missing, suppressed, retry, prefetched, target,
                   wrote, sent, reply>>

\* Mutant of SweepMissing: any probe reply is taken for a 430.
SweepMissingAnyReply(s, b) ==
    /\ pc[s] = "sweep" /\ b \in probing[s]
    /\ missing' = [missing EXCEPT ![s] = @ \union {slot[b]}]
    /\ cache' = cache \union {slot[b]}
    /\ probing' = [probing EXCEPT ![s] = @ \ {b}]
    /\ UNCHANGED <<holders, background, pc, kind, suppressed, retry, prefetched,
                   swept, target, wrote, sent, reply>>

\* One sweep probe of b comes back, in any order: 430 is recorded locally and
\* in the cache, another status is ignored, a failed exchange suppresses b.
SweepMissing(s, b) ==
    /\ pc[s] = "sweep" /\ b \in probing[s]
    /\ ~HasArticle(b)
    /\ missing' = [missing EXCEPT ![s] = @ \union {slot[b]}]
    /\ cache' = cache \union {slot[b]}
    /\ probing' = [probing EXCEPT ![s] = @ \ {b}]
    /\ UNCHANGED <<holders, background, pc, kind, suppressed, retry, prefetched,
                   swept, target, wrote, sent, reply>>

SweepPresent(s, b) ==
    /\ pc[s] = "sweep" /\ b \in probing[s]
    /\ probing' = [probing EXCEPT ![s] = @ \ {b}]
    /\ UNCHANGED <<shared, pc, kind, missing, suppressed, retry, prefetched,
                   swept, target, wrote, sent, reply>>

SweepUnavailable(s, b) ==
    /\ pc[s] = "sweep" /\ b \in probing[s]
    /\ suppressed' = [suppressed EXCEPT ![s] = @ \union {b}]
    /\ probing' = [probing EXCEPT ![s] = @ \ {b}]
    /\ UNCHANGED <<shared, pc, kind, missing, retry, prefetched, swept, target,
                   wrote, sent, reply>>

\* The sweep is over; the loop goes on to routing without looking at its
\* condition again.
EndSweep(s) ==
    /\ pc[s] = "sweep" /\ probing[s] = {}
    /\ pc' = [pc EXCEPT ![s] = "route"]
    /\ UNCHANGED <<shared, request, reply>>

\* try_backend_for_article: the selector returns a backend...
Route(s) ==
    /\ pc[s] = "route"
    /\ \E b \in Selectable(missing[s], suppressed[s]) :
        target' = [target EXCEPT ![s] = b]
    /\ pc' = [pc EXCEPT ![s] = "attempt"]
    /\ UNCHANGED <<shared, kind, missing, suppressed, retry, prefetched, swept,
                   probing, wrote, sent, reply>>

\* Mutant of NoRetryableBackend: the first failed backend ends the request.
NoSecondBackend(s) ==
    /\ pc[s] = "route"
    /\ suppressed[s] # {} \/ Selectable(missing[s], suppressed[s]) = {}
    /\ ReturnLocally(s, "backendError")

\* ... or None, answered with "503 Backend error".  The selector reads pool
\* loads twice, so when they move it may also reject every selectable backend.
NoRetryableBackend(s) ==
    /\ pc[s] = "route"
    /\ Selectable(missing[s], suppressed[s]) = {} \/ ~SteadyLoad
    /\ ReturnLocally(s, "backendError")

\* prepare_backend_attempt gives up: the exchange failed twice, or the reply
\* could not be parsed.
BackendUnavailable(s) ==
    /\ pc[s] = "attempt"
    /\ suppressed' = [suppressed EXCEPT ![s] = @ \union {target[s]}]
    /\ retry' = [retry EXCEPT ![s] = TRUE]
    /\ target' = [target EXCEPT ![s] = NoBackend]
    /\ pc' = [pc EXCEPT ![s] = "loop"]
    /\ UNCHANGED <<shared, kind, missing, prefetched, swept, probing, wrote, sent, reply>>

\* The backend answers 430, to the request or to the STAT asked before it on a
\* retry.  The fact is recorded before the reply is drained; a drain that fails
\* is a backend error and does not make the next pass a retry.
ArticleNotFound(s) ==
    /\ pc[s] = "attempt"
    /\ ~HasArticle(target[s])
    /\ missing' = [missing EXCEPT ![s] = @ \union {slot[target[s]]}]
    /\ cache' = cache \union {slot[target[s]]}
    /\ \E drained \in BOOLEAN : retry' = [retry EXCEPT ![s] = @ \/ drained]
    /\ target' = [target EXCEPT ![s] = NoBackend]
    /\ pc' = [pc EXCEPT ![s] = "loop"]
    /\ UNCHANGED <<holders, background, kind, suppressed, prefetched, swept,
                   probing, wrote, sent, reply>>

\* Any other status is forwarded to the client.
Forwardable(s) ==
    /\ pc[s] = "attempt"
    /\ pc' = [pc EXCEPT ![s] = "write"]
    /\ UNCHANGED <<shared, request, reply>>

\* Errors are the variants of ResponseTransferError; "Backend" stands for both
\* BackendEof and Io.

\* Mutant: the error of the cleanup replaces the error of the write.
FromClientWriteLost(disconnect, preserved) ==
    IF ~preserved THEN "Backend"
    ELSE IF disconnect THEN "ClientDisconnect" ELSE "ClientWrite"

\* from_client_write_after_cleanup and the conversion to SessionError: what a
\* failed write to the client becomes once the backend's response was drained,
\* or could not be.
FromClientWrite(disconnect, preserved) ==
    IF disconnect THEN "ClientDisconnect"
    ELSE IF preserved THEN "ClientWrite" ELSE "ClientWriteUnpreserved"

\* after_client_delivery.
AfterClientDelivery(e) == IF e = "Backend" THEN "DeliveredPrefix" ELSE e

\* Mutant: only client writes block another response.
BlocksFailedClientWrites(e) == e \in {"ClientWrite", "ClientWriteUnpreserved"}

\* blocks_another_response.
BlocksAnotherResponse(e) ==
    e \in {"ClientWrite", "ClientWriteUnpreserved", "DeliveredPrefix"}

\* Mutant of TransferFailed: the failed backend is not suppressed.
TransferFailedForgotten(s, e, n) ==
    \/ /\ e = "ClientDisconnect" \/ BlocksAnotherResponse(e)
       /\ Return(s, "closed", n)
    \/ /\ ~(e = "ClientDisconnect" \/ BlocksAnotherResponse(e))
       /\ target' = [target EXCEPT ![s] = NoBackend]
       /\ wrote' = [wrote EXCEPT ![s] = FALSE]
       /\ sent' = [sent EXCEPT ![s] = @ + n]
       /\ pc' = [pc EXCEPT ![s] = "loop"]
       /\ UNCHANGED <<shared, kind, missing, suppressed, retry, prefetched, swept,
                      probing, reply>>

\* The loop is handed the error of a transfer: it returns, or suppresses the
\* backend and goes round, without making the next pass a retry.  n tells
\* whether the failing write itself may have begun a response.
TransferFailed(s, e, n) ==
    \/ /\ e = "ClientDisconnect" \/ BlocksAnotherResponse(e)
       /\ Return(s, "closed", n)
    \/ /\ ~(e = "ClientDisconnect" \/ BlocksAnotherResponse(e))
       /\ suppressed' = [suppressed EXCEPT ![s] = @ \union {target[s]}]
       /\ target' = [target EXCEPT ![s] = NoBackend]
       /\ wrote' = [wrote EXCEPT ![s] = FALSE]
       /\ sent' = [sent EXCEPT ![s] = @ + n]
       /\ pc' = [pc EXCEPT ![s] = "loop"]
       /\ UNCHANGED <<shared, kind, missing, retry, prefetched, swept, probing, reply>>

\* write_current_and_remaining_chunks: the first chunk of several is written.
WriteChunk(s) ==
    /\ pc[s] = "write" /\ ~wrote[s]
    /\ wrote' = [wrote EXCEPT ![s] = TRUE]
    /\ sent' = [sent EXCEPT ![s] = @ + 1]
    /\ UNCHANGED <<shared, pc, kind, missing, suppressed, retry, prefetched, swept,
                   probing, target, reply>>

\* The last chunk is written and flushed.
WriteSucceeds(s) ==
    /\ pc[s] = "write"
    /\ Return(s, "forwarded", IF wrote[s] THEN 0 ELSE 1)

\* A chunk or the flush cannot be written to the client, which may have part of
\* it; what the backend still sends is drained, or cannot be.
ClientWriteFails(s) ==
    /\ pc[s] = "write"
    /\ \E disconnect \in BOOLEAN, preserved \in BOOLEAN :
        \E n \in IF wrote[s] THEN {0} ELSE {0, 1} :
            TransferFailed(s, FromClientWrite(disconnect, preserved), n)

\* The next chunk cannot be read from the backend.
BackendReadFails(s) ==
    /\ pc[s] = "write"
    /\ TransferFailed(s, IF wrote[s] THEN AfterClientDelivery("Backend") ELSE "Backend", 0)

\* Mutant of BackgroundProbe: one probe finishes twice.
BackgroundProbeTwice(b) ==
    /\ background[b] > 0
    /\ background' = [background EXCEPT ![b] = @ - 2]
    /\ \/ ~HasArticle(b) /\ cache' = cache \union {slot[b]}
       \/ UNCHANGED cache
    /\ UNCHANGED <<holders, pc, request, reply>>

\* A background STAT finishes; only a 430 leaves a trace.
BackgroundProbe(b) ==
    /\ background[b] > 0
    /\ background' = [background EXCEPT ![b] = @ - 1]
    /\ \/ ~HasArticle(b) /\ cache' = cache \union {slot[b]}
       \/ UNCHANGED cache
    /\ UNCHANGED <<holders, pc, request, reply>>

\* The cache forgets facts: TTL, rotation, replacement, restart.
Forget ==
    /\ \E gone \in (SUBSET cache) \ {{}} : cache' = cache \ gone
    /\ UNCHANGED <<holders, background, pc, request, reply>>

\* Environment: a provider drops the article at the end of its retention.
Expire ==
    /\ \E gone \in (SUBSET holders) \ {{}} : holders' = holders \ gone
    /\ UNCHANGED <<cache, background, pc, request, reply>>

Attempt(s) == BackendUnavailable(s) \/ ArticleNotFound(s) \/ Forwardable(s)

Write(s) ==
    WriteChunk(s) \/ WriteSucceeds(s) \/ ClientWriteFails(s) \/ BackendReadFails(s)

\* What a session does by itself ...
Local(s) == FirstPass(s) \/ RetryPass(s) \/ EndSweep(s) \/ Route(s)

\* ... and what it does when a backend or the client lets it.
Exchange(s) ==
    \/ \E b \in Backends :
        SweepMissing(s, b) \/ SweepPresent(s, b) \/ SweepUnavailable(s, b)
    \/ Attempt(s) \/ Write(s)
    \/ Exhausted(s) \/ NoRetryableBackend(s)

\* The session awaits a backend's reply or a write to the client.  Neither has
\* a timeout: it lasts until the peer goes on or the connection breaks.
Waiting(s) ==
    \/ pc[s] \in {"attempt", "write"}
    \/ pc[s] = "sweep" /\ probing[s] # {}
    \/ pc[s] = "loop" /\ AllExhausted(missing[s])
    \/ pc[s] = "route" /\ Selectable(missing[s], suppressed[s]) = {}

Next ==
    \/ \E s \in Sessions : Start(s) \/ Local(s) \/ Exchange(s)
    \/ \E b \in Backends : BackgroundProbe(b)
    \/ Forget
    \/ Expire

\* The runtime polls a task that can go on.  Nothing is assumed of backends and
\* clients.
Fairness == \A s \in Sessions : WF_vars(Local(s))

Spec == Init /\ [][Next]_vars /\ Fairness
-----------------------------------------------------------------------------
\* The types of the retry loop's shared and request-local state.
TypeOK ==
    /\ holders \in SUBSET Slots
    /\ cache \in SUBSET Slots
    /\ background \in [Backends -> Nat]
    /\ pc \in [Sessions -> PCs]
    /\ kind \in [Sessions -> Kinds]
    /\ missing \in [Sessions -> SUBSET Slots]
    /\ suppressed \in [Sessions -> SUBSET Backends]
    /\ retry \in [Sessions -> BOOLEAN]
    /\ prefetched \in [Sessions -> BOOLEAN]
    /\ swept \in [Sessions -> BOOLEAN]
    /\ probing \in [Sessions -> SUBSET Backends]
    /\ target \in [Sessions -> Backends \union {NoBackend}]
    /\ wrote \in [Sessions -> BOOLEAN]
    /\ sent \in [Sessions -> Nat]
    /\ reply \in [Sessions -> Replies \union {"none", "pending"}]

\* Every negative fact, cached or request-local, is true: the provider said 430
\* and an article that is gone stays gone.  Facts are written by attempts,
\* sweeps and background probes of any session, in any order
\* (record_authoritative_article_missing, record_availability_missing).
NegativeFactsSound ==
    /\ cache \intersect holders = {}
    /\ \A s \in Sessions : missing[s] \intersect holders = {}

\* "430 no such article" is said only when no provider holds the article, no
\* matter which backends failed, were busy or shared a slot on the way
\* (execute_article_retry_loop, send_430_to_client).
NoFalse430 == \A s \in Sessions : reply[s] = "notFound" => holders = {}

\* A fallback tier is asked only when no provider of an earlier tier holds the
\* article; a busy or failing server does not move the lookup on
\* (select_backend's early None, README: tiers).
TierDiscipline ==
    \A s \in Sessions : pc[s] \in {"attempt", "write"} =>
        \A c \in Backends : tier[c] < tier[target[s]] => ~HasArticle(c)

\* At most one response reaches the client per request, and none while the loop
\* may still make another attempt or answer 430 or 503: whichever chunk failed,
\* on whichever side, and whether or not the cleanup failed as well, the error
\* says so (after_client_delivery, from_client_write_after_cleanup,
\* blocks_another_response).
OneResponse ==
    \A s \in Sessions :
        /\ sent[s] <= 1
        /\ pc[s] \in {"loop", "sweep", "route", "attempt"} => sent[s] = 0
        /\ reply[s] \in {"forwarded", "notFound", "backendError"} => sent[s] = 1

\* Unless pool loads move under the selector, "503 Backend error" about an
\* article that exists is really due to failures: some backend failed this
\* request, no earlier tier has the article, and every backend of the failed
\* one's tier that has it failed this request too (NoRetryableBackend).
BackendErrorMeansFailure ==
    [][\A s \in Sessions :
          (SteadyLoad /\ reply[s] = "pending" /\ reply'[s] = "backendError") =>
              \/ holders = {}
              \/ \E b \in suppressed[s] : \A c \in Backends :
                    HasArticle(c) =>
                        /\ tier[c] >= tier[b]
                        /\ tier[c] = tier[b] => c \in suppressed[s]]_vars

\* "all backends exhausted ... sending 430": a request that learned that every
\* provider lacks the article is answered 430, not 503.  The code violates it.
ExhaustedMeans430 ==
    [][\A s \in Sessions :
          (reply[s] = "pending" /\ reply'[s] = "backendError") =>
              ~AllExhausted(missing[s])]_vars

\* A request never learns less, and an attempt that does not answer the client
\* takes its backend out of the running, whichever way it failed; so no backend
\* is attempted twice and the loop ends (unavailable_backends, availability).
AttemptsUseUpBackends ==
    [][\A s \in Sessions : (pc[s] # "idle" /\ pc'[s] # "idle") =>
          /\ missing[s] \subseteq missing'[s]
          /\ suppressed[s] \subseteq suppressed'[s]
          /\ (pc[s] \in {"attempt", "write"} /\ pc'[s] = "loop") =>
                ~Available(target[s], missing'[s], suppressed'[s])]_vars

\* The retry loop does what ArticleLookup promises the client: a request gets
\* one reply, the reply is right about a missing article, and only a backend or
\* the client can keep it waiting.
Lookup == INSTANCE ArticleLookup WITH
              Servers <- Slots, holders <- holders, answer <- reply,
              waiting <- [s \in Sessions |-> Waiting(s)]

LookupSpec == Lookup!Spec
=============================================================================
