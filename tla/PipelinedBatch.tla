---------------------------- MODULE PipelinedBatch ----------------------------
(***************************************************************************)
(* A client's batch of pipelined commands and the backend connections it   *)
(* is executed on (session/handlers/per_command.rs, command_execution.rs,  *)
(* pool/connection_guard.rs, session/response_transfer.rs).                *)
(*                                                                         *)
(* With one backend, article requests of a batch are written upstream      *)
(* ahead of their responses, at most Window at a time.  When that breaks,  *)
(* or cannot be done, requests are executed one after the other.  A        *)
(* connection whose exchange was proven complete is kept for the batch, or *)
(* goes back to the pool, where the next client finds it.                  *)
(*                                                                         *)
(* A connection's owed is what the server still has to answer on it: a     *)
(* reply read from it is the reply to the first of them, whoever reads it. *)
(***************************************************************************)
EXTENDS Naturals, Sequences, FiniteSets

CONSTANTS Backends,
          Conns,        \* connection identities
          None,
          Window,       \* MAX_UPSTREAM_ARTICLE_WINDOW
          MaxBatch,     \* commands in a batch, at most MAX_PIPELINE_DEPTH
          MaxBatches    \* batches read, each by the client before or another

ASSUME BatchAssumption ==
    /\ IsFiniteSet(Backends) /\ Backends # {}
    /\ None \notin Backends \union Conns
    /\ Window \in Nat \ {0} /\ MaxBatch \in Nat \ {0} /\ MaxBatches \in Nat

VARIABLES
    conn,       \* conn[c]: place, backend, phase, owed, pending
    stage,      \* where the session is in its batch
    batch,      \* the batch's number
    size,       \* its pipelineable commands,
    total,      \* with the trailing command, if there is one
    at,         \* index of the current request
    known,      \* window: requests known to be missing
    sent,       \* window: requests sent upstream
    inFlight,   \* window: in_flight
    cur,        \* the connection of the exchange in progress
    lease,      \* the connection kept for this batch
    target,     \* retry_once: the backend that is tried a second time
    suppressed, \* backends this request will not try again
    recorded,   \* request bytes were recorded for the whole window
    counted,    \* counted[i]: how often request i's bytes were recorded
    answers,    \* responses written to the client of this batch
    abandoned   \* a client left while replies to its window were still to come

conns   == <<conn, cur, lease, abandoned>>
window  == <<known, sent, inFlight>>
request == <<target, suppressed>>
vars == <<conns, stage, batch, size, total, at, window, request, recorded, counted, answers>>

Unused == [place |-> "none", backend |-> None, phase |-> "idle",
           owed |-> <<>>, pending |-> FALSE]

Init ==
    /\ conn = [c \in Conns |-> Unused]
    /\ stage = "idle" /\ batch = 0 /\ size = 0 /\ total = 0 /\ at = 1
    /\ known = {} /\ sent = {} /\ inFlight = 0
    /\ cur = None /\ lease = None /\ abandoned = FALSE
    /\ target = None /\ suppressed = {}
    /\ recorded = FALSE
    /\ counted = [i \in 1..MaxBatch |-> 0]
    /\ answers = <<>>

Id(i) == <<batch, i>>
Local == <<0, 0>>                        \* a reply the proxy makes itself
-----------------------------------------------------------------------------
(* Connections, as functions from connection states to connection states.  *)

Put(cs, c, place) == [cs EXCEPT ![c].place = place]
Removed(cs, c)    == [cs EXCEPT ![c] = Unused]

\* check_tcp_alive fails when bytes are queued, and may find others or a closed
\* socket.
MayBeAlive(c) == ~conn[c].pending

\* Connections that checkout_connection_guard may yield: recycled or new.
CheckoutFrom(cs, b) ==
    {c \in Conns : \/ cs[c].place = "pool" /\ cs[c].backend = b /\ ~cs[c].pending
                   \/ cs[c].place = "none"}
CheckedOut(cs, c, b) ==
    [cs EXCEPT ![c] = [@ EXCEPT !.place = "held", !.backend = b, !.phase = "idle"]]

Sent(cs, c, ids) ==
    [cs EXCEPT ![c] = [@ EXCEPT !.phase = "inflight", !.owed = @ \o ids]]

\* The framer has consumed the reply to the first request owed; bytes that were
\* read with it are queued.
Received(cs, c, pending) ==
    [cs EXCEPT ![c] = [@ EXCEPT !.phase = "complete", !.owed = Tail(@),
                                !.pending = pending]]

\* connection_reuse_after_response and pool_fate after a complete response whose
\* client write failed: the connection is retired only if bytes are queued.
AfterClientWrite(cs, c) ==
    IF cs[c].pending THEN Removed(cs, c) ELSE Put(cs, c, "pool")

\* Bytes behind a reply are later replies, or, after the last one owed, bytes
\* the server should not have sent.
PendingAfter(c, stray) == {FALSE} \union IF Len(conn[c].owed) > 1 \/ stray THEN {TRUE} ELSE {}
-----------------------------------------------------------------------------
\* A batch is read, of this client or of the next one.  It is sent upstream as a
\* window when select_single_backend_article_window finds one.
ReadBatch ==
    /\ stage = "idle" /\ batch < MaxBatches
    /\ batch' = batch + 1
    /\ size' \in 0..MaxBatch
    /\ total' \in {size', size' + 1} \intersect (1..MaxBatch)
    /\ stage' \in {"seq"} \union
                  IF size' > 1 /\ Cardinality(Backends) = 1 THEN {"route"} ELSE {}
    /\ at' = 1
    /\ recorded' = FALSE
    /\ counted' = [i \in 1..MaxBatch |-> 0]
    /\ answers' = <<>>
    /\ UNCHANGED <<conns, window, request>>

\* The session ends with an error.  BatchBackendConnection::drop removes the lease
\* as if its backend had failed.
Abort(cs) ==
    /\ stage' = "idle"
    /\ cur' = None /\ lease' = None
    /\ conn' = IF lease = None THEN cs ELSE Removed(cs, lease)
    /\ known' = {} /\ sent' = {} /\ inFlight' = 0
    /\ target' = None /\ suppressed' = {}
    /\ UNCHANGED <<batch, size, total, at, recorded, counted>>

AllCounted == [i \in 1..MaxBatch |-> IF i <= size THEN counted[i] + 1 ELSE counted[i]]

Answered(of) == Append(answers, [request |-> at, of |-> of])
-----------------------------------------------------------------------------
(* The window.                                                             *)

Upstream == (1..size) \ known

\* write_known_missing_responses_for_entire_window.
AllKnownMissing ==
    /\ stage = "route"
    /\ answers' = [i \in 1..size |-> [request |-> i, of |-> Local]]
    /\ counted' = AllCounted
    /\ stage' = "seq"
    /\ at' = size + 1
    /\ UNCHANGED <<conns, batch, size, total, window, request, recorded>>

AllKnownMissingLeaves ==
    /\ stage = "route"
    /\ \E k \in 0..(size - 1) : answers' = [i \in 1..k |-> [request |-> i, of |-> Local]]
    /\ Abort(conn)
    /\ UNCHANGED abandoned

\* load_cached_availability_and_route_article_window_requests and the checkout;
\* the lease is empty at the start of a batch.
RouteWindow ==
    /\ stage = "route"
    /\ known' \in SUBSET (1..size) /\ known' # 1..size
    /\ \E b \in Backends : \E c \in CheckoutFrom(conn, b) :
        /\ conn' = CheckedOut(conn, c, b)
        /\ cur' = c
    /\ stage' = "send"
    /\ UNCHANGED <<lease, abandoned, batch, size, total, at, sent, inFlight, request,
                   recorded, counted, answers>>

CheckoutFails ==
    /\ stage = "route"
    /\ stage' = "seq"
    /\ UNCHANGED <<conns, batch, size, total, at, window, request, recorded, counted, answers>>

\* The first k requests of S, in order.
FirstOf(S, k) ==
    SelectSeq([i \in 1..MaxBatch |-> i],
              LAMBDA i : i \in S /\ Cardinality({j \in S : j < i}) < k)
Ids(is) == [k \in DOMAIN is |-> Id(is[k])]
Elements(is) == {is[k] : k \in DOMAIN is}

\* write_and_flush_article_window_requests.
SendWindow ==
    /\ stage = "send"
    /\ LET first == FirstOf(Upstream, Window)
       IN /\ conn' = Sent(conn, cur, Ids(first))
          /\ sent' = Elements(first)
          /\ inFlight' = Len(first)
    /\ counted' = AllCounted /\ recorded' = TRUE
    /\ stage' = "window"
    /\ UNCHANGED <<cur, lease, abandoned, batch, size, total, at, known, request, answers>>

\* RetryAllSequentially: nothing was recorded or answered.
SendFails ==
    /\ stage = "send"
    /\ conn' = Removed(conn, cur) /\ cur' = None
    /\ known' = {}
    /\ stage' = "seq"
    /\ UNCHANGED <<lease, abandoned, batch, size, total, at, sent, inFlight, request,
                   recorded, counted, answers>>

\* From request i on, one after the other; their bytes are already recorded.
RetrySequentially(i) ==
    /\ stage' = "seq" /\ at' = i
    /\ known' = {} /\ sent' = {} /\ inFlight' = 0
    /\ conn' = Removed(conn, cur) /\ cur' = None
    /\ UNCHANGED <<lease, abandoned, batch, size, total, request, recorded, counted>>

WindowKnownMissing ==
    /\ stage = "window" /\ at \in known
    /\ answers' = Answered(Local)
    /\ at' = at + 1
    /\ UNCHANGED <<conns, stage, batch, size, total, window, request, recorded, counted>>

\* The guard of the live connection is dropped with the window.
WindowKnownMissingLeaves ==
    /\ stage = "window" /\ at \in known
    /\ Abort(Removed(conn, cur))
    /\ UNCHANGED <<answers, abandoned>>

\* AlreadySentResponseError::Read.
WindowReadFails ==
    /\ stage = "window" /\ at \in Upstream
    /\ RetrySequentially(at)
    /\ UNCHANGED answers

WindowStray == \A i \in Upstream : i <= at

\* Mutants: the refill sends the last request, or is not counted.
WindowReplyLastFirst ==
    /\ stage = "window" /\ at \in Upstream
    /\ \E pending \in PendingAfter(cur, WindowStray) :
        LET got    == Received(conn, cur, pending)
            unsent == {i \in Upstream \ sent : i > at}
            more   == SelectSeq([i \in 1..MaxBatch |-> i],
                                LAMBDA i : i \in unsent /\ \A j \in unsent : j <= i)
        IN /\ conn' = IF more = <<>> THEN got ELSE Sent(got, cur, Ids(more))
           /\ sent' = sent \union Elements(more)
           /\ inFlight' = inFlight - 1 + Len(more)
    /\ answers' = Answered(Head(conn[cur].owed))
    /\ at' = at + 1
    /\ UNCHANGED <<cur, lease, abandoned, stage, batch, size, total, known, request, recorded, counted>>

WindowReplyUncounted ==
    /\ stage = "window" /\ at \in Upstream
    /\ \E pending \in PendingAfter(cur, WindowStray) :
        LET got   == Received(conn, cur, pending)
            more  == FirstOf({i \in Upstream \ sent : i > at}, Window - (inFlight - 1))
        IN /\ conn' = IF more = <<>> THEN got ELSE Sent(got, cur, Ids(more))
           /\ sent' = sent \union Elements(more)
           /\ inFlight' = inFlight - 1
    /\ answers' = Answered(Head(conn[cur].owed))
    /\ at' = at + 1
    /\ UNCHANGED <<cur, lease, abandoned, stage, batch, size, total, known, request, recorded, counted>>

\* The reply is forwarded, then the window is refilled behind it.
WindowReply ==
    /\ stage = "window" /\ at \in Upstream
    /\ \E pending \in PendingAfter(cur, WindowStray) :
        LET got   == Received(conn, cur, pending)
            more  == FirstOf({i \in Upstream \ sent : i > at}, Window - (inFlight - 1))
        IN /\ conn' = IF more = <<>> THEN got ELSE Sent(got, cur, Ids(more))
           /\ sent' = sent \union Elements(more)
           /\ inFlight' = inFlight - 1 + Len(more)
    /\ answers' = Answered(Head(conn[cur].owed))
    /\ at' = at + 1
    /\ UNCHANGED <<cur, lease, abandoned, stage, batch, size, total, known, request, recorded, counted>>

\* Mutant: the request that was just answered is executed again.
WindowRefillFailsHere ==
    /\ stage = "window" /\ at \in Upstream
    /\ \E i \in Upstream \ sent : i > at
    /\ answers' = Answered(Head(conn[cur].owed))
    /\ RetrySequentially(at)

\* The reply is forwarded, but the refill cannot be written.
WindowRefillFails ==
    /\ stage = "window" /\ at \in Upstream
    /\ \E i \in Upstream \ sent : i > at
    /\ answers' = Answered(Head(conn[cur].owed))
    /\ RetrySequentially(at + 1)

\* handle_response_transfer_error after the reply was read to its end ...
WindowReplyLeaves ==
    /\ stage = "window" /\ at \in Upstream
    /\ \E pending \in PendingAfter(cur, WindowStray) :
        Abort(AfterClientWrite(Received(conn, cur, pending), cur))
    /\ abandoned' = (abandoned \/ Len(conn[cur].owed) > 1)
    /\ UNCHANGED answers

\* ... and when it was not, because the backend failed.
WindowReplyFails ==
    /\ stage = "window" /\ at \in Upstream
    /\ Abort(Removed(conn, cur))
    /\ UNCHANGED <<answers, abandoned>>

\* Mutant: the connection is kept without looking for queued bytes.
WindowEndsUnchecked ==
    /\ stage = "window" /\ at > size
    /\ conn' = Put(conn, cur, "lease") /\ lease' = cur
    /\ cur' = None
    /\ known' = {} /\ sent' = {}
    /\ stage' = "seq"
    /\ UNCHANGED <<abandoned, batch, size, total, at, inFlight, request, recorded, counted, answers>>

\* The flush; the connection is kept for the batch unless bytes are queued.
WindowEnds ==
    /\ stage = "window" /\ at > size
    /\ IF conn[cur].pending
       THEN conn' = Removed(conn, cur) /\ lease' = lease
       ELSE conn' = Put(conn, cur, "lease") /\ lease' = cur
    /\ cur' = None
    /\ known' = {} /\ sent' = {}
    /\ stage' = "seq"
    /\ UNCHANGED <<abandoned, batch, size, total, at, inFlight, request, recorded, counted, answers>>

WindowEndsLeaves ==
    /\ stage = "window" /\ at > size
    /\ Abort(Removed(conn, cur))
    /\ UNCHANGED <<answers, abandoned>>
-----------------------------------------------------------------------------
(* One request after the other.                                            *)

\* Mutant: the retry of a window records the bytes of its requests again.
NextRequestRecords ==
    /\ stage = "seq" /\ at <= size
    /\ counted' = [counted EXCEPT ![at] = @ + 1]
    /\ stage' = "try"
    /\ target' = None /\ suppressed' = {}
    /\ UNCHANGED <<conns, batch, size, total, at, window, recorded, answers>>

\* execute_pipelineable_command_and_record_request_bytes, or, after a window,
\* execute_pipelineable_command_with_recorded_request_bytes.
NextRequest ==
    /\ stage = "seq" /\ at <= size
    /\ counted' = IF recorded THEN counted ELSE [counted EXCEPT ![at] = @ + 1]
    /\ stage' = "try"
    /\ target' = None /\ suppressed' = {}
    /\ UNCHANGED <<conns, batch, size, total, at, window, recorded, answers>>

\* The command behind the pipelineable ones is next.
Trailing == size < at /\ at = total

\* handle_trailing_command: an oversized or invalid line is answered 501, and its
\* bytes are not recorded.
TrailingRejected ==
    /\ stage = "seq" /\ Trailing
    /\ answers' = Answered(Local)
    /\ at' = at + 1
    /\ UNCHANGED <<conns, stage, batch, size, total, window, request, recorded, counted>>

TrailingRejectedLeaves ==
    /\ stage = "seq" /\ Trailing
    /\ Abort(conn)
    /\ UNCHANGED <<answers, abandoned>>

\* handle_trailing_command: another line is recorded and executed, ...
TrailingRequest ==
    /\ stage = "seq" /\ Trailing
    /\ counted' = [counted EXCEPT ![at] = @ + 1]
    /\ stage' = "try"
    /\ target' = None /\ suppressed' = {}
    /\ UNCHANGED <<conns, batch, size, total, at, window, recorded, answers>>

\* ... or, when it needs a server's state, recorded; handle_command_batch then
\* completes the lease and the session switches.
TrailingSwitches ==
    /\ stage = "seq" /\ Trailing
    /\ counted' = [counted EXCEPT ![at] = @ + 1]
    /\ conn' = IF lease = None THEN conn ELSE Put(conn, lease, "pool")
    /\ lease' = None
    /\ stage' = "switch"
    /\ UNCHANGED <<cur, abandoned, batch, size, total, at, window, request, recorded, answers>>

\* switch_to_stateful_mode: the command is sent on a connection of the client's
\* own, and its bytes are added to the total that was handed over, which has them
\* already.  The client's batches end here (see StatefulSession).
Switched ==
    /\ stage = "switch"
    /\ counted' = [counted EXCEPT ![at] = @ + 1]
    /\ stage' = "idle"
    /\ UNCHANGED <<conns, batch, size, total, at, window, request, recorded, answers>>

\* No connection can be had, or the command not be sent on it.
SwitchFails ==
    /\ stage = "switch"
    /\ stage' = "idle"
    /\ UNCHANGED <<conns, batch, size, total, at, window, request, recorded, counted, answers>>

\* A cached article, a 430 or a 503: the proxy answers itself.
AnswerLocally ==
    /\ stage = "try" /\ target = None
    /\ answers' = Answered(Local)
    /\ at' = at + 1
    /\ stage' = "seq"
    /\ UNCHANGED <<conns, batch, size, total, window, request, recorded, counted>>

AnswerLocallyLeaves ==
    /\ stage = "try" /\ target = None
    /\ Abort(conn)
    /\ UNCHANGED <<answers, abandoned>>

\* route, or the second try of retry_once.
Tried(b) ==
    /\ stage = "try"
    /\ IF target = None THEN b \notin suppressed ELSE b = target

\* execute_backend_attempt: the request is written, or, on a retry and where the
\* backend is configured for it, a STAT for the same article first.
FirstExchange == {"wait"} \union IF suppressed # {} THEN {"probe"} ELSE {}

Exchange(cs, c, b) ==
    /\ conn' = Sent(CheckedOut(cs, c, b), c, <<Id(at)>>)
    /\ cur' = c
    /\ stage' \in FirstExchange
    /\ UNCHANGED <<abandoned, batch, size, total, at, window, request, recorded, counted, answers>>

\* No lease; or one of another backend, which goes back to the pool.
CheckoutNew(b) ==
    /\ Tried(b)
    /\ lease # None => conn[lease].backend # b
    /\ LET cs == IF lease = None THEN conn ELSE Put(conn, lease, "pool")
       IN \E c \in CheckoutFrom(cs, b) : Exchange(cs, c, b)
    /\ lease' = None

\* A lease of this backend that fails its health check is removed.
CheckoutUnhealthy(b) ==
    /\ Tried(b)
    /\ lease # None /\ conn[lease].backend = b
    /\ LET cs == Removed(conn, lease)
       IN \E c \in CheckoutFrom(cs, b) : Exchange(cs, c, b)
    /\ lease' = None

\* The pool has capacity: a second connection is used and the lease kept.
CheckoutBeside(b) ==
    /\ Tried(b)
    /\ lease # None /\ conn[lease].backend = b /\ MayBeAlive(lease)
    /\ \E c \in CheckoutFrom(conn, b) : Exchange(conn, c, b)
    /\ UNCHANGED lease

\* It has none, or its checkout failed: the lease itself is used.
CheckoutLease(b) ==
    /\ Tried(b)
    /\ lease # None /\ conn[lease].backend = b /\ MayBeAlive(lease)
    /\ conn' = Sent(Put(conn, lease, "held"), lease, <<Id(at)>>)
    /\ cur' = lease /\ lease' = None
    /\ stage' \in FirstExchange
    /\ UNCHANGED <<abandoned, batch, size, total, at, window, request, recorded, counted, answers>>

\* A failed try: once more on this backend, then never again for this request.
TryFailed(b) ==
    /\ IF target = None THEN target' = b /\ suppressed' = suppressed
       ELSE target' = None /\ suppressed' = suppressed \union {b}
    /\ stage' = "try"
    /\ UNCHANGED <<abandoned, batch, size, total, at, window, recorded, counted, answers>>

\* checkout_connection_guard fails; the lease is already given up.
CheckoutError(b) ==
    /\ Tried(b)
    /\ \/ /\ lease # None /\ conn[lease].backend # b
          /\ conn' = Put(conn, lease, "pool")
       \/ /\ lease # None /\ conn[lease].backend = b
          /\ conn' = Removed(conn, lease)
       \/ /\ lease = None
          /\ UNCHANGED conn
    /\ lease' = None
    /\ TryFailed(b)
    /\ UNCHANGED cur

\* Mutant: the guard is released although its request is unanswered.
ExchangeFailsReleased ==
    /\ stage \in {"probe", "wait"}
    /\ conn' = Put(conn, cur, "pool") /\ cur' = None
    /\ TryFailed(conn[cur].backend)
    /\ UNCHANGED lease

\* An exchange fails before a status is known: its guard is dropped.
ExchangeFails ==
    /\ stage \in {"probe", "wait"}
    /\ conn' = Removed(conn, cur) /\ cur' = None
    /\ TryFailed(conn[cur].backend)
    /\ UNCHANGED lease

\* The STAT was answered, but not 430: the request follows on its connection.
ProbeAnswered ==
    /\ stage = "probe"
    /\ conn' = Sent(Received(conn, cur, FALSE), cur, <<Id(at)>>)
    /\ stage' = "wait"
    /\ UNCHANGED <<cur, lease, abandoned, batch, size, total, at, window, request, recorded,
                   counted, answers>>

GivenUp ==
    /\ target' = None
    /\ suppressed' = suppressed \union {conn[cur].backend}
    /\ cur' = None
    /\ stage' = "try"

\* handle_invalid_backend_response: a task sends DATE on the connection.
InvalidReply ==
    /\ stage = "wait"
    /\ conn' = Put([conn EXCEPT ![cur].owed = Tail(@)], cur, "salvage")
    /\ GivenUp
    /\ UNCHANGED <<lease, abandoned, batch, size, total, at, window, recorded, counted, answers>>

\* salvage_with_health_check: replies that are still owed come before DATE's.
Salvage(c) ==
    /\ conn[c].place = "salvage"
    /\ \/ conn[c].owed = <<>> /\ conn' = Put(conn, c, "pool")
       \/ conn' = Removed(conn, c)
    /\ UNCHANGED <<cur, lease, abandoned, stage, batch, size, total, at, window, request,
                   recorded, counted, answers>>

\* Mutant: queued bytes are not looked for.
ReleaseUnchecked(cs) ==
    /\ conn' = Put(cs, cur, IF lease = None THEN "lease" ELSE "pool")
    /\ lease' = IF lease = None THEN cur ELSE lease

\* release_or_reuse_connection.
ReleaseOrReuse(cs) ==
    /\ conn' = IF cs[cur].pending THEN Removed(cs, cur)
               ELSE Put(cs, cur, IF lease = None THEN "lease" ELSE "pool")
    /\ lease' = IF lease = None /\ ~cs[cur].pending THEN cur ELSE lease

\* Mutant: the backend stays eligible after its 430.
MissingReplyForgotten ==
    /\ stage \in {"probe", "wait"}
    /\ \E pending \in PendingAfter(cur, TRUE) : ReleaseOrReuse(Received(conn, cur, pending))
    /\ target' = None /\ cur' = None
    /\ stage' = "try"
    /\ UNCHANGED <<suppressed, abandoned, batch, size, total, at, window, recorded, counted, answers>>

\* A 430, to the request or to the STAT, is not forwarded; the loop looks
\* elsewhere.
MissingReply ==
    /\ stage \in {"probe", "wait"}
    /\ \E pending \in PendingAfter(cur, TRUE) : ReleaseOrReuse(Received(conn, cur, pending))
    /\ GivenUp
    /\ UNCHANGED <<abandoned, batch, size, total, at, window, recorded, counted, answers>>

\* write_successful_backend_response.
Reply ==
    /\ stage = "wait"
    /\ \E pending \in PendingAfter(cur, TRUE) : ReleaseOrReuse(Received(conn, cur, pending))
    /\ answers' = Answered(Head(conn[cur].owed))
    /\ at' = at + 1
    /\ cur' = None
    /\ stage' = "seq"
    /\ UNCHANGED <<abandoned, batch, size, total, window, request, recorded, counted>>

ReplyLeaves ==
    /\ stage = "wait"
    /\ \E pending \in PendingAfter(cur, TRUE) :
        Abort(AfterClientWrite(Received(conn, cur, pending), cur))
    /\ UNCHANGED <<answers, abandoned>>

\* Mutant: the backend is looked up after the connection was given up.
ReplyFailsUnknown ==
    /\ stage = "wait"
    /\ conn' = Removed(conn, cur)
    /\ target' = None /\ cur' = None
    /\ suppressed' = suppressed \union {conn'[cur].backend}
    /\ stage' = "try"
    /\ UNCHANGED <<lease, abandoned, batch, size, total, at, window, recorded, counted, answers>>

\* The backend fails during the transfer: before a byte was delivered the loop
\* goes on, after that the session ends.
ReplyFails ==
    /\ stage = "wait"
    /\ conn' = Removed(conn, cur)
    /\ GivenUp
    /\ UNCHANGED <<lease, abandoned, batch, size, total, at, window, recorded, counted, answers>>

ReplyFailsDelivered ==
    /\ stage = "wait"
    /\ Abort(Removed(conn, cur))
    /\ UNCHANGED <<answers, abandoned>>

SeqEnds ==
    /\ stage = "seq" /\ at > total
    /\ stage' = "tail"
    /\ UNCHANGED <<conns, batch, size, total, at, window, request, recorded, counted, answers>>

\* handle_command_batch: the lease is completed.
BatchEnds ==
    /\ stage = "tail"
    /\ conn' = IF lease = None THEN conn ELSE Put(conn, lease, "pool")
    /\ lease' = None
    /\ stage' = "idle"
    /\ UNCHANGED <<cur, abandoned, batch, size, total, at, window, request, recorded, counted, answers>>

\* A connection is found closed or readable when it is recycled.
Recycle(c) ==
    /\ conn[c].place = "pool"
    /\ conn' = Removed(conn, c)
    /\ UNCHANGED <<cur, lease, abandoned, stage, batch, size, total, at, window, request,
                   recorded, counted, answers>>

WindowStep ==
    \/ AllKnownMissing \/ AllKnownMissingLeaves \/ RouteWindow \/ CheckoutFails
    \/ SendWindow \/ SendFails
    \/ WindowKnownMissing \/ WindowKnownMissingLeaves
    \/ WindowReadFails \/ WindowReply \/ WindowRefillFails
    \/ WindowReplyLeaves \/ WindowReplyFails
    \/ WindowEnds \/ WindowEndsLeaves

SequentialStep ==
    \/ NextRequest \/ TrailingRejected \/ TrailingRejectedLeaves
    \/ TrailingRequest \/ TrailingSwitches \/ Switched \/ SwitchFails
    \/ AnswerLocally \/ AnswerLocallyLeaves
    \/ \E b \in Backends :
        \/ CheckoutNew(b) \/ CheckoutUnhealthy(b) \/ CheckoutBeside(b)
        \/ CheckoutLease(b) \/ CheckoutError(b)
    \/ ExchangeFails \/ ProbeAnswered \/ InvalidReply \/ MissingReply
    \/ Reply \/ ReplyLeaves \/ ReplyFails \/ ReplyFailsDelivered
    \/ SeqEnds

Session == WindowStep \/ SequentialStep \/ BatchEnds

\* The bound on batches is reached.
Done == stage = "idle" /\ batch = MaxBatches /\ UNCHANGED vars

Next ==
    \/ ReadBatch \/ Session \/ Done
    \/ \E c \in Conns : Salvage(c) \/ Recycle(c)

\* What the session does without a backend or the client ...
Internal == NextRequest \/ SeqEnds \/ BatchEnds

\* ... and where it is in the hands of one of them: connecting, reading or writing
\* with no timeout around the exchange.
AtPeer ==
    \/ stage \in {"route", "send", "window", "try", "probe", "wait", "switch"}
    \/ stage = "seq" /\ Trailing

\* The runtime polls a task that can go on.  Nothing is assumed of backends and
\* clients.
Spec == Init /\ [][Next]_vars /\ WF_vars(Internal)
-----------------------------------------------------------------------------
Requests == (0..MaxBatches) \X (0..MaxBatch)

\* The types of connections, of the batch and of the request in progress.
TypeOK ==
    /\ conn \in [Conns -> [place : {"none", "pool", "held", "lease", "salvage"},
                           backend : Backends \union {None},
                           phase : {"idle", "inflight", "complete"},
                           owed : Seq(Requests), pending : BOOLEAN]]
    /\ stage \in {"idle", "route", "send", "window", "seq", "try", "probe", "wait",
                 "switch", "tail"}
    /\ batch \in 0..MaxBatches /\ {size, total} \subseteq 0..MaxBatch /\ at \in 1..(MaxBatch + 1)
    /\ known \subseteq 1..MaxBatch /\ sent \subseteq 1..MaxBatch
    /\ inFlight \in 0..MaxBatch
    /\ {cur, lease} \subseteq Conns \union {None}
    /\ target \in Backends \union {None} /\ suppressed \subseteq Backends
    /\ {recorded, abandoned} \subseteq BOOLEAN
    /\ counted \in [1..MaxBatch -> Nat]
    /\ answers \in Seq([request : 1..MaxBatch, of : Requests])

\* Every request of a batch is answered once and in order, whatever breaks on the
\* way from the window to sequential execution; a batch that ends without an
\* error has answered all of them.
AnswersInOrder ==
    /\ \A k \in DOMAIN answers : answers[k].request = k
    /\ stage = "tail" => Len(answers) = total

\* A client is given the reply to its own request: replies and requests never get
\* out of step on a connection, not even when it is handed on.
AnswersMatch ==
    ~abandoned => \A k \in DOMAIN answers : answers[k].of \in {Local, Id(k)}

\* A connection in the pool owes no reply and has no bytes queued, whatever failed
\* on it before, unless a client has left in the middle of a window.
PooledClean ==
    ~abandoned => \A c \in Conns : conn[c].place = "pool" => conn[c].owed = <<>> /\ ~conn[c].pending

\* The same without the exception: "a client disconnect can leave unread backend
\* response bytes in flight", and such a connection "cannot be safely returned to
\* the pool" (remove_without_cooldown).
PooledCleanAlways ==
    \A c \in Conns : conn[c].place = "pool" => conn[c].owed = <<>> /\ ~conn[c].pending

\* The assertions of complete_success hold wherever a lease is completed: at the
\* end of the batch and when the next request goes to another backend.
LeaseReusable ==
    lease # None => /\ conn[lease].place = "lease"
                    /\ conn[lease].phase = "complete" /\ ~conn[lease].pending

\* in_flight is the number of requests sent and not yet answered, never more than
\* the window; and every request whose turn has come has been sent, so the branch
\* of forward_sent_article_window_responses that would send it late is never taken.
WindowExact ==
    stage = "window" =>
        /\ inFlight = Cardinality({i \in sent : i >= at}) /\ inFlight <= Window
        /\ at \in Upstream => at \in sent

\* The bytes of a pipelined request are recorded once, on every path from the
\* window to sequential execution, and those of a trailing command at most once
\* while its batch is executed (AccountedPipelineCommandIndex).  A switch to
\* stateful mode records its command again, after the batch.
BytesRecordedOnce ==
    /\ \A i \in 1..size : counted[i] <= 1
    /\ stage # "idle" => \A i \in 1..MaxBatch : counted[i] <= 1
    /\ stage = "tail" => \A i \in 1..size : counted[i] = 1

\* Every batch comes to an end unless a backend or the client stops answering for
\* good: requests are not tried for ever, so the session either becomes idle again
\* or stands still in one operation on a socket (execute_article_retry_loop,
\* retry_once).
BatchTerminates ==
    \/ []<>(stage = "idle")
    \/ <>[]AtPeer /\ <>[][FALSE]_<<stage, at, window, request, cur>>
=============================================================================
