--------------------------- MODULE StatefulSession ---------------------------
(***************************************************************************)
(* The loop of a stateful session (session/handlers/stateful.rs,           *)
(* session/state.rs) with its response order and reply tracker             *)
(* (session/multiline_framing.rs), entered from the start or by the switch *)
(* out of per-command mode (session/handlers/hybrid.rs).                   *)
(*                                                                         *)
(* A client pipelines command lines, in pieces.  Some are forwarded to the *)
(* session's backend connection, whose writer is flushed only now and      *)
(* then; others the proxy answers itself.  The client has to get one reply *)
(* per line, in the order of its lines, although replies come from two     *)
(* places and a backend read may end anywhere in a reply.                  *)
(*                                                                         *)
(* Lines are numbered.  A reply is a sequence of parts: "frag" is a status *)
(* line's beginning, "ok" and "err" its end, "body" and "end" what follows *)
(* a status that announces a body.                                         *)
(***************************************************************************)
EXTENDS Naturals, Sequences, SequencesExt, FiniteSets

CONSTANTS MaxLines,   \* lines a client sends
          Depth       \* MAX_UPSTREAM_PIPELINE_DEPTH

ASSUME StatefulAssumption == MaxLines \in Nat \ {0} /\ Depth \in Nat \ {0}

\* What becomes of a line once the client may use the backend: forwarded (with a
\* reply of one line, or of several), answered here, an AUTHINFO, or not a command
\* (oversized or invalid).  Where no authentication is configured AUTHINFO is
\* forwarded and is one of the first kind.
Kinds == {"single", "multi", "local", "auth", "bad"}

VARIABLES
    lines,      \* lines[i]: kind of the client's i-th line
    open,       \* the last line's end is not sent yet
    gone,       \* the client has closed its socket
    wire,       \* pieces on their way from the client
    buf,        \* pieces in client_reader's buffer
    partial,    \* the command reader has the beginning of a line
    pc,         \* "top" of the loop, in "select", "drain"ing, or "done"
    access,     \* auth_access.can_access_backend()
    unflushed,  \* requests written, maybe not sent
    writes,     \* pending_backend_writes
    server,     \* requests the server has to answer
    back,       \* parts on their way from the server
    closed,     \* the server has closed the connection
    pending,    \* the reply tracker's queue
    ordered,    \* the response order's queue
    written     \* parts and local replies written to the client

client  == <<lines, open, gone, wire>>
reader  == <<buf, partial>>
backend == <<server, back, closed>>
replies == <<pending, ordered, written>>
vars == <<client, reader, pc, access, unflushed, writes, backend, replies>>

Local(i)   == [line |-> i, part |-> "local", last |-> TRUE]
Awaited(i, kind) == [line |-> i, kind |-> kind, state |-> "status"]
ByBackend(i) == [line |-> i, local |-> FALSE]
ByProxy(i)   == [line |-> i, local |-> TRUE]

\* A session in stateful mode; or one that switches with its first line, which is
\* sent and registered before the loop starts.
Init ==
    /\ \/ /\ lines = <<>> /\ access \in BOOLEAN
          /\ server = <<>> /\ pending = <<>> /\ ordered = <<>>
       \/ \E kind \in {"single", "multi"} :
            /\ lines = <<kind>> /\ access = TRUE
            /\ server = <<1>> /\ pending = <<Awaited(1, kind)>> /\ ordered = <<ByBackend(1)>>
    /\ open = FALSE /\ gone = FALSE /\ wire = <<>>
    /\ buf = <<>> /\ partial = FALSE
    /\ pc = "top"
    /\ unflushed = <<>> /\ writes = 0
    /\ back = <<>> /\ closed = FALSE
    /\ written = <<>>
-----------------------------------------------------------------------------
(* The client and the server, until the session closes their connections.  *)

Piece(i, end) == [line |-> i, end |-> end]

ClientSends ==
    /\ ~gone /\ pc # "done"
    /\ \/ /\ ~open /\ Len(lines) < MaxLines
          /\ \E kind \in Kinds, whole \in BOOLEAN :
                /\ lines' = Append(lines, kind)
                /\ wire' = Append(wire, Piece(Len(lines) + 1, whole))
                /\ open' = ~whole
       \/ /\ open
          /\ wire' = Append(wire, Piece(Len(lines), TRUE))
          /\ open' = FALSE
          /\ UNCHANGED lines
    /\ UNCHANGED <<gone, reader, pc, access, unflushed, writes, backend, replies>>

ClientCloses ==
    /\ ~gone /\ pc # "done"
    /\ gone' = TRUE
    /\ UNCHANGED <<lines, open, wire, reader, pc, access, unflushed, writes, backend, replies>>

Parts(i, ps) ==
    [k \in DOMAIN ps |-> [line |-> i, part |-> ps[k], last |-> k = Len(ps)]]

ReplyForms(kind) ==
    {<<"err">>} \union IF kind = "multi"
                      THEN {<<"ok", "end">>, <<"frag", "ok", "body", "end">>}
                      ELSE {<<"ok">>, <<"frag", "ok">>}

ServerReplies ==
    /\ server # <<>> /\ ~closed /\ pc # "done"
    /\ \E form \in ReplyForms(lines[Head(server)]) :
        back' = back \o Parts(Head(server), form)
    /\ server' = Tail(server)
    /\ UNCHANGED <<client, reader, pc, access, unflushed, writes, closed, replies>>

ServerCloses ==
    /\ ~closed /\ pc # "done"
    /\ closed' = TRUE
    /\ UNCHANGED <<client, reader, pc, access, unflushed, writes, server, back, replies>>

\* What is written may be sent before it is flushed.
SentEarly ==
    /\ unflushed # <<>> /\ pc # "done"
    /\ server' = Append(server, Head(unflushed))
    /\ unflushed' = Tail(unflushed)
    /\ UNCHANGED <<client, reader, pc, access, writes, back, closed, replies>>
-----------------------------------------------------------------------------
(* BackendResponseOrder and BackendReplyTracker, as functions of their     *)
(* state and of the output to the client.                                  *)

Ready(queue) ==
    {k \in DOMAIN queue : \A j \in 1..k : queue[j].local}

\* take_ready_deferred_replies, and their writes.
TakeReady(order) ==
    LET n == Cardinality(Ready(order.ordered))
    IN [order EXCEPT !.ordered = SubSeq(@, n + 1, Len(@)),
                     !.out = @ \o [k \in 1..n |-> Local(order.ordered[k].line)]]

HasPendingBackendReplies == \E k \in DOMAIN ordered : ~ordered[k].local

ShouldDrain ==
    /\ ordered # <<>> /\ ~Head(ordered).local
    /\ \E k \in DOMAIN ordered : ordered[k].local

\* Mutant: a status line always ends its reply.
CompletesAtStatus(frame, part) == part \in {"ok", "err", "end"}

\* PendingRequestFrame::consume: the part ends the reply to this request.
Completes(frame, part) ==
    CASE frame.state = "status" -> part = "err" \/ (part = "ok" /\ frame.kind # "multi")
      [] frame.state = "body"   -> part = "end"

\* The tracker's queue after one part (accept_backend_bytes).
Tracked(frames, part) ==
    CASE frames = <<>>                  -> frames
      [] frames # <<>> /\ Completes(Head(frames), part) -> Tail(frames)
      [] OTHER -> IF part = "ok" THEN <<[Head(frames) EXCEPT !.state = "body"]>> \o Tail(frames)
                                 ELSE frames

\* One part of client_writes_for_backend_read: forwarded in any case; a completed
\* reply lets the local ones behind it go.
Accept(order, p) ==
    LET completed == order.pending # <<>> /\ Completes(Head(order.pending), p.part)
        read == [order EXCEPT !.out = Append(@, p), !.pending = Tracked(@, p.part)]
    IN IF completed
       THEN TakeReady([read EXCEPT !.ordered = IF @ # <<>> /\ ~Head(@).local THEN Tail(@) ELSE @])
       ELSE read

Order == [pending |-> pending, ordered |-> ordered, out |-> written]

Becomes(order) ==
    /\ pending' = order.pending /\ ordered' = order.ordered /\ written' = order.out
-----------------------------------------------------------------------------
(* The loop.                                                               *)

Flush ==
    /\ server' = server \o unflushed
    /\ unflushed' = <<>> /\ writes' = 0

FlushPending ==
    IF writes # 0 THEN Flush ELSE UNCHANGED <<server, unflushed, writes>>

\* Deferred replies whose turn has come; back to the top.
WriteReady ==
    /\ pc = "top" /\ Ready(ordered) # {}
    /\ Becomes(TakeReady(Order))
    /\ UNCHANGED <<client, reader, pc, access, unflushed, writes, backend>>

\* Only the backend is read while a local reply is behind one of its replies.
Drain ==
    /\ pc = "top" /\ Ready(ordered) = {} /\ ShouldDrain
    /\ pc' = "drain"
    /\ FlushPending
    /\ UNCHANGED <<client, reader, access, back, closed, replies>>

HasNewline(pieces) == \E k \in DOMAIN pieces : pieces[k].end

\* Mutant: the window is flushed only when the buffer is empty.
SelectFlushIfEmpty ==
    /\ pc = "top" /\ Ready(ordered) = {} /\ ~ShouldDrain
    /\ pc' = "select"
    /\ IF buf # <<>> THEN UNCHANGED <<server, unflushed, writes>> ELSE FlushPending
    /\ UNCHANGED <<client, reader, access, back, closed, replies>>

\* The window is flushed unless another complete line is at hand.
Select ==
    /\ pc = "top" /\ Ready(ordered) = {} /\ ~ShouldDrain
    /\ pc' = "select"
    /\ IF HasNewline(buf) THEN UNCHANGED <<server, unflushed, writes>> ELSE FlushPending
    /\ UNCHANGED <<client, reader, access, back, closed, replies>>

ReadBackend ==
    /\ pc \in {"drain", "select"} /\ back # <<>>
    /\ \E n \in 1..Len(back) :
        /\ Becomes(FoldLeft(Accept, TakeReady(Order), SubSeq(back, 1, n)))
        /\ back' = SubSeq(back, n + 1, Len(back))
    /\ pc' = "top"
    /\ UNCHANGED <<client, reader, access, unflushed, writes, server, closed>>

\* Mutant: the window is flushed one request late.
ForwardFlushLate(i) ==
    /\ pending' = Append(pending, Awaited(i, lines[i]))
    /\ ordered' = Append(ordered, ByBackend(i))
    /\ IF writes >= Depth
       THEN /\ server' = server \o Append(unflushed, i)
            /\ unflushed' = <<>> /\ writes' = 0
       ELSE /\ unflushed' = Append(unflushed, i) /\ writes' = writes + 1
            /\ UNCHANGED server
    /\ UNCHANGED written

\* Forward: written, counted and registered.
Forward(i) ==
    /\ pending' = Append(pending, Awaited(i, lines[i]))
    /\ ordered' = Append(ordered, ByBackend(i))
    /\ IF writes + 1 >= Depth
       THEN /\ server' = server \o Append(unflushed, i)
            /\ unflushed' = <<>> /\ writes' = 0
       ELSE /\ unflushed' = Append(unflushed, i) /\ writes' = writes + 1
            /\ UNCHANGED server
    /\ UNCHANGED written

\* Mutant: a local reply is deferred only if a reply has been started.
AnswerHereUnlessStarted(i) ==
    /\ IF pending # <<>> /\ Head(pending).state = "body"
       THEN ordered' = Append(ordered, ByProxy(i)) /\ UNCHANGED written
       ELSE written' = Append(written, Local(i)) /\ UNCHANGED ordered
    /\ IF writes + 1 >= Depth THEN Flush
       ELSE writes' = writes + 1 /\ UNCHANGED <<server, unflushed>>
    /\ UNCHANGED pending

\* The proxy's own reply: deferred behind backend replies, or written at once.
\* The code counts it as a backend write, too.
AnswerHere(i) ==
    /\ IF HasPendingBackendReplies
       THEN ordered' = Append(ordered, ByProxy(i)) /\ UNCHANGED written
       ELSE written' = Append(written, Local(i)) /\ UNCHANGED ordered
    /\ IF writes + 1 >= Depth THEN Flush
       ELSE writes' = writes + 1 /\ UNCHANGED <<server, unflushed>>
    /\ UNCHANGED pending

\* A complete line, as the command reader returns it.
Line(i) ==
    /\ pc' = "top"
    /\ \/ /\ lines[i] = "bad"
          /\ ordered' = Append(ordered, ByProxy(i))
          /\ UNCHANGED <<access, unflushed, writes, server, pending, written>>
       \/ /\ lines[i] # "bad" /\ ~access              \* handle_stateful_auth_check
          /\ written' = Append(written, Local(i))
          /\ access' \in {FALSE, lines[i] = "auth"}
          /\ UNCHANGED <<unflushed, writes, server, pending, ordered>>
       \/ /\ lines[i] \in {"single", "multi"} /\ access
          /\ Forward(i)
          /\ UNCHANGED access
       \/ /\ lines[i] \in {"local", "auth"} /\ access
          /\ AnswerHere(i)
          /\ UNCHANGED access

\* read_next: from the buffer or, when that is empty, from the socket.  A line's
\* beginning stays with the reader when select! drops the read.
ReadClient ==
    /\ pc = "select"
    /\ \E n \in IF buf = <<>> THEN 1..Len(wire) ELSE {0} :
        LET available == buf \o SubSeq(wire, 1, n)
            newline   == SelectInSeq(available, LAMBDA piece : piece.end)
        IN /\ wire' = SubSeq(wire, n + 1, Len(wire))
           /\ IF newline = 0
              THEN /\ buf' = <<>> /\ partial' = TRUE
                   /\ UNCHANGED <<pc, access, unflushed, writes, server, replies>>
              ELSE /\ buf' = SubSeq(available, newline + 1, Len(available))
                   /\ partial' = FALSE
                   /\ Line(available[newline].line)
    /\ UNCHANGED <<lines, open, gone, back, closed>>

\* End of input behind the beginning of a line: it is taken for a line.
ReadLastLine ==
    /\ pc = "select" /\ gone /\ buf = <<>> /\ wire = <<>> /\ partial
    /\ partial' = FALSE
    /\ Line(Len(lines))
    /\ UNCHANGED <<client, buf, back, closed>>

\* Both connections are closed, and what is in their buffers is lost.
Ends ==
    /\ pc' = "done"
    /\ wire' = <<>> /\ buf' = <<>> /\ partial' = FALSE
    /\ unflushed' = <<>> /\ writes' = 0 /\ server' = <<>> /\ back' = <<>>
    /\ pending' = <<>> /\ ordered' = <<>>
    /\ UNCHANGED <<lines, open, gone, access, closed, written>>

\* ClientDisconnected and BackendDisconnected.
ClientEof ==
    /\ pc = "select" /\ gone /\ buf = <<>> /\ wire = <<>> /\ ~partial
    /\ Ends

BackendEof ==
    /\ pc \in {"drain", "select"} /\ closed /\ back = <<>>
    /\ Ends

\* A read or a write fails on a socket whose other end is closed.
SocketFails ==
    /\ pc # "done" /\ (gone \/ closed)
    /\ Ends

Loop ==
    \/ WriteReady \/ Drain \/ Select \/ ReadBackend \/ ReadClient \/ ReadLastLine
    \/ ClientEof \/ BackendEof

Done == pc = "done" /\ UNCHANGED vars

Next ==
    \/ ClientSends \/ ClientCloses \/ ServerReplies \/ ServerCloses \/ SentEarly
    \/ Loop \/ SocketFails \/ Done

\* The session's task is polled when one of its sockets is ready, and the server
\* answers what it has received, unless it closes the connection.
Spec == Init /\ [][Next]_vars /\ WF_vars(Loop) /\ WF_vars(ServerReplies)
-----------------------------------------------------------------------------
Lines == 1..MaxLines
PartRecords ==
    [line : Lines, part : {"frag", "ok", "err", "body", "end", "local"}, last : BOOLEAN]

\* The types of the queues between client, proxy and server; pending_backend_writes
\* stays below MAX_UPSTREAM_PIPELINE_DEPTH.
TypeOK ==
    /\ lines \in Seq(Kinds) /\ Len(lines) <= MaxLines
    /\ {open, gone, partial, access, closed} \subseteq BOOLEAN
    /\ {wire, buf} \subseteq Seq([line : Lines, end : BOOLEAN])
    /\ pc \in {"top", "select", "drain", "done"}
    /\ {unflushed, server} \subseteq Seq(Lines)
    /\ writes \in 0..(Depth - 1)
    /\ {back, written} \subseteq Seq(PartRecords)
    /\ pending \in Seq([line : Lines, kind : {"single", "multi"}, state : {"status", "body"}])
    /\ ordered \in Seq([line : Lines, local : BOOLEAN])

\* The client reads the replies to its lines in the order of its lines: each one
\* from its beginning to its end, and none inside another, wherever backend reads
\* end and whoever makes the reply (BackendResponseOrder).
RepliesInOrder ==
    \A k \in DOMAIN written :
        written[k].line = IF k = 1 THEN 1
                          ELSE IF written[k - 1].last THEN written[k - 1].line + 1
                          ELSE written[k - 1].line

\* The tracker awaits exactly the replies that are still to be read to their end, in
\* the order in which they come; and so does the queue of replies.
TrackerExact ==
    LET toCome == [k \in DOMAIN SelectSeq(back, LAMBDA p : p.last) |->
                      SelectSeq(back, LAMBDA p : p.last)[k].line] \o server \o unflushed
        awaited == SelectSeq(ordered, LAMBDA r : ~r.local)
    IN /\ toCome = [k \in DOMAIN pending |-> pending[k].line]
       /\ toCome = [k \in DOMAIN awaited |-> awaited[k].line]

Complete(i) == i <= Len(lines) /\ ~(i = Len(lines) /\ open)
Answered(i) == \E k \in DOMAIN written : written[k].line = i /\ written[k].last

\* Every complete line is answered while both sockets stay open: "a partial next
\* command must not hold already complete requests", and a deferred reply is not
\* forgotten.
EveryLineAnswered ==
    []<>(pc = "done" \/ \A i \in Lines : Complete(i) => Answered(i))

=============================================================================
