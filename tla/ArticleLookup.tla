---------------------------- MODULE ArticleLookup ----------------------------
(***************************************************************************)
(* What the proxy promises a client that asks for an article by            *)
(* message-id: a request is answered, or its session is closed, once; it   *)
(* is not left pending for any reason but a server or the client that does *)
(* not go on; and "430 no such article" is said only when no configured    *)
(* server holds the article.  How the servers are asked is ArticleRetry's  *)
(* business.                                                               *)
(***************************************************************************)
CONSTANTS Sessions, Servers

Replies == {"forwarded", "notFound", "backendError", "closed"}

VARIABLES holders,  \* the servers that hold the article
          answer,   \* answer[s]: "none" (no request), "pending" or a reply
          waiting   \* waiting[s]: it is the turn of a server or of the client

vars == <<holders, answer>>

Init ==
    /\ holders \in SUBSET Servers
    /\ answer = [s \in Sessions |-> "none"]

Ask(s) ==
    /\ answer[s] # "pending"
    /\ answer' = [answer EXCEPT ![s] = "pending"]
    /\ UNCHANGED holders

Reply(s) ==
    /\ answer[s] = "pending"
    /\ \E r \in Replies :
        /\ r = "notFound" => holders = {}
        /\ answer' = [answer EXCEPT ![s] = r]
    /\ UNCHANGED holders

\* Articles age out of servers; they do not come back.
Expire ==
    /\ \E gone \in SUBSET holders : gone # {} /\ holders' = holders \ gone
    /\ UNCHANGED answer

Next ==
    \/ \E s \in Sessions : Ask(s) \/ Reply(s)
    \/ Expire

\* A request is answered, or somebody else keeps it waiting for ever: the proxy
\* does not turn round in circles, however many servers go on failing.
Answered == \A s \in Sessions : []<>(answer[s] # "pending") \/ <>[]waiting[s]

Spec == Init /\ [][Next]_vars /\ Answered
=============================================================================
