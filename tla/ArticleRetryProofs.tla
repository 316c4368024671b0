-------------------------- MODULE ArticleRetryProofs --------------------------
(***************************************************************************)
(* Proofs about ArticleRetry, for any number of sessions, backends,        *)
(* providers and tiers.  The inductive invariant adds to the properties    *)
(* the two facts that carry them from step to step: what each session      *)
(* knows about the tiers it has passed (TierKnown), and how the program    *)
(* counter, the transfer, the reply and the responses sent go together     *)
(* (ReplyState).                                                           *)
(***************************************************************************)
EXTENDS ArticleRetry, WellFoundedInduction, TLAPS

\* A session that is trying a backend has a 430 on record from every provider
\* of an earlier tier.
TierKnown ==
    \A s \in Sessions : pc[s] \in {"attempt", "write"} =>
        /\ target[s] \in Backends
        /\ \A c \in Backends : tier[c] < tier[target[s]] => slot[c] \in missing[s]

\* A session is in the loop exactly while its reply is pending.  It has sent
\* nothing before it forwards, and then one response as soon as the transfer
\* has written a byte.
ReplyState ==
    \A s \in Sessions :
        /\ pc[s] = "idle" <=> reply[s] # "pending"
        /\ pc[s] # "write" => ~wrote[s]
        /\ pc[s] \in {"loop", "sweep", "route", "attempt"} => sent[s] = 0
        /\ pc[s] = "write" => sent[s] = IF wrote[s] THEN 1 ELSE 0
        /\ sent[s] <= 1
        /\ reply[s] \in Replies \ {"closed"} => sent[s] = 1

IInv == TypeOK /\ NegativeFactsSound /\ TierKnown /\ ReplyState /\ NoFalse430

-----------------------------------------------------------------------------
\* Starting prefetch probes keeps the counters natural numbers.
LEMMA PrefetchType ==
    ASSUME TypeOK, NEW k, NEW miss, NEW supp, Prefetch(k, miss, supp)
    PROVE  background' \in [Backends -> Nat]
BY DEF TypeOK, Prefetch

\* A sweep only ever asks configured backends.
LEMMA SweepCandidatesType ==
    ASSUME NEW s \in Sessions
    PROVE  SweepCandidates(s) \subseteq Backends
BY RetryAssumption DEF SweepCandidates, ProbeCandidates

\* The last step of a request: it keeps OneResponse and is right about a 430.
Returns(s) ==
    \E r \in Replies, n \in {0, 1} :
        /\ pc[s] # "idle"
        /\ sent[s] + n <= 1
        /\ r # "closed" => sent[s] + n = 1
        /\ r = "notFound" => holders = {}
        /\ Return(s, r, n)

\* A transfer that failed before its first byte.
NextAttempt(s) ==
    /\ pc[s] = "write" /\ ~wrote[s]
    /\ suppressed' = [suppressed EXCEPT ![s] = @ \union {target[s]}]
    /\ target' = [target EXCEPT ![s] = NoBackend]
    /\ pc' = [pc EXCEPT ![s] = "loop"]
    /\ UNCHANGED <<shared, kind, missing, retry, prefetched, swept, probing, wrote, sent,
                   reply>>

\* A reply of the proxy's own is given while nothing has been sent.
LEMMA LocalReturns ==
    ASSUME IInv, NEW s \in Sessions, Exhausted(s) \/ NoRetryableBackend(s)
    PROVE  Returns(s)
<1>1. sent[s] = 0 /\ pc[s] # "idle"
  BY DEF IInv, ReplyState, Exhausted, NoRetryableBackend
<1>2. CASE Exhausted(s)
  <2>1. holders = {}
    BY <1>2 DEF Exhausted, AllExhausted, IInv, TypeOK, NegativeFactsSound
  <2>2. QED
    BY <1>1, <1>2, <2>1 DEF Exhausted, ReturnLocally, Returns, Replies
<1>3. CASE NoRetryableBackend(s)
  BY <1>1, <1>3 DEF NoRetryableBackend, ReturnLocally, Returns, Replies
<1>4. QED
  BY <1>2, <1>3

\* Whatever becomes of a transfer, it ends the request or has sent nothing.
LEMMA TransferOutcome ==
    ASSUME IInv, NEW s \in Sessions,
           WriteSucceeds(s) \/ ClientWriteFails(s) \/ BackendReadFails(s)
    PROVE  Returns(s) \/ NextAttempt(s)
<1>1. /\ pc[s] = "write"
      /\ wrote[s] \in BOOLEAN
      /\ sent[s] = IF wrote[s] THEN 1 ELSE 0
  BY DEF IInv, TypeOK, ReplyState, WriteSucceeds, ClientWriteFails, BackendReadFails
<1>2. CASE WriteSucceeds(s)
  BY <1>1, <1>2 DEF WriteSucceeds, Returns, Replies
<1>3. CASE ClientWriteFails(s)
  <2>1. PICK n \in IF wrote[s] THEN {0} ELSE {0, 1} : Return(s, "closed", n)
    BY <1>3 DEF ClientWriteFails, TransferFailed, FromClientWrite, BlocksAnotherResponse
  <2>2. QED
    BY <1>1, <2>1 DEF Returns, Replies
<1>4. CASE BackendReadFails(s) /\ wrote[s]
  <2>1. Return(s, "closed", 0)
    BY <1>4 DEF BackendReadFails, TransferFailed, AfterClientDelivery, BlocksAnotherResponse
  <2>2. QED
    BY <1>1, <2>1 DEF Returns, Replies
<1>5. CASE BackendReadFails(s) /\ ~wrote[s]
  <2>1. TransferFailed(s, "Backend", 0)
    BY <1>5 DEF BackendReadFails
  <2>2. /\ suppressed' = [suppressed EXCEPT ![s] = @ \union {target[s]}]
        /\ target' = [target EXCEPT ![s] = NoBackend]
        /\ wrote' = [wrote EXCEPT ![s] = FALSE]
        /\ sent' = [sent EXCEPT ![s] = @ + 0]
        /\ pc' = [pc EXCEPT ![s] = "loop"]
        /\ UNCHANGED <<shared, kind, missing, retry, prefetched, swept, probing, reply>>
    BY <2>1 DEF TransferFailed, BlocksAnotherResponse
  <2>3. wrote' = wrote /\ sent' = sent
    BY <1>1, <1>5, <2>2 DEF IInv, TypeOK
  <2>4. QED
    BY <1>1, <1>5, <2>2, <2>3 DEF NextAttempt
<1>6. QED
  BY <1>2, <1>3, <1>4, <1>5

\* The kinds of steps: the outcomes of a request are Returns or NextAttempt.
Progress(s) ==
    \/ Start(s) \/ Returns(s) \/ NextAttempt(s) \/ WriteChunk(s)
    \/ FirstPass(s) \/ RetryPass(s) \/ EndSweep(s) \/ Route(s)
    \/ BackendUnavailable(s) \/ ArticleNotFound(s) \/ Forwardable(s)
    \/ \E b \in Backends :
        SweepMissing(s, b) \/ SweepPresent(s, b) \/ SweepUnavailable(s, b)

\* Every step is one of them, or none of a session's.
LEMMA StepKinds ==
    ASSUME IInv, [Next]_vars
    PROVE  \/ \E s \in Sessions : Progress(s)
           \/ \E b \in Backends : BackgroundProbe(b)
           \/ Forget \/ Expire \/ UNCHANGED vars
<1>1. ASSUME NEW s \in Sessions, Local(s) \/ Exchange(s) PROVE Progress(s)
  BY <1>1, LocalReturns, TransferOutcome DEF Local, Exchange, Attempt, Write, Progress
<1>2. QED
  BY <1>1 DEF Next, Progress

\* The initial states satisfy the invariant.
LEMMA InitInv == Init => IInv
BY RoutingAssumption, RetryAssumption
   DEF Init, IInv, TypeOK, NegativeFactsSound, TierKnown, ReplyState, NoFalse430,
       PCs, Kinds, Replies

\* Every step keeps the variables in their types.
LEMMA TypeStep == IInv /\ [Next]_vars => TypeOK'
<1> SUFFICES ASSUME IInv, [Next]_vars PROVE TypeOK'
  OBVIOUS
<1> USE DEF IInv, TypeOK, PCs, Kinds, Replies, shared, request, vars
<1>1. ASSUME NEW s \in Sessions, Start(s) PROVE TypeOK'
  <2>1. background' \in [Backends -> Nat]
    BY <1>1, PrefetchType DEF Start
  <2>2. QED
    BY <1>1, <2>1 DEF Start
<1>2. ASSUME NEW s \in Sessions, Returns(s)
      PROVE TypeOK'
  BY <1>2, RetryAssumption DEF Returns, Return
<1>3. ASSUME NEW s \in Sessions, FirstPass(s) PROVE TypeOK'
  <2>1. background' \in [Backends -> Nat]
    BY <1>3, PrefetchType DEF FirstPass
  <2>2. QED
    BY <1>3, <2>1 DEF FirstPass
<1>4. ASSUME NEW s \in Sessions, RetryPass(s) PROVE TypeOK'
  BY <1>4, SweepCandidatesType DEF RetryPass
<1>5. ASSUME NEW s \in Sessions, NEW b \in Backends,
             SweepMissing(s, b) \/ SweepPresent(s, b) \/ SweepUnavailable(s, b)
      PROVE TypeOK'
  <2>1. CASE SweepMissing(s, b)
    BY <2>1 DEF SweepMissing, Slots
  <2>2. CASE SweepPresent(s, b)
    BY <2>2 DEF SweepPresent
  <2>3. CASE SweepUnavailable(s, b)
    BY <2>3 DEF SweepUnavailable
  <2>4. QED
    BY <1>5, <2>1, <2>2, <2>3
<1>6. ASSUME NEW s \in Sessions, Route(s) PROVE TypeOK'
  BY <1>6 DEF Route, Selectable
<1>7. ASSUME NEW s \in Sessions, BackendUnavailable(s) \/ NextAttempt(s)
      PROVE TypeOK'
  <2>1. target[s] \in Backends
    BY <1>7 DEF BackendUnavailable, NextAttempt, TierKnown
  <2>2. CASE BackendUnavailable(s)
    BY <2>1, <2>2 DEF BackendUnavailable
  <2>3. CASE NextAttempt(s)
    BY <2>1, <2>3 DEF NextAttempt
  <2>4. QED
    BY <1>7, <2>2, <2>3
<1>8. ASSUME NEW s \in Sessions, ArticleNotFound(s) PROVE TypeOK'
  <2>1. slot[target[s]] \in Slots
    BY <1>8 DEF ArticleNotFound, TierKnown, Slots
  <2>2. QED
    BY <1>8, <2>1, RetryAssumption DEF ArticleNotFound
<1>9. ASSUME NEW s \in Sessions, EndSweep(s) \/ Forwardable(s) \/ WriteChunk(s)
      PROVE TypeOK'
  <2>1. CASE EndSweep(s)
    BY <2>1 DEF EndSweep
  <2>2. CASE Forwardable(s)
    BY <2>2 DEF Forwardable
  <2>3. CASE WriteChunk(s)
    BY <2>3 DEF WriteChunk
  <2>4. QED
    BY <1>9, <2>1, <2>2, <2>3
<1>10. ASSUME NEW b \in Backends, BackgroundProbe(b) PROVE TypeOK'
  BY <1>10 DEF BackgroundProbe, Slots
<1>11. CASE Forget
  BY <1>11 DEF Forget
<1>12. CASE Expire
  BY <1>12 DEF Expire
<1>13. CASE UNCHANGED vars
  BY <1>13
<1>14. QED
  BY <1>1, <1>2, <1>3, <1>4, <1>5, <1>6, <1>7, <1>8, <1>9, <1>10, <1>11, <1>12,
     <1>13, StepKinds
     DEF Progress

\* Negative facts stay true: a slot is only added for a provider that lacks the
\* article, and a provider that lacks it never gets it back.
LEMMA FactsStep == IInv /\ [Next]_vars => NegativeFactsSound'
<1> SUFFICES ASSUME IInv, [Next]_vars PROVE NegativeFactsSound'
  OBVIOUS
<1> USE DEF IInv, TypeOK, NegativeFactsSound, shared, request, vars
<1>1. ASSUME NEW s \in Sessions, Start(s) PROVE NegativeFactsSound'
  BY <1>1 DEF Start
<1>2. ASSUME NEW s \in Sessions, Returns(s)
      PROVE NegativeFactsSound'
  BY <1>2 DEF Returns, Return
<1>3. ASSUME NEW s \in Sessions,
             FirstPass(s) \/ RetryPass(s) \/ EndSweep(s) \/ Route(s)
                 \/ BackendUnavailable(s) \/ Forwardable(s) \/ NextAttempt(s)
                 \/ WriteChunk(s)
      PROVE NegativeFactsSound'
  BY <1>3 DEF FirstPass, RetryPass, EndSweep, Route, BackendUnavailable,
              Forwardable, NextAttempt, WriteChunk
<1>4. ASSUME NEW s \in Sessions, NEW b \in Backends,
             SweepMissing(s, b) \/ SweepPresent(s, b) \/ SweepUnavailable(s, b)
      PROVE NegativeFactsSound'
  BY <1>4 DEF SweepMissing, SweepPresent, SweepUnavailable, HasArticle
<1>5. ASSUME NEW s \in Sessions, ArticleNotFound(s) PROVE NegativeFactsSound'
  BY <1>5 DEF ArticleNotFound, HasArticle
<1>6. ASSUME NEW b \in Backends, BackgroundProbe(b) PROVE NegativeFactsSound'
  BY <1>6 DEF BackgroundProbe, HasArticle
<1>7. CASE Forget \/ Expire \/ UNCHANGED vars
  BY <1>7 DEF Forget, Expire
<1>8. QED
  BY <1>1, <1>2, <1>3, <1>4, <1>5, <1>6, <1>7, StepKinds
     DEF Progress

\* What a session knows about the tiers below its target is never lost: the
\* selector establishes it and the request-local facts only grow.
LEMMA TierStep == IInv /\ [Next]_vars => TierKnown'
<1> SUFFICES ASSUME IInv, [Next]_vars PROVE TierKnown'
  OBVIOUS
<1> USE DEF IInv, TypeOK, TierKnown, shared, request, vars
<1>1. ASSUME NEW s \in Sessions, Start(s) PROVE TierKnown'
  BY <1>1 DEF Start
<1>2. ASSUME NEW s \in Sessions, Returns(s)
      PROVE TierKnown'
  BY <1>2 DEF Returns, Return
<1>3. ASSUME NEW s \in Sessions,
             FirstPass(s) \/ RetryPass(s) \/ EndSweep(s)
                 \/ BackendUnavailable(s) \/ Forwardable(s) \/ NextAttempt(s)
                 \/ WriteChunk(s)
      PROVE TierKnown'
  BY <1>3 DEF FirstPass, RetryPass, EndSweep, BackendUnavailable, Forwardable,
              NextAttempt, WriteChunk
<1>4. ASSUME NEW s \in Sessions, NEW b \in Backends,
             SweepMissing(s, b) \/ SweepPresent(s, b) \/ SweepUnavailable(s, b)
      PROVE TierKnown'
  BY <1>4 DEF SweepMissing, SweepPresent, SweepUnavailable
<1>5. ASSUME NEW s \in Sessions, ArticleNotFound(s) PROVE TierKnown'
  BY <1>5 DEF ArticleNotFound
<1>6. ASSUME NEW s \in Sessions, Route(s) PROVE TierKnown'
  BY <1>6 DEF Route, Selectable
<1>7. ASSUME NEW b \in Backends, BackgroundProbe(b) PROVE TierKnown'
  BY <1>7 DEF BackgroundProbe
<1>8. CASE Forget \/ Expire \/ UNCHANGED vars
  BY <1>8 DEF Forget, Expire
<1>9. QED
  BY <1>1, <1>2, <1>3, <1>4, <1>5, <1>6, <1>7, <1>8, StepKinds
     DEF Progress

\* A session replies once, when it leaves the loop.
LEMMA ReplyStep == IInv /\ [Next]_vars => ReplyState'
<1> SUFFICES ASSUME IInv, [Next]_vars PROVE ReplyState'
  OBVIOUS
<1> USE DEF IInv, TypeOK, ReplyState, Replies, shared, request, vars
<1>1. ASSUME NEW s \in Sessions, Start(s) PROVE ReplyState'
  BY <1>1 DEF Start
<1>2. ASSUME NEW s \in Sessions, Returns(s)
      PROVE ReplyState'
  BY <1>2 DEF Returns, Return
<1>3. ASSUME NEW s \in Sessions,
             FirstPass(s) \/ RetryPass(s) \/ EndSweep(s) \/ Route(s)
                 \/ BackendUnavailable(s) \/ ArticleNotFound(s) \/ Forwardable(s)
                 \/ NextAttempt(s) \/ WriteChunk(s)
      PROVE ReplyState'
  BY <1>3 DEF FirstPass, RetryPass, EndSweep, Route, BackendUnavailable,
              ArticleNotFound, Forwardable, NextAttempt, WriteChunk
<1>4. ASSUME NEW s \in Sessions, NEW b \in Backends,
             SweepMissing(s, b) \/ SweepPresent(s, b) \/ SweepUnavailable(s, b)
      PROVE ReplyState'
  BY <1>4 DEF SweepMissing, SweepPresent, SweepUnavailable
<1>5. ASSUME NEW b \in Backends, BackgroundProbe(b) PROVE ReplyState'
  BY <1>5 DEF BackgroundProbe
<1>6. CASE Forget \/ Expire \/ UNCHANGED vars
  BY <1>6 DEF Forget, Expire
<1>7. QED
  BY <1>1, <1>2, <1>3, <1>4, <1>5, <1>6, StepKinds DEF Progress

\* A 430 is said by Exhausted alone, and then no slot is left to hold the
\* article.
LEMMA NotFoundStep == IInv /\ [Next]_vars => NoFalse430'
<1> SUFFICES ASSUME IInv, [Next]_vars PROVE NoFalse430'
  OBVIOUS
<1> USE DEF IInv, TypeOK, NoFalse430, shared, request, vars
<1>1. ASSUME NEW s \in Sessions, Returns(s) PROVE NoFalse430'
  BY <1>1 DEF Returns, Return
<1>2. ASSUME NEW s \in Sessions, Start(s) PROVE NoFalse430'
  BY <1>2 DEF Start
<1>3. CASE UNCHANGED <<reply, holders>>
  BY <1>3
<1>4. CASE Expire
  BY <1>4 DEF Expire
<1>5. QED
  BY <1>1, <1>2, <1>3, <1>4, StepKinds
     DEF Progress, WriteChunk, FirstPass, RetryPass, SweepMissing,
         SweepPresent, SweepUnavailable, EndSweep, Route, BackendUnavailable,
         ArticleNotFound, Forwardable, NextAttempt, BackgroundProbe, Forget
-----------------------------------------------------------------------------
\* The invariant holds of every state of the retry loop, whatever the order in
\* which sessions, probes, cache and providers take their steps.
THEOREM Invariance == Spec => []IInv
<1>1. IInv /\ [Next]_vars => IInv'
  BY TypeStep, FactsStep, TierStep, ReplyStep, NotFoundStep DEF IInv
<1>2. QED
  BY InitInv, <1>1, PTL DEF Spec

\* The variables of the retry loop keep their types.
THEOREM TypeCorrectness == Spec => []TypeOK
<1>1. IInv => TypeOK
  BY DEF IInv
<1>2. QED
  BY Invariance, <1>1, PTL

\* No cached or request-local "missing" bit is ever wrong about its provider.
THEOREM FactsCorrectness == Spec => []NegativeFactsSound
<1>1. IInv => NegativeFactsSound
  BY DEF IInv
<1>2. QED
  BY Invariance, <1>1, PTL

\* The proxy says 430 only when no provider holds the article
\* (execute_article_retry_loop).
THEOREM NotFoundCorrectness == Spec => []NoFalse430
<1>1. IInv => NoFalse430
  BY DEF IInv
<1>2. QED
  BY Invariance, <1>1, PTL

\* A tier is left only when none of its providers holds the article
\* (select_backend).
THEOREM TierCorrectness == Spec => []TierDiscipline
<1>1. IInv => TierDiscipline
  BY DEF IInv, TierKnown, NegativeFactsSound, TierDiscipline, HasArticle
<1>2. QED
  BY Invariance, <1>1, PTL

\* At most one response reaches the client, whatever fails during a transfer: the
\* errors that let the loop go on come from transfers that wrote nothing
\* (after_client_delivery, from_client_write_after_cleanup,
\* blocks_another_response).
THEOREM ResponseCorrectness == Spec => []OneResponse
<1>1. IInv => OneResponse
  BY DEF IInv, ReplyState, OneResponse, Replies
<1>2. QED
  BY Invariance, <1>1, PTL

\* A failed attempt always costs its backend the rest of the request, so at
\* most one attempt is made per backend (unavailable_backends, availability).
THEOREM AttemptsCorrectness == Spec => AttemptsUseUpBackends
<1> DEFINE UsesUp ==
      \A s \in Sessions : (pc[s] # "idle" /\ pc'[s] # "idle") =>
          /\ missing[s] \subseteq missing'[s]
          /\ suppressed[s] \subseteq suppressed'[s]
          /\ (pc[s] \in {"attempt", "write"} /\ pc'[s] = "loop") =>
                ~Available(target[s], missing'[s], suppressed'[s])
<1>1. IInv /\ [Next]_vars => UsesUp
  <2> SUFFICES ASSUME IInv, [Next]_vars PROVE UsesUp
    OBVIOUS
  <2> USE DEF IInv, TypeOK, shared, request, vars
  <2>1. ASSUME NEW s \in Sessions, Start(s) PROVE UsesUp
    BY <2>1 DEF Start
  <2>2. ASSUME NEW s \in Sessions, Returns(s)
        PROVE UsesUp
    BY <2>2 DEF Returns, Return
  <2>3. ASSUME NEW s \in Sessions,
               FirstPass(s) \/ RetryPass(s) \/ EndSweep(s) \/ Route(s) \/ Forwardable(s)
                   \/ WriteChunk(s)
        PROVE UsesUp
    BY <2>3 DEF FirstPass, RetryPass, EndSweep, Route, Forwardable, WriteChunk
  <2>4. ASSUME NEW s \in Sessions, NEW b \in Backends,
               SweepMissing(s, b) \/ SweepPresent(s, b) \/ SweepUnavailable(s, b)
        PROVE UsesUp
    BY <2>4 DEF SweepMissing, SweepPresent, SweepUnavailable
  <2>5. ASSUME NEW s \in Sessions,
               BackendUnavailable(s) \/ ArticleNotFound(s) \/ NextAttempt(s)
        PROVE UsesUp
    BY <2>5 DEF BackendUnavailable, ArticleNotFound, NextAttempt, Available
  <2>6. ASSUME NEW b \in Backends, BackgroundProbe(b) PROVE UsesUp
    BY <2>6 DEF BackgroundProbe
  <2>7. CASE Forget \/ Expire \/ UNCHANGED vars
    BY <2>7 DEF Forget, Expire
  <2>8. QED
    BY <2>1, <2>2, <2>3, <2>4, <2>5, <2>6, <2>7, StepKinds
       DEF Progress
<1>2. QED
  BY Invariance, <1>1, PTL DEF Spec, AttemptsUseUpBackends

\* A set of natural numbers that has an element has a least one.
LEMMA LeastNat ==
    ASSUME NEW T, T \subseteq Nat, T # {}
    PROVE  \E m \in T : \A n \in T : m <= n
<1>1. PICK m \in T : \A n \in T : ~(<<n, m>> \in OpToRel(<, Nat))
  BY NatLessThanWellFounded, WFMin
<1>2. \A n \in T : ~(n < m)
  BY <1>1 DEF OpToRel
<1>3. QED
  BY <1>2

\* When the selector has no backend for an article that exists, the first tier
\* not known missing has failed this request.
LEMMA NothingSelectable ==
    ASSUME NEW miss, NEW supp, Selectable(miss, supp) = {},
           miss \intersect holders = {}, holders # {}, holders \subseteq Slots
    PROVE  \E b \in supp : \A c \in Backends :
               HasArticle(c) => tier[c] >= tier[b] /\ (tier[c] = tier[b] => c \in supp)
<1> DEFINE Left == {b \in Backends : slot[b] \notin miss}
           T == {tier[b] : b \in Left}
<1>1. \A c \in Backends : HasArticle(c) => c \in Left
  BY DEF HasArticle
<1>2. PICK c \in Backends : HasArticle(c)
  BY DEF HasArticle, Slots
<1>3. T \subseteq Nat /\ T # {}
  BY <1>1, <1>2, RoutingAssumption
<1>4. PICK m \in T : \A n \in T : m <= n
  <2> HIDE DEF T
  <2> QED BY <1>3, LeastNat
<1>5. PICK b \in Left : tier[b] = m
  BY <1>4
<1>6. \A d \in Left : tier[d] >= m
  BY <1>3, <1>4
<1>7. \A d \in Left : tier[d] = m => d \in supp
  <2> SUFFICES ASSUME NEW d \in Left, tier[d] = m, d \notin supp PROVE FALSE
    OBVIOUS
  <2>1. \A e \in Backends : tier[e] < tier[d] => slot[e] \in miss
    BY <1>6, RoutingAssumption
  <2> QED
    BY <2>1 DEF Selectable, Available
<1>8. b \in supp
  BY <1>5, <1>7
<1>9. QED
  BY <1>1, <1>5, <1>6, <1>7, <1>8

\* "503 Backend error" about an article that exists means that the servers to
\* ask first have failed, however tiers, providers and failures are arranged and
\* whatever other sessions learn meanwhile (select_backend, NoRetryableBackend).
THEOREM BackendErrorCorrectness == Spec => BackendErrorMeansFailure
<1> DEFINE Failed(s) ==
       \/ holders = {}
       \/ \E b \in suppressed[s] : \A c \in Backends :
             HasArticle(c) => tier[c] >= tier[b] /\ (tier[c] = tier[b] => c \in suppressed[s])
<1>1. ASSUME IInv, Next, NEW s \in Sessions,
             SteadyLoad, reply[s] = "pending", reply'[s] = "backendError"
      PROVE  Failed(s)
  <2>1. reply \in [Sessions -> Replies \union {"none", "pending"}]
    BY <1>1 DEF IInv, TypeOK
  <2>2. ASSUME NEW t \in Sessions, NEW r \in Replies \ {"backendError"}, NEW n, Return(t, r, n)
        PROVE  FALSE
    BY <1>1, <2>1, <2>2 DEF Return
  <2>3. ASSUME NEW t \in Sessions, NEW e, NEW n, TransferFailed(t, e, n) PROVE FALSE
    BY <1>1, <2>2, <2>3 DEF TransferFailed, Replies
  <2>4. ASSUME NEW t \in Sessions, Write(t) \/ Exhausted(t) PROVE FALSE
    BY <1>1, <2>2, <2>3, <2>4
       DEF Write, WriteChunk, WriteSucceeds, ClientWriteFails, BackendReadFails,
           Exhausted, ReturnLocally, Replies
  <2>5. ASSUME NEW t \in Sessions, Start(t) \/ Local(t) PROVE FALSE
    BY <1>1, <2>1, <2>5 DEF Start, Local, FirstPass, RetryPass, EndSweep, Route
  <2>6. ASSUME NEW t \in Sessions, Attempt(t) PROVE FALSE
    BY <1>1, <2>6 DEF Attempt, BackendUnavailable, ArticleNotFound, Forwardable
  <2>7. ASSUME NEW t \in Sessions, NEW b \in Backends,
               SweepMissing(t, b) \/ SweepPresent(t, b) \/ SweepUnavailable(t, b)
        PROVE  FALSE
    BY <1>1, <2>7 DEF SweepMissing, SweepPresent, SweepUnavailable
  <2>8. ASSUME (\E b \in Backends : BackgroundProbe(b)) \/ Forget \/ Expire PROVE FALSE
    BY <1>1, <2>8 DEF BackgroundProbe, Forget, Expire
  <2>9. PICK t \in Sessions : NoRetryableBackend(t)
    BY <1>1, <2>4, <2>5, <2>6, <2>7, <2>8 DEF Next, Exchange
  <2>10. t = s
    BY <1>1, <2>1, <2>9 DEF NoRetryableBackend, ReturnLocally, Return
  <2>11. Selectable(missing[s], suppressed[s]) = {}
    BY <1>1, <2>9, <2>10 DEF NoRetryableBackend
  <2>12. missing[s] \intersect holders = {} /\ holders \subseteq Slots
    BY <1>1 DEF IInv, TypeOK, NegativeFactsSound
  <2>13. QED
    BY <2>11, <2>12, NothingSelectable
<1>2. IInv /\ [Next]_vars =>
        [\A s \in Sessions :
            (SteadyLoad /\ reply[s] = "pending" /\ reply'[s] = "backendError") =>
                \/ holders = {}
                \/ \E b \in suppressed[s] : \A c \in Backends :
                      HasArticle(c) =>
                          /\ tier[c] >= tier[b]
                          /\ tier[c] = tier[b] => c \in suppressed[s]]_vars
  BY <1>1
<1>3. QED
  BY Invariance, <1>2, PTL DEF Spec, BackendErrorMeansFailure

\* Up to liveness, the retry loop implements ArticleLookup: every step of it is
\* a step of the abstract lookup or leaves the client's view alone.
THEOREM LookupRefinement == Spec => Lookup!Init /\ [][Lookup!Next]_(Lookup!vars)
<1>1. Init => Lookup!Init
  BY DEF Init, Lookup!Init
<1>2. IInv /\ [Next]_vars => [Lookup!Next]_(Lookup!vars)
  <2> SUFFICES ASSUME IInv, [Next]_vars PROVE [Lookup!Next]_(Lookup!vars)
    OBVIOUS
  <2> USE DEF IInv, TypeOK, ReplyState, shared, request, vars, Lookup!vars, Lookup!Next
  <2>1. ASSUME NEW s \in Sessions, Start(s) PROVE Lookup!Next
    BY <2>1 DEF Start, Lookup!Ask
  <2>2. ASSUME NEW s \in Sessions, Returns(s) PROVE Lookup!Next
    BY <2>2 DEF Returns, Return, Replies, Lookup!Reply, Lookup!Replies
  <2>3. CASE Expire
    BY <2>3 DEF Expire, Lookup!Expire
  <2>4. CASE UNCHANGED <<holders, reply>>
    BY <2>4
  <2>5. QED
    BY <2>1, <2>2, <2>3, <2>4, StepKinds
       DEF Progress, WriteChunk, FirstPass, RetryPass, SweepMissing,
           SweepPresent, SweepUnavailable, EndSweep, Route, BackendUnavailable,
           ArticleNotFound, Forwardable, NextAttempt, BackgroundProbe, Forget
<1>3. QED
  BY Invariance, <1>1, <1>2, PTL DEF Spec
=============================================================================
