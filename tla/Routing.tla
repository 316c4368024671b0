------------------------------- MODULE Routing -------------------------------
(***************************************************************************)
(* The tier-aware filter of the backend selector (router/mod.rs), as       *)
(* constant operators shared by the modules that route requests.           *)
(*                                                                         *)
(* A backend is a configured server; its slot is the position of its       *)
(* canonical hostname in the availability bitmap, so two backends of one   *)
(* provider share a slot.  Which of several selectable backends is taken   *)
(* depends on the strategy and on the load; here it is any of them.        *)
(***************************************************************************)
EXTENDS Naturals, FiniteSets

CONSTANTS Backends,  \* the configured servers
          slot,      \* slot[b]: availability slot of b
          tier       \* tier[b]: priority class of b, 0 is tried first

ASSUME RoutingAssumption ==
    /\ Backends # {} /\ IsFiniteSet(Backends)
    /\ DOMAIN slot = Backends
    /\ tier \in [Backends -> Nat]

\* The availability mask of the router: every slot some backend occupies.
Slots == {slot[b] : b \in Backends}

\* Mutant of AllExhausted: the mask holds only the first tier's slots.
AllExhaustedPrimary(missing) == {slot[b] : b \in {c \in Backends : tier[c] = 0}} \subseteq missing

\* ArticleAvailability::all_exhausted(mask).
AllExhausted(missing) == Slots \subseteq missing

\* is_available in select_backend: neither suppressed for this request nor
\* known to be missing the article.
Available(b, missing, suppressed) ==
    b \notin suppressed /\ slot[b] \notin missing

\* Mutant of Selectable: a tier is passed over when it has no usable backend.
SelectableSkipsBusyTier(missing, suppressed) ==
    {b \in Backends :
        /\ Available(b, missing, suppressed)
        /\ \A c \in Backends : tier[c] < tier[b] => ~Available(c, missing, suppressed)}

\* Mutant of Selectable: one missing backend is enough to pass over its tier.
SelectableSkipsPartialTier(missing, suppressed) ==
    {b \in Backends :
        /\ Available(b, missing, suppressed)
        /\ \A c \in Backends : tier[c] < tier[b] =>
              \E d \in Backends : tier[d] = tier[c] /\ slot[d] \in missing}

\* The backends select_backend may return on an article route.  A tier is
\* passed over only when every backend of it is known missing: a tier whose
\* remaining backends are all suppressed ends the search with None.
Selectable(missing, suppressed) ==
    {b \in Backends :
        /\ Available(b, missing, suppressed)
        /\ \A c \in Backends : tier[c] < tier[b] => slot[c] \in missing}

\* The same on a raw route, which has no availability: a tier is passed over
\* when all of its backends are suppressed.
SelectableRaw(suppressed) ==
    {b \in Backends :
        /\ b \notin suppressed
        /\ \A c \in Backends : tier[c] < tier[b] => c \in suppressed}

\* Providers with the STAT probe enabled that a probe round may ask.
ProbeCandidates(enabled, missing, suppressed) ==
    {b \in enabled : Available(b, missing, suppressed)}
=============================================================================
