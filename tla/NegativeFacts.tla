---------------------------- MODULE NegativeFacts ----------------------------
(***************************************************************************)
(* What a store of negative availability facts promises.  A fact is a pair *)
(* <<article, provider>>: the provider answered 430 for the article.  The  *)
(* store may forget any fact at any time, but knows a fact right after it  *)
(* is recorded and never makes one up, not even across a restart.          *)
(***************************************************************************)
CONSTANT Facts

VARIABLES known,    \* the facts the store would report
          observed  \* every fact that was ever recorded

vars == <<known, observed>>

Init == known = {} /\ observed = {}

Record(f) ==
    /\ known' \in SUBSET (known \union {f})
    /\ f \in known'
    /\ observed' = observed \union {f}

Forget ==
    /\ known' \in SUBSET known
    /\ UNCHANGED observed

Restart ==
    /\ known' \in SUBSET observed
    /\ UNCHANGED observed

Next == (\E f \in Facts : Record(f)) \/ Forget \/ Restart

Spec == Init /\ [][Next]_vars
=============================================================================
