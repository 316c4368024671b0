-------------------------- MODULE AvailabilityIndex --------------------------
(***************************************************************************)
(* The rotating index of 430 facts (cache/availability_index.rs): one      *)
(* shard of it, restricted to the keys of one block.                       *)
(*                                                                         *)
(* Facts live in two generations.  New facts go to the current one; when   *)
(* its time is up the other one is cleared and becomes current, lazily, by *)
(* whichever operation next takes the shard's lock.  Operations read the   *)
(* clock before they take the lock, so a reading can be stale by the time  *)
(* it is used.  The index is saved to a file and restored on a restart,    *)
(* possibly under another provider layout.                                 *)
(*                                                                         *)
(* Where the code keeps a bit, this module keeps the time at which the     *)
(* provider was observed to miss the article (0 for a clear bit), so that  *)
(* properties can speak of a fact's age; no action reads that time.        *)
(***************************************************************************)
EXTENDS Integers, Sequences, FiniteSets

CONSTANTS Keys,        \* message-ids that share a block
          Providers,   \* provider identities (canonical host names)
          Layouts,     \* provider layouts: injective sequences of providers
          BlockSlots,  \* entries of a block
          TTL,         \* configured retention, in milliseconds
          Skew,        \* bound: age of a clock reading when it is used
          MaxTime      \* bound: last instant

ASSUME IndexAssumption ==
    /\ BlockSlots \in Nat \ {0}
    /\ TTL \in Nat \ {0}
    /\ Skew \in Nat
    /\ MaxTime \in Nat
    /\ Layouts # {}
    /\ \A l \in Layouts : l \in Seq(Providers)

\* rotation_interval_millis for two generations.
Interval == IF TTL \div 2 > 1 THEN TTL \div 2 ELSE 1

Gens == {0, 1}

Smaller(a, b) == IF a < b THEN a ELSE b
Larger(a, b)  == IF a > b THEN a ELSE b

\* The bits a layout may use.
Bits == UNION {DOMAIN l : l \in Layouts}

\* A cleared generation.
NoFacts == [k \in Keys |-> [i \in Bits |-> 0]]

VARIABLES
    now,      \* the clock
    layout,   \* providers by bit position
    started,  \* started[g]: Generation.started_at, 0 when cleared
    facts,    \* facts[g][k][i]: when bit i of k was last set, 0 if clear
    current,  \* current_generation
    live,     \* live_generations
    next,     \* next_rotation_at, 0 when there is none
    file,     \* the saved snapshot: its provider table and entries
    denied    \* denied[k][p]: last time p really answered 430 for k

filter == <<started, facts, current, live, next>>
vars   == <<now, layout, filter, file, denied>>

NoFile == [table |-> <<>>, entries |-> {}]

Init ==
    /\ now = 1
    /\ layout \in Layouts
    /\ started = [g \in Gens |-> 0]
    /\ facts = [g \in Gens |-> NoFacts]
    /\ current = 0 /\ live = 0 /\ next = 0
    /\ file = NoFile
    /\ denied = [k \in Keys |-> [p \in Providers |-> 0]]

\* A clock reading an operation may be using by the time it holds the lock.
Readings == Larger(1, now - Skew) .. now

\* Mutant of Rotations: a long idle period retires one generation only.
RotationsOne(t) == IF live = 0 \/ next = 0 \/ t < next THEN 0 ELSE 1

\* rotate_if_needed: how many generations to retire at t ...
Rotations(t) ==
    IF live = 0 \/ next = 0 \/ t < next
    THEN 0
    ELSE Smaller(1 + (t - next) \div Interval, 2)

\* Mutant of Rotated: live_generations is not capped.
RotatedUncapped(t) ==
    LET n       == Rotations(t)
        cleared == IF n = 0 THEN {} ELSE IF n = 1 THEN {1 - current} ELSE Gens
    IN [started |-> [g \in Gens |-> IF g \in cleared THEN 0 ELSE started[g]],
        facts   |-> [g \in Gens |-> IF g \in cleared THEN NoFacts ELSE facts[g]],
        current |-> IF n = 1 THEN 1 - current ELSE current,
        live    |-> live + n,
        next    |-> IF n = 0 THEN next ELSE next + n * Interval]

\* ... and the filter after it.  The generations that become current on the
\* way are cleared.
Rotated(t) ==
    LET n       == Rotations(t)
        cleared == IF n = 0 THEN {} ELSE IF n = 1 THEN {1 - current} ELSE Gens
    IN [started |-> [g \in Gens |-> IF g \in cleared THEN 0 ELSE started[g]],
        facts   |-> [g \in Gens |-> IF g \in cleared THEN NoFacts ELSE facts[g]],
        current |-> IF n = 1 THEN 1 - current ELSE current,
        live    |-> Smaller(live + n, 2),
        next    |-> IF n = 0 THEN next ELSE next + n * Interval]

\* Mutant of Active: only the current generation is searched.
ActiveCurrent(cur, n) == IF n = 0 THEN {} ELSE {cur}

\* active_generation_indices.
Active(cur, n) == IF n = 0 THEN {} ELSE IF n = 1 THEN {cur} ELSE Gens

\* The keys that occupy a slot of the block.
Occupied(gen) == {k \in Keys : \E i \in Bits : gen[k][i] # 0}

\* Mutant of Inserted: a replaced entry hands its bits to the new key.
InsertedOverVictim(gen, k, i, time) ==
    LET With(g) == [g EXCEPT ![k][i] = time]
        Over(v) == [gen EXCEPT ![v] = NoFacts[v], ![k] = gen[v]]
    IN IF k \in Occupied(gen) \/ Cardinality(Occupied(gen)) < BlockSlots
       THEN {With(gen)}
       ELSE {With(Over(v)) : v \in Occupied(gen)}

\* Generation::insert_missing_bits: extend k's entry, take a free slot, or
\* replace a victim picked by k's hash.
Inserted(gen, k, i, time) ==
    LET With(g) == [g EXCEPT ![k][i] = time]
        Without(v) == [gen EXCEPT ![v] = NoFacts[v]]
    IN IF k \in Occupied(gen) \/ Cardinality(Occupied(gen)) < BlockSlots
       THEN {With(gen)}
       ELSE {With(Without(v)) : v \in Occupied(gen)}

\* record_availability_missing: the provider at bit i has answered 430 for k.
\* The first fact of a cleared generation starts its clock.
Record(k, i) ==
    /\ i \in DOMAIN layout
    /\ \E t \in Readings :
        LET r     == Rotated(t)
            first == r.started[r.current] = 0
        IN /\ started' = IF first THEN [r.started EXCEPT ![r.current] = t] ELSE r.started
           /\ live' = IF first THEN Larger(r.live, 1) ELSE r.live
           /\ next' = IF first THEN t + Interval ELSE r.next
           /\ current' = r.current
           /\ \E gen \in Inserted(r.facts[r.current], k, i, now) :
                facts' = [r.facts EXCEPT ![r.current] = gen]
    /\ denied' = [denied EXCEPT ![k][layout[i]] = now]
    /\ UNCHANGED <<now, layout, file>>

BecomesRotated(t) ==
    LET r == Rotated(t)
    IN /\ started' = r.started /\ facts' = r.facts /\ current' = r.current
       /\ live' = r.live /\ next' = r.next

\* The times at which p was seen to miss k, by what a lookup at t finds in the
\* active generations; none if the lookup does not report p.
LookupSeen(t, k, p) ==
    LET r == Rotated(t)
    IN {r.facts[x[1]][k][x[2]] : x \in
            {y \in Active(r.current, r.live) \X DOMAIN layout :
                layout[y[2]] = p /\ r.facts[y[1]][k][y[2]] # 0}}

\* lookup_missing_bits changes the filter only by rotating it.
Lookup ==
    /\ \E t \in Readings : BecomesRotated(t)
    /\ UNCHANGED <<now, layout, file, denied>>

\* save_to_path: an entry carries the start of its generation as its age.  The
\* file is replaced atomically, so a crash leaves the old or the new one.
Save ==
    /\ BecomesRotated(now)
    /\ file' = [table |-> layout,
                entries |-> {[key |-> x[2], bit |-> x[3], at |-> started'[x[1]],
                              seen |-> facts'[x[1]][x[2]][x[3]]] : x \in
                    {y \in Active(current', live') \X Keys \X Bits :
                        facts'[y[1]][y[2]][y[3]] # 0}}]
    /\ UNCHANGED <<now, layout, denied>>

\* The entries restore_into accepts: the provider is still configured and the
\* entry is younger than the TTL.
Restorable(l) ==
    {e \in file.entries :
        /\ now - e.at < TTL
        /\ \E j \in DOMAIN l : l[j] = file.table[e.bit]}

\* restore_entry's choice of generation, by age; generation 0 is current.
Offset(e) == Smaller((now - e.at) \div Interval, 1)

\* Mutant of Translated: stored bits are taken for the running layout's.
TranslatedAsStored(l, e) == e.bit

\* The bit of the entry's provider in the running layout.
Translated(l, e) == CHOOSE j \in DOMAIN l : l[j] = file.table[e.bit]

\* What is left of the entries restored to one generation, oldest first: they
\* compete for its slots, and a key that is evicted and comes back has only the
\* bits of its later entries.
Survivors(es) ==
    {kept \in SUBSET es :
        /\ Cardinality({e.key : e \in kept})
             = Smaller(BlockSlots, Cardinality({e.key : e \in es}))
        /\ Cardinality({e.key : e \in es}) <= BlockSlots => kept = es
        /\ \A e \in kept, d \in es : d.key = e.key /\ d.at >= e.at => d \in kept}

\* Mutant of OldestAge: restored evidence looks freshly observed.
OldestAgeNow(es) == IF es = {} THEN 0 ELSE now

\* restore_entry: a generation starts with its oldest entry.
OldestAge(es) ==
    IF es = {} THEN 0
    ELSE CHOOSE t \in {e.at : e \in es} : \A e \in es : t <= e.at

\* A restart under layout l: load_from_path into an empty index.  A generation
\* is as old as its oldest entry, evicted or not; the newest one is current.
Restart(l) ==
    LET rest     == Restorable(l)
        In(g)    == {e \in rest : Offset(e) = g}
        Newest(es) == (CHOOSE e \in es : \A d \in es : d.seen <= e.seen).seen
    IN /\ layout' = l
       /\ started' = [g \in Gens |-> OldestAge(In(g))]
       /\ \E kept \in [Gens -> SUBSET rest] :
            /\ \A g \in Gens : kept[g] \in Survivors(In(g))
            /\ facts' = [g \in Gens |-> [k \in Keys |-> [j \in Bits |->
                   LET es == {e \in kept[g] : e.key = k /\ Translated(l, e) = j}
                   IN IF es = {} THEN 0 ELSE Newest(es)]]]
       /\ current' = IF In(0) = {} /\ In(1) # {} THEN 1 ELSE 0
       /\ live' = IF In(1) # {} THEN 2 ELSE IF In(0) # {} THEN 1 ELSE 0
       /\ next' = IF rest = {} THEN 0 ELSE started'[current'] + Interval
       /\ UNCHANGED <<now, file, denied>>

Tick ==
    /\ now < MaxTime
    /\ now' = now + 1
    /\ UNCHANGED <<layout, filter, file, denied>>

Next ==
    \/ \E k \in Keys, i \in Bits : Record(k, i)
    \/ Lookup
    \/ Save
    \/ \E l \in Layouts : Restart(l)
    \/ Tick

Spec == Init /\ [][Next]_vars
-----------------------------------------------------------------------------
\* The types of a shard's fields, of the file and of what was observed.
TypeOK ==
    /\ now \in Nat \ {0}
    /\ layout \in Layouts
    /\ started \in [Gens -> Nat]
    /\ facts \in [Gens -> [Keys -> [Bits -> Nat]]]
    /\ current \in Gens
    /\ live \in 0..2
    /\ next \in Nat
    /\ denied \in [Keys -> [Providers -> Nat]]
    /\ \A e \in file.entries :
        e.key \in Keys /\ e.bit \in DOMAIN file.table /\ e.at \in Nat /\ e.seen \in Nat

\* A fact is reported for less than three rotation intervals, half as long
\* again as the TTL: the first insert after a rotation restarts the clock of
\* the whole filter (ensure_current_generation_started), late at most by one
\* interval.  This holds across stale clock readings, saves and restarts.
RetentionBound ==
    \A t \in Readings, k \in Keys, p \in Providers :
        \A seen \in LookupSeen(t, k, p) : t - seen < 3 * Interval

\* "the configured retention bound does not increase": a provider is reported
\* missing an article only on evidence younger than the TTL.  The code violates
\* it.
RetentionTTL ==
    \A t \in Readings, k \in Keys, p \in Providers :
        LookupSeen(t, k, p) # {} => \E seen \in LookupSeen(t, k, p) : t - seen < TTL

\* What a lookup reports was really said, by that provider about that article;
\* a restart under another provider order or a replaced block slot changes
\* nothing (StoredAvailabilitySnapshot::restore_into, Generation::key).
NoInventedFacts ==
    \A t \in Readings, k \in Keys, p \in Providers :
        \A seen \in LookupSeen(t, k, p) : seen <= denied[k][p]

\* A restore never turns old evidence into a fresh observation: the age the
\* index goes by, in memory and in the file, is never less than a fact's own
\* (restore_entry, snapshot_entries).
AgesNeverShrink ==
    /\ \A g \in Gens, k \in Keys, i \in Bits :
        facts[g][k][i] # 0 => started[g] # 0 /\ started[g] <= facts[g][k][i]
    /\ \A e \in file.entries : e.at <= e.seen

\* No fact is stranded: a generation that holds facts is one lookups search
\* and rotation will eventually clear (live_generations, next_rotation_at).
FactsReachable ==
    \A g \in Gens : Occupied(facts[g]) # {} => g \in Active(current, live) /\ next # 0

\* The facts of the active generations, by provider.
KnownFacts ==
    {f \in Keys \X Providers :
        \E i \in DOMAIN layout : layout[i] = f[2] /\
            \E g \in Active(current, live) : facts[g][f[1]][i] # 0}

\* The index is a store of negative facts: it forgets, but never invents, and
\* knows what it was just told.
Store == INSTANCE NegativeFacts WITH
             Facts <- Keys \X Providers,
             known <- KnownFacts,
             observed <- {f \in Keys \X Providers : denied[f[1]][f[2]] # 0}

StoreSpec == Store!Spec
=============================================================================
