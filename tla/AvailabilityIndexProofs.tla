----------------------- MODULE AvailabilityIndexProofs -----------------------
(***************************************************************************)
(* Proofs about AvailabilityIndex, for any TTL, any set of articles and    *)
(* providers, any layouts and any staleness of the clock readings.         *)
(*                                                                         *)
(* The retention bound does not follow from the clock: a stale reading may *)
(* retire nothing, and a late insert postpones every rotation.  What is    *)
(* invariant is the spacing of the generations: how far the next rotation  *)
(* can lie after the start of each of them.                                *)
(***************************************************************************)
EXTENDS AvailabilityIndex, WellFoundedInduction, TLAPS

\* The invariant of a filter (started, facts, current, live, next), stated of
\* its five parts so that it can be applied to a filter that has just been
\* rotated as well.
FilterType(st, fa, cu, li, ne) ==
    /\ st \in [Gens -> Nat]
    /\ fa \in [Gens -> [Keys -> [Bits -> Nat]]]
    /\ cu \in Gens
    /\ li \in 0..2
    /\ ne \in Nat

\* A fact stands at a configured bit, is not older than its generation, and its
\* provider did say 430 then.
FactsOK(st, fa) ==
    \A g \in Gens, k \in Keys, i \in Bits : fa[g][k][i] # 0 =>
        /\ st[g] # 0 /\ st[g] <= fa[g][k][i]
        /\ i \in DOMAIN layout
        /\ fa[g][k][i] <= denied[k][layout[i]]

\* A generation with a start is one that lookups search and rotation clears.
StartedActive(st, cu, li, ne) ==
    \A g \in Gens : st[g] # 0 =>
        g \in Active(cu, li) /\ ne # 0 /\ st[g] <= now

\* The next rotation comes within one interval of the start of the current
\* generation, and within two (three, once the current generation has taken
\* its first fact) of the start of the other.
Spacing(st, cu, ne) ==
    /\ st[cu] # 0 => ne <= st[cu] + Interval
    /\ st[1 - cu] # 0 =>
        ne <= st[1 - cu] + (IF st[cu] = 0 THEN 2 * Interval ELSE 3 * Interval)

FilterOK(st, fa, cu, li, ne) ==
    /\ FilterType(st, fa, cu, li, ne)
    /\ FactsOK(st, fa)
    /\ StartedActive(st, cu, li, ne)
    /\ Spacing(st, cu, ne)

\* What the saved entries say was really said, not before their stated age.
FileOK ==
    \A e \in file.entries :
        /\ e.at # 0 /\ e.at <= now
        /\ e.at <= e.seen
        /\ file.table[e.bit] \in Providers
        /\ e.seen <= denied[e.key][file.table[e.bit]]

IInv ==
    /\ TypeOK
    /\ FilterOK(started, facts, current, live, next)
    /\ FileOK
    /\ \A k \in Keys, p \in Providers : denied[k][p] <= now

-----------------------------------------------------------------------------
\* Half the TTL, rounded down, but never zero.
LEMMA IntervalFact == Interval \in Nat \ {0} /\ TTL <= 2 * Interval + 1
BY IndexAssumption DEF Interval

\* A quotient of zero: the time left is less than the divisor.
LEMMA QuotientZero ==
    ASSUME NEW a \in Nat, NEW d \in Nat \ {0}, a \div d = 0
    PROVE  a < d
OBVIOUS

\* rotate_if_needed retires none, one or both generations: none only if no
\* rotation is due, one only if the next one is still ahead.
LEMMA RotationsFact ==
    ASSUME TypeOK, NEW t \in Nat
    PROVE  /\ Rotations(t) \in {0, 1, 2}
           /\ Rotations(t) = 0 => live = 0 \/ next = 0 \/ t < next
           /\ Rotations(t) = 1 => next <= t /\ t < next + Interval
           /\ Rotations(t) # 0 => live # 0 /\ next # 0
<1>1. CASE live = 0 \/ next = 0 \/ t < next
  BY <1>1 DEF Rotations
<1>2. CASE ~(live = 0 \/ next = 0 \/ t < next)
  <2>1. t - next \in Nat /\ next \in Nat
    BY <1>2 DEF TypeOK
  <2>2. (t - next) \div Interval \in Nat
    BY <2>1, IntervalFact
  <2>3. Rotations(t) = Smaller(1 + (t - next) \div Interval, 2)
    BY <1>2 DEF Rotations
  <2>4. Rotations(t) = 1 => (t - next) \div Interval = 0
    BY <2>2, <2>3 DEF Smaller
  <2>5. Rotations(t) = 1 => t - next < Interval
    BY <2>1, <2>4, QuotientZero, IntervalFact
  <2>6. Rotations(t) \in {1, 2}
    BY <2>2, <2>3 DEF Smaller
  <2>7. QED
    BY <1>2, <2>1, <2>5, <2>6, IntervalFact
<1>3. QED
  BY <1>1, <1>2

\* A rotation at any reading of the clock keeps the filter's invariant, and
\* leaves no rotation due unless it has cleared everything.
LEMMA RotatedOK ==
    ASSUME IInv, NEW t \in Nat, NEW r, r = Rotated(t)
    PROVE  /\ FilterOK(r.started, r.facts, r.current, r.live, r.next)
           /\ (\E g \in Gens : r.started[g] # 0) => t < r.next
<1> DEFINE n == Rotations(t)
<1>1. /\ n \in {0, 1, 2}
      /\ n = 0 => live = 0 \/ next = 0 \/ t < next
      /\ n = 1 => next <= t /\ t < next + Interval
      /\ n # 0 => live # 0 /\ next # 0
  BY RotationsFact DEF IInv
<1>2. NoFacts \in [Keys -> [Bits -> Nat]] /\ \A k \in Keys, i \in Bits : NoFacts[k][i] = 0
  BY DEF NoFacts
<1> HIDE DEF n
<1>3. CASE n = 0
  <2>1. /\ r.started = started /\ r.facts = facts /\ r.current = current
        /\ r.live = live /\ r.next = next
    BY <1>3 DEF Rotated, n, IInv, FilterOK, FilterType, Smaller
  <2>2. QED
    BY <1>1, <1>3, <2>1 DEF IInv, FilterOK, FilterType, StartedActive, Active
<1>4. CASE n = 1
  <2>1. /\ r.started = [g \in Gens |-> IF g = 1 - current THEN 0 ELSE started[g]]
        /\ r.facts = [g \in Gens |-> IF g = 1 - current THEN NoFacts ELSE facts[g]]
        /\ r.current = 1 - current
        /\ r.live = 2
        /\ r.next = next + Interval
    BY <1>1, <1>4, IntervalFact DEF Rotated, n, IInv, FilterOK, FilterType, Smaller
  <2> HIDE DEF NoFacts
  <2>2. FilterType(r.started, r.facts, r.current, r.live, r.next)
    BY <1>2, <2>1, IntervalFact DEF IInv, FilterOK, FilterType, Gens
  <2>3. FactsOK(r.started, r.facts)
    BY <1>2, <2>1 DEF IInv, FilterOK, FilterType, FactsOK, Gens
  <2>4. StartedActive(r.started, r.current, r.live, r.next)
    BY <1>1, <1>4, <2>1, IntervalFact
       DEF IInv, FilterOK, FilterType, StartedActive, Active, Gens
  <2>5. Spacing(r.started, r.current, r.next)
    BY <1>1, <1>4, <2>1, IntervalFact DEF IInv, FilterOK, FilterType, Spacing, Gens
  <2>6. t < r.next
    BY <1>1, <1>4, <2>1
  <2>7. QED
    BY <2>2, <2>3, <2>4, <2>5, <2>6 DEF FilterOK
<1>5. CASE n = 2
  <2>1. /\ r.started = [g \in Gens |-> 0]
        /\ r.facts = [g \in Gens |-> NoFacts]
        /\ r.current = current
        /\ r.live = 2
        /\ r.next = next + 2 * Interval
    BY <1>1, <1>5, IntervalFact DEF Rotated, n, IInv, FilterOK, FilterType, Smaller
  <2>2. QED
    BY <1>2, <2>1, IntervalFact
       DEF IInv, FilterOK, FilterType, FactsOK, StartedActive, Spacing, Gens
<1>6. QED
  BY <1>1, <1>3, <1>4, <1>5

\* A lookup's or a save's rotation in place keeps it too.
LEMMA BecomesRotatedOK ==
    ASSUME IInv, NEW t \in Nat, BecomesRotated(t), UNCHANGED <<now, layout, denied>>
    PROVE  FilterOK(started, facts, current, live, next)'
<1> DEFINE r == Rotated(t)
<1>1. FilterOK(r.started, r.facts, r.current, r.live, r.next)
  BY RotatedOK
<1> HIDE DEF r
<1>2. /\ started' = r.started /\ facts' = r.facts /\ current' = r.current
      /\ live' = r.live /\ next' = r.next
  BY DEF BecomesRotated, r
<1>3. QED
  BY <1>1, <1>2
     DEF FilterOK, FilterType, FactsOK, StartedActive, Spacing

\* A clock reading is a positive instant not after now.
LEMMA ReadingsFact ==
    ASSUME TypeOK, NEW t \in Readings
    PROVE  t \in Nat /\ 1 <= t /\ t <= now
BY IndexAssumption DEF TypeOK, Readings, Larger

\* An insert adds the new fact and may drop others, but touches no other bit.
LEMMA InsertedFact ==
    ASSUME NEW gen0 \in [Keys -> [Bits -> Nat]], NEW k \in Keys, NEW i \in Bits,
           NEW time \in Nat, NEW gen \in Inserted(gen0, k, i, time)
    PROVE  /\ gen \in [Keys -> [Bits -> Nat]]
           /\ gen[k][i] = time
           /\ \A j \in Keys, b \in Bits :
                ~(j = k /\ b = i) => gen[j][b] = gen0[j][b] \/ gen[j][b] = 0
<1> DEFINE With(g) == [g EXCEPT ![k][i] = time]
           Without(v) == [gen0 EXCEPT ![v] = NoFacts[v]]
<1>1. ASSUME NEW g \in [Keys -> [Bits -> Nat]]
      PROVE /\ With(g) \in [Keys -> [Bits -> Nat]]
            /\ With(g)[k][i] = time
            /\ \A j \in Keys, b \in Bits : ~(j = k /\ b = i) => With(g)[j][b] = g[j][b]
  OBVIOUS
<1>2. ASSUME NEW v \in Keys
      PROVE /\ Without(v) \in [Keys -> [Bits -> Nat]]
            /\ \A j \in Keys, b \in Bits :
                 Without(v)[j][b] = gen0[j][b] \/ Without(v)[j][b] = 0
  BY DEF NoFacts
<1>3. gen = With(gen0) \/ \E v \in Keys : gen = With(Without(v))
  BY DEF Inserted, Occupied
<1> HIDE DEF With, Without
<1>4. CASE gen = With(gen0)
  BY <1>1, <1>4
<1>5. CASE \E v \in Keys : gen = With(Without(v))
  <2>1. PICK v \in Keys : gen = With(Without(v))
    BY <1>5
  <2>2. /\ Without(v) \in [Keys -> [Bits -> Nat]]
        /\ \A j \in Keys, b \in Bits :
             Without(v)[j][b] = gen0[j][b] \/ Without(v)[j][b] = 0
    BY <1>2
  <2>3. /\ gen \in [Keys -> [Bits -> Nat]]
        /\ gen[k][i] = time
        /\ \A j \in Keys, b \in Bits : ~(j = k /\ b = i) => gen[j][b] = Without(v)[j][b]
    BY <1>1, <2>1, <2>2
  <2>4. QED
    BY <2>2, <2>3
<1>6. QED
  BY <1>3, <1>4, <1>5

\* A fact that was just observed goes into the index in good order.
LEMMA RecordOK ==
    ASSUME IInv, NEW k \in Keys, NEW i \in Bits, Record(k, i)
    PROVE  IInv'
<1>1. PICK t \in Readings :
        LET r     == Rotated(t)
            first == r.started[r.current] = 0
        IN /\ started' = IF first THEN [r.started EXCEPT ![r.current] = t] ELSE r.started
           /\ live' = IF first THEN Larger(r.live, 1) ELSE r.live
           /\ next' = IF first THEN t + Interval ELSE r.next
           /\ current' = r.current
           /\ \E gen \in Inserted(r.facts[r.current], k, i, now) :
                facts' = [r.facts EXCEPT ![r.current] = gen]
  BY DEF Record
<1> DEFINE r     == Rotated(t)
           first == r.started[r.current] = 0
<1>2. PICK gen \in Inserted(r.facts[r.current], k, i, now) :
        facts' = [r.facts EXCEPT ![r.current] = gen]
  BY <1>1
<1>3. t \in Nat /\ 1 <= t /\ t <= now /\ now \in Nat
  BY ReadingsFact DEF IInv, TypeOK
<1>4. /\ FilterOK(r.started, r.facts, r.current, r.live, r.next)
      /\ (\E g \in Gens : r.started[g] # 0) => t < r.next
  BY <1>3, RotatedOK
<1>5. /\ started' = IF first THEN [r.started EXCEPT ![r.current] = t] ELSE r.started
      /\ live' = IF first THEN Larger(r.live, 1) ELSE r.live
      /\ next' = IF first THEN t + Interval ELSE r.next
      /\ current' = r.current
  BY <1>1
<1> HIDE DEF r
<1> USE DEF FilterOK, FilterType
<1>a. /\ gen \in [Keys -> [Bits -> Nat]]
      /\ gen[k][i] = now
      /\ \A j \in Keys, b \in Bits :
           ~(j = k /\ b = i) => gen[j][b] = r.facts[r.current][j][b] \/ gen[j][b] = 0
  <2>1. r.facts[r.current] \in [Keys -> [Bits -> Nat]]
    BY <1>4
  <2>2. gen \in Inserted(r.facts[r.current], k, i, now)
    BY <1>2
  <2>3. now \in Nat
    BY <1>3
  <2> DEFINE old == r.facts[r.current]
  <2>4. old \in [Keys -> [Bits -> Nat]] /\ gen \in Inserted(old, k, i, now)
    BY <2>1, <2>2
  <2> HIDE DEF old
  <2>5. /\ gen \in [Keys -> [Bits -> Nat]]
        /\ gen[k][i] = now
        /\ \A j \in Keys, b \in Bits :
             ~(j = k /\ b = i) => gen[j][b] = old[j][b] \/ gen[j][b] = 0
    BY <2>3, <2>4, InsertedFact
  <2>6. QED
    BY <2>5 DEF old
<1>b. /\ facts' \in [Gens -> [Keys -> [Bits -> Nat]]]
      /\ facts'[r.current] = gen
      /\ \A g \in Gens : g # r.current => facts'[g] = r.facts[g]
  BY <1>2, <1>4, <1>a
<1>6. FilterType(started, facts, current, live, next)'
  BY <1>3, <1>4, <1>5, <1>b, IntervalFact DEF Larger
<1>7. /\ now' = now /\ layout' = layout /\ file' = file
      /\ i \in DOMAIN layout /\ layout[i] \in Providers
      /\ denied' = [denied EXCEPT ![k][layout[i]] = now]
  BY IndexAssumption DEF Record, IInv, TypeOK
<1>8. /\ denied' \in [Keys -> [Providers -> Nat]]
      /\ denied'[k][layout[i]] = now
      /\ \A j \in Keys, p \in Providers : denied[j][p] <= denied'[j][p] /\ denied'[j][p] <= now
  BY <1>3, <1>7 DEF IInv, TypeOK
<1>9. FactsOK(started, facts)'
  <2> SUFFICES ASSUME NEW g \in Gens, NEW j \in Keys, NEW b \in Bits,
                      facts'[g][j][b] # 0
               PROVE  /\ started'[g] # 0 /\ started'[g] <= facts'[g][j][b]
                      /\ b \in DOMAIN layout'
                      /\ facts'[g][j][b] <= denied'[j][layout'[b]]
    BY DEF FactsOK
  <2>1. started'[r.current] # 0 /\ started'[r.current] <= now
    BY <1>3, <1>4, <1>5 DEF StartedActive
  <2>2. CASE g = r.current /\ j = k /\ b = i
    <3>1. facts'[g][j][b] = now
      BY <1>a, <1>b, <2>2
    <3>2. QED
      BY <1>3, <1>7, <1>8, <2>1, <2>2, <3>1
  <2>3. CASE ~(g = r.current /\ j = k /\ b = i)
    <3>1. facts'[g][j][b] = r.facts[g][j][b]
      BY <1>a, <1>b, <2>3
    <3>2. /\ r.started[g] # 0 /\ r.started[g] <= facts'[g][j][b]
          /\ b \in DOMAIN layout
          /\ facts'[g][j][b] <= denied[j][layout[b]]
      BY <1>4, <3>1 DEF FactsOK
    <3>3. started'[g] = r.started[g]
      BY <1>4, <1>5, <3>2
    <3>4. layout[b] \in Providers
      BY <3>2, IndexAssumption DEF IInv, TypeOK
    <3>5. facts'[g][j][b] \in Nat /\ denied[j][layout[b]] \in Nat
          /\ denied'[j][layout[b]] \in Nat
      BY <1>4, <1>8, <3>1, <3>4 DEF IInv, TypeOK
    <3>6. QED
      BY <1>7, <1>8, <3>2, <3>3, <3>4, <3>5
  <2>4. QED
    BY <2>2, <2>3
<1>10. StartedActive(started, current, live, next)'
  BY <1>3, <1>4, <1>5, <1>7, IntervalFact DEF StartedActive, Active, Larger, Gens
<1>11. Spacing(started, current, next)'
  BY <1>3, <1>4, <1>5, IntervalFact DEF Spacing, Gens
<1>12. FileOK' /\ TypeOK'
  <2>1. TypeOK'
    BY <1>6, <1>7, <1>8 DEF IInv, TypeOK
  <2>2. ASSUME NEW e \in file.entries
        PROVE  e.seen <= denied'[e.key][file.table[e.bit]]
    <3>1. /\ e.seen \in Nat /\ e.key \in Keys /\ file.table[e.bit] \in Providers
          /\ e.seen <= denied[e.key][file.table[e.bit]]
      BY DEF IInv, TypeOK, FileOK
    <3>2. QED
      BY <1>8, <3>1 DEF IInv, TypeOK
  <2>3. QED
    BY <1>7, <2>1, <2>2 DEF IInv, FileOK
<1>13. QED
  BY <1>6, <1>7, <1>8, <1>9, <1>10, <1>11, <1>12 DEF IInv

\* The initial state is an empty index without a file.
LEMMA InitOK == Init => IInv
<1> SUFFICES ASSUME Init PROVE IInv
  OBVIOUS
<1>1. facts \in [Gens -> [Keys -> [Bits -> Nat]]]
      /\ \A g \in Gens, k \in Keys, i \in Bits : facts[g][k][i] = 0
  BY DEF Init, NoFacts
<1>2. file.entries = {}
  BY DEF Init, NoFile
<1>3. TypeOK
  BY <1>1, <1>2 DEF Init, TypeOK, Gens
<1>4. FilterOK(started, facts, current, live, next)
  BY <1>1, <1>3 DEF Init, TypeOK, FilterOK, FilterType, FactsOK, StartedActive, Spacing, Gens
<1>5. QED
  BY <1>2, <1>3, <1>4 DEF Init, IInv, FileOK

\* lookup_missing_bits only rotates.
LEMMA LookupOK ==
    ASSUME IInv, Lookup
    PROVE  IInv'
<1>1. PICK t \in Readings : BecomesRotated(t)
  BY DEF Lookup
<1>2. t \in Nat
  BY ReadingsFact DEF IInv
<1>3. UNCHANGED <<now, layout, file, denied>>
  BY DEF Lookup
<1>4. FilterOK(started, facts, current, live, next)'
  BY <1>1, <1>2, <1>3, BecomesRotatedOK
<1>5. TypeOK'
  BY <1>3, <1>4 DEF IInv, TypeOK, FilterOK, FilterType
<1>6. QED
  BY <1>3, <1>4, <1>5 DEF IInv, FileOK

\* The clock only runs forward, so ages only grow.
LEMMA TickOK ==
    ASSUME IInv, Tick
    PROVE  IInv'
<1>1. now \in Nat \ {0} /\ now' = now + 1 /\ UNCHANGED <<layout, filter, file, denied>>
  BY DEF Tick, IInv, TypeOK
<1>2. /\ layout' = layout /\ started' = started /\ facts' = facts /\ current' = current
      /\ live' = live /\ next' = next /\ file' = file /\ denied' = denied
  BY <1>1 DEF filter
<1>3. TypeOK'
  BY <1>1, <1>2 DEF IInv, TypeOK
<1>4. FactsOK(started, facts)' /\ Spacing(started, current, next)'
  BY <1>2 DEF IInv, FilterOK, FactsOK, Spacing
<1>5. StartedActive(started, current, live, next)'
  BY <1>1, <1>2 DEF IInv, FilterOK, FilterType, StartedActive
<1>6. FileOK'
  BY <1>1, <1>2 DEF IInv, FileOK, TypeOK
<1>7. \A k \in Keys, p \in Providers : denied'[k][p] <= now'
  BY <1>1, <1>2 DEF IInv, TypeOK
<1>8. QED
  BY <1>2, <1>3, <1>4, <1>5, <1>6, <1>7 DEF IInv, FilterOK, FilterType, TypeOK

\* A saved entry is dated by its generation, which no fact of it precedes.
LEMMA SaveOK ==
    ASSUME IInv, Save
    PROVE  IInv'
<1>1. BecomesRotated(now) /\ UNCHANGED <<now, layout, denied>> /\ now \in Nat
  BY DEF Save, IInv, TypeOK
<1>2. FilterOK(started, facts, current, live, next)'
  BY <1>1, BecomesRotatedOK
<1>3. ASSUME NEW e \in file'.entries
      PROVE  \E g \in Gens, k \in Keys, i \in Bits :
                /\ e = [key |-> k, bit |-> i, at |-> started'[g], seen |-> facts'[g][k][i]]
                /\ facts'[g][k][i] # 0
  <2>1. Active(current', live') \subseteq Gens
    BY <1>2 DEF FilterOK, FilterType, Active, Gens
  <2>2. QED
    BY <2>1 DEF Save
<1>4. file'.table = layout
  BY DEF Save
<1>5. ASSUME NEW e \in file'.entries
      PROVE  /\ e.key \in Keys /\ e.bit \in DOMAIN file'.table
             /\ e.at \in Nat /\ e.seen \in Nat
             /\ e.at # 0 /\ e.at <= now'
             /\ e.at <= e.seen
             /\ file'.table[e.bit] \in Providers
             /\ e.seen <= denied'[e.key][file'.table[e.bit]]
  <2>1. PICK g \in Gens, k \in Keys, i \in Bits :
                /\ e = [key |-> k, bit |-> i, at |-> started'[g], seen |-> facts'[g][k][i]]
                /\ facts'[g][k][i] # 0
    BY <1>3
  <2>2. /\ started'[g] # 0 /\ started'[g] <= facts'[g][k][i]
        /\ i \in DOMAIN layout
        /\ facts'[g][k][i] <= denied[k][layout[i]]
    BY <1>1, <1>2, <2>1 DEF FilterOK, FactsOK
  <2>3. layout[i] \in Providers
    BY <2>2, IndexAssumption DEF IInv, TypeOK
  <2>4. started'[g] \in Nat /\ facts'[g][k][i] \in Nat /\ started'[g] <= now'
    BY <1>2, <2>2 DEF FilterOK, FilterType, StartedActive
  <2>5. e.key = k /\ e.bit = i /\ e.at = started'[g] /\ e.seen = facts'[g][k][i]
    BY <2>1
  <2>6. QED
    BY <1>1, <1>4, <2>2, <2>3, <2>4, <2>5
<1>6. TypeOK'
  BY <1>1, <1>2, <1>5 DEF IInv, TypeOK, FilterOK, FilterType
<1>7. FileOK'
  BY <1>5 DEF FileOK
<1>8. QED
  BY <1>1, <1>2, <1>6, <1>7 DEF IInv

\* Every nonempty set of naturals has a least element.
LEMMA NatMin ==
    ASSUME NEW T, T \subseteq Nat, T # {}
    PROVE  \E x \in T : \A y \in T : x <= y
<1> DEFINE R == {ss \in Nat \X Nat : ss[1] < ss[2]}
<1>1. IsWellFoundedOn(R, Nat)
  BY NatLessThanWellFounded, Zenon DEF OpToRel
<1> HIDE DEF R
<1>2. \E x \in T : \A y \in T : ~(<<y, x>> \in R)
  BY <1>1, WFMin
<1>3. \A x, y \in Nat : ~(<<y, x>> \in R) => x <= y
  BY DEF R
<1>4. QED
  BY <1>2, <1>3

\* Restored entries keep their ages: a generation is as old as its oldest entry,
\* and the two generations lie less than a TTL apart.
LEMMA RestartOK ==
    ASSUME IInv, NEW l \in Layouts, Restart(l)
    PROVE  IInv'
<1> DEFINE rest     == Restorable(l)
           In(g)    == {e \in rest : Offset(e) = g}
           Start(g) == OldestAge(In(g))
           Newest(es) == (CHOOSE e \in es : \A d \in es : d.seen <= e.seen).seen
<1>1. PICK kept \in [Gens -> SUBSET rest] :
        /\ \A g \in Gens : kept[g] \in Survivors(In(g))
        /\ facts' = [g \in Gens |-> [k \in Keys |-> [j \in Bits |->
               LET es == {e \in kept[g] : e.key = k /\ Translated(l, e) = j}
               IN IF es = {} THEN 0 ELSE Newest(es)]]]
  BY DEF Restart
<1>2. /\ layout' = l
      /\ started' = [g \in Gens |-> Start(g)]
      /\ current' = IF In(0) = {} /\ In(1) # {} THEN 1 ELSE 0
      /\ live' = IF In(1) # {} THEN 2 ELSE IF In(0) # {} THEN 1 ELSE 0
      /\ next' = IF rest = {} THEN 0 ELSE started'[current'] + Interval
      /\ now' = now /\ file' = file /\ denied' = denied
  BY DEF Restart
<1>3. ASSUME NEW e \in rest
      PROVE  /\ e \in file.entries
             /\ e.key \in Keys /\ e.at \in Nat \ {0} /\ e.seen \in Nat
             /\ e.at <= now /\ now < e.at + TTL
             /\ e.at <= e.seen /\ e.seen <= now
             /\ Translated(l, e) \in DOMAIN l
             /\ e.seen <= denied[e.key][l[Translated(l, e)]]
  <2>1. /\ e \in file.entries /\ now - e.at < TTL
        /\ \E j \in DOMAIN l : l[j] = file.table[e.bit]
    BY DEF Restorable
  <2>2. /\ e.key \in Keys /\ e.at \in Nat /\ e.seen \in Nat
        /\ e.at # 0 /\ e.at <= now /\ e.at <= e.seen
        /\ file.table[e.bit] \in Providers
        /\ e.seen <= denied[e.key][file.table[e.bit]]
    BY <2>1 DEF IInv, TypeOK, FileOK
  <2>3. Translated(l, e) \in DOMAIN l /\ l[Translated(l, e)] = file.table[e.bit]
    BY <2>1 DEF Translated
  <2>4. denied[e.key][file.table[e.bit]] \in Nat /\ denied[e.key][file.table[e.bit]] <= now
    BY <2>2 DEF IInv, TypeOK
  <2>5. now \in Nat /\ TTL \in Nat
    BY IndexAssumption DEF IInv, TypeOK
  <2>6. QED
    BY <2>1, <2>2, <2>3, <2>4, <2>5
<1> HIDE DEF rest
<1>4. ASSUME NEW g \in Gens, In(g) # {}
      PROVE  /\ \E e \in In(g) : Start(g) = e.at
             /\ \A e \in In(g) : Start(g) <= e.at
  <2> DEFINE T == {e.at : e \in In(g)}
  <2>1. T \subseteq Nat /\ T # {}
    BY <1>3, <1>4
  <2>2. \E x \in T : \A y \in T : x <= y
    <3> HIDE DEF T
    <3> QED BY <2>1, NatMin
  <2>3. \E x \in T : \A e \in In(g) : x <= e.at
    BY <2>2
  <2>4. Start(g) = CHOOSE x \in T : \A e \in In(g) : x <= e.at
    BY <1>4 DEF OldestAge
  <2>5. Start(g) \in T /\ \A e \in In(g) : Start(g) <= e.at
    BY <2>3, <2>4
  <2>6. QED
    BY <2>5
<1>5. ASSUME NEW es, es \subseteq rest, es # {}
      PROVE  \E e \in es : Newest(es) = e.seen
  <2> DEFINE T == {now - e.seen : e \in es}
  <2>1. T \subseteq Nat /\ T # {}
    BY <1>3, <1>5 DEF IInv, TypeOK
  <2>2. \E x \in T : \A y \in T : x <= y
    <3> HIDE DEF T
    <3> QED BY <2>1, NatMin
  <2>3. PICK e \in es : \A d \in es : now - e.seen <= now - d.seen
    BY <2>2
  <2>4. \A d \in es : d.seen <= e.seen
    BY <1>3, <1>5, <2>3 DEF IInv, TypeOK
  <2>5. QED
    BY <2>4
<1>6. ASSUME NEW g \in Gens, NEW k \in Keys, NEW j \in Bits, facts'[g][k][j] # 0
      PROVE  \E e \in In(g) : e.key = k /\ Translated(l, e) = j /\ facts'[g][k][j] = e.seen
  <2> DEFINE es == {e \in kept[g] : e.key = k /\ Translated(l, e) = j}
  <2>1. facts'[g][k][j] = IF es = {} THEN 0 ELSE Newest(es)
    BY <1>1
  <2>2. kept[g] \subseteq In(g)
    BY <1>1 DEF Survivors
  <2>3. es \subseteq rest /\ es # {}
    BY <1>6, <2>1, <2>2
  <2>4. \E e \in es : Newest(es) = e.seen
    <3> HIDE DEF es, Newest
    <3> QED BY <1>5, <2>3
  <2>5. QED
    BY <2>1, <2>2, <2>3, <2>4
<1>7. /\ facts' \in [Gens -> [Keys -> [Bits -> Nat]]]
  <2>1. ASSUME NEW g \in Gens, NEW k \in Keys, NEW j \in Bits
        PROVE  facts'[g][k][j] \in Nat
    <3>1. CASE facts'[g][k][j] # 0
      BY <1>3, <1>6, <3>1
    <3>2. QED
      BY <3>1
  <2> DEFINE F(g, k, j) == IF {e \in kept[g] : e.key = k /\ Translated(l, e) = j} = {} THEN 0
                           ELSE Newest({e \in kept[g] : e.key = k /\ Translated(l, e) = j})
  <2>2. facts' = [g \in Gens |-> [k \in Keys |-> [j \in Bits |-> F(g, k, j)]]]
    BY <1>1
  <2> HIDE DEF F
  <2>3. \A g \in Gens, k \in Keys, j \in Bits : F(g, k, j) \in Nat
    BY <2>1, <2>2
  <2>4. QED
    BY <2>2, <2>3
<1> HIDE DEF In, Start
<1>8. /\ Start(0) \in Nat /\ Start(1) \in Nat
      /\ Start(0) # 0 => In(0) # {} /\ Start(0) <= now
      /\ In(0) # {} => Start(0) # 0
      /\ Start(1) # 0 => In(1) # {} /\ Start(1) <= now /\ now < Start(1) + TTL
      /\ In(1) # {} => Start(1) # 0
      /\ In(0) # {} \/ In(1) # {} => rest # {}
      /\ started'[0] = Start(0) /\ started'[1] = Start(1)
  <2>1. \A g \in Gens : In(g) \subseteq rest /\ (In(g) = {} => Start(g) = 0)
    BY DEF In, Start, OldestAge
  <2>2. \A g \in Gens : In(g) # {} => \E e \in rest : Start(g) = e.at
    BY <1>4, <2>1
  <2>3. QED
    BY <1>2, <1>3, <2>1, <2>2 DEF Gens
<1>9. FilterType(started, facts, current, live, next)'
  <2>1. started' \in [Gens -> Nat]
    BY <1>2, <1>8 DEF Gens
  <2>2. QED
    BY <1>2, <1>7, <2>1, IntervalFact DEF FilterType, Gens
<1>10. FactsOK(started, facts)'
  <2> SUFFICES ASSUME NEW g \in Gens, NEW k \in Keys, NEW j \in Bits, facts'[g][k][j] # 0
               PROVE  /\ started'[g] # 0 /\ started'[g] <= facts'[g][k][j]
                      /\ j \in DOMAIN layout'
                      /\ facts'[g][k][j] <= denied'[k][layout'[j]]
    BY DEF FactsOK
  <2>1. PICK e \in In(g) : e.key = k /\ Translated(l, e) = j /\ facts'[g][k][j] = e.seen
    BY <1>6
  <2>2. e \in rest
    BY DEF In
  <2>3. started'[g] \in Nat \ {0} /\ started'[g] <= e.at
    BY <1>4, <1>8, <2>1 DEF Gens
  <2>4. QED
    BY <1>2, <1>3, <2>1, <2>2, <2>3
<1>11. StartedActive(started, current, live, next)'
  BY <1>2, <1>8, IntervalFact DEF StartedActive, Active, Gens
<1>12. Spacing(started, current, next)'
  <2>1. CASE In(0) = {}
    <3>1. started'[0] = 0 /\ (started'[1] # 0 => current' = 1 /\ rest # {})
      BY <1>2, <1>8, <2>1
    <3>2. current' \in {0, 1} /\ (current' = 1 => next' = started'[1] + Interval)
      BY <1>2, <1>8
    <3>3. QED
      BY <1>8, <3>1, <3>2, IntervalFact DEF Spacing
  <2>2. CASE In(0) # {}
    <3>1. current' = 0 /\ next' = Start(0) + Interval /\ Start(0) <= now /\ Start(0) # 0
      BY <1>2, <1>8, <2>2
    <3>2. started'[1] # 0 => next' <= started'[1] + 3 * Interval
      BY <1>8, <3>1, IntervalFact, IndexAssumption DEF IInv, TypeOK
    <3>3. QED
      BY <1>8, <3>1, <3>2, IntervalFact DEF Spacing
  <2>3. QED
    BY <2>1, <2>2
<1>13. TypeOK' /\ FileOK'
  BY <1>2, <1>9 DEF IInv, TypeOK, FileOK, FilterType
<1>14. QED
  BY <1>2, <1>9, <1>10, <1>11, <1>12, <1>13 DEF IInv, FilterOK
-----------------------------------------------------------------------------
\* Every reachable state satisfies the inductive invariant.
THEOREM Invariance == Spec => []IInv
<1>1. IInv /\ [Next]_vars => IInv'
  <2> SUFFICES ASSUME IInv, [Next]_vars PROVE IInv'
    OBVIOUS
  <2>1. ASSUME NEW k \in Keys, NEW i \in Bits, Record(k, i) PROVE IInv'
    BY <2>1, RecordOK
  <2>2. CASE Lookup
    BY <2>2, LookupOK
  <2>3. CASE Save
    BY <2>3, SaveOK
  <2>4. ASSUME NEW l \in Layouts, Restart(l) PROVE IInv'
    BY <2>4, RestartOK
  <2>5. CASE Tick
    BY <2>5, TickOK
  <2>6. CASE UNCHANGED vars
    BY <2>6 DEF vars, filter, IInv, TypeOK, FilterOK, FilterType, FactsOK,
                StartedActive, Spacing, FileOK
  <2>7. QED
    BY <2>1, <2>2, <2>3, <2>4, <2>5, <2>6 DEF Next
<1>2. QED
  BY <1>1, InitOK, PTL DEF Spec

\* The filter's fields keep their types whatever the layouts and the clock do.
THEOREM TypeCorrectness == Spec => []TypeOK
<1>1. IInv => TypeOK
  BY DEF IInv
<1>2. QED
  BY <1>1, Invariance, PTL

\* A restore never makes old evidence look fresh.
THEOREM AgeCorrectness == Spec => []AgesNeverShrink
<1>1. IInv => AgesNeverShrink
  BY DEF IInv, FilterOK, FactsOK, FileOK, AgesNeverShrink
<1>2. QED
  BY <1>1, Invariance, PTL

\* No generation holds facts that lookups cannot see or rotation will not clear.
THEOREM ReachabilityCorrectness == Spec => []FactsReachable
<1>1. IInv => FactsReachable
  BY DEF IInv, FilterOK, FactsOK, StartedActive, FactsReachable, Occupied
<1>2. QED
  BY <1>1, Invariance, PTL

\* What a lookup reports: the time of a fact of the rotated filter.
LEMMA LookupSeenFact ==
    ASSUME IInv, NEW t \in Readings, NEW k \in Keys, NEW p \in Providers,
           NEW seen \in LookupSeen(t, k, p)
    PROVE  \E r, g, i :
              /\ r = Rotated(t) /\ g \in Gens /\ i \in Bits
              /\ layout[i] = p /\ seen = r.facts[g][k][i] /\ seen # 0
<1> DEFINE r == Rotated(t)
<1>1. FilterOK(r.started, r.facts, r.current, r.live, r.next)
  BY ReadingsFact, RotatedOK DEF IInv
<1>2. Active(r.current, r.live) \subseteq Gens
  BY <1>1 DEF FilterOK, FilterType, Active, Gens
<1>3. DOMAIN layout \subseteq Bits
  BY DEF IInv, TypeOK, Bits
<1>4. PICK x \in Active(r.current, r.live) \X DOMAIN layout :
        /\ layout[x[2]] = p /\ r.facts[x[1]][k][x[2]] # 0
        /\ seen = r.facts[x[1]][k][x[2]]
  BY DEF LookupSeen
<1>5. QED
  BY <1>2, <1>3, <1>4

\* A reported 430 was really answered, by that provider for that article, no
\* earlier than the index takes it for.
THEOREM FactsCorrectness == Spec => []NoInventedFacts
<1>1. ASSUME IInv, NEW t \in Readings, NEW k \in Keys, NEW p \in Providers,
             NEW seen \in LookupSeen(t, k, p)
      PROVE  seen <= denied[k][p]
  <2>1. PICK r, g, i :
              /\ r = Rotated(t) /\ g \in Gens /\ i \in Bits
              /\ layout[i] = p /\ seen = r.facts[g][k][i] /\ seen # 0
    BY <1>1, LookupSeenFact
  <2>2. FilterOK(r.started, r.facts, r.current, r.live, r.next)
    BY <1>1, <2>1, ReadingsFact, RotatedOK DEF IInv
  <2>3. QED
    BY <2>1, <2>2 DEF FilterOK, FactsOK
<1>2. IInv => NoInventedFacts
  BY <1>1 DEF NoInventedFacts
<1>3. QED
  BY <1>2, Invariance, PTL

\* No 430 is reported for three rotation intervals or more, by any schedule of
\* inserts, lookups, saves and restarts and for any staleness of the clock.
THEOREM RetentionCorrectness == Spec => []RetentionBound
<1>1. ASSUME IInv, NEW t \in Readings, NEW k \in Keys, NEW p \in Providers,
             NEW seen \in LookupSeen(t, k, p)
      PROVE  t - seen < 3 * Interval
  <2>1. PICK r, g, i :
              /\ r = Rotated(t) /\ g \in Gens /\ i \in Bits
              /\ layout[i] = p /\ seen = r.facts[g][k][i] /\ seen # 0
    BY <1>1, LookupSeenFact
  <2>2. t \in Nat
    BY <1>1, ReadingsFact DEF IInv
  <2>3. /\ FilterOK(r.started, r.facts, r.current, r.live, r.next)
        /\ (\E h \in Gens : r.started[h] # 0) => t < r.next
    BY <1>1, <2>1, <2>2, RotatedOK
  <2>4. r.started[g] # 0 /\ r.started[g] <= seen
    BY <2>1, <2>3 DEF FilterOK, FactsOK
  <2>5. t < r.next
    BY <2>1, <2>3, <2>4
  <2>6. r.next <= r.started[g] + 3 * Interval
    BY <2>1, <2>3, <2>4, IntervalFact DEF FilterOK, FilterType, Spacing, Gens
  <2>7. seen \in Nat /\ r.started[g] \in Nat /\ r.next \in Nat
    BY <1>1, <2>1, <2>3 DEF FilterOK, FilterType
  <2>8. QED
    BY <2>2, <2>4, <2>5, <2>6, <2>7, IntervalFact
<1>2. IInv => RetentionBound
  BY <1>1 DEF RetentionBound
<1>3. QED
  BY <1>2, Invariance, PTL
=============================================================================
