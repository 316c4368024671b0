------------------------- MODULE ConnectionPoolProofs -------------------------
(***************************************************************************)
(* Proofs about ConnectionPool: for any size and any number of threads the *)
(* cooldown counter is exact; on one thread the pool keeps half of its     *)
(* size, gets it back, and leaves out the places that are cooling.         *)
(***************************************************************************)
EXTENDS ConnectionPool, FiniteSetTheorems, TLAPS

Cooling == {"counted", "shrunk", "cooling"}

Inv == TypeOK /\ CooldownsCounted

\* In is a finite set of connections.
LEMMA InFinite ==
    ASSUME NEW S PROVE IsFiniteSet(In(S)) /\ Cardinality(In(S)) \in Nat
<1>1. In(S) \subseteq Conns
  BY DEF In
<1> QED
  BY <1>1, PoolAssumption, FS_Subset, FS_CardinalityType

\* The sizes that removals, expiries and clearings compute are legal.
LEMMA Sizes ==
    ASSUME NEW n \in Nat
    PROVE  /\ Limit(n) \in 0..Original
           /\ AtLeastOne(Limit(n)) \in 0..Original
BY PoolAssumption DEF Limit, AtLeastOne

\* A resize sets the maximum and only takes idle connections out of the pool.
LEMMA ResizeStep ==
    ASSUME NEW m, NEW states \in [Conns -> States], Resize(m, states)
    PROVE  /\ max' = m
           /\ conn' \in [Conns -> States]
           /\ \A c \in Conns : conn'[c] # states[c] => states[c] \in Pooled /\ conn'[c] = "none"
<1>1. PICK gone \in SUBSET {c \in Conns : states[c] \in Pooled} :
        conn' = [c \in Conns |-> IF c \in gone THEN "none" ELSE states[c]]
  BY DEF Resize
<1> QED
  BY <1>1 DEF Resize, States

\* A step that moves no connection into or out of the counted states leaves
\* the count alone.
LEMMA CountKept ==
    ASSUME CooldownsCounted, cooldowns' = cooldowns,
           \A c \in Conns : conn'[c] \in Cooling <=> conn[c] \in Cooling
    PROVE  CooldownsCounted'
<1>1. In(Cooling)' = In(Cooling)
  BY DEF In, Cooling
<1> QED
  BY <1>1 DEF CooldownsCounted, Cooling

LEMMA InvInit == Init => Inv
<1> SUFFICES ASSUME Init PROVE Inv
  OBVIOUS
<1>1. TypeOK
  <2>1. stopping \in BOOLEAN
    BY DEF Init
  <2>2. 0 \in 0..Original /\ Original \in 0..Original
    BY PoolAssumption
  <2> QED
    BY <2>1, <2>2 DEF Init, TypeOK, States
<1>2. In(Cooling) = {}
  BY DEF Init, In, Cooling
<1> QED
  BY <1>1, <1>2, FS_EmptySet DEF Init, Inv, CooldownsCounted, Cooling

\* Steps that change the place of one connection that no cooldown is counted for.
LEMMA MoveStep ==
    ASSUME Inv, NEW c \in Conns, NEW state \in States,
           Becomes(c, state), conn[c] \in Cooling <=> state \in Cooling,
           UNCHANGED <<max, cooldowns, newMax, clearer, target, stopping>>
    PROVE  Inv'
<1>1. TypeOK'
  BY DEF Inv, TypeOK, Becomes
<1>2. \A d \in Conns : conn'[d] \in Cooling <=> conn[d] \in Cooling
  BY DEF Inv, TypeOK, Becomes
<1> QED
  BY <1>1, <1>2, CountKept DEF Inv

LEMMA InvStep == Inv /\ [Next]_vars => Inv'
<1> SUFFICES ASSUME Inv, [Next]_vars PROVE Inv'
  OBVIOUS
<1> USE DEF Cooling
<1>1. ASSUME NEW c \in Conns,
             Connect(c) \/ Connected(c) \/ ConnectFails(c) \/ Checkout(c)
      PROVE Inv'
  BY <1>1, MoveStep DEF Connect, Connected, ConnectFails, Checkout, States
<1>2. ASSUME NEW c \in Conns, Recycle(c) \/ Return(c) \/ HealthCheckFails(c) PROVE Inv'
  BY <1>2, MoveStep DEF Recycle, Return, HealthCheckFails, States
<1>3. ASSUME NEW c \in Conns, RemoveWithoutCooldown(c) \/ CheckCap(c) PROVE Inv'
  BY <1>3, MoveStep DEF RemoveWithoutCooldown, CheckCap, States
<1>4. ASSUME NEW c \in Conns, Drop(c) \/ Quit(c) PROVE Inv'
  BY <1>4, MoveStep DEF Drop, Quit, States, Pooled
<1>5. ASSUME NEW c \in Conns, Count(c) PROVE Inv'
  <2>1. cooldowns' \in Nat /\ cooldowns' = cooldowns + 1
    BY <1>5 DEF Count, Inv, TypeOK
  <2>2. TypeOK'
    BY <1>5, <2>1, Sizes DEF Count, Becomes, Inv, TypeOK, States
  <2>3. In(Cooling)' = In(Cooling) \union {c} /\ c \notin In(Cooling)
    BY <1>5 DEF Count, Becomes, Inv, TypeOK, In
  <2>4. Cardinality(In(Cooling)') = Cardinality(In(Cooling)) + 1
    BY <2>3, InFinite, FS_AddElement
  <2> QED
    BY <2>1, <2>2, <2>4 DEF Inv, CooldownsCounted
<1>6. ASSUME NEW c \in Conns, Expire(c) PROVE Inv'
  <2>1. In(Cooling)' = In(Cooling) \ {c} /\ c \in In(Cooling)
    BY <1>6 DEF Expire, Becomes, Inv, TypeOK, In
  <2>2. /\ Cardinality(In(Cooling)') = Cardinality(In(Cooling)) - 1
        /\ Cardinality(In(Cooling)') \in Nat
    BY <2>1, InFinite, FS_RemoveElement, FS_CardinalityType
  <2>3. cooldowns' \in Nat /\ cooldowns' = cooldowns - 1
    BY <1>6, <2>2 DEF Expire, Inv, TypeOK, CooldownsCounted
  <2>4. TypeOK'
    BY <1>6, <2>3, Sizes DEF Expire, Becomes, Inv, TypeOK, States
  <2> QED
    BY <2>2, <2>3, <2>4 DEF Inv, CooldownsCounted
<1>7. ASSUME NEW c \in Conns, Shrink(c) PROVE Inv'
  <2> DEFINE states == [conn EXCEPT ![c] = "shrunk"]
  <2>1. states \in [Conns -> States]
    BY DEF Inv, TypeOK, States
  <2>2. /\ max' = newMax[c]
        /\ conn' \in [Conns -> States]
        /\ \A d \in Conns : conn'[d] # states[d] => states[d] \in Pooled /\ conn'[d] = "none"
    <3> HIDE DEF states
    <3> QED BY <1>7, <2>1, ResizeStep DEF Shrink, states
  <2>3. TypeOK'
    BY <1>7, <2>2 DEF Shrink, Inv, TypeOK
  <2>4. \A d \in Conns : conn'[d] \in Cooling <=> conn[d] \in Cooling
    BY <1>7, <2>2 DEF Shrink, Inv, TypeOK, Pooled
  <2> QED
    BY <1>7, <2>3, <2>4, CountKept DEF Inv, Shrink
<1>8. ASSUME NEW c \in Conns, Restore(c) PROVE Inv'
  <2> DEFINE states == [conn EXCEPT ![c] = "none"]
  <2>1. states \in [Conns -> States]
    BY DEF Inv, TypeOK, States
  <2>2. /\ max' = newMax[c]
        /\ conn' \in [Conns -> States]
        /\ \A d \in Conns : conn'[d] # states[d] => states[d] \in Pooled /\ conn'[d] = "none"
    <3> HIDE DEF states
    <3> QED BY <1>8, <2>1, ResizeStep DEF Restore, states
  <2>3. TypeOK'
    <3>1. newMax' \in [Conns -> 0..Original] /\ max' \in 0..Original
      BY <1>8, <2>2, PoolAssumption DEF Restore, Inv, TypeOK
    <3> QED
      BY <1>8, <2>2, <3>1 DEF Restore, Inv, TypeOK
  <2>4. \A d \in Conns : conn'[d] \in Cooling <=> conn[d] \in Cooling
    BY <1>8, <2>2 DEF Restore, Inv, TypeOK, Pooled
  <2> QED
    BY <1>8, <2>3, <2>4, CountKept DEF Inv, Restore
<1>9. ASSUME ClearRead \/ Shutdown PROVE Inv'
  <2>1. stopping' \in BOOLEAN
    BY <1>9 DEF ClearRead, Shutdown, Inv, TypeOK
  <2>2. target' \in 0..Original
    BY <1>9, Sizes DEF ClearRead, Shutdown, Inv, TypeOK
  <2>3. TypeOK'
    <3>1. CASE ClearRead
      BY <3>1, <2>1, <2>2 DEF ClearRead, Inv, TypeOK
    <3>2. CASE Shutdown
      BY <3>2, <2>1, <2>2 DEF Shutdown, Inv, TypeOK
    <3> QED
      BY <1>9, <3>1, <3>2
  <2> QED
    BY <1>9, <2>3, CountKept DEF ClearRead, Shutdown, Inv
<1>10. ASSUME ClearEmpty \/ ClearRestore PROVE Inv'
  <2>1. conn \in [Conns -> States] /\ 0 \in 0..Original
    BY PoolAssumption DEF Inv, TypeOK
  <2>2. /\ max' \in {0, target}
        /\ conn' \in [Conns -> States]
        /\ \A d \in Conns : conn'[d] # conn[d] => conn[d] \in Pooled /\ conn'[d] = "none"
    BY <1>10, <2>1, ResizeStep DEF ClearEmpty, ClearRestore
  <2>3. TypeOK'
    BY <1>10, <2>1, <2>2 DEF ClearEmpty, ClearRestore, Inv, TypeOK
  <2>4. \A d \in Conns : conn'[d] \in Cooling <=> conn[d] \in Cooling
    BY <2>2 DEF Pooled
  <2> QED
    BY <1>10, <2>3, <2>4, CountKept DEF Inv, ClearEmpty, ClearRestore
<1>11. CASE UNCHANGED vars
  BY <1>11, CountKept DEF vars, Inv, TypeOK
<1> QED
  BY <1>1, <1>2, <1>3, <1>4, <1>5, <1>6, <1>7, <1>8, <1>9, <1>10, <1>11 DEF Next, Finish

\* The pool's fields keep their types and its maximum never exceeds
\* original_max_size, on any number of threads (pool/provider.rs).
THEOREM TypeCorrectness == Spec => []TypeOK
<1>1. Inv => TypeOK
  BY DEF Inv
<1> QED
  BY InvInit, InvStep, <1>1, PTL DEF Spec

\* active_cooldowns is the number of cooldowns in progress, in every
\* interleaving of removals, expiries, clearings and shutdown: fetch_sub in
\* CooldownGuard::drop never wraps.
THEOREM CounterCorrectness == Spec => []CooldownsCounted
<1>1. Inv => CooldownsCounted
  BY DEF Inv
<1> QED
  BY InvInit, InvStep, <1>1, PTL DEF Spec
-----------------------------------------------------------------------------
(***************************************************************************)
(* One thread.  A call in progress is the only one, and between its steps  *)
(* the maximum lags the counter by exactly what the next step applies.     *)
(***************************************************************************)
Alone ==
    \A c \in In(Working) : clearer = "idle" /\ \A d \in In(Working) : c = d

InStep(c) ==
    /\ conn[c] = "checked" => cooldowns < MaxReduction
    /\ conn[c] = "counted" => newMax[c] = Limit(cooldowns)
    /\ conn[c] = "shrunk"  => max = Limit(cooldowns)
    /\ conn[c] = "expired" => newMax[c] = Limit(cooldowns)

InStepClear ==
    /\ clearer # "idle" => target = Limit(cooldowns)
    /\ In(Working) = {} /\ clearer # "emptied" => max = Limit(cooldowns)

HalfLeft == clearer # "emptied" => max >= Original - MaxReduction

OneThread ==
    /\ cooldowns <= MaxReduction
    /\ Alone
    /\ \A c \in Conns : InStep(c)
    /\ InStepClear
    /\ HalfLeft

\* Up to the cap, the sizes are the exact differences and at least half.
LEMMA HalfSizes ==
    /\ MaxReduction \in Nat /\ MaxReduction < Original
    /\ \A n \in 0..MaxReduction :
        /\ Limit(n) = Original - n /\ AtLeastOne(Limit(n)) = Limit(n)
        /\ Limit(n) >= Original - MaxReduction
<1>1. MaxReduction \in Nat /\ MaxReduction < Original
  BY PoolAssumption DEF MaxReduction
<1> HIDE DEF MaxReduction
<1> QED
  BY <1>1, PoolAssumption DEF Limit, AtLeastOne

\* No call is in progress after the step ...
LEMMA Quiet ==
    ASSUME conn' \in [Conns -> States],
           \A d \in Conns : conn'[d] \notin Working,
           cooldowns' <= MaxReduction, InStepClear', HalfLeft'
    PROVE  OneThread'
BY DEF OneThread, Alone, InStep, In, Working, MaxReduction

\* ... or only the one on connection c.
LEMMA Busy ==
    ASSUME conn' \in [Conns -> States], NEW c \in Conns, conn'[c] \in Working,
           \A d \in Conns \ {c} : conn'[d] \notin Working,
           clearer' = "idle", cooldowns' <= MaxReduction, InStep(c)', HalfLeft'
    PROVE  OneThread'
<1>1. Alone'
  BY DEF Alone, In
<1>2. InStepClear'
  BY DEF InStepClear, In
<1>3. \A d \in Conns : InStep(d)'
  BY DEF InStep, Working
<1> QED
  BY <1>1, <1>2, <1>3 DEF OneThread, MaxReduction

LEMMA OneThreadInit == Init => OneThread
<1> SUFFICES ASSUME Init PROVE OneThread
  OBVIOUS
<1>1. \A c \in Conns : conn[c] \notin Working
  BY DEF Init, Working
<1>2. 0 <= MaxReduction /\ max = Limit(0) /\ max >= Original - MaxReduction
  BY HalfSizes, PoolAssumption DEF Init, Limit
<1> QED
  BY <1>1, <1>2 DEF Init, OneThread, Alone, InStep, InStepClear, HalfLeft, In, Working

LEMMA OneThreadStep ==
    ASSUME SingleThread PROVE Inv /\ OneThread /\ [Next]_vars => OneThread'
<1> SUFFICES ASSUME Inv, OneThread, [Next]_vars PROVE OneThread'
  OBVIOUS
<1>a. Inv'
  BY InvStep
<1>b. /\ conn \in [Conns -> States] /\ conn' \in [Conns -> States]
      /\ cooldowns \in 0..MaxReduction /\ cooldowns' \in Nat
  BY <1>a, HalfSizes DEF Inv, TypeOK, OneThread
<1>c. ASSUME Free PROVE /\ clearer = "idle" /\ In(Working) = {}
                        /\ \A d \in Conns : conn[d] \notin Working
                        /\ max = Limit(cooldowns) /\ max >= Original - MaxReduction
  BY <1>c DEF Free, OneThread, InStepClear, HalfLeft, In
<1>d. ASSUME NEW c \in Conns, conn[c] \in Working
      PROVE  /\ clearer = "idle" /\ max >= Original - MaxReduction
             /\ \A d \in Conns \ {c} : conn[d] \notin Working
  BY <1>d DEF OneThread, Alone, HalfLeft, In
<1>1. ASSUME NEW c \in Conns, NEW state \in States \ Working, Free, Becomes(c, state),
             UNCHANGED <<max, cooldowns, newMax, clearer, target, stopping>>
      PROVE  OneThread'
  <2>1. \A d \in Conns : conn'[d] \notin Working
    BY <1>1, <1>b, <1>c DEF Becomes
  <2>2. InStepClear' /\ HalfLeft'
    BY <1>1, <1>c DEF InStepClear, HalfLeft, Limit, MaxReduction
  <2> QED
    BY <1>1, <1>b, <2>1, <2>2, Quiet
<1>2. ASSUME NEW c \in Conns,
             Connect(c) \/ Connected(c) \/ ConnectFails(c) \/ Checkout(c) \/ Recycle(c)
      PROVE OneThread'
  BY <1>2, <1>1 DEF Connect, Connected, ConnectFails, Checkout, Recycle, States, Working
<1>3. ASSUME NEW c \in Conns, Return(c) \/ HealthCheckFails(c) PROVE OneThread'
  BY <1>3, <1>1 DEF Return, HealthCheckFails, States, Working
<1>4. ASSUME NEW c \in Conns, RemoveWithoutCooldown(c) \/ Quit(c) PROVE OneThread'
  BY <1>4, <1>1 DEF RemoveWithoutCooldown, Quit, States, Working
<1>5. ASSUME NEW c \in Conns, CheckCap(c) PROVE OneThread'
  <2>1. CASE stopping \/ cooldowns >= MaxReduction
    BY <2>1, <1>5, <1>1 DEF CheckCap, States, Working
  <2>2. CASE ~(stopping \/ cooldowns >= MaxReduction)
    <3>1. /\ conn'[c] = "checked" /\ \A d \in Conns \ {c} : conn'[d] \notin Working
          /\ clearer' = "idle"
      BY <2>2, <1>5, <1>b, <1>c DEF CheckCap, Becomes
    <3>2. cooldowns' < MaxReduction
      BY <2>2, <1>5, <1>b, HalfSizes DEF CheckCap
    <3>3. HalfLeft' /\ InStep(c)'
      BY <1>5, <1>c, <3>1, <3>2 DEF CheckCap, HalfLeft, InStep, MaxReduction
    <3> QED
      BY <1>b, <3>1, <3>2, <3>3, HalfSizes, Busy DEF Working
  <2> QED
    BY <2>1, <2>2
<1>6. ASSUME NEW c \in Conns, Count(c) PROVE OneThread'
  <2>1. conn[c] = "checked" /\ conn[c] \in Working /\ cooldowns < MaxReduction
    BY <1>6 DEF Count, OneThread, InStep, Working
  <2>2. cooldowns' \in 0..MaxReduction /\ newMax'[c] = Limit(cooldowns')
    BY <1>6, <1>b, <2>1, HalfSizes DEF Count, Inv, TypeOK
  <2>3. /\ conn'[c] = "counted" /\ \A d \in Conns \ {c} : conn'[d] \notin Working
        /\ clearer' = "idle" /\ max' = max
    BY <1>6, <1>b, <1>d, <2>1 DEF Count, Becomes
  <2>4. HalfLeft' /\ InStep(c)'
    BY <1>d, <2>1, <2>2, <2>3 DEF HalfLeft, InStep, MaxReduction, Limit
  <2> QED
    BY <1>b, <2>2, <2>3, <2>4, Busy DEF Working
<1>7. ASSUME NEW c \in Conns, Shrink(c) PROVE OneThread'
  <2> DEFINE states == [conn EXCEPT ![c] = "shrunk"]
  <2>1. conn[c] = "counted" /\ conn[c] \in Working /\ newMax[c] = Limit(cooldowns)
    BY <1>7 DEF Shrink, OneThread, InStep, Working
  <2>2. states \in [Conns -> States]
    BY <1>b DEF States
  <2>3. /\ max' = newMax[c]
        /\ \A d \in Conns : conn'[d] # states[d] => states[d] \in Pooled /\ conn'[d] = "none"
    <3> HIDE DEF states
    <3> QED BY <1>7, <2>2, ResizeStep DEF Shrink, states
  <2>4. /\ conn'[c] = "shrunk" /\ \A d \in Conns \ {c} : conn'[d] \notin Working
        /\ clearer' = "idle" /\ cooldowns' = cooldowns
    BY <1>7, <1>b, <1>d, <2>1, <2>3 DEF Shrink, Pooled, Working
  <2>5. max' = Limit(cooldowns') /\ max' >= Original - MaxReduction
    BY <1>b, <2>1, <2>3, <2>4, HalfSizes
  <2>6. HalfLeft' /\ InStep(c)'
    BY <2>4, <2>5 DEF HalfLeft, InStep, MaxReduction, Limit
  <2> QED
    BY <1>b, <2>4, <2>6, HalfSizes, Busy DEF Working
<1>8. ASSUME NEW c \in Conns, Drop(c) PROVE OneThread'
  <2>1. conn[c] = "shrunk" /\ conn[c] \in Working /\ max = Limit(cooldowns)
    BY <1>8 DEF Drop, OneThread, InStep, Working
  <2>2. \A d \in Conns : conn'[d] \notin Working
    BY <1>8, <1>b, <1>d, <2>1 DEF Drop, Becomes, Working
  <2>3. InStepClear' /\ HalfLeft'
    BY <1>8, <1>d, <2>1 DEF Drop, InStepClear, HalfLeft, Limit, MaxReduction
  <2> QED
    BY <1>8, <1>b, <2>2, <2>3, Quiet DEF Drop
<1>9. ASSUME NEW c \in Conns, Expire(c) PROVE OneThread'
  <2>1. /\ conn'[c] = "expired" /\ \A d \in Conns \ {c} : conn'[d] \notin Working
        /\ clearer' = "idle" /\ max' = max
    BY <1>9, <1>b, <1>c DEF Expire, Becomes
  <2>2. cooldowns' <= MaxReduction /\ newMax'[c] = Limit(cooldowns')
    BY <1>9, <1>b, HalfSizes DEF Expire, Inv, TypeOK
  <2>3. HalfLeft' /\ InStep(c)'
    BY <1>9, <1>c, <2>1, <2>2 DEF Expire, HalfLeft, InStep, MaxReduction, Limit
  <2> QED
    BY <1>b, <2>1, <2>2, <2>3, Busy DEF Working
<1>10. ASSUME NEW c \in Conns, Restore(c) PROVE OneThread'
  <2> DEFINE states == [conn EXCEPT ![c] = "none"]
  <2>1. conn[c] = "expired" /\ conn[c] \in Working /\ newMax[c] = Limit(cooldowns)
    BY <1>10 DEF Restore, OneThread, InStep, Working
  <2>2. states \in [Conns -> States]
    BY <1>b DEF States
  <2>3. /\ max' = newMax[c]
        /\ \A d \in Conns : conn'[d] # states[d] => states[d] \in Pooled /\ conn'[d] = "none"
    <3> HIDE DEF states
    <3> QED BY <1>10, <2>2, ResizeStep DEF Restore, states
  <2>4. /\ \A d \in Conns : conn'[d] \notin Working
        /\ clearer' = "idle" /\ cooldowns' = cooldowns
    BY <1>10, <1>b, <1>d, <2>1, <2>3 DEF Restore, Pooled, Working
  <2>5. max' = Limit(cooldowns') /\ max' >= Original - MaxReduction
    BY <1>b, <2>1, <2>3, <2>4, HalfSizes
  <2>6. InStepClear' /\ HalfLeft'
    BY <2>4, <2>5 DEF InStepClear, HalfLeft, MaxReduction, Limit
  <2> QED
    BY <1>b, <2>4, <2>6, HalfSizes, Quiet
<1>11. ASSUME ClearRead PROVE OneThread'
  <2>1. target' = Limit(cooldowns)
    BY <1>11, <1>b, HalfSizes DEF ClearRead
  <2>2. InStepClear' /\ HalfLeft'
    BY <1>11, <1>c, <2>1 DEF ClearRead, InStepClear, HalfLeft, Limit, MaxReduction
  <2>3. \A d \in Conns : conn'[d] \notin Working
    BY <1>11, <1>c DEF ClearRead
  <2> QED
    BY <1>11, <1>b, <2>2, <2>3, HalfSizes, Quiet DEF ClearRead
<1>12. ASSUME ClearEmpty \/ ClearRestore PROVE OneThread'
  <2>1. target = Limit(cooldowns) /\ \A d \in Conns : conn[d] \notin Working
    BY <1>12 DEF ClearEmpty, ClearRestore, OneThread, InStepClear, Alone, In
  <2>2. \A d \in Conns : conn'[d] \notin Working
    BY <1>12, <1>b, <2>1, ResizeStep DEF ClearEmpty, ClearRestore, Working
  <2>3. cooldowns' = cooldowns /\ target >= Original - MaxReduction
    BY <1>12, <1>b, <2>1, HalfSizes DEF ClearEmpty, ClearRestore
  <2>4. InStepClear' /\ HalfLeft'
    BY <1>12, <2>1, <2>3 DEF ClearEmpty, ClearRestore, Resize, InStepClear, HalfLeft, Limit, MaxReduction
  <2> QED
    BY <1>b, <2>2, <2>3, <2>4, HalfSizes, Quiet
<1>13. CASE Shutdown \/ UNCHANGED vars
  BY <1>13 DEF Shutdown, vars, OneThread, Alone, InStep, InStepClear, HalfLeft, In, Limit, MaxReduction
<1> QED
  BY <1>2, <1>3, <1>4, <1>5, <1>6, <1>7, <1>8, <1>9, <1>10, <1>11, <1>12, <1>13 DEF Next, Finish

\* remove_with_cooldown on one worker thread, the default: "never reduce below half
\* original size", for a pool of any size.
THEOREM HalfCorrectness == ASSUME SingleThread PROVE Spec => []HalfKept
<1>1. OneThread => HalfKept
  BY DEF OneThread, HalfLeft, HalfKept
<1> QED
  BY InvInit, InvStep, OneThreadInit, OneThreadStep, <1>1, PTL DEF Spec

\* CooldownGuard::drop on one worker thread: when the last cooldown has expired
\* the pool has its original size again.
THEOREM RestoreCorrectness == ASSUME SingleThread PROVE Spec => []RestoredWhenQuiet
<1>1. ASSUME Inv, OneThread PROVE RestoredWhenQuiet
  <2> SUFFICES ASSUME In(Working \union {"cooling"}) = {}, clearer = "idle"
               PROVE  max = Original
    BY DEF RestoredWhenQuiet
  <2>1. In(Working) = {} /\ In({"counted", "shrunk", "cooling"}) = {}
    BY DEF In, Working
  <2>2. cooldowns = 0
    BY <1>1, <2>1, FS_EmptySet DEF Inv, CooldownsCounted
  <2> QED
    BY <1>1, <2>1, <2>2, PoolAssumption DEF OneThread, InStepClear, Limit
<1> QED
  BY InvInit, InvStep, OneThreadInit, OneThreadStep, <1>1, PTL DEF Spec

\* Arithmetic: a maximum with room for all that are counted has room for some.
LEMMA RoomLeft ==
    ASSUME NEW m \in Nat, NEW k \in Nat, NEW counted \in Nat, NEW n \in Nat,
           m <= n - counted, k <= counted
    PROVE  m + k <= n
OBVIOUS

\* A step that sets the maximum, or lets a connection cool, leaves the maximum
\* at what the counter allows; every other step lets no connection cool.
LEMMA CooledPlacesStep ==
    ASSUME SingleThread
    PROVE  Inv /\ OneThread /\ CooledPlacesKept /\ [Next]_vars => CooledPlacesKept'
<1> SUFFICES ASSUME Inv, OneThread, CooledPlacesKept, [Next]_vars
             PROVE  CooledPlacesKept'
  OBVIOUS
<1>a. Inv' /\ OneThread'
  BY InvStep, OneThreadStep
<1>b. /\ Cardinality(In({"cooling"})') \in Nat
      /\ Cardinality(In({"cooling"})') <= cooldowns'
  <2>1. In({"cooling"})' \subseteq In(Cooling)'
    BY DEF In, Cooling
  <2>2. IsFiniteSet(In(Cooling)')
    <3>1. In(Cooling)' \subseteq Conns
      BY DEF In
    <3> QED
      BY <3>1, PoolAssumption, FS_Subset
  <2>3. /\ Cardinality(In({"cooling"})') \in Nat
        /\ Cardinality(In({"cooling"})') <= Cardinality(In(Cooling)')
    BY <2>1, <2>2, FS_Subset, FS_CardinalityType
  <2> QED
    BY <1>a, <2>3 DEF Inv, CooldownsCounted, Cooling
<1>c. /\ max \in Nat /\ max' \in Nat /\ cooldowns \in Nat /\ cooldowns' \in Nat
      /\ cooldowns <= Original /\ Limit(cooldowns) = Original - cooldowns
  BY <1>a, HalfSizes, PoolAssumption DEF Inv, TypeOK, OneThread
<1>1. ASSUME max' <= Original - cooldowns' PROVE CooledPlacesKept'
  <2> DEFINE k == Cardinality(In({"cooling"})')
  <2>1. k \in Nat /\ k <= cooldowns'
    BY <1>b
  <2> HIDE DEF k
  <2>2. max' \in Nat /\ cooldowns' \in Nat /\ Original \in Nat
    BY <1>c, PoolAssumption
  <2>3. max' + k <= Original
    BY <1>1, <2>1, <2>2, RoomLeft
  <2> QED
    BY <2>3 DEF CooledPlacesKept, k
<1>2. ASSUME max' = max, In({"cooling"})' \subseteq In({"cooling"}) PROVE CooledPlacesKept'
  BY <1>2, <1>b, <1>c, InFinite, FS_Subset, PoolAssumption DEF CooledPlacesKept
<1>3. ASSUME NEW c \in Conns, Shrink(c) \/ Drop(c) \/ Restore(c) PROVE max' <= Original - cooldowns'
  BY <1>3, <1>c DEF Shrink, Drop, Restore, Resize, OneThread, InStep
<1>4. ASSUME ClearEmpty \/ ClearRestore PROVE max' <= Original - cooldowns'
  <2>1. cooldowns' = cooldowns /\ (max' = 0 \/ (max' = target /\ clearer = "emptied"))
    BY <1>4 DEF ClearEmpty, ClearRestore, Resize
  <2> QED
    <3>1. clearer = "emptied" => target = Original - cooldowns
      BY <1>c DEF OneThread, InStepClear
    <3> QED
      BY <2>1, <3>1, <1>c, PoolAssumption
<1>5. ASSUME NEW c \in Conns, NEW state \in States \ {"cooling"}, Becomes(c, state), max' = max
      PROVE CooledPlacesKept'
  BY <1>5, <1>2 DEF Becomes, In, Inv, TypeOK
<1>6. ASSUME NEW c \in Conns,
             Connect(c) \/ Connected(c) \/ ConnectFails(c) \/ Checkout(c) \/ Recycle(c)
      PROVE CooledPlacesKept'
  BY <1>6, <1>5 DEF Connect, Connected, ConnectFails, Checkout, Recycle, States
<1>7. ASSUME NEW c \in Conns, Return(c) \/ HealthCheckFails(c) \/ RemoveWithoutCooldown(c)
      PROVE CooledPlacesKept'
  BY <1>7, <1>5 DEF Return, HealthCheckFails, RemoveWithoutCooldown, States
<1>8. ASSUME NEW c \in Conns, CheckCap(c) \/ Count(c) \/ Expire(c) \/ Quit(c)
      PROVE CooledPlacesKept'
  BY <1>8, <1>5 DEF CheckCap, Count, Expire, Quit, States
<1>9. CASE ClearRead \/ Shutdown \/ UNCHANGED vars
  BY <1>9, <1>2 DEF ClearRead, Shutdown, vars, In
<1> QED
  BY <1>1, <1>3, <1>4, <1>6, <1>7, <1>8, <1>9 DEF Next, Finish

\* The replacement cooldown on one worker thread: whatever removals, expiries and
\* clearings come in between, the pool's maximum leaves out the place of every
\* connection that is cooling (resize_then_drop, CooldownGuard::drop,
\* clear_idle_connections).
THEOREM CooledPlacesCorrectness == ASSUME SingleThread PROVE Spec => []CooledPlacesKept
<1>1. Init => CooledPlacesKept
  <2> SUFFICES ASSUME Init PROVE CooledPlacesKept
    OBVIOUS
  <2>1. In({"cooling"}) = {}
    BY DEF Init, In
  <2> QED
    BY <2>1, FS_EmptySet, PoolAssumption DEF Init, CooledPlacesKept
<1> QED
  BY InvInit, InvStep, OneThreadInit, OneThreadStep, CooledPlacesStep, <1>1, PTL DEF Spec

=============================================================================
