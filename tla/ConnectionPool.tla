---------------------------- MODULE ConnectionPool ----------------------------
(***************************************************************************)
(* One backend's connection pool and its replacement cooldown              *)
(* (pool/provider.rs).                                                     *)
(*                                                                         *)
(* A connection that fails is removed "with cooldown": the pool's maximum  *)
(* is lowered before the socket is dropped, and raised again when a timer  *)
(* runs out, so that the server has time to release the old connection's   *)
(* place.  The number of cooldowns is an atomic counter and the maximum a  *)
(* field behind deadpool's lock; no lock spans a read of the one and the   *)
(* write of the other, so on a multi-threaded runtime the steps of several *)
(* removals, expiries and clearings interleave.  On a single-threaded one  *)
(* (threads = 1, the default) none of them awaits and each runs through.   *)
(*                                                                         *)
(* deadpool is modelled by how provider.rs relies on it: a waiter takes a  *)
(* slot while size < max_size and then connects, a returned connection is  *)
(* discarded while size > max_size, and resize drops idle connections down *)
(* to it.  The properties speak of the maximum and the cooldowns, which    *)
(* provider.rs sets; none of them rests on how deadpool grants its slots.  *)
(***************************************************************************)
EXTENDS Naturals, FiniteSets

CONSTANTS Conns,         \* connection identities
          Original,      \* original_max_size
          SingleThread   \* TRUE: one worker thread

ASSUME PoolAssumption ==
    /\ IsFiniteSet(Conns)
    /\ Original \in Nat \ {0}
    /\ SingleThread \in BOOLEAN

States == {"none", "connecting", "out",
           "idle", "closed",                      \* closed: idle, socket shut
           "checked", "counted", "shrunk",        \* inside remove_with_cooldown
           "cooling", "expired"}                  \* dropped; timer ran out

VARIABLES
    conn,       \* conn[c]: the state of connection c
    max,        \* the pool's max_size
    cooldowns,  \* active_cooldowns
    newMax,     \* newMax[c]: the maximum computed by c's removal or expiry
    clearer,    \* "idle", "read" or "emptied": clear_idle_connections
    target,     \* its target_max
    stopping    \* is_shutting_down

vars == <<conn, max, cooldowns, newMax, clearer, target, stopping>>

Limit(n) == IF n < Original THEN Original - n ELSE 0   \* saturating_sub
AtLeastOne(n) == IF n > 1 THEN n ELSE 1
MaxReduction == Original \div 2

In(states) == {c \in Conns : conn[c] \in states}
Pooled  == {"idle", "closed"}
Taken   == Pooled \union {"connecting", "out", "checked", "counted", "shrunk"}
Working == {"checked", "counted", "shrunk", "expired"}
Size    == Cardinality(In(Taken))

\* No call is in progress on the only thread.
Free == SingleThread => In(Working) = {} /\ clearer = "idle"

Init ==
    /\ conn = [c \in Conns |-> "none"]
    /\ max = Original
    /\ cooldowns = 0
    /\ newMax = [c \in Conns |-> 0]
    /\ clearer = "idle" /\ target = 0
    /\ stopping = FALSE

Becomes(c, state) == conn' = [conn EXCEPT ![c] = state]

\* deadpool's resize: lower the maximum and drop idle connections above it.
\* A dropped connection was not failing, so the server frees its place.
Resize(m, states) ==
    /\ max' = m
    /\ \E gone \in SUBSET {c \in Conns : states[c] \in Pooled} :
        LET excess == IF Size > m THEN Size - m ELSE 0
            idle   == Cardinality({c \in Conns : states[c] \in Pooled})
        IN /\ Cardinality(gone) = IF excess < idle THEN excess ELSE idle
           /\ conn' = [c \in Conns |-> IF c \in gone THEN "none" ELSE states[c]]

\* get_pooled_connection: reuse an idle connection, or take a slot below the
\* maximum and connect, during which anything may happen, a resize included.
\* recycle drops one whose socket is shut.
Connect(c) ==
    /\ Free
    /\ conn[c] = "none" /\ Size < max
    /\ Becomes(c, "connecting")
    /\ UNCHANGED <<max, cooldowns, newMax, clearer, target, stopping>>

Connected(c) ==
    /\ Free
    /\ conn[c] = "connecting"
    /\ Becomes(c, "out")
    /\ UNCHANGED <<max, cooldowns, newMax, clearer, target, stopping>>

\* An error of TCP, TLS or login, or the create timeout.
ConnectFails(c) ==
    /\ Free
    /\ conn[c] = "connecting"
    /\ Becomes(c, "none")
    /\ UNCHANGED <<max, cooldowns, newMax, clearer, target, stopping>>

Checkout(c) ==
    /\ Free
    /\ conn[c] = "idle"
    /\ Becomes(c, "out")
    /\ UNCHANGED <<max, cooldowns, newMax, clearer, target, stopping>>

Recycle(c) ==
    /\ Free
    /\ conn[c] = "closed"
    /\ Becomes(c, "none")
    /\ UNCHANGED <<max, cooldowns, newMax, clearer, target, stopping>>

\* complete_success, release: the object goes back to deadpool.
Return(c) ==
    /\ Free
    /\ conn[c] = "out"
    /\ Becomes(c, IF Size <= max THEN "idle" ELSE "none")
    /\ UNCHANGED <<max, cooldowns, newMax, clearer, target, stopping>>

\* run_periodic_health_checks: a failed DATE shuts the socket and returns the
\* connection, for recycle to find.
HealthCheckFails(c) ==
    /\ Free
    /\ conn[c] = "idle"
    /\ Becomes(c, IF Size <= max THEN "closed" ELSE "none")
    /\ UNCHANGED <<max, cooldowns, newMax, clearer, target, stopping>>

\* remove_without_cooldown.
RemoveWithoutCooldown(c) ==
    /\ Free
    /\ conn[c] = "out"
    /\ Becomes(c, "none")
    /\ UNCHANGED <<max, cooldowns, newMax, clearer, target, stopping>>

\* Mutant of CheckCap: the cap is off by one.
CheckCapOffByOne(c) ==
    /\ Free
    /\ conn[c] = "out"
    /\ Becomes(c, IF stopping \/ cooldowns > MaxReduction THEN "none" ELSE "checked")
    /\ UNCHANGED <<max, cooldowns, newMax, clearer, target, stopping>>

\* remove_with_cooldown: look at the shutdown flag and the counter.  At the cap,
\* and during shutdown, the connection is just dropped: the server may hold its
\* place for a while, and nothing makes the pool wait for it ...
CheckCap(c) ==
    /\ Free
    /\ conn[c] = "out"
    /\ Becomes(c, IF stopping \/ cooldowns >= MaxReduction THEN "none" ELSE "checked")
    /\ UNCHANGED <<max, cooldowns, newMax, clearer, target, stopping>>

\* ... count this cooldown ...
Count(c) ==
    /\ conn[c] = "checked"
    /\ cooldowns' = cooldowns + 1
    /\ newMax' = [newMax EXCEPT ![c] = AtLeastOne(Limit(cooldowns'))]
    /\ Becomes(c, "counted")
    /\ UNCHANGED <<max, clearer, target, stopping>>

\* ... shrink the pool ...
Shrink(c) ==
    /\ conn[c] = "counted"
    /\ Resize(newMax[c], [conn EXCEPT ![c] = "shrunk"])
    /\ UNCHANGED <<cooldowns, newMax, clearer, target, stopping>>

\* ... and only then drop the socket and start the timer.
Drop(c) ==
    /\ conn[c] = "shrunk"
    /\ Becomes(c, "cooling")
    /\ UNCHANGED <<max, cooldowns, newMax, clearer, target, stopping>>

\* Mutant of Expire: an early return loses the count of a cancelled timer.
ExpireLost(c) ==
    /\ Free
    /\ conn[c] = "cooling"
    /\ cooldowns' \in {cooldowns, cooldowns - 1}
    /\ newMax' = [newMax EXCEPT ![c] = Limit(cooldowns')]
    /\ Becomes(c, "expired")
    /\ UNCHANGED <<max, clearer, target, stopping>>

\* Mutant of Expire: the count is taken back twice.
ExpireTwice(c) ==
    /\ Free
    /\ conn[c] = "cooling"
    /\ cooldowns' = cooldowns - 2
    /\ newMax' = [newMax EXCEPT ![c] = Limit(cooldowns')]
    /\ Becomes(c, "expired")
    /\ UNCHANGED <<max, clearer, target, stopping>>

\* CooldownGuard::drop, when the timer runs out or the sleeping task is
\* cancelled: count down, then resize.
Expire(c) ==
    /\ Free
    /\ conn[c] = "cooling"
    /\ cooldowns' = cooldowns - 1
    /\ newMax' = [newMax EXCEPT ![c] = Limit(cooldowns')]
    /\ Becomes(c, "expired")
    /\ UNCHANGED <<max, clearer, target, stopping>>

\* Mutant of Restore: the reduction that the cooldown made is kept.
RestoreReduced(c) ==
    /\ conn[c] = "expired"
    /\ Resize(AtLeastOne(newMax[c] - 1), [conn EXCEPT ![c] = "none"])
    /\ newMax' = [newMax EXCEPT ![c] = 0]
    /\ UNCHANGED <<cooldowns, clearer, target, stopping>>

Restore(c) ==
    /\ conn[c] = "expired"
    /\ Resize(newMax[c], [conn EXCEPT ![c] = "none"])
    /\ newMax' = [newMax EXCEPT ![c] = 0]
    /\ UNCHANGED <<cooldowns, clearer, target, stopping>>

\* Mutant of ClearRead: active cooldowns are ignored.
ClearReadOriginal ==
    /\ Free
    /\ clearer = "idle" /\ In(Pooled) # {}
    /\ target' = Original
    /\ clearer' = "read"
    /\ UNCHANGED <<conn, max, cooldowns, newMax, stopping>>

\* clear_idle_connections: read the counter, resize to 0 and back.
ClearRead ==
    /\ Free
    /\ clearer = "idle" /\ In(Pooled) # {}
    /\ target' = AtLeastOne(Limit(cooldowns))
    /\ clearer' = "read"
    /\ UNCHANGED <<conn, max, cooldowns, newMax, stopping>>

ClearEmpty ==
    /\ clearer = "read"
    /\ Resize(0, conn)
    /\ clearer' = "emptied"
    /\ UNCHANGED <<cooldowns, newMax, target, stopping>>

ClearRestore ==
    /\ clearer = "emptied"
    /\ Resize(target, conn)
    /\ clearer' = "idle" /\ target' = 0
    /\ UNCHANGED <<cooldowns, newMax, stopping>>

\* shutdown, then graceful_shutdown takes the idle connections out.  The model
\* ends where it closes the pool.
Shutdown ==
    /\ Free
    /\ ~stopping
    /\ stopping' = TRUE
    /\ UNCHANGED <<conn, max, cooldowns, newMax, clearer, target>>

Quit(c) ==
    /\ Free
    /\ stopping /\ conn[c] \in Pooled
    /\ Becomes(c, "none")
    /\ UNCHANGED <<max, cooldowns, newMax, clearer, target, stopping>>

Finish(c) == Count(c) \/ Shrink(c) \/ Drop(c) \/ Expire(c) \/ Restore(c)

Next ==
    \/ \E c \in Conns :
        \/ Connect(c) \/ Connected(c) \/ ConnectFails(c)
        \/ Checkout(c) \/ Recycle(c) \/ Return(c)
        \/ HealthCheckFails(c) \/ RemoveWithoutCooldown(c) \/ CheckCap(c)
        \/ Finish(c) \/ Quit(c)
    \/ ClearRead \/ ClearEmpty \/ ClearRestore
    \/ Shutdown

Spec == Init /\ [][Next]_vars
-----------------------------------------------------------------------------
\* The types of the pool's fields; a maximum never exceeds original_max_size.
TypeOK ==
    /\ conn \in [Conns -> States]
    /\ max \in 0..Original
    /\ cooldowns \in Nat
    /\ newMax \in [Conns -> 0..Original]
    /\ clearer \in {"idle", "read", "emptied"}
    /\ target \in 0..Original
    /\ stopping \in BOOLEAN

\* The counter is the number of connections between fetch_add and fetch_sub in
\* every interleaving: no cooldown is lost when calls overlap or a sleeping task
\* is cancelled, so the subtraction in CooldownGuard::drop cannot wrap around.
CooldownsCounted ==
    cooldowns = Cardinality(In({"counted", "shrunk", "cooling"}))

\* "never reduce below half original size" (remove_with_cooldown); the moment
\* clear_idle_connections empties the pool is not a reduction.
HalfKept == clearer # "emptied" => max >= Original - MaxReduction

\* "temporarily reduce pool size": once every cooldown has expired and no call is
\* in progress, the pool has its original size again.
RestoredWhenQuiet ==
    (In(Working \union {"cooling"}) = {} /\ clearer = "idle") => max = Original

\* "Gives the backend time to release the old connection's slot": as long as a
\* connection cools, no call, not even a clearing or another expiry, lets the
\* pool have its place; maximum and cooling connections together never exceed
\* original_max_size ("we resize the pool BEFORE dropping the connection").
CooledPlacesKept == max + Cardinality(In({"cooling"})) <= Original
=============================================================================
