--------------------------- MODULE SweepElection ---------------------------
(***************************************************************************)
(* The periodic deletions of old rows: startIdempotencyCleanup and         *)
(* startReviewHistoryCleanup (server/src/worker.ts). Every worker has a    *)
(* timer for each; a PostgreSQL advisory lock elects the one that deletes. *)
(* The lock belongs to a session of the database, and every statement runs *)
(* on whichever session the worker's pool hands out.                       *)
(***************************************************************************)
EXTENDS Naturals, FiniteSets

CONSTANTS Workers,   \* worker processes
          Tasks,     \* the two deletions; each is the key of its lock
          PoolSize,  \* sessions of a worker's pool
          MaxTicks,  \* bound on the ticks of a worker's timer
          None

VARIABLES tick,      \* tick[w][t]: progress of the tick under way
          ticks,     \* tick counts, for the bound
          stopped,   \* workers whose timers are stopped
          lock,      \* lock[t]: the session that holds the lock and how often, or None
          leaked,    \* history: sessions an unlock missed
          dropped    \* history: tasks whose lock went with a closed session during a tick

vars == <<tick, ticks, stopped, lock, leaked, dropped>>

Sessions == Workers \X (1..PoolSize)
Of(w) == {w} \X (1..PoolSize)
Idle == "idle"

Init ==
    /\ tick = [w \in Workers |-> [t \in Tasks |-> Idle]]
    /\ ticks = [w \in Workers |-> 0]
    /\ stopped = {} /\ leaked = {} /\ dropped = {}
    /\ lock = [t \in Tasks |-> None]

Goto(w, t, pc) == tick' = [tick EXCEPT ![w][t] = pc]

\* The timer fires; it is set again only when its tick has ended, thrown or not.
schedule(w, t) ==
    /\ w \notin stopped /\ tick[w][t] = Idle /\ ticks[w] < MaxTicks
    /\ ticks' = [ticks EXCEPT ![w] = @ + 1]
    /\ Goto(w, t, "acquire")
    /\ UNCHANGED <<stopped, lock, leaked, dropped>>

stop(w) ==
    /\ w \notin stopped
    /\ stopped' = stopped \cup {w}
    /\ UNCHANGED <<tick, ticks, lock, leaked, dropped>>

\* pg_try_advisory_lock (external) on any session of the pool: granted when
\* the lock is free, and once more to the session that has it.
Granted(s, t) ==
    IF lock[t] = None THEN [session |-> s, n |-> 1]
    ELSE IF lock[t].session = s THEN [lock[t] EXCEPT !.n = @ + 1] ELSE None

tryAcquireLock(w, t) ==
    /\ tick[w][t] = "acquire"
    /\ \E s \in Of(w) :
         IF Granted(s, t) # None
         THEN lock' = [lock EXCEPT ![t] = Granted(s, t)] /\ Goto(w, t, "delete")
         ELSE Goto(w, t, Idle) /\ UNCHANGED lock
    /\ UNCHANGED <<ticks, stopped, leaked, dropped>>

\* The DELETE, which may throw; the lock is released all the same.
deleteOrLeave(w, t) ==   \* mutant: no finally
    /\ tick[w][t] = "delete"
    /\ Goto(w, t, "release") \/ Goto(w, t, Idle)
    /\ UNCHANGED <<ticks, stopped, lock, leaked, dropped>>
delete(w, t) ==
    /\ tick[w][t] = "delete"
    /\ Goto(w, t, "release")
    /\ UNCHANGED <<ticks, stopped, lock, leaked, dropped>>

\* pg_advisory_unlock (external) on any session of the pool; on one that does
\* not have the lock it only warns.
Unlocked(t) ==
    IF lock[t].n = 1 THEN None ELSE [lock[t] EXCEPT !.n = @ - 1]

releaseLock(w, t) ==
    /\ tick[w][t] = "release"
    /\ \E s \in Of(w) :
         IF lock[t] # None /\ lock[t].session = s
         THEN lock' = [lock EXCEPT ![t] = Unlocked(t)] /\ UNCHANGED leaked
         ELSE /\ UNCHANGED lock
              /\ leaked' = IF lock[t] # None /\ lock[t].session \in Of(w)
                           THEN leaked \cup {<<lock[t].session, t>>} ELSE leaked
    /\ Goto(w, t, Idle)
    /\ UNCHANGED <<ticks, stopped, dropped>>

\* A session ends, by a timeout of the pool or a lost connection, and its locks
\* with it.
CloseSession(s) ==
    /\ \E t \in Tasks : lock[t] # None /\ lock[t].session = s
    /\ lock' = [t \in Tasks |-> IF lock[t] # None /\ lock[t].session = s THEN None ELSE lock[t]]
    /\ dropped' = dropped \cup {t \in Tasks : /\ lock[t] # None /\ lock[t].session = s
                                             /\ tick[s[1]][t] \in {"delete", "release"}}
    /\ leaked' = {x \in leaked : x[1] # s}
    /\ UNCHANGED <<tick, ticks, stopped>>

\* The process dies, for one because a tick that throws is an unhandled
\* rejection, and is started again: its sessions are closed, its timers new.
Crash(w) ==
    /\ \E t \in Tasks : tick[w][t] # Idle
    /\ tick' = [tick EXCEPT ![w] = [t \in Tasks |-> Idle]]
    /\ lock' = [t \in Tasks |-> IF lock[t] # None /\ lock[t].session \in Of(w) THEN None ELSE lock[t]]
    /\ leaked' = {x \in leaked : x[1] \notin Of(w)}
    /\ UNCHANGED <<ticks, stopped, dropped>>

Next ==
    \/ \E w \in Workers :
          \/ stop(w) \/ Crash(w)
          \/ \E t \in Tasks : \/ schedule(w, t) \/ tryAcquireLock(w, t)
                              \/ delete(w, t) \/ releaseLock(w, t)
    \/ \E s \in Sessions : CloseSession(s)

Spec == Init /\ [][Next]_vars
-----------------------------------------------------------------------------
Deletes(w, t) == tick[w][t] \in {"delete", "release"}

\* Two workers delete the same rows at the same time only after the elected
\* one has lost its session in the middle of a tick; the two tasks never
\* stand in for each other. A lock that nobody uses, so that other workers
\* find it taken, was missed by an unlock on another session of the pool: it
\* stays until that session is closed, and a tick that failed is no reason.
ElectionExplained ==
    \A t \in Tasks :
        /\ Cardinality({w \in Workers : Deletes(w, t)}) > 1 => t \in dropped
        /\ lock[t] # None /\ ~Deletes(lock[t].session[1], t) => <<lock[t].session, t>> \in leaked
=============================================================================
