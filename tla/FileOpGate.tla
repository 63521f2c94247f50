----------------------------- MODULE FileOpGate -----------------------------
(***************************************************************************)
(* The file-operation gate (core/src/state.rs, FileOpGate) and the orderly *)
(* shutdown built on it (Engine::shutdown, shutdown_file_ops_and_drain,    *)
(* drain_cached_file_handles).                                             *)
(*                                                                         *)
(* A worker is a request thread: it asks the gate for a permit, opens or   *)
(* reuses cached SQLite handles while it has one, and drops the permit.  A *)
(* closer is a thread inside Engine::shutdown.  The mutex around `active`  *)
(* and the condition variable are modelled step by step, because the flag  *)
(* is stored outside the mutex.                                            *)
(***************************************************************************)
EXTENDS Naturals, FiniteSets

CONSTANTS
    Workers,   \* request threads
    Closers,   \* threads calling Engine::shutdown
    Handles,   \* cacheable SQLite handles: read slots, writers, the ledger
    Nobody,    \* the mutex is free
    MaxSpurious \* bound on spurious returns of Condvar::wait

ASSUME FileOpGateAssumption ==
    /\ IsFiniteSet(Workers)
    /\ Workers \cap Closers = {}
    /\ Nobody \notin Workers \cup Closers
    /\ MaxSpurious \in Nat

VARIABLES
    shuttingDown,  \* FileOpGate.shutting_down
    active,        \* FileOpGate.active
    mutex,         \* owner of the mutex around active
    waiting,       \* closers blocked in Condvar::wait
    spurious,      \* spurious wake-ups so far
    open,          \* handles open in the engine's caches
    signal,        \* the shutdown watch channel
    wpc, cpc,      \* program counters
    todo           \* per closer: handles collected and not yet closed

vars == <<shuttingDown, active, mutex, waiting, spurious, open, signal, wpc, cpc, todo>>

Init ==
    /\ shuttingDown = FALSE
    /\ active = 0
    /\ mutex = Nobody
    /\ waiting = {}
    /\ spurious = 0
    /\ open = {}
    /\ signal = FALSE
    /\ wpc = [w \in Workers |-> "idle"]
    /\ cpc = [c \in Closers |-> "idle"]
    /\ todo = [c \in Closers |-> {}]

-----------------------------------------------------------------------------
(* FileOpGate::begin and the life of a permit.                             *)

\* The first, unlocked look at the flag.
BeginCheck(w) ==
    /\ wpc[w] = "idle"
    /\ wpc' = [wpc EXCEPT ![w] = IF shuttingDown THEN "idle" ELSE "lock"]
    /\ UNCHANGED <<shuttingDown, active, mutex, waiting, open, signal, spurious, cpc, todo>>

BeginLock(w) ==
    /\ wpc[w] = "lock"
    /\ mutex = Nobody
    /\ mutex' = w
    /\ wpc' = [wpc EXCEPT ![w] = "recheck"]
    /\ UNCHANGED <<shuttingDown, active, waiting, open, signal, spurious, cpc, todo>>

\* Mutant of BeginRecheck: the flag is not looked at again under the mutex.
BeginRecheckSkipped(w) ==
    /\ wpc[w] = "recheck"
    /\ wpc' = [wpc EXCEPT ![w] = "count"]
    /\ UNCHANGED <<shuttingDown, active, mutex, waiting, open, signal, spurious, cpc, todo>>

\* The second look, under the mutex.
BeginRecheck(w) ==
    /\ wpc[w] = "recheck"
    /\ IF shuttingDown
       THEN wpc' = [wpc EXCEPT ![w] = "idle"] /\ mutex' = Nobody
       ELSE wpc' = [wpc EXCEPT ![w] = "count"] /\ UNCHANGED mutex
    /\ UNCHANGED <<shuttingDown, active, waiting, open, signal, spurious, cpc, todo>>

\* Count the permit and leave the mutex.
BeginCount(w) ==
    /\ wpc[w] = "count"
    /\ active' = active + 1
    /\ mutex' = Nobody
    /\ wpc' = [wpc EXCEPT ![w] = "permit"]
    /\ UNCHANGED <<shuttingDown, waiting, open, signal, spurious, cpc, todo>>

\* With a permit a thread may open a handle into a cache, or evict one.
OpenHandle(w, h) ==
    /\ wpc[w] = "permit"
    /\ open' = open \cup {h}
    /\ UNCHANGED <<shuttingDown, active, mutex, waiting, signal, spurious, wpc, cpc, todo>>

EvictHandle(w, h) ==
    /\ wpc[w] = "permit"
    /\ h \in open
    /\ open' = open \ {h}
    /\ UNCHANGED <<shuttingDown, active, mutex, waiting, signal, spurious, wpc, cpc, todo>>

\* FileOpPermit::drop takes the mutex ...
DropLock(w) ==
    /\ wpc[w] = "permit"
    /\ mutex = Nobody
    /\ mutex' = w
    /\ wpc' = [wpc EXCEPT ![w] = "drop"]
    /\ UNCHANGED <<shuttingDown, active, waiting, open, signal, spurious, cpc, todo>>

\* Mutant of DropPermit: notify_all is called when the counter was zero before
\* the decrement, not after it.
DropPermitLateNotify(w) ==
    /\ wpc[w] = "drop"
    /\ active' = IF active = 0 THEN 0 ELSE active - 1
    /\ waiting' = IF active = 0 THEN {} ELSE waiting
    /\ mutex' = Nobody
    /\ wpc' = [wpc EXCEPT ![w] = "idle"]
    /\ UNCHANGED <<shuttingDown, open, signal, spurious, cpc, todo>>

\* ... decrements (saturating) and notifies every closer when it reaches 0.
DropPermit(w) ==
    /\ wpc[w] = "drop"
    /\ active' = IF active = 0 THEN 0 ELSE active - 1
    /\ waiting' = IF active' = 0 THEN {} ELSE waiting
    /\ mutex' = Nobody
    /\ wpc' = [wpc EXCEPT ![w] = "idle"]
    /\ UNCHANGED <<shuttingDown, open, signal, spurious, cpc, todo>>

WorkerStep(w) ==
    \/ BeginCheck(w) \/ BeginLock(w) \/ BeginRecheck(w) \/ BeginCount(w)
    \/ DropLock(w) \/ DropPermit(w)
    \/ \E h \in Handles : OpenHandle(w, h) \/ EvictHandle(w, h)

-----------------------------------------------------------------------------
(* Engine::shutdown.                                                       *)

\* shutting_down.store(true), outside the mutex.
CloseStore(c) ==
    /\ cpc[c] = "idle"
    /\ shuttingDown' = TRUE
    /\ cpc' = [cpc EXCEPT ![c] = "lock"]
    /\ UNCHANGED <<active, mutex, waiting, open, signal, spurious, wpc, todo>>

\* Take the mutex: the first time, or again after Condvar::wait returned.
CloseLock(c) ==
    /\ cpc[c] = "lock"
    /\ c \notin waiting
    /\ mutex = Nobody
    /\ mutex' = c
    /\ cpc' = [cpc EXCEPT ![c] = "test"]
    /\ UNCHANGED <<shuttingDown, active, waiting, open, signal, spurious, wpc, todo>>

\* The loop condition: wait releases the mutex and joins the wait set in one
\* step, an idle gate ends the loop.
CloseTest(c) ==
    /\ cpc[c] = "test"
    /\ mutex' = Nobody
    /\ IF active = 0
       THEN cpc' = [cpc EXCEPT ![c] = "collect"] /\ UNCHANGED waiting
       ELSE cpc' = [cpc EXCEPT ![c] = "lock"] /\ waiting' = waiting \cup {c}
    /\ UNCHANGED <<shuttingDown, active, open, signal, spurious, wpc, todo>>

\* Condvar::wait may return spuriously.
SpuriousWake(c) ==
    /\ c \in waiting
    /\ spurious < MaxSpurious
    /\ spurious' = spurious + 1
    /\ waiting' = waiting \ {c}
    /\ UNCHANGED <<shuttingDown, active, mutex, open, signal, wpc, cpc, todo>>

\* drain_cached_file_handles: list the cached handles ...
CollectHandles(c) ==
    /\ cpc[c] = "collect"
    /\ todo' = [todo EXCEPT ![c] = open]
    /\ cpc' = [cpc EXCEPT ![c] = "drain"]
    /\ UNCHANGED <<shuttingDown, active, mutex, waiting, open, signal, spurious, wpc>>

\* ... close them one by one ...
CloseHandle(c) ==
    /\ cpc[c] = "drain"
    /\ \E h \in todo[c] :
         /\ open' = open \ {h}
         /\ todo' = [todo EXCEPT ![c] = @ \ {h}]
    /\ UNCHANGED <<shuttingDown, active, mutex, waiting, signal, spurious, wpc, cpc>>

\* ... and flip the watch channel, which only the first caller changes.
SignalShutdown(c) ==
    /\ cpc[c] = "drain"
    /\ todo[c] = {}
    /\ signal' = TRUE
    /\ cpc' = [cpc EXCEPT ![c] = "done"]
    /\ UNCHANGED <<shuttingDown, active, mutex, waiting, open, spurious, wpc, todo>>

CloserStep(c) ==
    \/ CloseStore(c) \/ CloseLock(c) \/ CloseTest(c) \/ SpuriousWake(c)
    \/ CollectHandles(c) \/ CloseHandle(c) \/ SignalShutdown(c)

Next ==
    \/ \E w \in Workers : WorkerStep(w)
    \/ \E c \in Closers : CloserStep(c)

Spec == Init /\ [][Next]_vars

-----------------------------------------------------------------------------
(* Properties                                                              *)

WorkerStates == {"idle", "lock", "recheck", "count", "permit", "drop"}
CloserStates == {"idle", "lock", "test", "collect", "drain", "done"}

\* Every variable has its type; the counter never saturates below zero.
TypeOK ==
    /\ shuttingDown \in BOOLEAN
    /\ active \in Nat
    /\ mutex \in Workers \cup Closers \cup {Nobody}
    /\ waiting \in SUBSET Closers
    /\ spurious \in 0..MaxSpurious
    /\ open \in SUBSET Handles
    /\ signal \in BOOLEAN
    /\ wpc \in [Workers -> WorkerStates]
    /\ cpc \in [Closers -> CloserStates]
    /\ todo \in [Closers -> SUBSET Handles]

\* The threads whose permit is counted.
Permits == {w \in Workers : wpc[w] \in {"permit", "drop"}}

\* `active` is exactly the number of permits, so its saturating arithmetic
\* never hides a lost or doubled permit.
ActiveCountsPermits == active = Cardinality(Permits)

\* The mutex is held exactly by a thread inside its critical section.
MutexHolder ==
    /\ \A w \in Workers : wpc[w] \in {"recheck", "count", "drop"} <=> mutex = w
    /\ \A c \in Closers : cpc[c] = "test" <=> mutex = c

Past(c) == cpc[c] \in {"collect", "drain", "done"}

\* Once shutdown_and_wait has returned, no permit exists and none is about to
\* be counted: a begin() that raced the flag has lost.
GateClosed ==
    \A c \in Closers : Past(c) => Permits = {} /\ \A w \in Workers : wpc[w] # "count"

\* When shutdown() returns (or signals its subscribers), no cached handle is
\* open, and none opens afterwards.
HandlesClosed == signal => open = {}

\* Fairness: threads keep running.  A worker need not start a new operation,
\* but one that has started finishes and drops its permit.  Weak fairness of
\* the lock steps is enough, because the flag keeps newcomers off the mutex.
Fairness ==
    /\ \A w \in Workers :
         WF_vars(BeginLock(w) \/ BeginRecheck(w) \/ BeginCount(w) \/ DropLock(w) \/ DropPermit(w))
    /\ \A c \in Closers :
         WF_vars(CloseLock(c) \/ CloseTest(c) \/ CollectHandles(c) \/ CloseHandle(c)
                   \/ SignalShutdown(c))

FairSpec == Spec /\ Fairness

\* Shutdown terminates: the drop of the last permit is never lost between the
\* loop test and the wait, and late arrivals cannot keep the gate open.
ShutdownCompletes == \A c \in Closers : cpc[c] = "lock" ~> cpc[c] = "done"
=============================================================================
