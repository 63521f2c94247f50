----------------------------- MODULE WorldLocks -----------------------------
(***************************************************************************)
(* The per-world lock table (core/src/state.rs, acquire_world_lock): a     *)
(* concurrent map from world to a Weak handle of an async mutex.  Requests *)
(* that hold or wait for the mutex own a strong handle.  Every             *)
(* SweepInterval-th request sweeps entries whose mutex nobody owns; the    *)
(* map is locked shard by shard, so a sweep visits one entry at a time and *)
(* other requests run in between.                                          *)
(***************************************************************************)
EXTENDS Naturals

CONSTANTS
    Procs,          \* write and delete requests
    Worlds,
    Locks,          \* mutex allocations
    NoWorld, NoLock, Nobody,
    SweepInterval   \* WORLD_LOCK_SWEEP_INTERVAL

ASSUME WorldLocksAssumption ==
    /\ NoWorld \notin Worlds
    /\ NoLock \notin Locks
    /\ Nobody \notin Procs
    /\ SweepInterval \in Nat \ {0}

VARIABLES
    table,    \* world_locks: the Weak handle per world
    tick,     \* world_lock_sweep_tick modulo SweepInterval
    owner,    \* per mutex: the request inside
    handle,   \* per request: the strong handle it owns
    want,     \* per request: its world
    pc,
    unswept   \* per sweeping request: the entries still to visit

vars == <<table, tick, owner, handle, want, pc, unswept>>

Init ==
    /\ table = [w \in Worlds |-> NoLock]
    /\ tick = 0
    /\ owner = [l \in Locks |-> Nobody]
    /\ handle = [p \in Procs |-> NoLock]
    /\ want = [p \in Procs |-> NoWorld]
    /\ pc = [p \in Procs |-> "idle"]
    /\ unswept = [p \in Procs |-> {}]

\* Weak::strong_count(l) # 0.
Strong(l) == \E p \in Procs : handle[p] = l

\* Arc::new(Mutex::new(())): memory that neither an Arc nor a Weak refers to.
Fresh(l) == ~Strong(l) /\ \A w \in Worlds : table[w] # l

-----------------------------------------------------------------------------

\* maybe_prune_world_locks: count the request, and sweep if it is its turn.
Request(p, w) ==
    /\ pc[p] = "idle"
    /\ want' = [want EXCEPT ![p] = w]
    /\ tick' = (tick + 1) % SweepInterval
    /\ IF tick = SweepInterval - 1
       THEN /\ pc' = [pc EXCEPT ![p] = "sweep"]
            /\ unswept' = [unswept EXCEPT ![p] = Worlds]
       ELSE /\ pc' = [pc EXCEPT ![p] = "entry"]
            /\ UNCHANGED unswept
    /\ UNCHANGED <<table, owner, handle>>

\* Mutant of SweepEntry: a mutex is swept when nobody is inside.
SweepEntryUnheld(p, w) ==
    /\ pc[p] = "sweep"
    /\ w \in unswept[p]
    /\ unswept' = [unswept EXCEPT ![p] = @ \ {w}]
    /\ table' = IF table[w] # NoLock /\ owner[table[w]] # Nobody
                THEN table ELSE [table EXCEPT ![w] = NoLock]
    /\ UNCHANGED <<tick, owner, handle, want, pc>>

\* prune_expired_world_locks: retain visits an entry under its shard's lock.
SweepEntry(p, w) ==
    /\ pc[p] = "sweep"
    /\ w \in unswept[p]
    /\ unswept' = [unswept EXCEPT ![p] = @ \ {w}]
    /\ table' = IF Strong(table[w]) THEN table ELSE [table EXCEPT ![w] = NoLock]
    /\ UNCHANGED <<tick, owner, handle, want, pc>>

SweepDone(p) ==
    /\ pc[p] = "sweep"
    /\ unswept[p] = {}
    /\ pc' = [pc EXCEPT ![p] = "entry"]
    /\ UNCHANGED <<table, tick, owner, handle, want, unswept>>

\* world_lock_handle, Occupied entry whose Weak still upgrades.
Upgrade(p) ==
    /\ pc[p] = "entry"
    /\ table[want[p]] # NoLock
    /\ Strong(table[want[p]])
    /\ handle' = [handle EXCEPT ![p] = table[want[p]]]
    /\ pc' = [pc EXCEPT ![p] = "wait"]
    /\ UNCHANGED <<table, tick, owner, want, unswept>>

\* world_lock_handle, Vacant entry or a Weak that no longer upgrades.
Insert(p, l) ==
    /\ pc[p] = "entry"
    /\ table[want[p]] = NoLock \/ ~Strong(table[want[p]])
    /\ Fresh(l)
    /\ table' = [table EXCEPT ![want[p]] = l]
    /\ owner' = [owner EXCEPT ![l] = Nobody]
    /\ handle' = [handle EXCEPT ![p] = l]
    /\ pc' = [pc EXCEPT ![p] = "wait"]
    /\ UNCHANGED <<tick, want, unswept>>

\* lock_owned() resolves.
Lock(p) ==
    /\ pc[p] = "wait"
    /\ owner[handle[p]] = Nobody
    /\ owner' = [owner EXCEPT ![handle[p]] = p]
    /\ pc' = [pc EXCEPT ![p] = "held"]
    /\ UNCHANGED <<table, tick, handle, want, unswept>>

\* The request's future is dropped while it waits (its client went away).
Cancel(p) ==
    /\ pc[p] = "wait"
    /\ handle' = [handle EXCEPT ![p] = NoLock]
    /\ want' = [want EXCEPT ![p] = NoWorld]
    /\ pc' = [pc EXCEPT ![p] = "idle"]
    /\ UNCHANGED <<table, tick, owner, unswept>>

\* Mutant of Unlock: the holder asks for its own world's lock again, and waits
\* for itself.
UnlockNever(p) ==
    /\ pc[p] = "held"
    /\ UNCHANGED vars

\* The OwnedMutexGuard is dropped: first the mutex opens ...
Unlock(p) ==
    /\ pc[p] = "held"
    /\ owner' = [owner EXCEPT ![handle[p]] = Nobody]
    /\ pc' = [pc EXCEPT ![p] = "drop"]
    /\ UNCHANGED <<table, tick, handle, want, unswept>>

\* ... then its Arc is released.
DropHandle(p) ==
    /\ pc[p] = "drop"
    /\ handle' = [handle EXCEPT ![p] = NoLock]
    /\ want' = [want EXCEPT ![p] = NoWorld]
    /\ pc' = [pc EXCEPT ![p] = "idle"]
    /\ UNCHANGED <<table, tick, owner, unswept>>

Step(p) ==
    \/ \E w \in Worlds : Request(p, w) \/ SweepEntry(p, w)
    \/ \E l \in Locks : Insert(p, l)
    \/ SweepDone(p) \/ Upgrade(p) \/ Lock(p) \/ Cancel(p) \/ Unlock(p) \/ DropHandle(p)

Next == \E p \in Procs : Step(p)

Spec == Init /\ [][Next]_vars

\* A request that can run does run, a handler that holds a lock returns, and
\* the async mutex queues its waiters first-in first-out, so that one which
\* keeps being available is not withheld from a waiter for ever.
Progress(p) ==
    \/ \E w \in Worlds : SweepEntry(p, w)
    \/ \E l \in Locks : Insert(p, l)
    \/ SweepDone(p) \/ Upgrade(p) \/ Unlock(p) \/ DropHandle(p)

Fairness == \A p \in Procs : WF_vars(Progress(p)) /\ SF_vars(Lock(p))

FairSpec == Spec /\ Fairness

-----------------------------------------------------------------------------
(* Properties                                                              *)

States == {"idle", "sweep", "entry", "wait", "held", "drop"}

\* Every variable has its type, and the fields of a request agree with pc.
TypeOK ==
    /\ table \in [Worlds -> Locks \cup {NoLock}]
    /\ tick \in 0..(SweepInterval - 1)
    /\ owner \in [Locks -> Procs \cup {Nobody}]
    /\ handle \in [Procs -> Locks \cup {NoLock}]
    /\ want \in [Procs -> Worlds \cup {NoWorld}]
    /\ pc \in [Procs -> States]
    /\ unswept \in [Procs -> SUBSET Worlds]

\* Holders of a strong handle for a world share the mutex the table names, and
\* distinct worlds have distinct mutexes: sweeping never splits a world.
OneMutexPerWorld ==
    /\ \A p \in Procs : handle[p] # NoLock => table[want[p]] = handle[p]
    /\ \A v, w \in Worlds : table[v] = table[w] /\ table[v] # NoLock => v = w

\* Two requests for one world are never inside together.
Exclusion ==
    \A p, q \in Procs : pc[p] = "held" /\ pc[q] = "held" /\ want[p] = want[q] => p = q

Mutex == INSTANCE WorldMutex WITH inside <- {p \in Procs : pc[p] = "held"}

\* The table keeps the promise of acquire_world_lock: whatever is swept,
\* cancelled or created anew, its requests behave as one mutex per world.
Implements == Mutex!Spec

\* A request gets its world or is cancelled: no wake-up is lost to a sweep, a
\* cancellation or a replaced mutex.
EveryRequestProceeds ==
    \A p \in Procs : pc[p] \in {"sweep", "entry", "wait"} ~> pc[p] \in {"held", "idle"}
=============================================================================
