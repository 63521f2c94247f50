----------------------------- MODULE ReadCache -----------------------------
(***************************************************************************)
(* The per-world read-connection cache (core/src/read_cache.rs and         *)
(* read_cache/state_machine.rs) together with the two operations that      *)
(* reach into it while they hold the world's async lock: the physical part *)
(* of delete (tombstone, drain, remove, clear) and the write path, whose   *)
(* first step is clear_tombstone.                                          *)
(*                                                                         *)
(* A slot (Arc<ReadSlot>) is an element of Slots; it is alive while the    *)
(* map or some thread holds it, and its connection closes with it.  The    *)
(* slot's RwLock is not a variable: a slot is write-held exactly while its *)
(* owner is opening the connection, and read-held exactly while a reader   *)
(* runs its closure.  Every other write-guard window (evict, drain) only   *)
(* replaces the state and is one step, enabled when the guard is free.     *)
(*                                                                         *)
(* A world's content is abstracted to its incarnation number: 0 is "no     *)
(* database file", and each creation after a delete gets a new number.     *)
(***************************************************************************)
EXTENDS Naturals, FiniteSets, Functions

CONSTANTS
    Worlds,          \* durable world paths
    Readers,         \* threads running with_tracked_conn
    Slots,           \* identities of Arc<ReadSlot>, recycled once unreferenced
    NoSlot,          \* "no slot": a map miss, or an empty local
    MaxEntries,      \* EngineBuilder::read_cache_max_entries
    RetryBudget,     \* READ_CACHE_RETRY_BUDGET
    MaxWriteConns,   \* WRITE_CONN_CACHE_MAX_ENTRIES
    Scopes           \* the workloads a run considers (see scope)

ASSUME ReadCacheAssumption ==
    /\ NoSlot \notin Slots
    /\ IsFiniteSet(Slots)
    /\ MaxEntries \in Nat \ {0}
    /\ RetryBudget \in Nat \ {0}
    /\ MaxWriteConns \in Nat \ {0}
    /\ \A sc \in Scopes :
          /\ sc.deletes \cup sc.writes \subseteq sc.worlds
          /\ sc.worlds \subseteq Worlds
          /\ sc.incarnations \in Nat \ {0}
          /\ sc.errors \in BOOLEAN

VARIABLES
    scope,  \* the workload, fixed: the worlds clients read (.worlds), delete
            \* (.deletes) and write (.writes), the bound on how often a world
            \* is created (.incarnations), and whether opening or reading a
            \* healthy file may fail (.errors)
    disk,   \* disk[w]: incarnation whose universe.db exists, 0 if none
    made,   \* made[w]: incarnations of w created so far
    conns,  \* read_conns: world -> slot or NoSlot
    slot,   \* state of each slot
    wconns, \* write_conns: the worlds with a cached writer connection
    rd,     \* locals of each reader
    op,     \* the operation holding each world's lock
    obs     \* history: what a reader may truthfully report

vars == <<scope, disk, made, conns, slot, wconns, rd, op, obs>>

FreeSlot == [st |-> "Free", world |-> NoSlot, conn |-> 0]

NewSlot(st, w) == [st |-> st, world |-> w, conn |-> 0]

IdleReader ==
    [pc |-> "idle", world |-> NoSlot, arc |-> NoSlot, own |-> FALSE,
     mode |-> "tracked", tries |-> 0, cand |-> {}, victim |-> NoSlot,
     outcome |-> "pending", got |-> 0]

IdleOp == [pc |-> "idle", prev |-> NoSlot]

-----------------------------------------------------------------------------
(* Arc ownership: which slots something still points to.                   *)

Held ==
    (Range(conns) \cup {op[w].prev : w \in Worlds}
                  \cup UNION {{rd[r].arc, rd[r].victim} \cup rd[r].cand : r \in Readers}) \ {NoSlot}

\* Dropping the last Arc drops the slot and closes its connection.
Reclaim(s) == [x \in Slots |-> IF x \in Held' THEN s[x] ELSE FreeSlot]

\* A fresh Arc.  The number of slots is a bound of the model: an allocation waits
\* for one to be free, and the runs have enough for that never to happen.
FreshSlot == CHOOSE x \in Slots : x \notin Held

CanAllocate == \E x \in Slots : x \notin Held

ReadGuards(s) == {r \in Readers : rd[r].pc = "reading" /\ rd[r].arc = s}

WriteGuards(s) == {r \in Readers : rd[r].pc = "opening" /\ rd[r].arc = s}

CanReadLock(s) == WriteGuards(s) = {}

CanWriteLock(s) == WriteGuards(s) = {} /\ ReadGuards(s) = {}

\* The number of entries of the DashMap (read_conns.len()).
Entries == Cardinality({w \in Worlds : conns[w] # NoSlot})

\* The entries that hold a tombstone; a slot whose guard is taken is not counted.
SnapshotTombstones ==
    Cardinality({w \in Worlds : /\ conns[w] # NoSlot /\ CanReadLock(conns[w])
                                /\ slot[conns[w]].st = "Tombstone"})

\* The gauges of /proc/pool; its counters only ever grow and are left out.
PoolSnapshot == [entries |-> Entries, tombstones |-> SnapshotTombstones, max |-> MaxEntries]

Deleting(w) == op[w].pc \in {"drain", "remove", "clear"}

\* What a read of w could report now: while a tombstone is up the delete has
\* logically happened, although the file is still there.
Visible(w) == {disk[w]} \cup (IF Deleting(w) THEN {0} ELSE {})

Observe ==
    obs' = [r \in Readers |-> IF rd[r].pc = "idle" THEN {}
                              ELSE obs[r] \cup Visible(rd[r].world)']

Init ==
    /\ scope \in Scopes
    /\ disk \in [Worlds -> {0, 1}]
    /\ \A w \in Worlds \ scope.worlds : disk[w] = 0
    /\ made = disk
    /\ conns = [w \in Worlds |-> NoSlot]
    /\ slot = [s \in Slots |-> FreeSlot]
    /\ wconns = {}
    /\ rd = [r \in Readers |-> IdleReader]
    /\ op = [w \in Worlds |-> IdleOp]
    /\ obs = [r \in Readers |-> {}]

-----------------------------------------------------------------------------
(* The reader: with_tracked_conn and invoke_transient.                     *)

Worldly == <<scope, disk, made, wconns, op>>

\* One more turn of the retry loop; an exhausted tracked loop falls back to
\* invoke_transient, an exhausted transient loop returns SQLITE_BUSY.
Retry(me) ==
    LET again == [me EXCEPT !.pc = "lookup", !.arc = NoSlot, !.own = FALSE,
                            !.tries = @ + 1]
    IN  IF again.tries < RetryBudget THEN again
        ELSE IF me.mode = "tracked"
             THEN [again EXCEPT !.mode = "transient", !.tries = 0]
             ELSE [again EXCEPT !.pc = "done", !.outcome = "error"]

\* The read has an answer.  A transient owner still drains its slot; what is
\* left then is best_effort_trim_over_cap.
Answer(me, outcome, inc) ==
    [me EXCEPT !.outcome = outcome, !.got = inc, !.tries = 0,
               !.pc = IF me.mode = "transient" /\ me.own THEN "drain" ELSE "trim"]

\* The read returns at once, without trimming.
Finish(me, outcome) ==
    [me EXCEPT !.outcome = outcome, !.pc = "done", !.arc = NoSlot,
               !.own = FALSE, !.cand = {}, !.victim = NoSlot]

BeginRead(r, w) ==
    /\ rd[r].pc = "idle"
    /\ rd' = [rd EXCEPT ![r] = [IdleReader EXCEPT !.pc = "lookup", !.world = w]]
    /\ obs' = [obs EXCEPT ![r] = Visible(w)]
    /\ UNCHANGED <<Worldly, conns, slot>>

\* Phase 1: clone the Arc in the map, whatever its state.
Lookup(r) ==
    /\ rd[r].pc = "lookup"
    /\ LET s == conns[rd[r].world]
       IN  rd' = [rd EXCEPT ![r].arc = s,
                            ![r].pc = IF s # NoSlot THEN "probe"
                                      ELSE IF rd[r].mode = "tracked" THEN "capacity"
                                      ELSE "publish"]
    /\ UNCHANGED <<Worldly, conns, slot, obs>>

\* Phase 2 or 3: is the cache at its cap?
CheckCapacity(r) ==
    /\ rd[r].pc = "capacity"
    /\ rd' = [rd EXCEPT ![r].pc = IF Entries >= MaxEntries THEN "sample" ELSE "exists"]
    /\ UNCHANGED <<Worldly, conns, slot, obs>>

\* try_evict_oldest_sample: clone the Arcs of the other worlds' slots.  The
\* recency order is a hint the code never relies on, so any order is tried.
SampleVictims(r) ==
    /\ rd[r].pc = "sample"
    /\ rd' = [rd EXCEPT ![r].pc = "evict",
                        ![r].cand = {conns[w] : w \in Worlds \ {rd[r].world}} \ {NoSlot}]
    /\ UNCHANGED <<Worldly, conns, slot, obs>>

\* Mutant of TryEvict: the victim is marked Tombstone instead of Evicted.
TryEvictTombstone(r) ==
    /\ rd[r].pc = "evict"
    /\ UNCHANGED <<Worldly, conns, obs>>
    /\ \E s \in rd[r].cand :
         IF CanWriteLock(s) /\ slot[s].st = "Ready"
         THEN /\ rd' = [rd EXCEPT ![r].pc = "unmap", ![r].victim = s, ![r].cand = @ \ {s}]
              /\ slot' = [slot EXCEPT ![s].st = "Tombstone", ![s].conn = 0]
         ELSE /\ rd' = [rd EXCEPT ![r].cand = @ \ {s}]
              /\ slot' = Reclaim(slot)

\* try_evict_ready_slot on one candidate: try_write, require Ready, replace
\* it with Evicted.  A busy or non-Ready candidate is skipped.
TryEvict(r) ==
    /\ rd[r].pc = "evict"
    /\ UNCHANGED <<Worldly, conns, obs>>
    /\ \E s \in rd[r].cand :
         IF CanWriteLock(s) /\ slot[s].st = "Ready"
         THEN /\ rd' = [rd EXCEPT ![r].pc = "unmap", ![r].victim = s, ![r].cand = @ \ {s}]
              /\ slot' = [slot EXCEPT ![s].st = "Evicted", ![s].conn = 0]
         ELSE /\ rd' = [rd EXCEPT ![r].cand = @ \ {s}]
              /\ slot' = Reclaim(slot)

\* remove_if on the victim; success ends the search, a lost race does not.
UnmapVictim(r) ==
    /\ rd[r].pc = "unmap"
    /\ LET mine == {w \in Worlds : conns[w] = rd[r].victim}
           me == [rd[r] EXCEPT !.victim = NoSlot]
       IN  /\ conns' = [w \in Worlds |-> IF w \in mine THEN NoSlot ELSE conns[w]]
           /\ rd' = [rd EXCEPT ![r] =
                       IF mine = {} THEN [me EXCEPT !.pc = "evict"]
                       ELSE IF me.outcome # "pending"
                       THEN [me EXCEPT !.pc = "trim", !.cand = {}, !.tries = @ + 1]
                       ELSE Retry([me EXCEPT !.cand = {}])]
    /\ UNCHANGED Worldly
    /\ slot' = Reclaim(slot)
    /\ UNCHANGED obs

\* No candidate could be evicted: a trim gives up, a read goes transient.
NoVictim(r) ==
    /\ rd[r].pc = "evict"
    /\ rd[r].cand = {}
    /\ rd' = [rd EXCEPT ![r] = IF @.outcome # "pending" THEN Finish(@, @.outcome)
                               ELSE [@ EXCEPT !.mode = "transient", !.pc = "lookup",
                                              !.tries = 0]]
    /\ UNCHANGED <<Worldly, conns>>
    /\ slot' = Reclaim(slot)
    /\ UNCHANGED obs

\* Phase 3: path.try_exists() before a slot is reserved.
CheckExists(r) ==
    /\ rd[r].pc = "exists"
    /\ rd' = [rd EXCEPT ![r] = IF disk[@.world] = 0 THEN Finish(@, "absent")
                               ELSE [@ EXCEPT !.pc = "publish"]]
    /\ UNCHANGED <<Worldly, conns, slot, obs>>

\* Slot-before-open: entry().or_insert_with() of an Opening slot whose write
\* guard is already held; a racing entry wins and is probed instead.
Publish(r) ==
    /\ rd[r].pc = "publish"
    /\ LET w == rd[r].world
           fresh == FreshSlot
       IN  IF conns[w] = NoSlot
           THEN /\ CanAllocate
                /\ conns' = [conns EXCEPT ![w] = fresh]
                /\ slot' = [slot EXCEPT ![fresh] = NewSlot("Opening", w)]
                /\ rd' = [rd EXCEPT ![r].arc = fresh, ![r].own = TRUE, ![r].pc = "opening"]
           ELSE /\ rd' = [rd EXCEPT ![r].arc = conns[w], ![r].pc = "probe"]
                /\ UNCHANGED <<conns, slot>>
    /\ UNCHANGED <<Worldly, obs>>

\* open_verified_read_conn succeeds: OpeningTransition::promote.
OpenConn(r) ==
    /\ rd[r].pc = "opening"
    /\ LET w == rd[r].world
       IN  /\ disk[w] # 0
           /\ slot' = [slot EXCEPT ![rd[r].arc].st = "Ready", ![rd[r].arc].conn = disk[w]]
    /\ rd' = [rd EXCEPT ![r].pc = "probe"]
    /\ UNCHANGED <<Worldly, conns, obs>>

\* The open fails: OpeningTransition::fail, and the guard is released.
OpenFail(r) ==
    /\ rd[r].pc = "opening"
    /\ disk[rd[r].world] = 0 \/ scope.errors
    /\ slot' = [slot EXCEPT ![rd[r].arc].st = "Evicted"]
    /\ rd' = [rd EXCEPT ![r].pc = "openFailed"]
    /\ UNCHANGED <<Worldly, conns, obs>>

\* remove_if of this very Arc.
RemoveIf(r) ==
    conns' = [w \in Worlds |-> IF conns[w] = rd[r].arc THEN NoSlot ELSE conns[w]]

RemoveFailed(r) ==
    /\ rd[r].pc = "openFailed"
    /\ RemoveIf(r)
    /\ rd' = [rd EXCEPT ![r].pc = "recheck"]
    /\ UNCHANGED <<Worldly, slot, obs>>

\* CannotOpen and the file is gone is a 404; anything else is an error.
RecheckExists(r) ==
    /\ rd[r].pc = "recheck"
    /\ \/ disk[rd[r].world] = 0 /\ rd' = [rd EXCEPT ![r] = Finish(@, "absent")]
       \/ disk[rd[r].world] # 0 /\ rd' = [rd EXCEPT ![r] = Finish(@, "error")]
    /\ UNCHANGED <<Worldly, conns>>
    /\ slot' = Reclaim(slot)
    /\ UNCHANGED obs

\* invoke_via_slot: take the read guard and look at the state.
Probe(r) ==
    /\ rd[r].pc = "probe"
    /\ CanReadLock(rd[r].arc)
    /\ LET st == slot[rd[r].arc].st
       IN  rd' = [rd EXCEPT ![r] =
                    CASE st = "Ready"     -> [@ EXCEPT !.pc = "reading"]
                      [] st = "Tombstone" -> Answer(@, "absent", 0)
                      [] st = "Evicted"   -> [@ EXCEPT !.pc = "stale"]
                      [] st = "Opening"   -> Retry(@)]
    /\ UNCHANGED <<Worldly, conns>>
    /\ slot' = Reclaim(slot)
    /\ UNCHANGED obs

\* SlotRead::Evicted: remove_if the dead slot, then retry.
DropStale(r) ==
    /\ rd[r].pc = "stale"
    /\ RemoveIf(r)
    /\ rd' = [rd EXCEPT ![r] = Retry(@)]
    /\ UNCHANGED Worldly
    /\ slot' = Reclaim(slot)
    /\ UNCHANGED obs

\* The closure runs on the connection, and the read guard is released.
RunClosure(r) ==
    /\ rd[r].pc = "reading"
    /\ \/ rd' = [rd EXCEPT ![r] = Answer(@, "found", slot[@.arc].conn)]
       \/ scope.errors /\ rd' = [rd EXCEPT ![r] = Finish(@, "error")]
    /\ UNCHANGED <<Worldly, conns>>
    /\ slot' = Reclaim(slot)
    /\ UNCHANGED obs

\* Drain before remove: a transient owner closes its connection under the
\* write guard ...
DrainTransient(r) ==
    /\ rd[r].pc = "drain"
    /\ CanWriteLock(rd[r].arc)
    /\ slot' = [slot EXCEPT ![rd[r].arc].st = "Evicted", ![rd[r].arc].conn = 0]
    /\ rd' = [rd EXCEPT ![r].pc = "undrain"]
    /\ UNCHANGED <<Worldly, conns, obs>>

\* ... and only then takes the entry out of the map.
RemoveTransient(r) ==
    /\ rd[r].pc = "undrain"
    /\ RemoveIf(r)
    /\ rd' = [rd EXCEPT ![r].pc = "trim"]
    /\ UNCHANGED <<Worldly, slot, obs>>

\* Mutant of Trim: an answered read never trims.
TrimNever(r) ==
    /\ rd[r].pc = "trim"
    /\ rd' = [rd EXCEPT ![r] = Finish(@, @.outcome)]
    /\ UNCHANGED <<Worldly, conns>>
    /\ slot' = Reclaim(slot)
    /\ UNCHANGED obs

\* best_effort_trim_over_cap.
Trim(r) ==
    /\ rd[r].pc = "trim"
    /\ rd' = [rd EXCEPT ![r] = IF Entries <= MaxEntries \/ @.tries >= RetryBudget
                               THEN Finish(@, @.outcome)
                               ELSE [@ EXCEPT !.pc = "sample"]]
    /\ UNCHANGED <<Worldly, conns>>
    /\ slot' = Reclaim(slot)
    /\ UNCHANGED obs

Return(r) ==
    /\ rd[r].pc = "done"
    /\ rd' = [rd EXCEPT ![r] = IdleReader]
    /\ obs' = [obs EXCEPT ![r] = {}]
    /\ UNCHANGED <<Worldly, conns, slot>>

ReaderStep(r) ==
    \/ Lookup(r) \/ CheckCapacity(r) \/ SampleVictims(r) \/ TryEvict(r)
    \/ UnmapVictim(r) \/ NoVictim(r) \/ CheckExists(r) \/ Publish(r)
    \/ OpenConn(r) \/ OpenFail(r) \/ RemoveFailed(r) \/ RecheckExists(r)
    \/ Probe(r) \/ DropStale(r) \/ RunClosure(r) \/ DrainTransient(r)
    \/ RemoveTransient(r) \/ Trim(r) \/ Return(r)

-----------------------------------------------------------------------------
(* Delete, from clear_cached_write_conn to clear_tombstone, and the write  *)
(* path.  Both hold the world's lock, so op[w] is one operation at a time. *)

\* clear_cached_write_conn, then the first half of install_tombstone_blocking:
\* insert the tombstone and keep the slot it displaced.
InstallTombstone(w) ==
    /\ w \in scope.deletes
    /\ op[w].pc = "idle"
    /\ disk[w] # 0
    /\ CanAllocate
    /\ wconns' = wconns \ {w}
    /\ op' = [op EXCEPT ![w] = [pc |-> "drain", prev |-> conns[w]]]
    /\ conns' = [conns EXCEPT ![w] = FreshSlot]
    /\ slot' = [slot EXCEPT ![FreshSlot] = NewSlot("Tombstone", w)]
    /\ UNCHANGED <<scope, disk, made, rd>>
    /\ Observe

\* Mutant of DrainDisplaced: the displaced slot is dropped without a drain.
DrainDisplacedWithoutWaiting(w) ==
    /\ op[w].pc = "drain"
    /\ op' = [op EXCEPT ![w] = [pc |-> "remove", prev |-> NoSlot]]
    /\ UNCHANGED <<scope, disk, made, conns, wconns, rd, obs>>
    /\ slot' = Reclaim(slot)

\* Mutant of DrainDisplaced: it waits until no read of the world is in flight.
DrainDisplacedWaitsForAll(w) ==
    /\ op[w].pc = "drain"
    /\ \A r \in Readers : rd[r].world # w
    /\ op' = [op EXCEPT ![w] = [pc |-> "remove", prev |-> NoSlot]]
    /\ UNCHANGED <<scope, disk, made, conns, wconns, rd, obs>>
    /\ slot' = Reclaim(slot)

\* The second half: wait for the displaced slot's write guard and close its
\* connection inside it.
DrainDisplaced(w) ==
    /\ op[w].pc = "drain"
    /\ op[w].prev # NoSlot => CanWriteLock(op[w].prev)
    /\ op' = [op EXCEPT ![w] = [pc |-> "remove", prev |-> NoSlot]]
    /\ UNCHANGED <<scope, disk, made, conns, wconns, rd, obs>>
    /\ slot' = Reclaim([s \in Slots |-> IF s = op[w].prev
                                        THEN [slot[s] EXCEPT !.st = "Tombstone", !.conn = 0]
                                        ELSE slot[s]])

\* delete_world_now: remove_dir_all, retried; it may still fail.
RemoveWorld(w) ==
    /\ op[w].pc = "remove"
    /\ op' = [op EXCEPT ![w].pc = "clear"]
    /\ \/ disk' = [disk EXCEPT ![w] = 0]
       \/ UNCHANGED disk
    /\ UNCHANGED <<scope, made, conns, slot, wconns, rd>>
    /\ Observe

\* clear_tombstone: remove the entry, whatever it is.
ClearTombstone(w) ==
    /\ op[w].pc = "clear"
    /\ op' = [op EXCEPT ![w] = IdleOp]
    /\ conns' = [conns EXCEPT ![w] = NoSlot]
    /\ UNCHANGED <<scope, disk, made, wconns, rd>>
    /\ slot' = Reclaim(slot)
    /\ Observe

DeleteStep(w) ==
    InstallTombstone(w) \/ DrainDisplaced(w) \/ RemoveWorld(w) \/ ClearTombstone(w)

\* replace_write_blocking and append_write_blocking begin with
\* clear_tombstone, which removes a live slot as readily as a tombstone.
BeginWrite(w) ==
    /\ w \in scope.writes
    /\ op[w].pc = "idle"
    /\ op' = [op EXCEPT ![w].pc = "write"]
    /\ conns' = [conns EXCEPT ![w] = NoSlot]
    /\ UNCHANGED <<scope, disk, made, wconns, rd, obs>>
    /\ slot' = Reclaim(slot)

\* evict_cached_write_conn_if_needed: any entry but the one just inserted.
KeepAtMost(ws, w) ==
    IF Cardinality(ws) <= MaxWriteConns THEN {ws}
    ELSE {ws \ {v} : v \in ws \ {w}}

\* cached_write_conn opens (and creates) the database; the commit follows.
CommitWrite(w) ==
    /\ op[w].pc = "write"
    /\ op' = [op EXCEPT ![w] = IdleOp]
    /\ \/ disk[w] # 0 /\ UNCHANGED <<disk, made>>
       \/ /\ disk[w] = 0
          /\ made[w] < scope.incarnations
          /\ made' = [made EXCEPT ![w] = @ + 1]
          /\ disk' = [disk EXCEPT ![w] = made[w] + 1]
    /\ wconns' \in KeepAtMost(wconns \cup {w}, w)
    /\ UNCHANGED <<scope, conns, slot, rd>>
    /\ Observe

\* A failed precondition, a full quota or a storage error: nothing created.
AbandonWrite(w) ==
    /\ op[w].pc = "write"
    /\ op' = [op EXCEPT ![w] = IdleOp]
    /\ UNCHANGED <<scope, disk, made, conns, slot, wconns, rd, obs>>

WriteStep(w) == BeginWrite(w) \/ CommitWrite(w) \/ AbandonWrite(w)

Next ==
    \/ \E r \in Readers : ReaderStep(r) \/ \E w \in scope.worlds : BeginRead(r, w)
    \/ \E w \in Worlds : DeleteStep(w) \/ WriteStep(w)

Spec == Init /\ [][Next]_vars

-----------------------------------------------------------------------------
(* Properties                                                              *)

\* Connections of the read cache that are open on w's database.
OpenFds(w) == {s \in Slots : slot[s].st = "Ready" /\ slot[s].world = w}

\* When the physical removal runs, no cached connection, reader's or writer's,
\* is open on the world (read_cache.rs:21-24, state.rs:438-441).
NoFdAtRemoval ==
    \A w \in Worlds : op[w].pc = "remove" => OpenFds(w) = {} /\ w \notin wconns

\* The same for a world nobody writes meanwhile: the drain waits for every
\* reader of the displaced slot, and eviction and transient slots close their
\* connections before they leave the map.
NoFdUnlessWritten == scope.writes = {} => NoFdAtRemoval

\* A read answers with what the world really was at some moment of the call:
\* "not found" only if the world was absent or being deleted, a body only of
\* an incarnation that existed.  Evicted slots, failed opens, transient slots
\* and recycled entries never turn into a phantom 404 or a resurrected body.
ReadLinearizes ==
    \A r \in Readers :
        /\ rd[r].pc = "done" /\ rd[r].outcome = "absent" => 0 \in obs[r]
        /\ rd[r].pc = "done" /\ rd[r].outcome = "found"  => rd[r].got \in obs[r]

\* What /proc/pool tells an operator.  There is one tombstone for each delete
\* between its installation and its removal from the map, so that no reader can
\* publish a slot of its own in that window; and although concurrent misses may
\* overshoot the cap, the map is back within it once no read is in flight and
\* no delete holds a tombstone, as long as no read fails (a transient read whose
\* closure fails returns before its drain and leaves its entry behind).
PoolTells ==
    /\ PoolSnapshot.tombstones = Cardinality({w \in Worlds : Deleting(w)})
    /\ ~scope.errors /\ (\A r \in Readers : rd[r].pc = "idle") /\ PoolSnapshot.tombstones = 0
          => PoolSnapshot.entries <= PoolSnapshot.max

-----------------------------------------------------------------------------
(* Fairness: a thread that can run keeps running.  A transient owner waits  *)
(* for a write guard that cache hits may keep re-acquiring; std's RwLock    *)
(* queues new readers behind a waiting writer, hence strong fairness there. *)

Fairness ==
    /\ \A r \in Readers : WF_vars(ReaderStep(r)) /\ SF_vars(DrainTransient(r))
    /\ \A w \in Worlds : WF_vars(DrainDisplaced(w) \/ RemoveWorld(w) \/ ClearTombstone(w))
    /\ \A w \in Worlds : WF_vars(CommitWrite(w) \/ AbandonWrite(w))

FairSpec == Spec /\ Fairness

\* Readers and deletes wait for each other's guards and never for good: every
\* read returns, since the retry loops are bounded and no guard is held forever,
\* and every delete that installed its tombstone gets past the drain and clears it.
CallsEnd ==
    /\ \A r \in Readers : rd[r].pc # "idle" ~> rd[r].pc = "idle"
    /\ \A w \in Worlds : Deleting(w) ~> ~Deleting(w)

=============================================================================
