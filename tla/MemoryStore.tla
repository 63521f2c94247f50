----------------------------- MODULE MemoryStore -----------------------------
(***************************************************************************)
(* The store of the worlds under tmp/, dev/ and sys/ (core/src/store.rs):  *)
(* a sharded map whose entry guard locks the shard of the world, and one   *)
(* mutex over the byte total that the memory quota is checked against.     *)
(*                                                                         *)
(* An operation holds its world lock throughout; operations on different   *)
(* worlds interleave, and two worlds may share a shard.  The entry guard   *)
(* is always taken before the mutex.  A write and a delete let go of the   *)
(* entry while they still hold the mutex and settle the total afterwards;  *)
(* an append holds both to the end.                                        *)
(* HttpServer takes these steps on behalf of its requests.                 *)
(***************************************************************************)
EXTENDS Integers, Sequences, FiniteSetsExt

CONSTANTS
    Workers,       \* the requests' blocking threads
    MemoryWorlds,  \* the memory worlds, as paths
    Shard,         \* the shard of each memory world
    EntryOverhead  \* accounted bytes of an entry besides body and headers

ASSUME MemoryStoreAssumption ==
    /\ EntryOverhead \in Nat
    /\ MemoryWorlds \subseteq DOMAIN Shard

VARIABLES
    entries,      \* per world: NoEntry or [body, hdrs]
    accounted,    \* the byte total
    maxMemory,    \* max_memory_bytes, fixed per engine
    shardHolder,  \* per shard: the worker with an entry guard on it, or Nobody
    quotaHolder,  \* the worker with the mutex, or Nobody
    projected     \* per worker: the total it settles when it is done

memVars == <<entries, accounted, maxMemory, shardHolder, quotaHolder, projected>>

NoEntry == [body |-> <<>>, hdrs |-> {"no entry"}]
Nobody == "nobody"
Shards == {Shard[w] : w \in MemoryWorlds}

AccountedEntryBytes(e) ==
    IF e = NoEntry THEN 0
    ELSE EntryOverhead + Len(e.body) + Cardinality(e.hdrs)

Used == MapThenSumSet(LAMBDA w : AccountedEntryBytes(entries[w]), MemoryWorlds)

MemoryInit ==
    /\ entries = [w \in MemoryWorlds |-> NoEntry]
    /\ accounted = 0
    /\ shardHolder = [s \in Shards |-> Nobody]
    /\ quotaHolder = Nobody
    /\ projected = [t \in Workers |-> 0]

HoldsEntry(t, w) == shardHolder[Shard[w]] = t
ReleaseEntry(w) == shardHolder' = [shardHolder EXCEPT ![Shard[w]] = Nobody]

\* The entry guard locks the shard of the world.
LockEntry(t, w) ==
    /\ shardHolder[Shard[w]] = Nobody
    /\ shardHolder' = [shardHolder EXCEPT ![Shard[w]] = t]
    /\ UNCHANGED <<entries, accounted, maxMemory, quotaHolder, projected>>

ProjectedWith(w, next) ==
    accounted - AccountedEntryBytes(entries[w]) + AccountedEntryBytes(next)

\* Mutant of AdmitBytes: the total is read before the mutex is taken.
AdmitBytesUnlocked(t, w, next) ==
    /\ HoldsEntry(t, w)
    /\ ProjectedWith(w, next) <= maxMemory
    /\ quotaHolder' = t
    /\ projected' = [projected EXCEPT ![t] = ProjectedWith(w, next)]
    /\ UNCHANGED <<entries, accounted, maxMemory, shardHolder>>

\* With the entry guard held: take the mutex and find that the quota admits
\* replacing the entry by next.
AdmitBytes(t, w, next) ==
    /\ HoldsEntry(t, w)
    /\ quotaHolder = Nobody
    /\ ProjectedWith(w, next) <= maxMemory
    /\ quotaHolder' = t
    /\ projected' = [projected EXCEPT ![t] = ProjectedWith(w, next)]
    /\ UNCHANGED <<entries, accounted, maxMemory, shardHolder>>

\* The same, when the quota does not admit it: both locks are given back.
RefuseBytes(t, w, next) ==
    /\ HoldsEntry(t, w)
    /\ quotaHolder = Nobody
    /\ ProjectedWith(w, next) > maxMemory
    /\ ReleaseEntry(w)
    /\ UNCHANGED <<entries, accounted, maxMemory, quotaHolder, projected>>

\* Insert or remove the entry and let go of it, the mutex still held.
StoreEntry(t, w, next) ==
    /\ HoldsEntry(t, w) /\ quotaHolder = t
    /\ entries' = [entries EXCEPT ![w] = next]
    /\ ReleaseEntry(w)
    /\ UNCHANGED <<accounted, maxMemory, quotaHolder, projected>>

\* The end of append_with_quota: both locks are held until the total is right.
AppendEntry(t, w, next) ==
    /\ HoldsEntry(t, w) /\ quotaHolder = t
    /\ entries' = [entries EXCEPT ![w] = next]
    /\ accounted' = projected[t]
    /\ quotaHolder' = Nobody
    /\ ReleaseEntry(w)
    /\ UNCHANGED <<maxMemory, projected>>

SettleBytes(t) ==
    /\ quotaHolder = t
    /\ accounted' = projected[t]
    /\ quotaHolder' = Nobody
    /\ UNCHANGED <<entries, maxMemory, shardHolder, projected>>

-----------------------------------------------------------------------------
\* Whenever nobody holds the mutex the total is the bytes of the entries, and
\* the memory quota bounds it: the check and the write of write_with_quota and
\* append_with_quota cannot be separated by another world's write.
MemoryAccounted ==
    quotaHolder = Nobody => accounted = Used /\ accounted <= maxMemory

=============================================================================
