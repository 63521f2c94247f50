----------------------------- MODULE MCReadCache -----------------------------
(* Small instances of ReadCache for TLC.                                    *)
EXTENDS ReadCache, TLC

\* Slots are interchangeable, but FreshSlot picks one by CHOOSE, so they are
\* numbers; the pool covers the map, the tombstones and every thread's Arcs.
MCSlots == 1..9

Scope(ws, ds, wr, n, e) ==
    [worlds |-> ws, deletes |-> ds, writes |-> wr, incarnations |-> n, errors |-> e]

\* Two worlds compete for the cache's one entry while the first is deleted.
Contention == Scope({"w1", "w2"}, {"w1"}, {}, 1, FALSE)

\* One world is written, deleted and created again; opens and reads may fail.
Recreation == Scope({"w1"}, {"w1"}, {"w1"}, 2, TRUE)

DeleteOnly == Scope({"w1"}, {"w1"}, {}, 1, FALSE)

SafetyScopes == {Contention, Recreation}
ProgressScopes == {DeleteOnly}

\* Readers are only compared for equality.
Interchangeable == Permutations(Readers)
=============================================================================
