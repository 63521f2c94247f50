---------------------------- MODULE MCWorldStore ----------------------------
(* Small instances of WorldStore: bodies of at most two chunks.            *)
EXTENDS WorldStore

TwoChunks == {"a", "b"}
TwoBodies == {<<"a">>, <<"b">>}
OneChunk == {<<"a">>}

Scope(counts, events, gens, dmg, faults) ==
    [counts |-> counts, events |-> events, gens |-> gens, damage |-> dmg, faults |-> faults]

\* A long history, with the retention count changed from engine to engine.
History == Scope({1, 2, 3}, 5, 1, 0, FALSE)

\* Delete and re-creation, with failing transactions and schema creation.
Recreation == Scope({1, 2}, 4, 2, 0, TRUE)

\* The file is damaged under the engine.
Tampering == Scope({2}, 4, 1, 2, FALSE)

StoreScopes == {History, Recreation, Tampering}
=============================================================================
