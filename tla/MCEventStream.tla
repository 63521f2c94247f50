--------------------------- MODULE MCEventStream ----------------------------
(* Small instances of EventStream for TLC.                                 *)
EXTENDS EventStream

\* Two names that are one text when a percent sign is not escaped.
W1 == <<"home/a", "@">>
W2 == <<"home/a", "%", "4", "0">>
TwoWorlds == {W1, W2}
OneMemory == {<<"tmp/m">>}
DeleteLedger == <<"var/log/deletes">>

StreamSubs == {"exact", "ledger", "wild", "prefix", "moving"}
StreamSdk == {"exact", "wild"}
StreamPatterns ==
    [s \in StreamSubs |-> CASE s = "exact" -> {W2}
                            [] s = "ledger" -> {<<"/">> \o DeleteLedger}
                            [] s = "wild" -> {<<>>}
                            [] s = "prefix" -> {<<"/", "home/a", "*">>}
                            [] OTHER -> {<<"/", "*">>, W1, <<"nowhere">>}]

Scope(ws, ss, rows, gens, opens) ==
    [worlds |-> ws, subs |-> ss, rows |-> rows, gens |-> gens, sessions |-> opens,
     kinds |-> {"put", "delete_commit"}, memory |-> 0, stops |-> 0, restore |-> FALSE]

AllKinds == {"put", "append", "delete_commit", "delete_commit_failed"}

\* The one world of an exact subscription is written, deleted, re-created.
OneWorld == Scope({W2}, {"exact"}, 4, 2, 3)

\* Another world's events fill its receiver.
OtherWorld == Scope({W1, W2}, {"exact"}, 3, 1, 2)

\* The ledger itself is listened to while a world is deleted.
LedgerWatch == [Scope({W1}, {"ledger"}, 3, 2, 2) EXCEPT !.kinds = AllKinds]
MemoryWatch == [Scope({<<"tmp/m">>}, {"ledger"}, 0, 2, 2) EXCEPT !.memory = 6]

\* The process is shut down or crashes, and a copy may be put back ...
Stopped == [Scope({W2}, {"exact"}, 4, 1, 3) EXCEPT !.stops = 1, !.restore = TRUE, !.kinds = AllKinds]
StoppedWild == [Scope({W2}, {"wild"}, 3, 1, 2) EXCEPT !.stops = 1]

\* ... also in the middle of a delete.
StoppedDelete == [Scope({W2}, {"ledger"}, 2, 2, 2) EXCEPT !.stops = 1]

\* A wildcard subscription resumes while one world publishes ...
WildResume == Scope({W1}, {"wild"}, 3, 2, 3)

\* ... with a prefix and a memory world ...
PrefixResume == [Scope({W1, <<"tmp/m">>}, {"prefix"}, 3, 1, 2) EXCEPT !.memory = 3]

\* ... or never resumes while two do.
WildFresh == Scope({W1, W2}, {"wild"}, 3, 1, 1)

\* Two clients, of which one changes its pattern, and one slot.
Moving == Scope({W1}, {"moving", "wild"}, 3, 1, 2)

StreamScopes == {OneWorld, OtherWorld, LedgerWatch, MemoryWatch, Stopped, StoppedWild, StoppedDelete,
                 WildResume, PrefixResume, WildFresh, Moving}
=============================================================================
