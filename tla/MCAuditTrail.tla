---------------------------- MODULE MCAuditTrail ----------------------------
(* Small instances of AuditTrail.                                          *)
EXTENDS AuditTrail

Watched == <<"home", "a">>

Scope(rows, ledger, gens, edits_, restores_, anchors_) ==
    [rows |-> rows, ledger |-> ledger, gens |-> gens, edits |-> edits_, restores |-> restores_, anchors |-> anchors_]

\* Files left alone: deletes, failed deletes, re-creations, restarts.
Undisturbed == Scope(3, 5, 2, 0, 0, 1)

\* One edit of any field of any row, with the engine running or not.
Edited == Scope(3, 3, 1, 1, 0, 1)

\* An old copy restored, or put in the ledger's place, and written on.
Restored == Scope(3, 3, 2, 0, 1, 1)

TrailScopes == {Undisturbed, Edited, Restored}
=============================================================================
