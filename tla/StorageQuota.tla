---------------------------- MODULE StorageQuota ----------------------------
(***************************************************************************)
(* Storage accounting: the atomic counters of Core (quota bytes, live      *)
(* bytes, retained bytes, audit rows, worlds), the reservations armed      *)
(* around a write transaction (core/src/state/storage_reservation.rs), and *)
(* their settlement by replace, append and delete (core/src/world_ops.rs,  *)
(* core/src/delete_ops.rs).  DataRoot composes these steps with the files  *)
(* and with the reports that read the counters.                            *)
(*                                                                         *)
(* The world lock admits one operation per world, so an operation is named *)
(* by its world; operations on different worlds interleave.  Of a world    *)
(* only the sizes are kept.  The preflight foresees the bodies that the    *)
(* transaction prunes exactly (WorldStore, PruneEstimateExact).            *)
(***************************************************************************)
EXTENDS Sums

CONSTANTS
    Worlds,      \* durable worlds
    Quotas,      \* max_storage_bytes, per engine
    MaxBody,     \* max_world_bytes
    MaxRows,     \* bound on the audit rows of a world, and of the ledger
    CounterMax,  \* usize::MAX
    MaxStarts    \* bound on engine starts

ASSUME StorageQuotaAssumption ==
    /\ IsFiniteSet(Worlds)
    /\ Quotas \subseteq Nat
    /\ {MaxBody, MaxRows, CounterMax, MaxStarts} \subseteq Nat

VARIABLES
    usage,      \* per world, on disk: live bytes, retained bytes, audit rows
    ledgerRows, \* on disk: rows of var/log/deletes
    used,       \* storage_body_bytes
    live,       \* storage_current_body_bytes
    retained,   \* storage_retained_cas_body_bytes
    rows,       \* storage_audit_chain_events
    worldCount, \* durable_world_count
    ledgerMade, \* delete_ledger_created
    quota,      \* max_storage_bytes
    op, plan,   \* per world: the operation's step and its figures
    starts,     \* engine starts so far
    base, lost  \* history: bytes at start; usage that failed removals took away

quotaVars == <<usage, ledgerRows, used, live, retained, rows, worldCount, ledgerMade, quota,
               op, plan, starts, base, lost>>

Empty == [live |-> 0, cas |-> 0, rows |-> 0]
NothingLost == [live |-> 0, cas |-> 0, rows |-> 0, worlds |-> 0]
NoPlan == [kind |-> "none"]
Total(u) == u.live + u.cas

\* usize::saturating_sub.
Minus(a, b) == IF a >= b THEN a - b ELSE 0

QuotaInit ==
    /\ usage = [w \in Worlds |-> Empty]
    /\ ledgerRows = 0
    /\ used = 0 /\ live = 0 /\ retained = 0 /\ rows = 0
    /\ worldCount = 0 /\ ledgerMade = FALSE
    /\ quota \in Quotas
    /\ op = [w \in Worlds |-> "idle"]
    /\ plan = [w \in Worlds |-> NoPlan]
    /\ starts = 1
    /\ base = 0
    /\ lost = NothingLost

disk == <<usage, ledgerRows, lost>>
counts == <<worldCount, ledgerMade>>
config == <<quota, starts, base>>

Goto(w, step) == op' = [op EXCEPT ![w] = step]

-----------------------------------------------------------------------------
(* Writes.                                                                 *)

\* Mutant of Reservation: a shrinking write frees its bytes at once.
ReservationEager(prev, new, pruned) ==
    [inc |-> new - (prev + pruned), defer |-> 0]

\* reserve_storage_after_prune: growth is published now, shrinkage deferred.
Reservation(prev, new, pruned) ==
    LET credit == prev + pruned
    IN  IF new >= credit THEN [inc |-> new - credit, defer |-> 0]
        ELSE [inc |-> 0, defer |-> credit - new]

\* What a write will do: the new live size, whether its body is not retained
\* yet (`fresh`), and how many bytes the retention prunes.
Plan(kind, u, body, fresh, pruned) ==
    LET next == IF kind = "append" THEN u.live + body ELSE body
        cand == IF fresh THEN next ELSE 0
        r == Reservation(IF kind = "append" THEN 0 ELSE u.live, body + cand, pruned)
    IN  [kind |-> kind, prev |-> u.live, next |-> next, cand |-> cand, pruned |-> pruned,
         inc |-> r.inc, defer |-> r.defer, rows |-> IF u.rows = 0 THEN 2 ELSE 1]

\* The compare-and-swap that checks the quota and takes the growth.
ReserveBytes(w, p) ==
    /\ used + p.inc <= quota
    /\ used' = used + p.inc
    /\ plan' = [plan EXCEPT ![w] = p]

\* The quota snapshot and reserve_storage_after_prune of replace and append.
Reserve(w, kind, body, fresh, pruned) ==
    /\ op[w] = "idle"
    /\ kind = "append" => usage[w].rows > 0
    /\ usage[w].rows + 2 <= MaxRows
    /\ LET p == Plan(kind, usage[w], body, fresh, pruned) IN
       /\ p.next <= MaxBody
       /\ (IF fresh THEN 0 ELSE p.next) + pruned <= usage[w].cas
       /\ ReserveBytes(w, p)
    /\ Goto(w, "reserved")
    /\ UNCHANGED <<disk, live, retained, rows, counts, config>>

\* reserve_audit_events: two slots, or the byte reservation is dropped.
ReserveRows(w) ==
    /\ op[w] = "reserved"
    /\ IF rows + 2 <= CounterMax
       THEN rows' = rows + 2 /\ Goto(w, "armed")
       ELSE UNCHANGED rows /\ Goto(w, "drop_bytes")
    /\ UNCHANGED <<disk, used, live, retained, plan, counts, config>>

\* The connection or the transaction fails; the two proofs are dropped in turn.
TxFails(w) ==
    /\ op[w] = "armed"
    /\ rows' = Minus(rows, 2)
    /\ Goto(w, "drop_bytes")
    /\ UNCHANGED <<disk, used, live, retained, plan, counts, config>>

\* Mutant of DropBytes: an early return forgets its reservation.
DropBytesForgotten(w) ==
    /\ op[w] = "drop_bytes"
    /\ Goto(w, "idle")
    /\ plan' = [plan EXCEPT ![w] = NoPlan]
    /\ UNCHANGED <<disk, used, live, retained, rows, counts, config>>

\* PendingStorageReservation::drop while armed.
DropBytes(w) ==
    /\ op[w] = "drop_bytes"
    /\ used' = Minus(used, plan[w].inc)
    /\ Goto(w, "idle")
    /\ plan' = [plan EXCEPT ![w] = NoPlan]
    /\ UNCHANGED <<disk, live, retained, rows, counts, config>>

\* The transaction commits.
CommitTx(w) ==
    /\ op[w] = "armed"
    /\ usage' = [usage EXCEPT ![w] =
                   [live |-> plan[w].next, cas |-> @.cas + plan[w].cand - plan[w].pruned,
                    rows |-> @.rows + plan[w].rows]]
    /\ Goto(w, "committed")
    /\ UNCHANGED <<ledgerRows, lost, used, live, retained, rows, plan, counts, config>>

\* pending.commit(): the deferred credit is published.  A candidate that was
\* not inserted was 0 bytes, so its rollback changes nothing.
PublishCredit(w) ==
    /\ op[w] = "committed"
    /\ used' = Minus(used, plan[w].defer)
    /\ Goto(w, "settle")
    /\ UNCHANGED <<disk, live, retained, rows, plan, counts, config>>

\* The gauges of live and of retained bytes: note_current_body_replaced,
\* note_retained_cas_inserted, credit_pruned_storage_after_estimate (an exact
\* estimate leaves nothing to credit to the quota bytes).
NoteCurrentBodyReplaced(prev, next) == live' = Minus(live, prev) + next
NoteRetainedCasInserted(bytes) == retained + bytes
CreditPruned(gauge, pruned) == Minus(gauge, pruned)

\* Mutant of Settle: the previous live size is not taken out.
SettleAddsOnly(w) ==
    /\ op[w] = "settle" /\ plan[w].kind = "put"
    /\ retained' = CreditPruned(NoteRetainedCasInserted(plan[w].cand), plan[w].pruned)
    /\ live' = live + plan[w].next
    /\ rows' = Minus(rows, 2 - plan[w].rows)
    /\ worldCount' = worldCount + (IF plan[w].rows = 2 THEN 1 ELSE 0)
    /\ Goto(w, "idle")
    /\ plan' = [plan EXCEPT ![w] = NoPlan]
    /\ UNCHANGED <<disk, used, ledgerMade, config>>

\* The end of replace_write_blocking: the gauges, commit_one or commit_two, and
\* a new world counted; ...
Settle(w) ==
    /\ op[w] = "settle" /\ plan[w].kind = "put"
    /\ retained' = CreditPruned(NoteRetainedCasInserted(plan[w].cand), plan[w].pruned)
    /\ NoteCurrentBodyReplaced(plan[w].prev, plan[w].next)
    /\ rows' = Minus(rows, 2 - plan[w].rows)
    /\ worldCount' = worldCount + (IF plan[w].rows = 2 THEN 1 ELSE 0)
    /\ Goto(w, "idle")
    /\ plan' = [plan EXCEPT ![w] = NoPlan]
    /\ UNCHANGED <<disk, used, ledgerMade, config>>

\* ... of append_write_blocking: the world was there.
SettleAppend(w) ==
    /\ op[w] = "settle" /\ plan[w].kind = "append"
    /\ retained' = CreditPruned(NoteRetainedCasInserted(plan[w].cand), plan[w].pruned)
    /\ NoteCurrentBodyReplaced(plan[w].prev, plan[w].next)
    /\ rows' = Minus(rows, 2 - plan[w].rows)
    /\ Goto(w, "idle")
    /\ plan' = [plan EXCEPT ![w] = NoPlan]
    /\ UNCHANGED <<disk, used, counts, config>>

-----------------------------------------------------------------------------
(* Deletes.                                                                *)

Deleting(w) == plan[w].kind = "delete"

\* The usage of the world is captured under both locks.
BeginDelete(w) ==
    /\ op[w] = "idle"
    /\ usage[w].rows > 0
    /\ ~\E v \in Worlds : Deleting(v)
    /\ ledgerRows + 2 <= MaxRows
    /\ plan' = [plan EXCEPT ![w] = [kind |-> "delete", row |-> "intent", usage |-> usage[w]]]
    /\ Goto(w, "ledger")
    /\ UNCHANGED <<disk, used, live, retained, rows, counts, config>>

\* append_ledger_event_and_notify reserves, ...
LedgerReserve(w) ==
    /\ op[w] = "ledger"
    /\ rows + 2 <= CounterMax
    /\ rows' = rows + 2
    /\ Goto(w, "ledger_armed")
    /\ UNCHANGED <<disk, used, live, retained, plan, counts, config>>

\* What follows a failed append: give up, or try delete_commit_failed.
AfterFailure(w) ==
    IF plan[w].row = "commit"
    THEN Goto(w, "ledger") /\ plan' = [plan EXCEPT ![w].row = "commit_failed"]
    ELSE Goto(w, "idle") /\ plan' = [plan EXCEPT ![w] = NoPlan]

\* ... finds no room in the counter, ...
LedgerFull(w) ==
    /\ op[w] = "ledger"
    /\ rows + 2 > CounterMax
    /\ AfterFailure(w)
    /\ UNCHANGED <<disk, used, live, retained, rows, counts, config>>

\* ... fails, ...
LedgerFails(w) ==
    /\ op[w] = "ledger_armed"
    /\ rows' = Minus(rows, 2)
    /\ AfterFailure(w)
    /\ UNCHANGED <<disk, used, live, retained, counts, config>>

\* ... or appends (the first time with a format row) ...
LedgerAppend(w) ==
    /\ op[w] = "ledger_armed"
    /\ ledgerRows' = IF ledgerRows = 0 THEN 2 ELSE ledgerRows + 1
    /\ Goto(w, IF ledgerRows = 0 THEN "ledger_two" ELSE "ledger_one")
    /\ UNCHANGED <<usage, lost, used, live, retained, rows, plan, counts, config>>

\* ... and settles the reservation; after the intent the ledger counts as a world.
LedgerSettle(w) ==
    /\ op[w] \in {"ledger_one", "ledger_two"}
    /\ rows' = IF op[w] = "ledger_one" THEN Minus(rows, 1) ELSE rows
    /\ IF plan[w].row = "intent"
       THEN /\ Goto(w, "remove")
            /\ ledgerMade' = TRUE
            /\ worldCount' = worldCount + (IF ledgerMade THEN 0 ELSE 1)
            /\ UNCHANGED plan
       ELSE Goto(w, "idle") /\ plan' = [plan EXCEPT ![w] = NoPlan] /\ UNCHANGED counts
    /\ UNCHANGED <<disk, used, live, retained, config>>

\* remove_dir_all gets as far as the database file, ...
Remove(w) ==
    /\ op[w] = "remove"
    /\ usage' = [usage EXCEPT ![w] = Empty]
    /\ Goto(w, "removed")
    /\ UNCHANGED <<ledgerRows, lost, used, live, retained, rows, plan, counts, config>>

\* ... and to its end;
RemoveDone(w) ==
    /\ op[w] = "removed"
    /\ Goto(w, "subtract")
    /\ UNCHANGED <<disk, used, live, retained, rows, plan, counts, config>>

\* or gives up before or after it (DeleteFailedAfterIntent).  A usage that is
\* gone then stays in the counters until the engine is restarted.
RemoveFails(w) ==
    /\ op[w] \in {"remove", "removed"}
    /\ LET u == plan[w].usage IN
       lost' = IF op[w] = "remove" THEN lost
               ELSE [live |-> lost.live + u.live, cas |-> lost.cas + u.cas,
                     rows |-> lost.rows + u.rows, worlds |-> lost.worlds + 1]
    /\ Goto(w, "idle")
    /\ plan' = [plan EXCEPT ![w] = NoPlan]
    /\ UNCHANGED <<usage, ledgerRows, used, live, retained, rows, counts, config>>

\* subtract_storage_usage with the captured usage, and the world counted out.
Subtract(w) ==
    /\ op[w] = "subtract"
    /\ used' = Minus(used, Total(plan[w].usage))
    /\ live' = Minus(live, plan[w].usage.live)
    /\ retained' = Minus(retained, plan[w].usage.cas)
    /\ rows' = Minus(rows, plan[w].usage.rows)
    /\ worldCount' = Minus(worldCount, 1)
    /\ plan' = [plan EXCEPT ![w].row = "commit"]
    /\ Goto(w, "ledger")
    /\ UNCHANGED <<disk, ledgerMade, config>>

-----------------------------------------------------------------------------

\* checked_startup_usage_sum: a total that does not fit refuses the start.
CheckedStartupUsageSum(total) == IF total <= CounterMax THEN {total} ELSE {}

\* The engine stops anywhere and is built again, perhaps with another quota:
\* EngineBuilder::build sums up what is on disk.
Restart(q) ==
    /\ starts < MaxStarts
    /\ starts' = starts + 1
    /\ quota' = q
    /\ op' = [w \in Worlds |-> "idle"]
    /\ plan' = [w \in Worlds |-> NoPlan]
    /\ live' \in CheckedStartupUsageSum(Sum([w \in Worlds |-> usage[w].live]))
    /\ retained' \in CheckedStartupUsageSum(Sum([w \in Worlds |-> usage[w].cas]))
    /\ rows' \in CheckedStartupUsageSum(Sum([w \in Worlds |-> usage[w].rows]) + ledgerRows)
    /\ used' \in CheckedStartupUsageSum(live' + retained')
    /\ base' = used'
    /\ worldCount' = Cardinality({w \in Worlds : usage[w].rows > 0}) + (IF ledgerRows > 0 THEN 1 ELSE 0)
    /\ ledgerMade' = (ledgerRows > 0)
    /\ lost' = NothingLost
    /\ UNCHANGED <<usage, ledgerRows>>

\* The steps of the operation on w between its first and its last.
QuotaStep(w) ==
    \/ ReserveRows(w) \/ DropBytes(w) \/ PublishCredit(w) \/ Settle(w) \/ SettleAppend(w)
    \/ LedgerReserve(w) \/ LedgerFull(w) \/ LedgerSettle(w) \/ Subtract(w)

-----------------------------------------------------------------------------
(* Properties                                                              *)

\* The bytes an operation has put into storage_body_bytes, or still has to take
\* out of it, beyond what is on disk.
Owed(w) ==
    CASE op[w] \in {"reserved", "armed", "drop_bytes"} -> plan[w].inc
      [] op[w] = "committed" -> plan[w].defer
      [] op[w] \in {"removed", "subtract"} -> Total(plan[w].usage)
      [] OTHER -> 0

\* storage_body_bytes is, in every state, what is on disk plus what running
\* operations owe: no interleaving of reservations, failures, commits and
\* deletes on different worlds loses or invents a byte.
BytesAccounted ==
    used = Sum([w \in Worlds |-> Total(usage[w]) + Owed(w)]) + Total(lost)

\* What is on disk never exceeds the quota, unless it did when the engine was
\* started: two writes cannot both take the last free bytes, and bytes of a
\* shrinking write are not reused before it commits.
DiskWithinQuota ==
    Sum([w \in Worlds |-> Total(usage[w])]) <= (IF base > quota THEN base ELSE quota)
=============================================================================
