-------------------------- MODULE StorageStepProofs ---------------------------
(***************************************************************************)
(* What one step of an operation does to the counters of the storage       *)
(* accounting, world by world.                                             *)
(*                                                                         *)
(* WorldInv relates the plan of a running operation to the usage of its    *)
(* world: a commit moves exactly the bytes that were reserved, and a       *)
(* removal those that were captured.  With it, and with counters that      *)
(* cover what they hold of the world, no saturating subtraction ever       *)
(* saturates, and every step moves the counters by what it changes.        *)
(***************************************************************************)
EXTENDS StorageQuota, TLAPS

Usages == [live : Nat, cas : Nat, rows : Nat]
WritePlans == [kind : {"put", "append"}, prev : Nat, next : Nat, cand : Nat, pruned : Nat,
               inc : Nat, defer : Nat, rows : {1, 2}]
DeletePlans == [kind : {"delete"}, row : {"intent", "commit", "commit_failed"}, usage : Usages]

Reserved == {"reserved", "armed"}
Committed == {"committed", "settle"}
Ledgering == {"ledger", "ledger_armed", "ledger_one", "ledger_two"}
Gone == {"removed", "subtract"}
Writing == Reserved \cup {"drop_bytes"} \cup Committed
Removing == Ledgering \cup {"remove"} \cup Gone
Steps == {"idle"} \cup Writing \cup Removing

\* What the plan of an operation has to do with the usage of its world.
WorldInv(u, o, p) ==
    /\ u \in Usages /\ o \in Steps
    /\ o = "idle" => p = NoPlan
    /\ o \in Writing => p \in WritePlans /\ (p.kind = "append" => p.rows = 1)
    /\ o \in Reserved =>
         /\ p.prev = u.live /\ p.pruned <= u.cas
         /\ p.next + p.cand + p.defer = u.live + p.inc + p.pruned
         /\ p.rows = IF u.rows = 0 THEN 2 ELSE 1
    /\ o \in Committed => p.next = u.live /\ p.cand <= u.cas /\ p.rows <= u.rows
    /\ o \in Removing => p \in DeletePlans
    /\ (o \in Ledgering /\ p.row = "intent") \/ o = "remove" => p.usage = u /\ u.rows > 0
    /\ o \in Gone => u = Empty

\* What the counters hold of a world: what is on disk, what its operation has
\* reserved, and what it has not settled yet.
BytesOf(u, o, p) ==
    Total(u) + (IF o \in Reserved \cup {"drop_bytes"} THEN p.inc
                ELSE IF o = "committed" THEN p.defer
                ELSE IF o \in Gone THEN Total(p.usage) ELSE 0)
LiveOf(u, o, p) == IF o \in Committed THEN p.prev ELSE IF o \in Gone THEN p.usage.live ELSE u.live
CasOf(u, o, p) ==
    IF o \in Committed THEN u.cas + p.pruned - p.cand ELSE IF o \in Gone THEN p.usage.cas ELSE u.cas
EventsOf(u, o, p) ==
    IF o \in {"armed", "ledger_armed"} THEN u.rows + 2
    ELSE IF o = "ledger_one" THEN u.rows + 1
    ELSE IF o \in Committed THEN u.rows + 2 - p.rows
    ELSE IF o \in Gone THEN p.usage.rows ELSE u.rows
CountOf(u, o, p) ==
    IF o \in Committed /\ p.rows = 2 THEN 0
    ELSE IF o \in Gone \/ u.rows > 0 THEN 1 ELSE 0

LedgerCount == IF ledgerMade THEN 1 ELSE 0
Ceiling == IF base > quota THEN base ELSE quota

CounterTypes ==
    /\ ledgerRows \in Nat
    /\ used \in Nat /\ live \in Nat /\ retained \in Nat /\ rows \in Nat /\ worldCount \in Nat
    /\ lost \in [live : Nat, cas : Nat, rows : Nat, worlds : Nat]

QuotaTypes ==
    /\ usage \in [Worlds -> Usages] /\ op \in [Worlds -> Steps]
    /\ plan = [w \in Worlds |-> plan[w]]
    /\ CounterTypes
    /\ quota \in Nat /\ base \in Nat

\* What the counters hold of a world is a natural number.
LEMMA HeldType ==
    ASSUME NEW u, NEW o, NEW p, WorldInv(u, o, p)
    PROVE  /\ BytesOf(u, o, p) \in Nat /\ LiveOf(u, o, p) \in Nat /\ CasOf(u, o, p) \in Nat
           /\ EventsOf(u, o, p) \in Nat /\ CountOf(u, o, p) \in Nat
           /\ Total(u) \in Nat /\ Total(u) <= BytesOf(u, o, p)
<1>1. u.live \in Nat /\ u.cas \in Nat /\ u.rows \in Nat /\ Total(u) = u.live + u.cas
  BY DEF WorldInv, Usages, Total
<1>2. CountOf(u, o, p) \in Nat
  BY DEF CountOf
<1>3. CASE o \in Reserved \cup {"drop_bytes"}
  <2>1. p.inc \in Nat
    BY <1>3 DEF WorldInv, WritePlans, Writing
  <2>2. /\ BytesOf(u, o, p) = Total(u) + p.inc /\ LiveOf(u, o, p) = u.live /\ CasOf(u, o, p) = u.cas
        /\ EventsOf(u, o, p) = u.rows \/ EventsOf(u, o, p) = u.rows + 2
    BY <1>3 DEF BytesOf, LiveOf, CasOf, EventsOf, Reserved, Committed, Gone
  <2> QED BY <1>1, <1>2, <2>1, <2>2
<1>4. CASE o \in Committed
  <2>1. /\ p.prev \in Nat /\ p.cand \in Nat /\ p.pruned \in Nat /\ p.defer \in Nat
        /\ p.rows \in {1, 2} /\ p.cand <= u.cas /\ p.rows <= u.rows
    BY <1>4 DEF WorldInv, WritePlans, Writing
  <2>2. /\ BytesOf(u, o, p) = Total(u) + p.defer \/ BytesOf(u, o, p) = Total(u) + 0
        /\ LiveOf(u, o, p) = p.prev
        /\ CasOf(u, o, p) = u.cas + p.pruned - p.cand
        /\ EventsOf(u, o, p) = u.rows + 2 - p.rows
    BY <1>4 DEF BytesOf, LiveOf, CasOf, EventsOf, Reserved, Committed, Gone
  <2>3. u.cas + p.pruned - p.cand \in Nat /\ u.rows + 2 - p.rows \in Nat
    BY <1>1, <2>1
  <2> QED BY <1>1, <1>2, <2>1, <2>2, <2>3
<1>5. CASE o \in Gone
  <2>1. p.usage.live \in Nat /\ p.usage.cas \in Nat /\ p.usage.rows \in Nat
    BY <1>5 DEF WorldInv, DeletePlans, Removing, Usages
  <2>2. /\ BytesOf(u, o, p) = Total(u) + (p.usage.live + p.usage.cas) /\ LiveOf(u, o, p) = p.usage.live
        /\ CasOf(u, o, p) = p.usage.cas /\ EventsOf(u, o, p) = p.usage.rows
    BY <1>5 DEF BytesOf, LiveOf, CasOf, EventsOf, Reserved, Committed, Gone, Total
  <2> QED BY <1>1, <1>2, <2>1, <2>2
<1>6. CASE o \in {"idle", "remove"} \cup Ledgering
  <2>1. /\ BytesOf(u, o, p) = Total(u) + 0 /\ LiveOf(u, o, p) = u.live /\ CasOf(u, o, p) = u.cas
        /\ EventsOf(u, o, p) \in {u.rows, u.rows + 1, u.rows + 2}
    BY <1>6 DEF BytesOf, LiveOf, CasOf, EventsOf, Reserved, Committed, Gone, Ledgering
  <2>2. EventsOf(u, o, p) \in Nat
    BY <1>1, <2>1
  <2> QED BY <1>1, <1>2, <2>1, <2>2
<1> QED BY <1>3, <1>4, <1>5, <1>6 DEF WorldInv, Steps, Writing, Removing

\* The counters follow what they hold of w, whose operation moves on to s with
\* plan q and leaves the usage v.
Follows(w, v, s, q) ==
    LET u == usage[w]
        o == op[w]
        p == plan[w]
    IN  /\ used' + BytesOf(u, o, p) + Total(lost) = used + BytesOf(v, s, q) + Total(lost')
        /\ live' + LiveOf(u, o, p) + lost.live = live + LiveOf(v, s, q) + lost'.live
        /\ retained' + CasOf(u, o, p) + lost.cas = retained + CasOf(v, s, q) + lost'.cas
        /\ rows' + EventsOf(u, o, p) + ledgerRows + lost.rows
             = rows + EventsOf(v, s, q) + ledgerRows' + lost'.rows
        /\ worldCount' + CountOf(u, o, p) + LedgerCount + lost.worlds
             = worldCount + CountOf(v, s, q) + LedgerCount' + lost'.worlds

\* What is known of the operation on w, and of the counters it changes.
Known(w) ==
    /\ WorldInv(usage[w], op[w], plan[w])
    /\ usage[w] \in Usages /\ usage[w].live \in Nat /\ usage[w].cas \in Nat /\ usage[w].rows \in Nat
    /\ Total(usage[w]) = usage[w].live + usage[w].cas /\ Total(usage[w]) \in Nat
    /\ used \in Nat /\ live \in Nat /\ retained \in Nat /\ rows \in Nat /\ worldCount \in Nat
    /\ ledgerRows \in Nat /\ quota \in Nat
    /\ lost \in [live : Nat, cas : Nat, rows : Nat, worlds : Nat]
    /\ lost.live \in Nat /\ lost.cas \in Nat /\ lost.rows \in Nat /\ lost.worlds \in Nat
    /\ Total(lost) \in Nat /\ LedgerCount \in Nat
    /\ BytesOf(usage[w], op[w], plan[w]) \in Nat /\ LiveOf(usage[w], op[w], plan[w]) \in Nat
    /\ CasOf(usage[w], op[w], plan[w]) \in Nat /\ EventsOf(usage[w], op[w], plan[w]) \in Nat
    /\ CountOf(usage[w], op[w], plan[w]) \in Nat

\* No counter is less than what it holds of w.
Covers(w) ==
    /\ BytesOf(usage[w], op[w], plan[w]) + Total(lost) <= used
    /\ LiveOf(usage[w], op[w], plan[w]) + lost.live <= live
    /\ CasOf(usage[w], op[w], plan[w]) + lost.cas <= retained
    /\ EventsOf(usage[w], op[w], plan[w]) + ledgerRows + lost.rows <= rows
    /\ CountOf(usage[w], op[w], plan[w]) + LedgerCount + lost.worlds <= worldCount

\* What a step on w starts from.
Fits(w) == QuotaTypes /\ WorldInv(usage[w], op[w], plan[w]) /\ Covers(w)

\* What it leads to: a new usage, step and plan of w that belong together, and
\* the counters moved with them.
StepsTo(w) ==
    \E v, s, q :
      /\ usage' = [usage EXCEPT ![w] = v] /\ op' = [op EXCEPT ![w] = s] /\ plan' = [plan EXCEPT ![w] = q]
      /\ WorldInv(v, s, q) /\ Follows(w, v, s, q) /\ CounterTypes' /\ UNCHANGED config
      /\ used' <= used \/ used' <= quota

\* StepsTo, from its parts.
LEMMA StepTo ==
    ASSUME NEW w \in Worlds, NEW v, NEW s, NEW q,
           usage' = [usage EXCEPT ![w] = v], op' = [op EXCEPT ![w] = s], plan' = [plan EXCEPT ![w] = q],
           WorldInv(v, s, q), Follows(w, v, s, q), CounterTypes', UNCHANGED config,
           used' <= used \/ used' <= quota
    PROVE  StepsTo(w)
BY Zenon DEF StepsTo

\* Covers, as a fact.
LEMMA Covered ==
    ASSUME NEW w \in Worlds, Fits(w)
    PROVE  /\ BytesOf(usage[w], op[w], plan[w]) + Total(lost) <= used
           /\ LiveOf(usage[w], op[w], plan[w]) + lost.live <= live
           /\ CasOf(usage[w], op[w], plan[w]) + lost.cas <= retained
           /\ EventsOf(usage[w], op[w], plan[w]) + ledgerRows + lost.rows <= rows
           /\ CountOf(usage[w], op[w], plan[w]) + LedgerCount + lost.worlds <= worldCount
BY Zenon DEF Fits, Covers

\* What a step starts from, spelled out.
LEMMA Here ==
    ASSUME NEW w \in Worlds, Fits(w)
    PROVE  Known(w)
<1>1. usage \in [Worlds -> Usages] /\ WorldInv(usage[w], op[w], plan[w])
  BY DEF Fits, QuotaTypes
<1>2. usage[w] \in Usages
  BY <1>1
<1>3. /\ BytesOf(usage[w], op[w], plan[w]) \in Nat /\ LiveOf(usage[w], op[w], plan[w]) \in Nat
      /\ CasOf(usage[w], op[w], plan[w]) \in Nat /\ EventsOf(usage[w], op[w], plan[w]) \in Nat
      /\ CountOf(usage[w], op[w], plan[w]) \in Nat
  BY <1>1, HeldType
<1> QED BY <1>1, <1>2, <1>3 DEF Known, Fits, QuotaTypes, CounterTypes, Usages, Total, LedgerCount

\* What a step leaves alone is updated with what it was.
LEMMA Stays ==
    ASSUME NEW w \in Worlds, Fits(w)
    PROVE  /\ usage = [usage EXCEPT ![w] = usage[w]]
           /\ op = [op EXCEPT ![w] = op[w]] /\ plan = [plan EXCEPT ![w] = plan[w]]
BY DEF Fits, QuotaTypes

\* What is known of a write.
LEMMA WriteFacts ==
    ASSUME NEW u, NEW o \in Writing, NEW p, WorldInv(u, o, p)
    PROVE  /\ p \in WritePlans /\ p.kind \in {"put", "append"}
           /\ p.prev \in Nat /\ p.next \in Nat /\ p.cand \in Nat /\ p.pruned \in Nat
           /\ p.inc \in Nat /\ p.defer \in Nat /\ p.rows \in {1, 2} /\ p.rows \in Nat
           /\ p.kind = "append" => p.rows = 1
BY DEF WorldInv, WritePlans

\* reserve_storage_after_prune takes the growth and foresees the credit: what the
\* write will leave, less the credit, is what is there now and what is reserved.
LEMMA PlanFacts ==
    ASSUME NEW u \in Usages, NEW kind \in {"put", "append"}, kind = "append" => u.rows > 0,
           NEW body \in Nat, NEW fresh \in BOOLEAN, NEW pruned \in Nat, pruned <= u.cas
    PROVE  WorldInv(u, "reserved", Plan(kind, u, body, fresh, pruned))
<1> DEFINE q == Plan(kind, u, body, fresh, pruned)
           next == IF kind = "append" THEN u.live + body ELSE body
           cand == IF fresh THEN next ELSE 0
           r == Reservation(IF kind = "append" THEN 0 ELSE u.live, body + cand, pruned)
<1>1. u.live \in Nat /\ u.cas \in Nat /\ u.rows \in Nat
  BY DEF Usages
<1>2. next \in Nat /\ cand \in Nat
  BY <1>1
<1>3. /\ r.inc \in Nat /\ r.defer \in Nat
      /\ next + cand + r.defer = u.live + r.inc + pruned
  <2>1. CASE kind = "append"
    <3>1. next = u.live + body /\ r = Reservation(0, body + cand, pruned)
      BY <2>1
    <3> HIDE DEF next, cand, r
    <3> QED BY <1>1, <1>2, <3>1 DEF Reservation
  <2>2. CASE kind = "put"
    <3>1. next = body /\ r = Reservation(u.live, body + cand, pruned)
      BY <2>2
    <3> HIDE DEF next, cand, r
    <3> QED BY <1>1, <1>2, <3>1 DEF Reservation
  <2> QED BY <2>1, <2>2
<1>4. q = [kind |-> kind, prev |-> u.live, next |-> next, cand |-> cand, pruned |-> pruned,
           inc |-> r.inc, defer |-> r.defer, rows |-> IF u.rows = 0 THEN 2 ELSE 1]
  BY DEF Plan
<1> HIDE DEF q, next, cand, r
<1>5. /\ q \in WritePlans /\ q.kind = kind /\ q.prev = u.live /\ q.pruned = pruned
      /\ q.next = next /\ q.cand = cand /\ q.inc = r.inc /\ q.defer = r.defer
      /\ q.rows = IF u.rows = 0 THEN 2 ELSE 1
  BY <1>1, <1>2, <1>3, <1>4 DEF WritePlans
<1>6. q.kind = "append" => q.rows = 1
  BY <1>1, <1>5
<1>7. WorldInv(u, "reserved", q)
  BY <1>3, <1>5, <1>6 DEF WorldInv, Reserved, Committed, Gone, Ledgering, Writing, Removing, Steps
<1> QED BY <1>7 DEF q

\* The quota is checked where the growth is taken.
LEMMA ReserveKeeps ==
    ASSUME NEW w \in Worlds, Fits(w), NEW kind \in {"put", "append"}, NEW body \in Nat,
           NEW fresh \in BOOLEAN, NEW pruned \in Nat, Reserve(w, kind, body, fresh, pruned)
    PROVE  StepsTo(w)
<1> DEFINE u == usage[w]
           q == Plan(kind, u, body, fresh, pruned)
<1>0. Known(w)
  BY Here
<1>1. u \in Usages /\ u.live \in Nat /\ u.cas \in Nat /\ u.rows \in Nat
  BY <1>0 DEF Known
<1>2. /\ op[w] = "idle" /\ (kind = "append" => u.rows > 0)
      /\ (IF fresh THEN 0 ELSE q.next) + pruned <= u.cas
      /\ used + q.inc <= quota /\ used' = used + q.inc
      /\ plan' = [plan EXCEPT ![w] = q] /\ op' = [op EXCEPT ![w] = "reserved"]
      /\ UNCHANGED <<disk, live, retained, rows, counts, config>>
  BY DEF Reserve, ReserveBytes, Goto
<1>3. q.next \in Nat
  BY <1>1 DEF Plan
<1>4. pruned <= u.cas
  <2> HIDE DEF q
  <2> QED BY <1>1, <1>2, <1>3
<1>5. WorldInv(u, "reserved", q)
  <2>1. kind = "append" => u.rows > 0
    BY <1>2
  <2> QED BY <1>1, <1>4, <2>1, PlanFacts
<1> HIDE DEF q
<1>6. q.inc \in Nat
  BY <1>5, WriteFacts DEF Writing, Reserved
<1>7. Follows(w, u, "reserved", q)
  <2>1. /\ BytesOf(u, "idle", plan[w]) = Total(u) + 0 /\ BytesOf(u, "reserved", q) = Total(u) + q.inc
        /\ LiveOf(u, "idle", plan[w]) = u.live /\ LiveOf(u, "reserved", q) = u.live
        /\ CasOf(u, "idle", plan[w]) = u.cas /\ CasOf(u, "reserved", q) = u.cas
        /\ EventsOf(u, "idle", plan[w]) = u.rows /\ EventsOf(u, "reserved", q) = u.rows
        /\ CountOf(u, "idle", plan[w]) = CountOf(u, "reserved", q)
    BY DEF BytesOf, LiveOf, CasOf, EventsOf, CountOf, Reserved, Committed, Gone
  <2>2. UNCHANGED <<lost, ledgerRows, live, retained, rows, worldCount>> /\ LedgerCount' = LedgerCount
    BY <1>2 DEF disk, counts, LedgerCount
  <2> QED BY <1>0, <1>2, <1>6, <2>1, <2>2 DEF Follows, Known
<1>8. usage' = [usage EXCEPT ![w] = u]
  BY <1>2, Stays DEF disk
<1>9. CounterTypes' /\ (used' <= used \/ used' <= quota)
  BY <1>0, <1>2, <1>6 DEF CounterTypes, Known, disk, counts
<1>10. op' = [op EXCEPT ![w] = "reserved"] /\ plan' = [plan EXCEPT ![w] = q] /\ UNCHANGED config
  BY <1>2
<1> QED BY <1>5, <1>7, <1>8, <1>9, <1>10, StepTo, Zenon



\* reserve_audit_events arms the write, ...
LEMMA ArmKeeps ==
    ASSUME NEW w \in Worlds, Fits(w), ReserveRows(w), rows + 2 <= CounterMax
    PROVE  StepsTo(w)
<1> DEFINE u == usage[w]
           p == plan[w]
<1> USE DEF Reserved, Committed, Gone, Ledgering, Writing, Removing, Steps
<1>1. op[w] = "reserved"
  BY DEF ReserveRows, Goto
<1>0. op' = [op EXCEPT ![w] = "armed"]
  BY DEF ReserveRows, Goto
<1>2. rows' = rows + 2
  BY DEF ReserveRows, Goto
<1>3. /\ usage' = usage /\ plan' = plan /\ used' = used /\ live' = live /\ retained' = retained
      /\ worldCount' = worldCount /\ ledgerRows' = ledgerRows /\ lost' = lost /\ LedgerCount' = LedgerCount
      /\ UNCHANGED config
  BY DEF ReserveRows, Goto, disk, counts, LedgerCount
<1>4. Known(w)
  BY Here
<1>5. WorldInv(u, "armed", p)
  BY <1>1, <1>4 DEF Known, WorldInv
<1>6. Follows(w, u, "armed", p)
  <2>1. /\ BytesOf(u, "reserved", p) = BytesOf(u, "armed", p)
        /\ LiveOf(u, "reserved", p) = LiveOf(u, "armed", p)
        /\ CasOf(u, "reserved", p) = CasOf(u, "armed", p)
        /\ EventsOf(u, "reserved", p) = u.rows /\ EventsOf(u, "armed", p) = u.rows + 2
        /\ CountOf(u, "reserved", p) = CountOf(u, "armed", p)
    BY DEF BytesOf, LiveOf, CasOf, EventsOf, CountOf
  <2> QED BY <1>1, <1>2, <1>3, <1>4, <2>1 DEF Follows, Known
<1>7. usage' = [usage EXCEPT ![w] = u] /\ plan' = [plan EXCEPT ![w] = p]
  BY <1>3, Stays
<1>8. CounterTypes' /\ used' <= used
  BY <1>2, <1>3, <1>4 DEF CounterTypes, Known
<1> QED BY <1>0, <1>3, <1>5, <1>6, <1>7, <1>8, StepTo, Zenon

\* ... or finds no room, and the byte reservation is dropped.
LEMMA NoSlotsKeeps ==
    ASSUME NEW w \in Worlds, Fits(w), ReserveRows(w), ~(rows + 2 <= CounterMax)
    PROVE  StepsTo(w)
<1> DEFINE u == usage[w]
           p == plan[w]
<1> USE DEF Reserved, Committed, Gone, Ledgering, Writing, Removing, Steps
<1>1. op[w] = "reserved"
  BY DEF ReserveRows, Goto
<1>0. op' = [op EXCEPT ![w] = "drop_bytes"]
  BY DEF ReserveRows, Goto
<1>3. /\ usage' = usage /\ plan' = plan /\ used' = used /\ live' = live /\ retained' = retained
      /\ rows' = rows /\ worldCount' = worldCount /\ ledgerRows' = ledgerRows /\ lost' = lost /\ LedgerCount' = LedgerCount
      /\ UNCHANGED config
  BY DEF ReserveRows, Goto, disk, counts, LedgerCount
<1>4. Known(w)
  BY Here
<1>5. WorldInv(u, "drop_bytes", p)
  BY <1>1, <1>4 DEF Known, WorldInv
<1>6. Follows(w, u, "drop_bytes", p)
  <2>1. /\ BytesOf(u, "reserved", p) = BytesOf(u, "drop_bytes", p)
        /\ LiveOf(u, "reserved", p) = LiveOf(u, "drop_bytes", p)
        /\ CasOf(u, "reserved", p) = CasOf(u, "drop_bytes", p)
        /\ EventsOf(u, "reserved", p) = EventsOf(u, "drop_bytes", p)
        /\ CountOf(u, "reserved", p) = CountOf(u, "drop_bytes", p)
    BY DEF BytesOf, LiveOf, CasOf, EventsOf, CountOf
  <2> QED BY <1>1, <1>3, <1>4, <2>1 DEF Follows, Known
<1>7. usage' = [usage EXCEPT ![w] = u] /\ plan' = [plan EXCEPT ![w] = p]
  BY <1>3, Stays
<1>8. CounterTypes' /\ used' <= used
  BY <1>3, <1>4 DEF CounterTypes, Known
<1> QED BY <1>0, <1>3, <1>5, <1>6, <1>7, <1>8, StepTo, Zenon

\* The two proofs of a failed write are dropped in turn.
LEMMA TxFailsKeeps ==
    ASSUME NEW w \in Worlds, Fits(w), TxFails(w)
    PROVE  StepsTo(w)
<1> DEFINE u == usage[w]
           p == plan[w]
<1> USE DEF Reserved, Committed, Gone, Ledgering, Writing, Removing, Steps
<1>1. op[w] = "armed"
  BY DEF TxFails, Goto
<1>0. op' = [op EXCEPT ![w] = "drop_bytes"]
  BY DEF TxFails, Goto
<1>2. rows' = Minus(rows, 2)
  BY DEF TxFails, Goto
<1>3. /\ usage' = usage /\ plan' = plan /\ used' = used /\ live' = live /\ retained' = retained
      /\ worldCount' = worldCount /\ ledgerRows' = ledgerRows /\ lost' = lost /\ LedgerCount' = LedgerCount
      /\ UNCHANGED config
  BY DEF TxFails, Goto, disk, counts, LedgerCount
<1>4. Known(w)
  BY Here
<1>5. rows' \in Nat /\ rows' + 2 = rows
  <2>1. EventsOf(u, "armed", p) + ledgerRows + lost.rows <= rows
    BY <1>1, Covered
  <2>2. EventsOf(u, "armed", p) = u.rows + 2
    BY DEF EventsOf
  <2>3. rows \in Nat /\ u.rows \in Nat /\ ledgerRows \in Nat /\ lost.rows \in Nat
    BY <1>4 DEF Known
  <2> QED BY <1>2, <2>1, <2>2, <2>3 DEF Minus
<1>6. WorldInv(u, "drop_bytes", p)
  BY <1>1, <1>4 DEF Known, WorldInv
<1>7. Follows(w, u, "drop_bytes", p)
  <2>1. /\ BytesOf(u, "armed", p) = BytesOf(u, "drop_bytes", p)
        /\ LiveOf(u, "armed", p) = LiveOf(u, "drop_bytes", p)
        /\ CasOf(u, "armed", p) = CasOf(u, "drop_bytes", p)
        /\ EventsOf(u, "armed", p) = u.rows + 2 /\ EventsOf(u, "drop_bytes", p) = u.rows
        /\ CountOf(u, "armed", p) = CountOf(u, "drop_bytes", p)
    BY DEF BytesOf, LiveOf, CasOf, EventsOf, CountOf
  <2>2. rows' + EventsOf(u, "armed", p) = rows + EventsOf(u, "drop_bytes", p)
    <3> DEFINE m == rows'
               n == rows
               a == u.rows
    <3>1. m \in Nat /\ n \in Nat /\ a \in Nat /\ m + 2 = n
      BY <1>4, <1>5, Zenon DEF Known
    <3> HIDE DEF m, n, a
    <3>2. m + (a + 2) = n + a
      BY <3>1
    <3> QED BY <2>1, <3>2 DEF m, n, a
  <2> QED BY <1>1, <1>3, <2>1, <2>2, Zenon DEF Follows
<1>8. usage' = [usage EXCEPT ![w] = u] /\ plan' = [plan EXCEPT ![w] = p]
  BY <1>3, Stays
<1>9. CounterTypes' /\ used' <= used
  BY <1>3, <1>4, <1>5 DEF CounterTypes, Known
<1> QED BY <1>0, <1>3, <1>6, <1>7, <1>8, <1>9, StepTo, Zenon

\* PendingStorageReservation::drop gives back what it took.
LEMMA DropBytesKeeps ==
    ASSUME NEW w \in Worlds, Fits(w), DropBytes(w)
    PROVE  StepsTo(w)
<1> DEFINE u == usage[w]
           p == plan[w]
<1> USE DEF Reserved, Committed, Gone, Ledgering, Writing, Removing, Steps
<1>1. op[w] = "drop_bytes"
  BY DEF DropBytes, Goto
<1>0. op' = [op EXCEPT ![w] = "idle"] /\ plan' = [plan EXCEPT ![w] = NoPlan]
  BY DEF DropBytes, Goto
<1>2. used' = Minus(used, p.inc)
  BY DEF DropBytes, Goto
<1>3. /\ usage' = usage /\ live' = live /\ retained' = retained /\ rows' = rows /\ worldCount' = worldCount
      /\ ledgerRows' = ledgerRows /\ lost' = lost /\ LedgerCount' = LedgerCount
      /\ UNCHANGED config
  BY DEF DropBytes, Goto, disk, counts, LedgerCount
<1>4. Known(w)
  BY Here
<1>5. p.inc \in Nat
  BY <1>1, <1>4, WriteFacts, Zenon DEF Known
<1>6. used' \in Nat /\ used' + p.inc = used
  <2>1. BytesOf(u, "drop_bytes", p) + Total(lost) <= used
    BY <1>1, Covered
  <2>2. BytesOf(u, "drop_bytes", p) = Total(u) + p.inc
    BY DEF BytesOf
  <2>3. used \in Nat /\ Total(u) \in Nat /\ Total(lost) \in Nat
    BY <1>4 DEF Known
  <2> QED BY <1>2, <1>5, <2>1, <2>2, <2>3 DEF Minus
<1>7. WorldInv(u, "idle", NoPlan)
  BY <1>4 DEF Known, WorldInv
<1>8. Follows(w, u, "idle", NoPlan)
  <2>1. /\ BytesOf(u, "drop_bytes", p) = Total(u) + p.inc /\ BytesOf(u, "idle", NoPlan) = Total(u) + 0
        /\ LiveOf(u, "drop_bytes", p) = LiveOf(u, "idle", NoPlan)
        /\ CasOf(u, "drop_bytes", p) = CasOf(u, "idle", NoPlan)
        /\ EventsOf(u, "drop_bytes", p) = EventsOf(u, "idle", NoPlan)
        /\ CountOf(u, "drop_bytes", p) = CountOf(u, "idle", NoPlan)
    BY DEF BytesOf, LiveOf, CasOf, EventsOf, CountOf
  <2> QED BY <1>1, <1>3, <1>4, <1>5, <1>6, <2>1 DEF Follows, Known
<1>9. usage' = [usage EXCEPT ![w] = u]
  BY <1>3, Stays
<1>10. CounterTypes' /\ used' <= used
  BY <1>3, <1>4, <1>5, <1>6 DEF CounterTypes, Known
<1> QED BY <1>0, <1>3, <1>7, <1>8, <1>9, <1>10, StepTo, Zenon

\* A commit leaves on disk what was reserved, less the credit.
LEMMA CommitTxKeeps ==
    ASSUME NEW w \in Worlds, Fits(w), CommitTx(w)
    PROVE  StepsTo(w)
<1> DEFINE u == usage[w]
           p == plan[w]
           v == [live |-> p.next, cas |-> u.cas + p.cand - p.pruned, rows |-> u.rows + p.rows]
<1> USE DEF Reserved, Committed, Gone, Ledgering, Writing, Removing, Steps
<1>1. op[w] = "armed"
  BY DEF CommitTx, Goto, Fits, QuotaTypes
<1>0. op' = [op EXCEPT ![w] = "committed"]
  BY DEF CommitTx, Goto, Fits, QuotaTypes
<1>2. usage' = [usage EXCEPT ![w] = v]
  BY DEF CommitTx, Goto, Fits, QuotaTypes
<1>3. /\ plan' = plan /\ used' = used /\ live' = live /\ retained' = retained /\ rows' = rows
      /\ worldCount' = worldCount /\ ledgerRows' = ledgerRows /\ lost' = lost /\ LedgerCount' = LedgerCount
      /\ UNCHANGED config
  BY DEF CommitTx, Goto, Fits, QuotaTypes, disk, counts, LedgerCount
<1>4. Known(w)
  BY Here
<1>5. /\ p \in WritePlans /\ p.prev \in Nat /\ p.next \in Nat /\ p.cand \in Nat /\ p.pruned \in Nat
      /\ p.inc \in Nat /\ p.defer \in Nat /\ p.rows \in {1, 2} /\ p.rows \in Nat
      /\ (p.kind = "append" => p.rows = 1)
  <2>1. WorldInv(u, "armed", p)
    BY <1>1, <1>4 DEF Known
  <2> QED BY <2>1, WriteFacts
<1>6. /\ p.prev = u.live /\ p.pruned <= u.cas
      /\ p.next + p.cand + p.defer = u.live + p.inc + p.pruned
      /\ p.rows = IF u.rows = 0 THEN 2 ELSE 1
  BY <1>1, <1>4, Zenon DEF Known, WorldInv
<1>7. /\ v.live = p.next /\ v.cas = u.cas + p.cand - p.pruned /\ v.rows = u.rows + p.rows
      /\ v.live \in Nat /\ v.cas \in Nat /\ v.rows \in Nat /\ v \in Usages
      /\ p.cand <= v.cas /\ p.rows <= v.rows
      /\ Total(v) = v.live + v.cas
  BY <1>4, <1>5, <1>6 DEF Known, Usages, Total
<1> HIDE DEF v
<1>8. CountOf(u, "armed", p) = CountOf(v, "committed", p)
  <2>1. CASE u.rows = 0
    BY <1>6, <2>1 DEF CountOf
  <2>2. CASE u.rows > 0
    <3>1. p.rows = 1 /\ v.rows > 0
      BY <1>4, <1>6, <1>7, <2>2 DEF Known
    <3> QED BY <2>2, <3>1 DEF CountOf
  <2> QED BY <1>4, <2>1, <2>2 DEF Known
<1>9. WorldInv(v, "committed", p)
  BY <1>5, <1>7, Zenon DEF WorldInv
<1>10. Follows(w, v, "committed", p)
  <2>1. /\ BytesOf(u, "armed", p) = Total(u) + p.inc /\ BytesOf(v, "committed", p) = Total(v) + p.defer
        /\ LiveOf(u, "armed", p) = u.live /\ LiveOf(v, "committed", p) = p.prev
        /\ CasOf(u, "armed", p) = u.cas /\ CasOf(v, "committed", p) = v.cas + p.pruned - p.cand
        /\ EventsOf(u, "armed", p) = u.rows + 2 /\ EventsOf(v, "committed", p) = v.rows + 2 - p.rows
        /\ CountOf(u, "armed", p) = CountOf(v, "committed", p)
    BY <1>8 DEF BytesOf, LiveOf, CasOf, EventsOf, CountOf
  <2> QED BY <1>1, <1>2, <1>3, <1>4, <1>5, <1>6, <1>7, <2>1 DEF Follows, Known
<1>11. plan' = [plan EXCEPT ![w] = p]
  BY <1>3, Stays
<1>12. CounterTypes' /\ used' <= used
  BY <1>2, <1>3, <1>4 DEF CounterTypes, Known
<1> QED BY <1>0, <1>2, <1>3, <1>9, <1>10, <1>11, <1>12, StepTo, Zenon

\* pending.commit() publishes the credit.
LEMMA PublishCreditKeeps ==
    ASSUME NEW w \in Worlds, Fits(w), PublishCredit(w)
    PROVE  StepsTo(w)
<1> DEFINE u == usage[w]
           p == plan[w]
<1> USE DEF Reserved, Committed, Gone, Ledgering, Writing, Removing, Steps
<1>1. op[w] = "committed"
  BY DEF PublishCredit, Goto
<1>0. op' = [op EXCEPT ![w] = "settle"]
  BY DEF PublishCredit, Goto
<1>2. used' = Minus(used, p.defer)
  BY DEF PublishCredit, Goto
<1>3. /\ usage' = usage /\ plan' = plan /\ live' = live /\ retained' = retained /\ rows' = rows
      /\ worldCount' = worldCount /\ ledgerRows' = ledgerRows /\ lost' = lost /\ LedgerCount' = LedgerCount
      /\ UNCHANGED config
  BY DEF PublishCredit, Goto, disk, counts, LedgerCount
<1>4. Known(w)
  BY Here
<1>5. p.defer \in Nat
  BY <1>1, <1>4, WriteFacts, Zenon DEF Known
<1>6. used' \in Nat /\ used' + p.defer = used
  <2>1. BytesOf(u, "committed", p) + Total(lost) <= used
    BY <1>1, Covered
  <2>2. BytesOf(u, "committed", p) = Total(u) + p.defer
    BY DEF BytesOf
  <2>3. used \in Nat /\ Total(u) \in Nat /\ Total(lost) \in Nat
    BY <1>4 DEF Known
  <2> QED BY <1>2, <1>5, <2>1, <2>2, <2>3 DEF Minus
<1>7. WorldInv(u, "settle", p)
  BY <1>1, <1>4 DEF Known, WorldInv
<1>8. Follows(w, u, "settle", p)
  <2>1. /\ BytesOf(u, "committed", p) = Total(u) + p.defer /\ BytesOf(u, "settle", p) = Total(u) + 0
        /\ LiveOf(u, "committed", p) = LiveOf(u, "settle", p)
        /\ CasOf(u, "committed", p) = CasOf(u, "settle", p)
        /\ EventsOf(u, "committed", p) = EventsOf(u, "settle", p)
        /\ CountOf(u, "committed", p) = CountOf(u, "settle", p)
    BY DEF BytesOf, LiveOf, CasOf, EventsOf, CountOf
  <2> QED BY <1>1, <1>3, <1>4, <1>5, <1>6, <2>1 DEF Follows, Known
<1>9. usage' = [usage EXCEPT ![w] = u] /\ plan' = [plan EXCEPT ![w] = p]
  BY <1>3, Stays
<1>10. CounterTypes' /\ used' <= used
  BY <1>3, <1>4, <1>5, <1>6 DEF CounterTypes, Known
<1> QED BY <1>0, <1>3, <1>7, <1>8, <1>9, <1>10, StepTo, Zenon

\* The gauges, the audit slots and the world count settle together.
LEMMA SettleKeeps ==
    ASSUME NEW w \in Worlds, Fits(w), Settle(w) \/ SettleAppend(w)
    PROVE  StepsTo(w)
<1> DEFINE u == usage[w]
           p == plan[w]
<1> USE DEF Reserved, Committed, Gone, Ledgering, Writing, Removing, Steps
<1>1. op[w] = "settle"
  BY DEF Settle, SettleAppend, Goto, CreditPruned, NoteRetainedCasInserted,
     NoteCurrentBodyReplaced
<1>0. op' = [op EXCEPT ![w] = "idle"] /\ plan' = [plan EXCEPT ![w] = NoPlan]
  BY DEF Settle, SettleAppend, Goto, CreditPruned, NoteRetainedCasInserted,
     NoteCurrentBodyReplaced
<1>2. /\ retained' = Minus(retained + p.cand, p.pruned) /\ live' = Minus(live, p.prev) + p.next
      /\ rows' = Minus(rows, 2 - p.rows)
  BY DEF Settle, SettleAppend, Goto, CreditPruned, NoteRetainedCasInserted,
     NoteCurrentBodyReplaced
<1>3. /\ usage' = usage /\ used' = used /\ ledgerRows' = ledgerRows /\ lost' = lost /\ LedgerCount' = LedgerCount
      /\ UNCHANGED config
  BY DEF Settle, SettleAppend, Goto, CreditPruned, NoteRetainedCasInserted,
     NoteCurrentBodyReplaced, disk, counts, LedgerCount
<1>4. Known(w)
  BY Here
<1>5. /\ p.prev \in Nat /\ p.next \in Nat /\ p.cand \in Nat /\ p.pruned \in Nat
      /\ p.rows \in {1, 2} /\ p.rows \in Nat /\ (p.kind = "append" => p.rows = 1)
  <2>1. WorldInv(u, "settle", p)
    BY <1>1, <1>4 DEF Known
  <2> QED BY <2>1, WriteFacts
<1>6. p.next = u.live /\ p.cand <= u.cas /\ p.rows <= u.rows
  BY <1>1, <1>4 DEF Known, WorldInv
<1>8. /\ live' \in Nat /\ live' + p.prev = live + u.live
      /\ retained' \in Nat /\ retained' + p.pruned = retained + p.cand
      /\ rows' \in Nat /\ rows' + 2 = rows + p.rows
  <2>1. /\ LiveOf(u, "settle", p) = p.prev /\ CasOf(u, "settle", p) = u.cas + p.pruned - p.cand
        /\ EventsOf(u, "settle", p) = u.rows + 2 - p.rows
    BY DEF LiveOf, CasOf, EventsOf
  <2>2. /\ LiveOf(u, "settle", p) + lost.live <= live /\ CasOf(u, "settle", p) + lost.cas <= retained
        /\ EventsOf(u, "settle", p) + ledgerRows + lost.rows <= rows
    BY <1>1, Covered, Zenon
  <2>3. live' \in Nat /\ live' + p.prev = live + u.live
    BY <1>2, <1>4, <1>5, <1>6, <2>1, <2>2 DEF Minus, Known
  <2>4. retained' \in Nat /\ retained' + p.pruned = retained + p.cand
    BY <1>2, <1>4, <1>5, <1>6, <2>1, <2>2 DEF Minus, Known
  <2>5. rows' \in Nat /\ rows' + 2 = rows + p.rows
    BY <1>2, <1>4, <1>5, <1>6, <2>1, <2>2 DEF Minus, Known
  <2> QED BY <2>3, <2>4, <2>5
<1>9. worldCount' \in Nat /\ worldCount' + CountOf(u, "settle", p) = worldCount + 1
  <2>1. u.rows > 0
    BY <1>4, <1>5, <1>6 DEF Known
  <2>2. CountOf(u, "settle", p) = IF p.rows = 2 THEN 0 ELSE 1
    BY <2>1 DEF CountOf
  <2>3. worldCount' = worldCount + (IF p.rows = 2 THEN 1 ELSE 0)
    <3>1. CASE Settle(w)
      BY <3>1, Zenon DEF Settle
    <3>2. CASE SettleAppend(w)
      BY <1>4, <1>5, <3>2 DEF SettleAppend, counts, Known
    <3> QED BY <3>1, <3>2
  <2> QED BY <1>4, <1>5, <2>2, <2>3 DEF Known
<1>10. CountOf(u, "idle", NoPlan) = 1
  BY <1>4, <1>5, <1>6 DEF CountOf, Known
<1>11. WorldInv(u, "idle", NoPlan)
  BY <1>4, Zenon DEF Known, WorldInv
<1>12. Follows(w, u, "idle", NoPlan)
  <2>1. /\ BytesOf(u, "settle", p) = Total(u) + 0 /\ BytesOf(u, "idle", NoPlan) = Total(u) + 0
        /\ LiveOf(u, "settle", p) = p.prev /\ LiveOf(u, "idle", NoPlan) = u.live
        /\ CasOf(u, "settle", p) = u.cas + p.pruned - p.cand /\ CasOf(u, "idle", NoPlan) = u.cas
        /\ EventsOf(u, "settle", p) = u.rows + 2 - p.rows /\ EventsOf(u, "idle", NoPlan) = u.rows
    BY DEF BytesOf, LiveOf, CasOf, EventsOf, CountOf
  <2>2. u.cas \in Nat /\ u.rows \in Nat /\ retained \in Nat /\ rows \in Nat
    BY <1>4 DEF Known
  <2>3. used' + BytesOf(u, "settle", p) = used + BytesOf(u, "idle", NoPlan)
    BY <1>3, <2>1
  <2>4. live' + LiveOf(u, "settle", p) = live + LiveOf(u, "idle", NoPlan)
    BY <1>8, <2>1
  <2>5. retained' + CasOf(u, "settle", p) = retained + CasOf(u, "idle", NoPlan)
    <3> DEFINE m == retained'
               n == retained
               a == u.cas
               b == p.pruned
               c == p.cand
    <3>1. m \in Nat /\ n \in Nat /\ a \in Nat /\ b \in Nat /\ c \in Nat /\ m + b = n + c
      BY <1>5, <1>8, <2>2
    <3> HIDE DEF m, n, a, b, c
    <3>2. m + (a + b - c) = n + a
      BY <3>1
    <3> QED BY <2>1, <3>2 DEF m, n, a, b, c
  <2>6. rows' + EventsOf(u, "settle", p) = rows + EventsOf(u, "idle", NoPlan)
    <3> DEFINE m == rows'
               n == rows
               a == u.rows
               c == p.rows
    <3>1. m \in Nat /\ n \in Nat /\ a \in Nat /\ c \in Nat /\ m + 2 = n + c
      BY <1>5, <1>8, <2>2
    <3> HIDE DEF m, n, a, c
    <3>2. m + (a + 2 - c) = n + a
      BY <3>1
    <3> QED BY <2>1, <3>2 DEF m, n, a, c
  <2>7. worldCount' + CountOf(u, "settle", p) = worldCount + CountOf(u, "idle", NoPlan)
    BY <1>9, <1>10
  <2> QED BY <1>1, <1>3, <2>3, <2>4, <2>5, <2>6, <2>7, Zenon DEF Follows
<1>13. usage' = [usage EXCEPT ![w] = u]
  BY <1>3, Stays, Zenon
<1>14. CounterTypes' /\ used' <= used
  BY <1>3, <1>4, <1>8, <1>9 DEF CounterTypes, Known
<1> QED BY <1>0, <1>3, <1>11, <1>12, <1>13, <1>14, StepTo, Zenon

\* The usage is captured under both locks.
LEMMA BeginDeleteKeeps ==
    ASSUME NEW w \in Worlds, Fits(w), BeginDelete(w)
    PROVE  StepsTo(w)
<1> DEFINE u == usage[w]
           p == plan[w]
           q == [kind |-> "delete", row |-> "intent", usage |-> u]
<1> USE DEF Reserved, Committed, Gone, Ledgering, Writing, Removing, Steps
<1>1. op[w] = "idle" /\ u.rows > 0
  BY Zenon DEF BeginDelete, Goto
<1>0. op' = [op EXCEPT ![w] = "ledger"] /\ plan' = [plan EXCEPT ![w] = q]
  BY DEF BeginDelete, Goto
<1>3. /\ usage' = usage /\ used' = used /\ live' = live /\ retained' = retained /\ rows' = rows
      /\ worldCount' = worldCount /\ ledgerRows' = ledgerRows /\ lost' = lost /\ LedgerCount' = LedgerCount
      /\ UNCHANGED config
  BY DEF BeginDelete, Goto, disk, counts, LedgerCount
<1>4. Known(w)
  BY Here
<1>5. q \in DeletePlans /\ q.usage = u /\ q.row = "intent"
  BY <1>4, Zenon DEF Known, DeletePlans
<1> HIDE DEF q
<1>6. WorldInv(u, "ledger", q)
  BY <1>1, <1>4, <1>5, Zenon DEF Known, WorldInv
<1>7. Follows(w, u, "ledger", q)
  <2>1. /\ BytesOf(u, "idle", p) = BytesOf(u, "ledger", q)
        /\ LiveOf(u, "idle", p) = LiveOf(u, "ledger", q)
        /\ CasOf(u, "idle", p) = CasOf(u, "ledger", q)
        /\ EventsOf(u, "idle", p) = EventsOf(u, "ledger", q)
        /\ CountOf(u, "idle", p) = CountOf(u, "ledger", q)
    BY DEF BytesOf, LiveOf, CasOf, EventsOf, CountOf
  <2> QED BY <1>1, <1>3, <1>4, <2>1, Zenon DEF Follows, Known
<1>8. usage' = [usage EXCEPT ![w] = u]
  BY <1>3, Stays
<1>9. CounterTypes' /\ used' <= used
  BY <1>3, <1>4 DEF CounterTypes, Known
<1> QED BY <1>0, <1>3, <1>6, <1>7, <1>8, <1>9, StepTo, Zenon

\* append_ledger_event_and_notify reserves two slots, ...
LEMMA LedgerReserveKeeps ==
    ASSUME NEW w \in Worlds, Fits(w), LedgerReserve(w)
    PROVE  StepsTo(w)
<1> DEFINE u == usage[w]
           p == plan[w]
<1> USE DEF Reserved, Committed, Gone, Ledgering, Writing, Removing, Steps
<1>1. op[w] = "ledger"
  BY DEF LedgerReserve, Goto
<1>0. op' = [op EXCEPT ![w] = "ledger_armed"]
  BY DEF LedgerReserve, Goto
<1>2. rows' = rows + 2
  BY DEF LedgerReserve, Goto
<1>3. /\ usage' = usage /\ plan' = plan /\ used' = used /\ live' = live /\ retained' = retained
      /\ worldCount' = worldCount /\ ledgerRows' = ledgerRows /\ lost' = lost /\ LedgerCount' = LedgerCount
      /\ UNCHANGED config
  BY DEF LedgerReserve, Goto, disk, counts, LedgerCount
<1>4. Known(w)
  BY Here
<1>5. WorldInv(u, "ledger_armed", p)
  BY <1>1, <1>4, Zenon DEF Known, WorldInv
<1>6. Follows(w, u, "ledger_armed", p)
  <2>1. /\ BytesOf(u, "ledger", p) = BytesOf(u, "ledger_armed", p)
        /\ LiveOf(u, "ledger", p) = LiveOf(u, "ledger_armed", p)
        /\ CasOf(u, "ledger", p) = CasOf(u, "ledger_armed", p)
        /\ EventsOf(u, "ledger", p) = u.rows /\ EventsOf(u, "ledger_armed", p) = u.rows + 2
        /\ CountOf(u, "ledger", p) = CountOf(u, "ledger_armed", p)
    BY DEF BytesOf, LiveOf, CasOf, EventsOf, CountOf
  <2> QED BY <1>1, <1>2, <1>3, <1>4, <2>1 DEF Follows, Known
<1>7. usage' = [usage EXCEPT ![w] = u] /\ plan' = [plan EXCEPT ![w] = p]
  BY <1>3, Stays
<1>8. CounterTypes' /\ used' <= used
  BY <1>2, <1>3, <1>4 DEF CounterTypes, Known
<1> QED BY <1>0, <1>3, <1>5, <1>6, <1>7, <1>8, StepTo, Zenon

\* ... finds no room, ...
LEMMA LedgerFullKeeps ==
    ASSUME NEW w \in Worlds, Fits(w), LedgerFull(w)
    PROVE  StepsTo(w)
<1> DEFINE u == usage[w]
           p == plan[w]
           s == IF p.row = "commit" THEN "ledger" ELSE "idle"
           q == IF p.row = "commit" THEN [p EXCEPT !.row = "commit_failed"] ELSE NoPlan
<1> USE DEF Reserved, Committed, Gone, Ledgering, Writing, Removing, Steps
<1>1. op[w] = "ledger"
  BY DEF LedgerFull, AfterFailure, Goto
<1>0. op' = [op EXCEPT ![w] = s] /\ plan' = [plan EXCEPT ![w] = q]
  BY DEF LedgerFull, AfterFailure, Goto
<1>3. /\ usage' = usage /\ used' = used /\ live' = live /\ retained' = retained /\ rows' = rows
      /\ worldCount' = worldCount /\ ledgerRows' = ledgerRows /\ lost' = lost /\ LedgerCount' = LedgerCount
      /\ UNCHANGED config
  BY DEF LedgerFull, AfterFailure, Goto, disk, counts, LedgerCount
<1>4. Known(w)
  BY Here
<1>5. WorldInv(u, s, q)
  <2>1. WorldInv(u, "ledger", p)
    BY <1>1, <1>4 DEF Known
  <2>2. CASE p.row = "commit"
    <3>1. s = "ledger" /\ q = [p EXCEPT !.row = "commit_failed"]
      BY <2>2
    <3> HIDE DEF s, q
    <3>2. q \in DeletePlans /\ q.row = "commit_failed"
      BY <2>1, <3>1 DEF WorldInv, DeletePlans
    <3> QED BY <2>1, <3>1, <3>2 DEF WorldInv
  <2>3. CASE p.row # "commit"
    <3>1. s = "idle" /\ q = NoPlan
      BY <2>3
    <3> HIDE DEF s, q
    <3> QED BY <2>1, <3>1 DEF WorldInv
  <2> QED BY <2>2, <2>3
<1>6. s \in {"ledger", "idle"}
  OBVIOUS
<1> HIDE DEF s, q
<1>8. Follows(w, u, s, q)
  <2>1. /\ BytesOf(u, "ledger", p) = BytesOf(u, s, q)
        /\ LiveOf(u, "ledger", p) = LiveOf(u, s, q)
        /\ CasOf(u, "ledger", p) = CasOf(u, s, q)
        /\ EventsOf(u, "ledger", p) = EventsOf(u, s, q)
        /\ CountOf(u, "ledger", p) = CountOf(u, s, q)
    BY <1>6 DEF BytesOf, LiveOf, CasOf, EventsOf, CountOf
  <2> QED BY <1>1, <1>3, <1>4, <2>1, Zenon DEF Follows, Known
<1>9. usage' = [usage EXCEPT ![w] = u]
  BY <1>3, Stays
<1>10. CounterTypes' /\ used' <= used
  BY <1>3, <1>4 DEF CounterTypes, Known
<1> QED BY <1>0, <1>3, <1>5, <1>8, <1>9, <1>10, StepTo, Zenon

\* ... or fails, and the slots are dropped.
LEMMA LedgerFailsKeeps ==
    ASSUME NEW w \in Worlds, Fits(w), LedgerFails(w)
    PROVE  StepsTo(w)
<1> DEFINE u == usage[w]
           p == plan[w]
           s == IF p.row = "commit" THEN "ledger" ELSE "idle"
           q == IF p.row = "commit" THEN [p EXCEPT !.row = "commit_failed"] ELSE NoPlan
<1> USE DEF Reserved, Committed, Gone, Ledgering, Writing, Removing, Steps
<1>1. op[w] = "ledger_armed"
  BY DEF LedgerFails, AfterFailure, Goto
<1>0. op' = [op EXCEPT ![w] = s] /\ plan' = [plan EXCEPT ![w] = q]
  BY DEF LedgerFails, AfterFailure, Goto
<1>2. rows' = Minus(rows, 2)
  BY DEF LedgerFails, AfterFailure, Goto
<1>3. /\ usage' = usage /\ used' = used /\ live' = live /\ retained' = retained /\ worldCount' = worldCount
      /\ ledgerRows' = ledgerRows /\ lost' = lost /\ LedgerCount' = LedgerCount
      /\ UNCHANGED config
  BY Zenon DEF LedgerFails, AfterFailure, Goto, disk, counts, LedgerCount
<1>4. Known(w)
  BY Here
<1>5. rows' \in Nat /\ rows' + 2 = rows
  <2>1. EventsOf(u, "ledger_armed", p) + ledgerRows + lost.rows <= rows
    BY <1>1, Covered, Zenon
  <2>2. EventsOf(u, "ledger_armed", p) = u.rows + 2
    BY Zenon DEF EventsOf
  <2> QED BY <1>2, <1>4, <2>1, <2>2 DEF Known, Minus
<1>6. WorldInv(u, s, q)
  <2>1. WorldInv(u, "ledger_armed", p)
    BY <1>1, <1>4 DEF Known
  <2>2. CASE p.row = "commit"
    <3>1. s = "ledger" /\ q = [p EXCEPT !.row = "commit_failed"]
      BY <2>2
    <3> HIDE DEF s, q
    <3>2. q \in DeletePlans /\ q.row = "commit_failed"
      BY <2>1, <3>1, Zenon DEF WorldInv, DeletePlans
    <3> QED BY <2>1, <3>1, <3>2 DEF WorldInv
  <2>3. CASE p.row # "commit"
    <3>1. s = "idle" /\ q = NoPlan
      BY <2>3
    <3> HIDE DEF s, q
    <3> QED BY <2>1, <3>1, Zenon DEF WorldInv
  <2> QED BY <2>2, <2>3
<1>7. s \in {"ledger", "idle"}
  OBVIOUS
<1> HIDE DEF s, q
<1>9. Follows(w, u, s, q)
  <2>1. /\ BytesOf(u, "ledger_armed", p) = BytesOf(u, s, q)
        /\ LiveOf(u, "ledger_armed", p) = LiveOf(u, s, q)
        /\ CasOf(u, "ledger_armed", p) = CasOf(u, s, q)
        /\ EventsOf(u, "ledger_armed", p) = u.rows + 2 /\ EventsOf(u, s, q) = u.rows
        /\ CountOf(u, "ledger_armed", p) = CountOf(u, s, q)
    BY <1>7 DEF BytesOf, LiveOf, CasOf, EventsOf, CountOf
  <2>2. rows' + EventsOf(u, "ledger_armed", p) = rows + EventsOf(u, s, q) /\ EventsOf(u, s, q) \in Nat
    <3> DEFINE m == rows'
               n == rows
               a == u.rows
    <3>1. m \in Nat /\ n \in Nat /\ a \in Nat /\ m + 2 = n
      BY <1>4, <1>5, Zenon DEF Known
    <3> HIDE DEF m, n, a
    <3>2. m + (a + 2) = n + a
      BY <3>1
    <3> QED BY <2>1, <3>1, <3>2 DEF m, n, a
  <2> QED BY <1>1, <1>3, <1>4, <1>5, <2>1, <2>2, Zenon DEF Follows, Known
<1>10. usage' = [usage EXCEPT ![w] = u]
  BY <1>3, Stays
<1>11. CounterTypes' /\ used' <= used
  BY <1>3, <1>4, <1>5 DEF CounterTypes, Known
<1> QED BY <1>0, <1>3, <1>6, <1>9, <1>10, <1>11, StepTo, Zenon

\* A row of the ledger takes one of the slots, the first one both.
LEMMA LedgerAppendKeeps ==
    ASSUME NEW w \in Worlds, Fits(w), LedgerAppend(w)
    PROVE  StepsTo(w)
<1> DEFINE u == usage[w]
           p == plan[w]
           s == IF ledgerRows = 0 THEN "ledger_two" ELSE "ledger_one"
<1> USE DEF Reserved, Committed, Gone, Ledgering, Writing, Removing, Steps
<1>1. op[w] = "ledger_armed"
  BY DEF LedgerAppend, Goto
<1>0. op' = [op EXCEPT ![w] = s]
  BY DEF LedgerAppend, Goto
<1>2. ledgerRows' = IF ledgerRows = 0 THEN 2 ELSE ledgerRows + 1
  BY DEF LedgerAppend, Goto
<1>3. /\ usage' = usage /\ plan' = plan /\ used' = used /\ live' = live /\ retained' = retained
      /\ rows' = rows /\ worldCount' = worldCount /\ lost' = lost /\ LedgerCount' = LedgerCount
      /\ UNCHANGED config
  BY DEF LedgerAppend, Goto, disk, counts, LedgerCount
<1>4. Known(w)
  BY Here
<1>5. s = IF ledgerRows = 0 THEN "ledger_two" ELSE "ledger_one"
  OBVIOUS
<1> HIDE DEF s
<1>6. /\ EventsOf(u, "ledger_armed", p) + ledgerRows = EventsOf(u, s, p) + ledgerRows'
      /\ EventsOf(u, s, p) \in Nat /\ ledgerRows' \in Nat
  <2>1. /\ EventsOf(u, "ledger_armed", p) = u.rows + 2
        /\ EventsOf(u, "ledger_one", p) = u.rows + 1 /\ EventsOf(u, "ledger_two", p) = u.rows
    BY DEF EventsOf
  <2>2. ledgerRows \in Nat /\ u.rows \in Nat
    BY <1>4 DEF Known
  <2>3. CASE ledgerRows = 0
    <3>1. s = "ledger_two" /\ ledgerRows' = 2
      BY <1>2, <1>5, <2>3
    <3> QED BY <2>1, <2>2, <2>3, <3>1
  <2>4. CASE ledgerRows # 0
    <3>1. s = "ledger_one" /\ ledgerRows' = ledgerRows + 1
      BY <1>2, <1>5, <2>4
    <3> QED BY <2>1, <2>2, <3>1
  <2> QED BY <2>3, <2>4
<1>7. s \in {"ledger_one", "ledger_two"}
  BY <1>5, Zenon
<1>8. WorldInv(u, s, p)
  BY <1>1, <1>4, <1>7, Zenon DEF Known, WorldInv
<1>9. Follows(w, u, s, p)
  <2>1. /\ BytesOf(u, "ledger_armed", p) = BytesOf(u, s, p)
        /\ LiveOf(u, "ledger_armed", p) = LiveOf(u, s, p)
        /\ CasOf(u, "ledger_armed", p) = CasOf(u, s, p)
        /\ CountOf(u, "ledger_armed", p) = CountOf(u, s, p)
    BY <1>7 DEF BytesOf, LiveOf, CasOf, EventsOf, CountOf
  <2> QED BY <1>1, <1>3, <1>4, <1>6, <2>1 DEF Follows, Known
<1>10. usage' = [usage EXCEPT ![w] = u] /\ plan' = [plan EXCEPT ![w] = p]
  BY <1>3, Stays
<1>11. CounterTypes' /\ used' <= used
  BY <1>3, <1>4, <1>6 DEF CounterTypes, Known
<1> QED BY <1>0, <1>3, <1>8, <1>9, <1>10, <1>11, StepTo, Zenon

\* After the intent the ledger counts as a world; after the last row the delete ends.
LEMMA LedgerSettleKeeps ==
    ASSUME NEW w \in Worlds, Fits(w), LedgerSettle(w)
    PROVE  StepsTo(w)
<1> DEFINE u == usage[w]
           p == plan[w]
           s == IF p.row = "intent" THEN "remove" ELSE "idle"
           q == IF p.row = "intent" THEN p ELSE NoPlan
<1> USE DEF Reserved, Committed, Gone, Ledgering, Writing, Removing, Steps
<1>1. op[w] \in {"ledger_one", "ledger_two"}
  BY DEF LedgerSettle, Goto
<1>0. op' = [op EXCEPT ![w] = s] /\ plan' = [plan EXCEPT ![w] = q]
  <2>1. CASE p.row = "intent"
    BY <2>1, Stays DEF LedgerSettle, Goto
  <2>2. CASE p.row # "intent"
    BY <2>2 DEF LedgerSettle, Goto
  <2> QED BY <2>1, <2>2
<1>2. rows' = IF op[w] = "ledger_one" THEN Minus(rows, 1) ELSE rows
  BY DEF LedgerSettle, Goto
<1>3. /\ usage' = usage /\ used' = used /\ live' = live /\ retained' = retained /\ ledgerRows' = ledgerRows
      /\ lost' = lost
      /\ UNCHANGED config
  BY DEF LedgerSettle, Goto, disk, counts
<1>4. Known(w)
  BY Here
<1>5. /\ EventsOf(u, op[w], p) + rows' = rows + u.rows /\ rows' \in Nat
  <2>1. rows \in Nat /\ u.rows \in Nat /\ ledgerRows \in Nat /\ lost.rows \in Nat
    BY <1>4 DEF Known
  <2>2. EventsOf(u, op[w], p) + ledgerRows + lost.rows <= rows
    BY Covered
  <2>3. CASE op[w] = "ledger_one"
    <3>1. EventsOf(u, op[w], p) = u.rows + 1 /\ rows' = Minus(rows, 1)
      BY <1>2, <2>3 DEF EventsOf
    <3> QED BY <2>1, <2>2, <3>1 DEF Minus
  <2>4. CASE op[w] = "ledger_two"
    <3>1. EventsOf(u, op[w], p) = u.rows /\ rows' = rows
      BY <1>2, <2>4 DEF EventsOf
    <3> QED BY <2>1, <3>1
  <2> QED BY <1>1, <2>3, <2>4
<1>6. worldCount' + LedgerCount = worldCount + LedgerCount' /\ worldCount' \in Nat /\ LedgerCount' \in Nat
  <2>1. CASE p.row = "intent"
    <3>1. /\ worldCount' = worldCount + (IF ledgerMade THEN 0 ELSE 1) /\ LedgerCount' = 1
      BY <2>1 DEF LedgerSettle, LedgerCount
    <3> QED BY <1>4, <3>1 DEF Known, LedgerCount
  <2>2. CASE p.row # "intent"
    <3>1. worldCount' = worldCount /\ LedgerCount' = LedgerCount
      BY <2>2 DEF LedgerSettle, LedgerCount, counts
    <3> QED BY <1>4, <3>1 DEF Known
  <2> QED BY <2>1, <2>2
<1>7. WorldInv(u, s, q)
  <2>1. CASE p.row = "intent"
    BY <1>1, <1>4, <2>1, Zenon DEF Known, WorldInv
  <2>2. CASE p.row # "intent"
    BY <1>4, <2>2 DEF Known, WorldInv
  <2> QED BY <2>1, <2>2, Zenon
<1>8. s \in {"remove", "idle"}
  OBVIOUS
<1> HIDE DEF s, q
<1>9. Follows(w, u, s, q)
  <2>1. /\ BytesOf(u, op[w], p) = BytesOf(u, s, q)
        /\ LiveOf(u, op[w], p) = LiveOf(u, s, q)
        /\ CasOf(u, op[w], p) = CasOf(u, s, q)
        /\ CountOf(u, op[w], p) = CountOf(u, s, q)
        /\ EventsOf(u, s, q) = u.rows
    BY <1>1, <1>8 DEF BytesOf, LiveOf, CasOf, EventsOf, CountOf
  <2> QED BY <1>1, <1>3, <1>4, <1>5, <1>6, <2>1 DEF Follows, Known
<1>10. usage' = [usage EXCEPT ![w] = u]
  BY <1>3, Stays, Zenon
<1>11. CounterTypes' /\ used' <= used
  BY <1>3, <1>4, <1>5, <1>6 DEF CounterTypes, Known
<1> QED BY <1>0, <1>3, <1>7, <1>9, <1>10, <1>11, StepTo, Zenon

=============================================================================
