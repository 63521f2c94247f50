-------------------------- MODULE StorageQuotaProofs --------------------------
(***************************************************************************)
(* The counters of the storage accounting are sums over the worlds, and    *)
(* every step keeps them so, for every set of worlds and every figure.     *)
(*                                                                         *)
(* BytesAccounted is inductive only together with WorldInv.  QuotaInv says *)
(* the same of every other counter, which is what makes the counters cover *)
(* each world (Fits), so that no saturating subtraction ever saturates.    *)
(***************************************************************************)
EXTENDS StorageStepProofs, FiniteSetTheorems

-----------------------------------------------------------------------------
(* Sums: how one changes with one value, that it bounds every value, is      *)
(* monotonic, adds up, and counts.                                           *)

\* The units of f, read off its values.
LEMMA UnitsAre ==
    ASSUME NEW S, NEW f \in [S -> Nat]
    PROVE  \A u : u \in Units(f) <=> \E x \in S : \E i \in 1..f[x] : u = <<x, i>>
BY DEF Units

\* The units of one element are as many as its value.
LEMMA UnitsOfOne ==
    ASSUME NEW x, NEW n \in Nat
    PROVE  IsFiniteSet({x} \X (1..n)) /\ Cardinality({x} \X (1..n)) = n
<1> DEFINE A == {x}
           B == 1..n
<1>1. IsFiniteSet(A) /\ Cardinality(A) = 1
  BY FS_Singleton
<1>2. IsFiniteSet(B) /\ Cardinality(B) = n
  BY FS_Interval
<1> HIDE DEF A, B
<1>3. IsFiniteSet(A \X B) /\ Cardinality(A \X B) = Cardinality(A) * Cardinality(B)
  BY <1>1, <1>2, FS_Product
<1>4. IsFiniteSet(A \X B) /\ Cardinality(A \X B) = n
  BY <1>1, <1>2, <1>3
<1> QED BY <1>4 DEF A, B

\* A sum over a finite set is a natural number.
LEMMA SumType ==
    ASSUME NEW S, IsFiniteSet(S), NEW f \in [S -> Nat]
    PROVE  IsFiniteSet(Units(f)) /\ Sum(f) \in Nat
<1> DEFINE g == [x \in S |-> {x} \X (1..f[x])]
           T == {{x} \X (1..f[x]) : x \in S}
<1>1. g \in Surjection(S, T)
  BY Zenon DEF Surjection
<1>2. IsFiniteSet(T)
  BY <1>1, FS_Surjection
<1>3. \A U \in T : IsFiniteSet(U)
  <2>1. ASSUME NEW x \in S PROVE IsFiniteSet({x} \X (1..f[x]))
    <3>1. f[x] \in Nat
      OBVIOUS
    <3> QED BY <3>1, UnitsOfOne, Zenon
  <2> QED BY <2>1
<1>4. IsFiniteSet(UNION T)
  BY <1>2, <1>3, FS_UNION, Zenon
<1>5. Units(f) = UNION T
  BY DEF Units
<1> QED BY <1>4, <1>5, FS_CardinalityType DEF Sum

\* Changing one value changes the sum by as much, and no value exceeds the sum.
LEMMA SumUpdate ==
    ASSUME NEW S, IsFiniteSet(S), NEW f \in [S -> Nat], NEW g \in [S -> Nat], NEW w \in S,
           \A x \in S \ {w} : g[x] = f[x]
    PROVE  /\ Sum(f) \in Nat /\ Sum(g) \in Nat
           /\ f[w] <= Sum(f) /\ g[w] <= Sum(g)
           /\ Sum(g) = Sum(f) - f[w] + g[w]
<1> DEFINE R == {u \in Units(f) : u[1] # w}
           F == {w} \X (1..f[w])
           G == {w} \X (1..g[w])
<1>1. f[w] \in Nat /\ g[w] \in Nat
  OBVIOUS
<1>2. Units(f) = R \cup F /\ R \cap F = {}
  BY UnitsAre
<1>3. Units(g) = R \cup G /\ R \cap G = {}
  <2>1. \A u : u \in Units(g) <=> \E x \in S : \E i \in 1..g[x] : u = <<x, i>>
    BY UnitsAre
  <2>2. \A u : u \in R <=> \E x \in S \ {w} : \E i \in 1..f[x] : u = <<x, i>>
    BY UnitsAre
  <2>3. \A u : u \in G <=> \E i \in 1..g[w] : u = <<w, i>>
    OBVIOUS
  <2>4. Units(g) = R \cup G
    BY <2>1, <2>2, <2>3
  <2> QED BY <2>4
<1>4. IsFiniteSet(R)
  BY SumType, FS_Subset
<1>5. /\ IsFiniteSet(F) /\ Cardinality(F) = f[w]
      /\ IsFiniteSet(G) /\ Cardinality(G) = g[w]
  BY <1>1, UnitsOfOne, Zenon
<1>6. Cardinality(R) \in Nat /\ Cardinality({}) = 0
  BY <1>4, FS_CardinalityType, FS_EmptySet
<1> HIDE DEF R, F, G
<1>7. Sum(f) = Cardinality(R) + f[w]
  <2>1. Cardinality(R \cup F) = Cardinality(R) + Cardinality(F) - Cardinality(R \cap F)
    BY <1>4, <1>5, FS_Union
  <2>2. Sum(f) = Cardinality(R \cup F) /\ Cardinality(R \cap F) = 0
    BY <1>2, <1>6 DEF Sum
  <2> QED BY <1>1, <1>5, <1>6, <2>1, <2>2
<1>8. Sum(g) = Cardinality(R) + g[w]
  <2>1. Cardinality(R \cup G) = Cardinality(R) + Cardinality(G) - Cardinality(R \cap G)
    BY <1>4, <1>5, FS_Union
  <2>2. Sum(g) = Cardinality(R \cup G) /\ Cardinality(R \cap G) = 0
    BY <1>3, <1>6 DEF Sum
  <2> QED BY <1>1, <1>5, <1>6, <2>1, <2>2
<1> QED BY <1>1, <1>6, <1>7, <1>8

\* The sum of nothing.
LEMMA SumZero ==
    ASSUME NEW S, NEW f \in [S -> Nat], \A x \in S : f[x] = 0
    PROVE  Sum(f) = 0
<1>1. Units(f) = {}
  BY UnitsAre
<1> QED BY <1>1, FS_EmptySet DEF Sum

\* Larger values, larger sum.
LEMMA SumMonotone ==
    ASSUME NEW S, IsFiniteSet(S), NEW f \in [S -> Nat], NEW g \in [S -> Nat],
           \A x \in S : f[x] <= g[x]
    PROVE  Sum(f) <= Sum(g)
<1>1. Units(f) \subseteq Units(g)
  <2> SUFFICES ASSUME NEW x \in S, NEW i \in 1..f[x] PROVE <<x, i>> \in Units(g)
    BY UnitsAre
  <2>1. i \in 1..g[x]
    OBVIOUS
  <2> QED BY <2>1, UnitsAre
<1> QED BY <1>1, SumType, FS_Subset DEF Sum

\* The sum of sums.
LEMMA SumAdds ==
    ASSUME NEW S, IsFiniteSet(S), NEW f \in [S -> Nat], NEW g \in [S -> Nat], NEW h \in [S -> Nat],
           \A x \in S : h[x] = f[x] + g[x]
    PROVE  Sum(h) = Sum(f) + Sum(g)
<1> DEFINE D == Units(h) \ Units(f)
           shift == [u \in Units(g) |-> <<u[1], u[2] + f[u[1]]>>]
<1>1. \A x \in S : f[x] \in Nat /\ g[x] \in Nat /\ h[x] \in Nat
  OBVIOUS
<1>2. Units(f) \subseteq Units(h)
  <2> SUFFICES ASSUME NEW x \in S, NEW i \in 1..f[x] PROVE <<x, i>> \in Units(h)
    BY UnitsAre
  <2>1. i \in 1..h[x]
    BY <1>1
  <2> QED BY <2>1, UnitsAre
<1>3. \A u : u \in D <=> \E x \in S : \E i \in 1..g[x] : u = <<x, i + f[x]>>
  <2>1. ASSUME NEW u \in D PROVE \E x \in S : \E i \in 1..g[x] : u = <<x, i + f[x]>>
    <3>0. PICK x \in S : \E j \in 1..h[x] : u = <<x, j>>
      BY <2>1, UnitsAre DEF D
    <3>1. PICK j \in 1..h[x] : u = <<x, j>>
      BY <3>0
    <3>2. j \notin 1..f[x]
      BY <2>1, <3>1, UnitsAre
    <3>3. j - f[x] \in 1..g[x] /\ (j - f[x]) + f[x] = j
      BY <1>1, <3>1, <3>2
    <3> QED BY <3>1, <3>3
  <2>2. ASSUME NEW x \in S, NEW i \in 1..g[x] PROVE <<x, i + f[x]>> \in D
    <3>1. i + f[x] \in 1..h[x] /\ i + f[x] \notin 1..f[x]
      BY <1>1
    <3>2. <<x, i + f[x]>> \in Units(h)
      BY <3>1, UnitsAre
    <3>3. <<x, i + f[x]>> \notin Units(f)
      BY <3>1, UnitsAre
    <3> QED BY <3>2, <3>3
  <2> QED BY <2>1, <2>2
<1> HIDE DEF D
<1>4. shift \in Bijection(Units(g), D)
  <2>1. \A u \in Units(g) : u[1] \in S /\ u[2] \in 1..g[u[1]] /\ u = <<u[1], u[2]>>
    BY UnitsAre
  <2>2. \A u \in Units(g) : shift[u] = <<u[1], u[2] + f[u[1]]>> /\ shift[u] \in D
    BY <1>3, <2>1
  <2>3. shift \in [Units(g) -> D]
    BY <2>2
  <2>4. ASSUME NEW u \in Units(g), NEW v \in Units(g), shift[u] = shift[v] PROVE u = v
    <3>1. u[1] = v[1] /\ u[2] + f[u[1]] = v[2] + f[v[1]]
      BY <2>2, <2>4
    <3>2. u[2] = v[2]
      BY <1>1, <2>1, <3>1
    <3> QED BY <2>1, <3>1, <3>2
  <2>5. ASSUME NEW d \in D PROVE \E u \in Units(g) : shift[u] = d
    <3>0. PICK x \in S : \E i \in 1..g[x] : d = <<x, i + f[x]>>
      BY <1>3, <2>5
    <3>1. PICK i \in 1..g[x] : d = <<x, i + f[x]>>
      BY <3>0
    <3>2. <<x, i>> \in Units(g)
      BY UnitsAre
    <3>3. shift[<<x, i>>] = d
      BY <3>1, <3>2
    <3> QED BY <3>2, <3>3
  <2> QED BY <2>3, <2>4, <2>5, Zenon DEF Bijection, Injection, Surjection, IsInjective
<1>5. IsFiniteSet(D) /\ Cardinality(D) = Sum(g)
  <2>1. ExistsBijection(Units(g), D)
    BY <1>4 DEF ExistsBijection
  <2> QED BY <2>1, SumType, FS_Bijection DEF Sum
<1>6. Units(h) = Units(f) \cup D /\ Units(f) \cap D = {}
  BY <1>2 DEF D
<1>7. Sum(h) = Sum(f) + Sum(g) - Cardinality({})
  <2>1. IsFiniteSet(Units(f))
    BY SumType
  <2>2. Cardinality(Units(f) \cup D) = Cardinality(Units(f)) + Cardinality(D) - Cardinality(Units(f) \cap D)
    BY <1>5, <2>1, FS_Union
  <2> QED BY <1>5, <1>6, <2>2, Zenon DEF Sum
<1> QED BY <1>7, SumType, FS_EmptySet

\* The sum of a characteristic function counts.
LEMMA SumCounts ==
    ASSUME NEW S, IsFiniteSet(S), NEW T \in SUBSET S, NEW f \in [S -> Nat],
           \A x \in S : f[x] = IF x \in T THEN 1 ELSE 0
    PROVE  Sum(f) = Cardinality(T)
<1> DEFINE tag == [x \in T |-> <<x, 1>>]
<1>1. \A u : u \in Units(f) <=> \E x \in T : u = <<x, 1>>
  <2>1. \A u : u \in Units(f) <=> \E x \in S : \E i \in 1..f[x] : u = <<x, i>>
    BY UnitsAre
  <2>2. \A x \in S : \A i : i \in 1..f[x] <=> x \in T /\ i = 1
    OBVIOUS
  <2> QED BY <2>1, <2>2
<1>2. tag \in Bijection(T, Units(f))
  BY <1>1 DEF Bijection, Injection, Surjection, IsInjective
<1>3. IsFiniteSet(T)
  BY FS_Subset
<1> QED BY <1>2, <1>3, FS_Bijection DEF Sum, ExistsBijection

-----------------------------------------------------------------------------
(* The removal of a world's files, and what it gives back.                   *)

\* The usage that a removal takes off the disk is the captured one.
LEMMA RemoveKeeps ==
    ASSUME NEW w \in Worlds, Fits(w), Remove(w)
    PROVE  StepsTo(w)
<1> DEFINE u == usage[w]
           p == plan[w]
<1> USE DEF Reserved, Committed, Gone, Ledgering, Writing, Removing, Steps
<1>1. op[w] = "remove"
  BY DEF Remove, Goto
<1>0. op' = [op EXCEPT ![w] = "removed"]
  BY DEF Remove, Goto
<1>2. usage' = [usage EXCEPT ![w] = Empty]
  BY DEF Remove, Goto
<1>3. /\ plan' = plan /\ used' = used /\ live' = live /\ retained' = retained /\ rows' = rows
      /\ worldCount' = worldCount /\ ledgerRows' = ledgerRows /\ lost' = lost /\ LedgerCount' = LedgerCount
      /\ UNCHANGED config
  BY DEF Remove, Goto, disk, counts, LedgerCount
<1>4. Known(w)
  BY Here
<1>5. p \in DeletePlans /\ p.usage = u /\ u.rows > 0
  BY <1>1, <1>4 DEF Known, WorldInv
<1>6. Empty \in Usages /\ Total(Empty) = 0
  BY DEF Empty, Usages, Total
<1>7. WorldInv(Empty, "removed", p)
  BY <1>5, <1>6 DEF WorldInv
<1>8. Follows(w, Empty, "removed", p)
  <2>1. /\ BytesOf(u, "remove", p) = Total(u) + 0 /\ BytesOf(Empty, "removed", p) = Total(Empty) + Total(u)
        /\ LiveOf(u, "remove", p) = LiveOf(Empty, "removed", p)
        /\ CasOf(u, "remove", p) = CasOf(Empty, "removed", p)
        /\ EventsOf(u, "remove", p) = EventsOf(Empty, "removed", p)
        /\ CountOf(u, "remove", p) = CountOf(Empty, "removed", p)
    BY <1>5 DEF BytesOf, LiveOf, CasOf, EventsOf, CountOf
  <2>2. BytesOf(u, "remove", p) = BytesOf(Empty, "removed", p)
    <3>1. Total(u) \in Nat
      BY <1>4 DEF Known
    <3> QED BY <1>6, <2>1, <3>1
  <2> QED BY <1>1, <1>3, <2>1, <2>2, Zenon DEF Follows
<1>9. plan' = [plan EXCEPT ![w] = p]
  BY <1>3, Stays
<1>10. CounterTypes' /\ used' <= used
  BY <1>3, <1>4 DEF CounterTypes, Known
<1> QED BY <1>0, <1>2, <1>3, <1>7, <1>8, <1>9, <1>10, StepTo, Zenon

\* remove_dir_all ends.
LEMMA RemoveDoneKeeps ==
    ASSUME NEW w \in Worlds, Fits(w), RemoveDone(w)
    PROVE  StepsTo(w)
<1> DEFINE u == usage[w]
           p == plan[w]
<1> USE DEF Reserved, Committed, Gone, Ledgering, Writing, Removing, Steps
<1>1. op[w] = "removed"
  BY DEF RemoveDone, Goto
<1>0. op' = [op EXCEPT ![w] = "subtract"]
  BY DEF RemoveDone, Goto
<1>3. /\ usage' = usage /\ plan' = plan /\ used' = used /\ live' = live /\ retained' = retained
      /\ rows' = rows /\ worldCount' = worldCount /\ ledgerRows' = ledgerRows /\ lost' = lost /\ LedgerCount' = LedgerCount
      /\ UNCHANGED config
  BY DEF RemoveDone, Goto, disk, counts, LedgerCount
<1>4. Known(w)
  BY Here
<1>5. WorldInv(u, "subtract", p)
  BY <1>1, <1>4, Zenon DEF Known, WorldInv
<1>6. Follows(w, u, "subtract", p)
  <2>1. /\ BytesOf(u, "removed", p) = BytesOf(u, "subtract", p)
        /\ LiveOf(u, "removed", p) = LiveOf(u, "subtract", p)
        /\ CasOf(u, "removed", p) = CasOf(u, "subtract", p)
        /\ EventsOf(u, "removed", p) = EventsOf(u, "subtract", p)
        /\ CountOf(u, "removed", p) = CountOf(u, "subtract", p)
    BY DEF BytesOf, LiveOf, CasOf, EventsOf, CountOf
  <2> QED BY <1>1, <1>3, <1>4, <2>1, Zenon DEF Follows, Known
<1>7. usage' = [usage EXCEPT ![w] = u] /\ plan' = [plan EXCEPT ![w] = p]
  BY <1>3, Stays
<1>8. CounterTypes' /\ used' <= used
  BY <1>3, <1>4 DEF CounterTypes, Known
<1> QED BY <1>0, <1>3, <1>5, <1>6, <1>7, <1>8, StepTo, Zenon

\* A removal that fails halfway takes its usage away uncounted.
LEMMA RemoveFailsKeeps ==
    ASSUME NEW w \in Worlds, Fits(w), RemoveFails(w)
    PROVE  StepsTo(w)
<1> DEFINE u == usage[w]
           p == plan[w]
<1> USE DEF Reserved, Committed, Gone, Ledgering, Writing, Removing, Steps
<1>1. op[w] \in {"remove", "removed"}
  BY DEF RemoveFails, Goto
<1>0. op' = [op EXCEPT ![w] = "idle"] /\ plan' = [plan EXCEPT ![w] = NoPlan]
  BY DEF RemoveFails, Goto
<1>2. lost' = IF op[w] = "remove" THEN lost
              ELSE [live |-> lost.live + p.usage.live, cas |-> lost.cas + p.usage.cas,
                    rows |-> lost.rows + p.usage.rows, worlds |-> lost.worlds + 1]
  BY DEF RemoveFails, Goto
<1>3. /\ usage' = usage /\ used' = used /\ live' = live /\ retained' = retained /\ rows' = rows
      /\ worldCount' = worldCount /\ ledgerRows' = ledgerRows /\ LedgerCount' = LedgerCount
      /\ UNCHANGED config
  BY DEF RemoveFails, Goto, disk, counts, LedgerCount
<1>4. Known(w)
  BY Here
<1>5. p.usage \in Usages /\ p.usage.live \in Nat /\ p.usage.cas \in Nat /\ p.usage.rows \in Nat
  BY <1>1, <1>4 DEF Known, WorldInv, DeletePlans, Usages
<1>6. lost' \in [live : Nat, cas : Nat, rows : Nat, worlds : Nat]
  BY <1>2, <1>4, <1>5 DEF Known
<1>7. /\ BytesOf(u, op[w], p) + Total(lost) = BytesOf(u, "idle", NoPlan) + Total(lost')
      /\ LiveOf(u, op[w], p) + lost.live = LiveOf(u, "idle", NoPlan) + lost'.live
      /\ CasOf(u, op[w], p) + lost.cas = CasOf(u, "idle", NoPlan) + lost'.cas
      /\ EventsOf(u, op[w], p) + lost.rows = EventsOf(u, "idle", NoPlan) + lost'.rows
      /\ CountOf(u, op[w], p) + lost.worlds = CountOf(u, "idle", NoPlan) + lost'.worlds
  <2>1. CASE op[w] = "remove"
    <3>1. lost' = lost
      BY <1>2, <2>1, Zenon
    <3>2. /\ BytesOf(u, "remove", p) = BytesOf(u, "idle", NoPlan)
          /\ LiveOf(u, "remove", p) = LiveOf(u, "idle", NoPlan)
          /\ CasOf(u, "remove", p) = CasOf(u, "idle", NoPlan)
          /\ EventsOf(u, "remove", p) = EventsOf(u, "idle", NoPlan)
          /\ CountOf(u, "remove", p) = CountOf(u, "idle", NoPlan)
      BY DEF BytesOf, LiveOf, CasOf, EventsOf, CountOf
    <3> QED BY <2>1, <3>1, <3>2, Zenon
  <2>2. CASE op[w] = "removed"
    <3>1. u = Empty /\ u.live = 0 /\ u.cas = 0 /\ u.rows = 0
      <4>1. WorldInv(u, "removed", p)
        BY <1>4, <2>2, Zenon DEF Known
      <4>2. u = Empty
        BY <4>1 DEF WorldInv
      <4> QED BY <4>2 DEF Empty
    <3>2. /\ lost'.live = lost.live + p.usage.live /\ lost'.cas = lost.cas + p.usage.cas
          /\ lost'.rows = lost.rows + p.usage.rows /\ lost'.worlds = lost.worlds + 1
      BY <1>2, <2>2
    <3>3. /\ BytesOf(u, op[w], p) = Total(u) + Total(p.usage) /\ BytesOf(u, "idle", NoPlan) = Total(u) + 0
          /\ LiveOf(u, op[w], p) = p.usage.live /\ LiveOf(u, "idle", NoPlan) = 0
          /\ CasOf(u, op[w], p) = p.usage.cas /\ CasOf(u, "idle", NoPlan) = 0
          /\ EventsOf(u, op[w], p) = p.usage.rows /\ EventsOf(u, "idle", NoPlan) = 0
          /\ CountOf(u, op[w], p) = 1 /\ CountOf(u, "idle", NoPlan) = 0
      BY <2>2, <3>1 DEF BytesOf, LiveOf, CasOf, EventsOf, CountOf
    <3>4. Total(u) = 0 /\ Total(p.usage) = p.usage.live + p.usage.cas
          /\ Total(lost) = lost.live + lost.cas /\ Total(lost') = lost'.live + lost'.cas
      BY <3>1 DEF Total
    <3>5. lost.live \in Nat /\ lost.cas \in Nat /\ lost.rows \in Nat /\ lost.worlds \in Nat
      BY <1>4 DEF Known
    <3> QED BY <1>5, <3>2, <3>3, <3>4, <3>5
  <2> QED BY <1>1, <2>1, <2>2, Zenon
<1>8. WorldInv(u, "idle", NoPlan)
  BY <1>4 DEF Known, WorldInv
<1>9. Follows(w, u, "idle", NoPlan)
  <2>1. /\ BytesOf(u, "idle", NoPlan) \in Nat /\ LiveOf(u, "idle", NoPlan) \in Nat
        /\ CasOf(u, "idle", NoPlan) \in Nat /\ EventsOf(u, "idle", NoPlan) \in Nat
        /\ CountOf(u, "idle", NoPlan) \in Nat
    BY <1>8, HeldType
  <2>2. /\ lost'.live \in Nat /\ lost'.cas \in Nat /\ lost'.rows \in Nat /\ lost'.worlds \in Nat
        /\ Total(lost') \in Nat
    BY <1>6 DEF Total
  <2>3. used' + BytesOf(u, op[w], p) + Total(lost) = used + BytesOf(u, "idle", NoPlan) + Total(lost')
    BY <1>3, <1>4, <1>7, <2>1, <2>2 DEF Known
  <2>4. live' + LiveOf(u, op[w], p) + lost.live = live + LiveOf(u, "idle", NoPlan) + lost'.live
    BY <1>3, <1>4, <1>7, <2>1, <2>2 DEF Known
  <2>5. retained' + CasOf(u, op[w], p) + lost.cas = retained + CasOf(u, "idle", NoPlan) + lost'.cas
    BY <1>3, <1>4, <1>7, <2>1, <2>2 DEF Known
  <2>6. rows' + EventsOf(u, op[w], p) + ledgerRows + lost.rows
          = rows + EventsOf(u, "idle", NoPlan) + ledgerRows' + lost'.rows
    BY <1>3, <1>4, <1>7, <2>1, <2>2 DEF Known
  <2>7. worldCount' + CountOf(u, op[w], p) + LedgerCount + lost.worlds
          = worldCount + CountOf(u, "idle", NoPlan) + LedgerCount' + lost'.worlds
    <3>1. /\ worldCount \in Nat /\ LedgerCount \in Nat /\ lost.worlds \in Nat
          /\ CountOf(u, op[w], p) \in Nat
      BY <1>4 DEF Known
    <3>2. worldCount' = worldCount /\ LedgerCount' = LedgerCount
      BY <1>3
    <3>3. CountOf(u, op[w], p) + lost.worlds = CountOf(u, "idle", NoPlan) + lost'.worlds
      BY <1>7
    <3> QED BY <2>1, <2>2, <3>1, <3>2, <3>3
  <2> QED BY <2>3, <2>4, <2>5, <2>6, <2>7 DEF Follows
<1>10. usage' = [usage EXCEPT ![w] = u]
  BY <1>3, Stays
<1>11. CounterTypes' /\ used' <= used
  BY <1>3, <1>4, <1>6 DEF CounterTypes, Known
<1> QED BY <1>0, <1>3, <1>8, <1>9, <1>10, <1>11, StepTo, Zenon

\* subtract_storage_usage takes the captured usage out of every counter.
LEMMA SubtractKeeps ==
    ASSUME NEW w \in Worlds, Fits(w), Subtract(w)
    PROVE  StepsTo(w)
<1> DEFINE u == usage[w]
           p == plan[w]
           x == p.usage
           q == [p EXCEPT !.row = "commit"]
<1> USE DEF Reserved, Committed, Gone, Ledgering, Writing, Removing, Steps
<1>1. op[w] = "subtract"
  BY DEF Subtract, Goto
<1>0. op' = [op EXCEPT ![w] = "ledger"] /\ plan' = [plan EXCEPT ![w].row = "commit"]
  BY DEF Subtract, Goto
<1>2. /\ used' = Minus(used, Total(x)) /\ live' = Minus(live, x.live) /\ retained' = Minus(retained, x.cas)
      /\ rows' = Minus(rows, x.rows) /\ worldCount' = Minus(worldCount, 1)
  BY DEF Subtract, Goto
<1>3. /\ usage' = usage /\ ledgerRows' = ledgerRows /\ lost' = lost /\ LedgerCount' = LedgerCount
      /\ UNCHANGED config
  BY DEF Subtract, Goto, disk, counts, LedgerCount
<1>4. Known(w)
  BY Here
<1>5. /\ p \in DeletePlans /\ x \in Usages /\ x.live \in Nat /\ x.cas \in Nat /\ x.rows \in Nat
      /\ Total(x) = x.live + x.cas /\ Total(x) \in Nat /\ u = Empty
  BY <1>1, <1>4 DEF Known, WorldInv, DeletePlans, Usages, Total
<1>6. /\ BytesOf(u, "subtract", p) = Total(u) + Total(x) /\ LiveOf(u, "subtract", p) = x.live
      /\ CasOf(u, "subtract", p) = x.cas /\ EventsOf(u, "subtract", p) = x.rows
      /\ CountOf(u, "subtract", p) = 1
  BY DEF BytesOf, LiveOf, CasOf, EventsOf, CountOf
<1>7. /\ used' \in Nat /\ used' + Total(x) = used /\ live' \in Nat /\ live' + x.live = live
      /\ retained' \in Nat /\ retained' + x.cas = retained /\ rows' \in Nat /\ rows' + x.rows = rows
      /\ worldCount' \in Nat /\ worldCount' + 1 = worldCount
  <2>1. /\ BytesOf(u, "subtract", p) + Total(lost) <= used /\ LiveOf(u, "subtract", p) + lost.live <= live
        /\ CasOf(u, "subtract", p) + lost.cas <= retained
        /\ EventsOf(u, "subtract", p) + ledgerRows + lost.rows <= rows
        /\ CountOf(u, "subtract", p) + LedgerCount + lost.worlds <= worldCount
    BY <1>1, Covered
  <2> HIDE DEF x
  <2> QED BY <1>2, <1>4, <1>5, <1>6, <2>1 DEF Known, Minus
<1>8. q \in DeletePlans /\ q.row = "commit" /\ plan' = [plan EXCEPT ![w] = q]
  BY <1>0, <1>5 DEF DeletePlans
<1> HIDE DEF q
<1>9. u.live = 0 /\ u.cas = 0 /\ u.rows = 0
  <2>1. u = Empty
    BY <1>5
  <2> QED BY <2>1 DEF Empty
<1>10. WorldInv(u, "ledger", q)
  BY <1>4, <1>8, Zenon DEF Known, WorldInv
<1>11. Follows(w, u, "ledger", q)
  <2>1. /\ BytesOf(u, "ledger", q) = Total(u) + 0 /\ LiveOf(u, "ledger", q) = 0
        /\ CasOf(u, "ledger", q) = 0 /\ EventsOf(u, "ledger", q) = 0 /\ CountOf(u, "ledger", q) = 0
    BY <1>9 DEF BytesOf, LiveOf, CasOf, EventsOf, CountOf
  <2> HIDE DEF x
  <2>2. x.live \in Nat /\ x.cas \in Nat /\ x.rows \in Nat /\ Total(x) \in Nat
    BY <1>5
  <2>3. Total(u) \in Nat /\ used \in Nat /\ live \in Nat /\ retained \in Nat /\ rows \in Nat /\ worldCount \in Nat
    BY <1>4 DEF Known
  <2>4. used' + BytesOf(u, "subtract", p) = used + BytesOf(u, "ledger", q)
    BY <1>6, <1>7, <2>1, <2>2, <2>3
  <2>5. live' + LiveOf(u, "subtract", p) = live + LiveOf(u, "ledger", q)
    BY <1>6, <1>7, <2>1, <2>2, <2>3
  <2>6. retained' + CasOf(u, "subtract", p) = retained + CasOf(u, "ledger", q)
    BY <1>6, <1>7, <2>1, <2>2, <2>3
  <2>7. rows' + EventsOf(u, "subtract", p) = rows + EventsOf(u, "ledger", q)
    BY <1>6, <1>7, <2>1, <2>2, <2>3
  <2>8. worldCount' + CountOf(u, "subtract", p) = worldCount + CountOf(u, "ledger", q)
    <3>1. CountOf(u, "subtract", p) = 1 /\ CountOf(u, "ledger", q) = 0
      BY <1>6, <2>1
    <3> DEFINE m == worldCount'
               n == worldCount
    <3>2. m + 1 = n /\ n \in Nat
      BY <1>7, <2>3, Zenon
    <3> HIDE DEF m, n
    <3>3. m + 1 = n + 0
      BY <3>2
    <3> QED BY <3>1, <3>3, Zenon DEF m, n
  <2> QED BY <1>1, <1>3, <2>4, <2>5, <2>6, <2>7, <2>8, Zenon DEF Follows
<1>12. usage' = [usage EXCEPT ![w] = u]
  BY <1>3, Stays
<1>13. CounterTypes' /\ used' <= used
  BY <1>3, <1>4, <1>5, <1>7 DEF CounterTypes, Known
<1> QED BY <1>0, <1>3, <1>8, <1>10, <1>11, <1>12, <1>13, StepTo, Zenon

-----------------------------------------------------------------------------
(* The counters are sums.                                                    *)

Bytes == [w \in Worlds |-> BytesOf(usage[w], op[w], plan[w])]
Lives == [w \in Worlds |-> LiveOf(usage[w], op[w], plan[w])]
Cases == [w \in Worlds |-> CasOf(usage[w], op[w], plan[w])]
Events == [w \in Worlds |-> EventsOf(usage[w], op[w], plan[w])]
Counts == [w \in Worlds |-> CountOf(usage[w], op[w], plan[w])]

QuotaInv ==
    /\ QuotaTypes
    /\ \A w \in Worlds : WorldInv(usage[w], op[w], plan[w])
    /\ used = Sum(Bytes) + Total(lost)
    /\ used <= Ceiling
    /\ live = Sum(Lives) + lost.live
    /\ retained = Sum(Cases) + lost.cas
    /\ rows = Sum(Events) + ledgerRows + lost.rows
    /\ worldCount = Sum(Counts) + LedgerCount + lost.worlds

\* The tallies are functions with natural values.
LEMMA TallyTypes ==
    ASSUME \A w \in Worlds : WorldInv(usage[w], op[w], plan[w])
    PROVE  /\ Bytes \in [Worlds -> Nat] /\ Lives \in [Worlds -> Nat] /\ Cases \in [Worlds -> Nat]
           /\ Events \in [Worlds -> Nat] /\ Counts \in [Worlds -> Nat]
BY HeldType DEF Bytes, Lives, Cases, Events, Counts

\* No counter is less than what it holds of a world.
LEMMA EachFits ==
    ASSUME QuotaInv, NEW w \in Worlds
    PROVE  Fits(w)
<1>1. IsFiniteSet(Worlds)
  BY StorageQuotaAssumption
<1>2. /\ Bytes \in [Worlds -> Nat] /\ Lives \in [Worlds -> Nat] /\ Cases \in [Worlds -> Nat]
      /\ Events \in [Worlds -> Nat] /\ Counts \in [Worlds -> Nat]
  BY TallyTypes DEF QuotaInv
<1>3. /\ Bytes[w] <= Sum(Bytes) /\ Lives[w] <= Sum(Lives) /\ Cases[w] <= Sum(Cases)
      /\ Events[w] <= Sum(Events) /\ Counts[w] <= Sum(Counts)
  BY <1>1, <1>2, SumUpdate
<1>4. /\ Sum(Bytes) \in Nat /\ Sum(Lives) \in Nat /\ Sum(Cases) \in Nat
      /\ Sum(Events) \in Nat /\ Sum(Counts) \in Nat
  BY <1>1, <1>2, SumType
<1>5. /\ Bytes[w] = BytesOf(usage[w], op[w], plan[w]) /\ Lives[w] = LiveOf(usage[w], op[w], plan[w])
      /\ Cases[w] = CasOf(usage[w], op[w], plan[w]) /\ Events[w] = EventsOf(usage[w], op[w], plan[w])
      /\ Counts[w] = CountOf(usage[w], op[w], plan[w])
  BY DEF Bytes, Lives, Cases, Events, Counts
<1>6. /\ Bytes[w] \in Nat /\ Lives[w] \in Nat /\ Cases[w] \in Nat /\ Events[w] \in Nat /\ Counts[w] \in Nat
  BY <1>2
<1>7. /\ lost.live \in Nat /\ lost.cas \in Nat /\ lost.rows \in Nat /\ lost.worlds \in Nat
      /\ Total(lost) \in Nat /\ ledgerRows \in Nat /\ LedgerCount \in Nat
  BY DEF QuotaInv, QuotaTypes, CounterTypes, Total, LedgerCount
<1>8. /\ used = Sum(Bytes) + Total(lost) /\ live = Sum(Lives) + lost.live
      /\ retained = Sum(Cases) + lost.cas /\ rows = Sum(Events) + ledgerRows + lost.rows
      /\ worldCount = Sum(Counts) + LedgerCount + lost.worlds
  BY DEF QuotaInv
<1>9. Covers(w)
  BY <1>3, <1>4, <1>5, <1>6, <1>7, <1>8 DEF Covers
<1> QED BY <1>9 DEF Fits, QuotaInv

\* A step of the operation on w: nothing of another world changes.
Elsewhere(w) == \A v \in Worlds \ {w} : usage'[v] = usage[v] /\ op'[v] = op[v] /\ plan'[v] = plan[v]

\* SumUpdate for the worlds.
LEMMA SumOverWorlds ==
    ASSUME NEW f \in [Worlds -> Nat], NEW g \in [Worlds -> Nat], NEW w \in Worlds,
           \A v \in Worlds \ {w} : g[v] = f[v]
    PROVE  /\ Sum(f) \in Nat /\ Sum(g) \in Nat
           /\ Sum(g) = Sum(f) - f[w] + g[w]
<1>1. IsFiniteSet(Worlds)
  BY StorageQuotaAssumption
<1> QED BY <1>1, SumUpdate

\* So the sums do: a step has to be looked at in its own world only.
LEMMA StepOfOne ==
    ASSUME QuotaInv, NEW w \in Worlds, QuotaTypes', Elsewhere(w), Follows(w, usage'[w], op'[w], plan'[w]), used' <= Ceiling',
           WorldInv(usage'[w], op'[w], plan'[w])
    PROVE  QuotaInv'
<1>1. \A v \in Worlds : WorldInv(usage'[v], op'[v], plan'[v])
  BY DEF QuotaInv, Elsewhere
<1>2. /\ Bytes \in [Worlds -> Nat] /\ Lives \in [Worlds -> Nat] /\ Cases \in [Worlds -> Nat]
      /\ Events \in [Worlds -> Nat] /\ Counts \in [Worlds -> Nat]
  BY TallyTypes DEF QuotaInv
<1>3. /\ Bytes' \in [Worlds -> Nat] /\ Lives' \in [Worlds -> Nat] /\ Cases' \in [Worlds -> Nat]
      /\ Events' \in [Worlds -> Nat] /\ Counts' \in [Worlds -> Nat]
  BY <1>1, HeldType DEF Bytes, Lives, Cases, Events, Counts
<1>4. \A v \in Worlds \ {w} : /\ Bytes'[v] = Bytes[v] /\ Lives'[v] = Lives[v] /\ Cases'[v] = Cases[v]
                              /\ Events'[v] = Events[v] /\ Counts'[v] = Counts[v]
  BY DEF Elsewhere, Bytes, Lives, Cases, Events, Counts
<1>6. /\ Bytes[w] = BytesOf(usage[w], op[w], plan[w]) /\ Lives[w] = LiveOf(usage[w], op[w], plan[w])
      /\ Cases[w] = CasOf(usage[w], op[w], plan[w]) /\ Events[w] = EventsOf(usage[w], op[w], plan[w])
      /\ Counts[w] = CountOf(usage[w], op[w], plan[w])
  BY DEF Bytes, Lives, Cases, Events, Counts
<1>7. /\ Bytes'[w] = BytesOf(usage'[w], op'[w], plan'[w]) /\ Lives'[w] = LiveOf(usage'[w], op'[w], plan'[w])
      /\ Cases'[w] = CasOf(usage'[w], op'[w], plan'[w]) /\ Events'[w] = EventsOf(usage'[w], op'[w], plan'[w])
      /\ Counts'[w] = CountOf(usage'[w], op'[w], plan'[w])
  BY DEF Bytes, Lives, Cases, Events, Counts
<1>8. /\ Bytes[w] \in Nat /\ Lives[w] \in Nat /\ Cases[w] \in Nat /\ Events[w] \in Nat /\ Counts[w] \in Nat
      /\ Bytes'[w] \in Nat /\ Lives'[w] \in Nat /\ Cases'[w] \in Nat /\ Events'[w] \in Nat /\ Counts'[w] \in Nat
  BY <1>2, <1>3
<1>9. /\ Sum(Bytes') = Sum(Bytes) - Bytes[w] + Bytes'[w]
      /\ Sum(Bytes) \in Nat /\ Sum(Bytes') \in Nat
  <2>1. /\ Bytes \in [Worlds -> Nat] /\ Bytes' \in [Worlds -> Nat]
        /\ \A v \in Worlds \ {w} : Bytes'[v] = Bytes[v]
    BY <1>2, <1>3, <1>4
  <2> QED BY <2>1, SumOverWorlds
<1>10. /\ Sum(Lives') = Sum(Lives) - Lives[w] + Lives'[w]
       /\ Sum(Lives) \in Nat /\ Sum(Lives') \in Nat
  <2>1. /\ Lives \in [Worlds -> Nat] /\ Lives' \in [Worlds -> Nat]
        /\ \A v \in Worlds \ {w} : Lives'[v] = Lives[v]
    BY <1>2, <1>3, <1>4
  <2> QED BY <2>1, SumOverWorlds
<1>11. /\ Sum(Cases') = Sum(Cases) - Cases[w] + Cases'[w]
       /\ Sum(Cases) \in Nat /\ Sum(Cases') \in Nat
  <2>1. /\ Cases \in [Worlds -> Nat] /\ Cases' \in [Worlds -> Nat]
        /\ \A v \in Worlds \ {w} : Cases'[v] = Cases[v]
    BY <1>2, <1>3, <1>4
  <2> QED BY <2>1, SumOverWorlds
<1>12. /\ Sum(Events') = Sum(Events) - Events[w] + Events'[w]
       /\ Sum(Events) \in Nat /\ Sum(Events') \in Nat
  <2>1. /\ Events \in [Worlds -> Nat] /\ Events' \in [Worlds -> Nat]
        /\ \A v \in Worlds \ {w} : Events'[v] = Events[v]
    BY <1>2, <1>3, <1>4
  <2> QED BY <2>1, SumOverWorlds
<1>13. /\ Sum(Counts') = Sum(Counts) - Counts[w] + Counts'[w]
       /\ Sum(Counts) \in Nat /\ Sum(Counts') \in Nat
  <2>1. /\ Counts \in [Worlds -> Nat] /\ Counts' \in [Worlds -> Nat]
        /\ \A v \in Worlds \ {w} : Counts'[v] = Counts[v]
    BY <1>2, <1>3, <1>4
  <2> QED BY <2>1, SumOverWorlds
<1>14. /\ lost.live \in Nat /\ lost.cas \in Nat /\ lost.rows \in Nat /\ lost.worlds \in Nat /\ Total(lost) \in Nat
       /\ lost'.live \in Nat /\ lost'.cas \in Nat /\ lost'.rows \in Nat /\ lost'.worlds \in Nat
       /\ Total(lost') \in Nat /\ ledgerRows \in Nat /\ ledgerRows' \in Nat
       /\ used \in Nat /\ live \in Nat /\ retained \in Nat /\ rows \in Nat /\ worldCount \in Nat
       /\ used' \in Nat /\ live' \in Nat /\ retained' \in Nat /\ rows' \in Nat /\ worldCount' \in Nat
  BY DEF QuotaInv, QuotaTypes, CounterTypes, Total
<1>15. used' = Sum(Bytes') + Total(lost')
  <2> DEFINE n == used
             m == used'
             sum == Sum(Bytes)
             new == Sum(Bytes')
             x == Bytes[w]
             y == Bytes'[w]
             k == Total(lost)
             l == Total(lost')
  <2>1. n = sum + k
    BY Zenon DEF QuotaInv
  <2>2. m + x + k = n + y + l
    BY <1>6, <1>7, Zenon DEF Follows
  <2>3. new = sum - x + y
    BY <1>9, Zenon
  <2>4. n \in Nat /\ m \in Nat /\ sum \in Nat /\ new \in Nat /\ x \in Nat /\ y \in Nat
        /\ k \in Nat /\ l \in Nat
    BY <1>8, <1>9, <1>14
  <2> HIDE DEF n, m, sum, new, x, y, k, l
  <2>5. m = new + l
    BY <2>1, <2>2, <2>3, <2>4
  <2> QED BY <2>5, Zenon DEF m, new, l
<1>16. live' = Sum(Lives') + lost'.live
  <2> DEFINE n == live
             m == live'
             sum == Sum(Lives)
             new == Sum(Lives')
             x == Lives[w]
             y == Lives'[w]
             k == lost.live
             l == lost'.live
  <2>1. n = sum + k
    BY Zenon DEF QuotaInv
  <2>2. m + x + k = n + y + l
    BY <1>6, <1>7, Zenon DEF Follows
  <2>3. new = sum - x + y
    BY <1>10, Zenon
  <2>4. n \in Nat /\ m \in Nat /\ sum \in Nat /\ new \in Nat /\ x \in Nat /\ y \in Nat
        /\ k \in Nat /\ l \in Nat
    BY <1>8, <1>10, <1>14
  <2> HIDE DEF n, m, sum, new, x, y, k, l
  <2>5. m = new + l
    BY <2>1, <2>2, <2>3, <2>4
  <2> QED BY <2>5, Zenon DEF m, new, l
<1>17. retained' = Sum(Cases') + lost'.cas
  <2> DEFINE n == retained
             m == retained'
             sum == Sum(Cases)
             new == Sum(Cases')
             x == Cases[w]
             y == Cases'[w]
             k == lost.cas
             l == lost'.cas
  <2>1. n = sum + k
    BY Zenon DEF QuotaInv
  <2>2. m + x + k = n + y + l
    BY <1>6, <1>7, Zenon DEF Follows
  <2>3. new = sum - x + y
    BY <1>11, Zenon
  <2>4. n \in Nat /\ m \in Nat /\ sum \in Nat /\ new \in Nat /\ x \in Nat /\ y \in Nat
        /\ k \in Nat /\ l \in Nat
    BY <1>8, <1>11, <1>14
  <2> HIDE DEF n, m, sum, new, x, y, k, l
  <2>5. m = new + l
    BY <2>1, <2>2, <2>3, <2>4
  <2> QED BY <2>5, Zenon DEF m, new, l
<1>18. rows' = Sum(Events') + ledgerRows' + lost'.rows
  <2> DEFINE n == rows
             m == rows'
             sum == Sum(Events)
             new == Sum(Events')
             x == Events[w]
             y == Events'[w]
             i == ledgerRows
             j == ledgerRows'
             k == lost.rows
             l == lost'.rows
  <2>1. n = sum + i + k
    BY Zenon DEF QuotaInv
  <2>2. m + x + i + k = n + y + j + l
    BY <1>6, <1>7, Zenon DEF Follows
  <2>3. new = sum - x + y
    BY <1>12, Zenon
  <2>4. n \in Nat /\ m \in Nat /\ sum \in Nat /\ new \in Nat /\ x \in Nat /\ y \in Nat
        /\ i \in Nat /\ j \in Nat /\ k \in Nat /\ l \in Nat
    BY <1>8, <1>12, <1>14
  <2> HIDE DEF n, m, sum, new, x, y, i, j, k, l
  <2>5. m = new + j + l
    BY <2>1, <2>2, <2>3, <2>4
  <2> QED BY <2>5, Zenon DEF m, new, j, l
<1>19. worldCount' = Sum(Counts') + LedgerCount' + lost'.worlds
  <2> DEFINE n == worldCount
             m == worldCount'
             sum == Sum(Counts)
             new == Sum(Counts')
             x == Counts[w]
             y == Counts'[w]
             i == LedgerCount
             j == LedgerCount'
             k == lost.worlds
             l == lost'.worlds
  <2>1. n = sum + i + k
    BY Zenon DEF QuotaInv
  <2>2. m + x + i + k = n + y + j + l
    BY <1>6, <1>7, Zenon DEF Follows
  <2>3. new = sum - x + y
    BY <1>13, Zenon
  <2>4. n \in Nat /\ m \in Nat /\ sum \in Nat /\ new \in Nat /\ x \in Nat /\ y \in Nat
        /\ i \in Nat /\ j \in Nat /\ k \in Nat /\ l \in Nat
    BY <1>8, <1>13, <1>14 DEF LedgerCount
  <2> HIDE DEF n, m, sum, new, x, y, i, j, k, l
  <2>5. m = new + j + l
    BY <2>1, <2>2, <2>3, <2>4
  <2> QED BY <2>5, Zenon DEF m, new, j, l
<1> QED BY <1>1, <1>15, <1>16, <1>17, <1>18, <1>19, Zenon DEF QuotaInv

\* The same for a step that is given by its new usage, step and plan.
LEMMA MoveKeeps ==
    ASSUME QuotaInv, NEW w \in Worlds, StepsTo(w)
    PROVE  QuotaInv'
<1>0. PICK v, s, q :
        /\ usage' = [usage EXCEPT ![w] = v] /\ op' = [op EXCEPT ![w] = s] /\ plan' = [plan EXCEPT ![w] = q]
        /\ WorldInv(v, s, q) /\ Follows(w, v, s, q) /\ CounterTypes' /\ UNCHANGED config
        /\ used' <= used \/ used' <= quota
  BY Zenon DEF StepsTo
<1>1. /\ usage \in [Worlds -> Usages] /\ op \in [Worlds -> Steps] /\ plan = [x \in Worlds |-> plan[x]]
      /\ quota \in Nat /\ base \in Nat /\ used \in Nat /\ used <= Ceiling
  BY DEF QuotaInv, QuotaTypes, CounterTypes
<1>2. v \in Usages /\ s \in Steps
  BY <1>0 DEF WorldInv
<1>3. quota' = quota /\ base' = base
  BY <1>0 DEF config
<1>4. usage'[w] = v /\ op'[w] = s /\ plan'[w] = q
  BY <1>0, <1>1
<1>5. Elsewhere(w)
  BY <1>0, <1>1 DEF Elsewhere
<1>6. usage' \in [Worlds -> Usages] /\ op' \in [Worlds -> Steps] /\ plan' = [x \in Worlds |-> plan'[x]]
  BY <1>0, <1>1, <1>2
<1>7. QuotaTypes'
  BY <1>0, <1>1, <1>3, <1>6 DEF QuotaTypes
<1>8. used' <= Ceiling'
  BY <1>0, <1>1, <1>3 DEF Ceiling, CounterTypes
<1> QED BY <1>0, <1>4, <1>5, <1>7, <1>8, StepOfOne

\* What the counters hold of worlds with no operation is what is on disk.
LEMMA AtRest ==
    ASSUME NEW u \in [Worlds -> Usages]
    PROVE  /\ Sum([w \in Worlds |-> u[w].live]) \in Nat /\ Sum([w \in Worlds |-> u[w].cas]) \in Nat
           /\ Sum([w \in Worlds |-> u[w].rows]) \in Nat /\ Cardinality({w \in Worlds : u[w].rows > 0}) \in Nat
           /\ Sum([w \in Worlds |-> Total(u[w])])
                = Sum([w \in Worlds |-> u[w].live]) + Sum([w \in Worlds |-> u[w].cas])
           /\ Sum([w \in Worlds |-> BytesOf(u[w], "idle", NoPlan)]) = Sum([w \in Worlds |-> Total(u[w])])
           /\ Sum([w \in Worlds |-> LiveOf(u[w], "idle", NoPlan)]) = Sum([w \in Worlds |-> u[w].live])
           /\ Sum([w \in Worlds |-> CasOf(u[w], "idle", NoPlan)]) = Sum([w \in Worlds |-> u[w].cas])
           /\ Sum([w \in Worlds |-> EventsOf(u[w], "idle", NoPlan)]) = Sum([w \in Worlds |-> u[w].rows])
           /\ Sum([w \in Worlds |-> CountOf(u[w], "idle", NoPlan)]) = Cardinality({w \in Worlds : u[w].rows > 0})
<1> DEFINE l == [w \in Worlds |-> u[w].live]
           c == [w \in Worlds |-> u[w].cas]
           r == [w \in Worlds |-> u[w].rows]
           b == [w \in Worlds |-> Total(u[w])]
           n == [w \in Worlds |-> CountOf(u[w], "idle", NoPlan)]
           T == {w \in Worlds : u[w].rows > 0}
<1>1. IsFiniteSet(Worlds)
  BY StorageQuotaAssumption
<1>2. \A w \in Worlds : u[w].live \in Nat /\ u[w].cas \in Nat /\ u[w].rows \in Nat
  BY DEF Usages
<1>3. l \in [Worlds -> Nat] /\ c \in [Worlds -> Nat] /\ r \in [Worlds -> Nat]
  BY <1>2
<1>4. b \in [Worlds -> Nat] /\ \A w \in Worlds : b[w] = l[w] + c[w]
  BY <1>2 DEF Total
<1>5. n \in [Worlds -> Nat] /\ \A w \in Worlds : n[w] = IF w \in T THEN 1 ELSE 0
  BY DEF CountOf, Committed, Gone
<1>6. T \in SUBSET Worlds
  OBVIOUS
<1>7. /\ [w \in Worlds |-> BytesOf(u[w], "idle", NoPlan)] = b
      /\ [w \in Worlds |-> LiveOf(u[w], "idle", NoPlan)] = l
      /\ [w \in Worlds |-> CasOf(u[w], "idle", NoPlan)] = c
      /\ [w \in Worlds |-> EventsOf(u[w], "idle", NoPlan)] = r
  <2>1. ASSUME NEW w \in Worlds
        PROVE  /\ BytesOf(u[w], "idle", NoPlan) = Total(u[w]) /\ LiveOf(u[w], "idle", NoPlan) = u[w].live
               /\ CasOf(u[w], "idle", NoPlan) = u[w].cas /\ EventsOf(u[w], "idle", NoPlan) = u[w].rows
    BY <1>2 DEF BytesOf, LiveOf, CasOf, EventsOf, Reserved, Committed, Gone, Total
  <2> QED BY <2>1
<1> HIDE DEF l, c, r, b, n, T
<1>8. Sum(l) \in Nat /\ Sum(c) \in Nat /\ Sum(r) \in Nat
  BY <1>1, <1>3, SumType
<1>9. Sum(b) = Sum(l) + Sum(c)
  BY <1>1, <1>3, <1>4, SumAdds
<1>10. Sum(n) = Cardinality(T)
  BY <1>1, <1>5, <1>6, SumCounts
<1>11. Cardinality(T) \in Nat
  BY <1>1, <1>6, FS_Subset, FS_CardinalityType
<1> QED BY <1>7, <1>8, <1>9, <1>10, <1>11 DEF l, c, r, b, n, T

\* EngineBuilder::build counts what is on disk.
LEMMA RestartKeeps ==
    ASSUME QuotaInv, NEW q \in Nat, Restart(q)
    PROVE  QuotaInv'
<1>1. /\ usage \in [Worlds -> Usages] /\ ledgerRows \in Nat
      /\ usage' = usage /\ ledgerRows' = ledgerRows
      /\ op' = [w \in Worlds |-> "idle"] /\ plan' = [w \in Worlds |-> NoPlan]
      /\ quota' = q /\ base' = used' /\ lost' = NothingLost
  BY DEF Restart, QuotaInv, QuotaTypes, CounterTypes
<1>2. /\ Bytes' = [w \in Worlds |-> BytesOf(usage[w], "idle", NoPlan)]
      /\ Lives' = [w \in Worlds |-> LiveOf(usage[w], "idle", NoPlan)]
      /\ Cases' = [w \in Worlds |-> CasOf(usage[w], "idle", NoPlan)]
      /\ Events' = [w \in Worlds |-> EventsOf(usage[w], "idle", NoPlan)]
      /\ Counts' = [w \in Worlds |-> CountOf(usage[w], "idle", NoPlan)]
  BY <1>1 DEF Bytes, Lives, Cases, Events, Counts
<1>3. /\ live' = Sum([w \in Worlds |-> usage[w].live]) /\ retained' = Sum([w \in Worlds |-> usage[w].cas])
      /\ used' = live' + retained' /\ rows' = Sum([w \in Worlds |-> usage[w].rows]) + ledgerRows
      /\ worldCount' = Cardinality({w \in Worlds : usage[w].rows > 0}) + LedgerCount'
  BY Zenon DEF Restart, CheckedStartupUsageSum, LedgerCount
<1>4. /\ live' \in Nat /\ live' = Sum(Lives') /\ retained' \in Nat /\ retained' = Sum(Cases')
      /\ used' \in Nat /\ used' = Sum(Bytes') /\ rows' \in Nat /\ rows' = Sum(Events') + ledgerRows
      /\ worldCount' \in Nat /\ worldCount' = Sum(Counts') + LedgerCount'
      /\ Sum(Events') \in Nat /\ Sum(Counts') \in Nat /\ LedgerCount' \in Nat
  <2> DEFINE l == Sum([w \in Worlds |-> usage[w].live])
             c == Sum([w \in Worlds |-> usage[w].cas])
             r == Sum([w \in Worlds |-> usage[w].rows])
             n == Cardinality({w \in Worlds : usage[w].rows > 0})
             k == LedgerCount'
  <2>1. k \in Nat
    BY DEF LedgerCount
  <2>2. l \in Nat /\ c \in Nat /\ r \in Nat /\ n \in Nat
    BY <1>1, AtRest, Zenon
  <2>3. /\ Sum(Bytes') = l + c /\ Sum(Lives') = l /\ Sum(Cases') = c
        /\ Sum(Events') = r /\ Sum(Counts') = n
    BY <1>1, <1>2, AtRest, Zenon
  <2>4. live' = l /\ retained' = c /\ used' = live' + retained' /\ rows' = r + ledgerRows
        /\ worldCount' = n + k /\ ledgerRows \in Nat
    BY <1>1, <1>3
  <2> HIDE DEF l, c, r, n, k
  <2>5. live' \in Nat /\ live' = Sum(Lives') /\ retained' \in Nat /\ retained' = Sum(Cases')
    BY <2>2, <2>3, <2>4
  <2>6. used' \in Nat /\ used' = Sum(Bytes')
    BY <2>2, <2>3, <2>4
  <2>7. rows' \in Nat /\ rows' = Sum(Events') + ledgerRows /\ Sum(Events') \in Nat
    BY <2>2, <2>3, <2>4
  <2>8. worldCount' \in Nat /\ worldCount' = Sum(Counts') + k /\ Sum(Counts') \in Nat
    BY <2>1, <2>2, <2>3, <2>4
  <2> QED BY <2>1, <2>5, <2>6, <2>7, <2>8 DEF k
<1>5. /\ lost' \in [live : Nat, cas : Nat, rows : Nat, worlds : Nat] /\ Total(lost') = 0
      /\ lost'.live = 0 /\ lost'.cas = 0 /\ lost'.rows = 0 /\ lost'.worlds = 0
  BY <1>1 DEF NothingLost, Total
<1>6. QuotaTypes'
  BY <1>1, <1>4, <1>5 DEF QuotaTypes, CounterTypes, Steps
<1>7. \A w \in Worlds : WorldInv(usage[w], op[w], plan[w])'
  BY <1>1 DEF WorldInv, Reserved, Committed, Gone, Ledgering, Writing, Removing, Steps
<1>8. used' <= Ceiling'
  BY <1>1, <1>4 DEF Ceiling
<1>9. /\ used' = Sum(Bytes') + Total(lost') /\ live' = Sum(Lives') + lost'.live
      /\ retained' = Sum(Cases') + lost'.cas /\ rows' = Sum(Events') + ledgerRows' + lost'.rows
      /\ worldCount' = Sum(Counts') + LedgerCount' + lost'.worlds
  BY <1>1, <1>4, <1>5
<1> QED BY <1>6, <1>7, <1>8, <1>9 DEF QuotaInv

=============================================================================
