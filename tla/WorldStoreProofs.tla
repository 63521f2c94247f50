-------------------------- MODULE WorldStoreProofs --------------------------
(***************************************************************************)
(* The properties of WorldStore for all bodies, retention counts, lengths  *)
(* of chains, incarnations and amounts of damage.                          *)
(*                                                                         *)
(* None of them is inductive.  Two facts carry all of them.  Follows: every*)
(* row's HMAC is that of the rows as they were meant, whatever happened to *)
(* the file, because a write is chained to the last HMAC and gets through  *)
(* its gate only when the last row and the live body are what was meant.   *)
(* Intact: while nothing was damaged the file is exactly what was meant,   *)
(* and the retained blobs are exactly the bodies of the rows from the floor*)
(* on.                                                                     *)
(***************************************************************************)
EXTENDS WorldStore, FiniteSetTheorems, WellFoundedInduction, SequenceTheorems, TLAPS

-----------------------------------------------------------------------------
(* What the operators of WorldChain compute on every database: the least    *)
(* and greatest of a set of row numbers, the floor of the last n body rows  *)
(* and how one more row moves it.                                           *)

\* A set of row numbers that is not empty has a least one, which MinOf finds.
LEMMA MinOfIsLeast ==
    ASSUME NEW S, S \subseteq Nat, S # {}
    PROVE  MinOf(S) \in S /\ \A y \in S : MinOf(S) <= y
<1>1. IsWellFoundedOn(OpToRel(<, Nat), Nat)
    BY NatLessThanWellFounded, Zenon
<1>2. PICK x \in S : \A y \in S : ~(<<y, x>> \in OpToRel(<, Nat))
    BY <1>1, WFMin, Zenon
<1>3. \A y \in S : x <= y
    <2> TAKE y \in S
    <2>1. ~(y < x)
        BY <1>2, Zenon DEF OpToRel
    <2> QED
        BY <2>1
<1> QED
    BY <1>2, <1>3, Zenon DEF MinOf

\* A bounded set of row numbers that is not empty has a greatest one.
LEMMA MaxOfIsGreatest ==
    ASSUME NEW n \in Nat, NEW S, S \subseteq 0..n, S # {}
    PROVE  MaxOf(S) \in S /\ \A y \in S : y <= MaxOf(S)
<1> DEFINE T == {x \in 0..n : n - x \in S}
<1>1. T \subseteq Nat /\ T # {}
    <2>1. PICK s \in S : TRUE
        BY Zenon
    <2>2. s \in 0..n
        OBVIOUS
    <2>3. n - s \in 0..n /\ n - (n - s) = s
        BY <2>2
    <2> QED
        BY <2>1, <2>3
<1>2. MinOf(T) \in T /\ \A y \in T : MinOf(T) <= y
    <2> HIDE DEF T
    <2> QED
        BY <1>1, MinOfIsLeast, Zenon
<1> DEFINE m == n - MinOf(T)
<1>3. m \in S
    BY <1>2
<1>4. \A y \in S : y <= m
    <2> TAKE y \in S
    <2>1. y \in 0..n /\ n - y \in 0..n /\ n - (n - y) = y
        OBVIOUS
    <2>2. n - y \in T
        BY <2>1
    <2>3. MinOf(T) <= n - y /\ MinOf(T) \in 0..n
        BY <1>2, <2>2
    <2> QED
        BY <2>1, <2>3
<1> QED
    BY <1>3, <1>4, Zenon DEF MaxOf

\* There is only one least row number.
LEMMA MinOfIsUnique ==
    ASSUME NEW S, S \subseteq Nat, NEW x \in S, \A y \in S : x <= y
    PROVE  MinOf(S) = x
<1>1. MinOf(S) \in S /\ \A y \in S : MinOf(S) <= y
    BY MinOfIsLeast, Zenon
<1>2. MinOf(S) \in Nat /\ x \in Nat
    BY <1>1, Zenon
<1>3. MinOf(S) <= x /\ x <= MinOf(S)
    BY <1>1, Zenon
<1> QED
    BY <1>2, <1>3

\* The members of S greater than x are finite in number.
LEMMA AboveIsFinite ==
    ASSUME NEW n \in Nat, NEW S, S \subseteq 1..n, NEW x
    PROVE  /\ IsFiniteSet({y \in S : y > x})
           /\ Cardinality({y \in S : y > x}) \in Nat
<1>1. IsFiniteSet(1..n)
    BY FS_Interval
<1>2. {y \in S : y > x} \in SUBSET (1..n)
    BY Zenon
<1> QED
    BY <1>1, <1>2, FS_Subset, FS_CardinalityType, Zenon

\* The floor of the last k body rows is one of them (retained_floor_for_count_tx).
LEMMA FloorOfLastIsMember ==
    ASSUME NEW n \in Nat, NEW S, S \subseteq 1..n, S # {}, NEW k \in Nat \ {0}
    PROVE  /\ {x \in S : Cardinality({y \in S : y > x}) < k} # {}
           /\ FloorOfLast(S, k) \in S
<1> DEFINE T == {x \in S : Cardinality({y \in S : y > x}) < k}
<1>1. MaxOf(S) \in S /\ \A y \in S : y <= MaxOf(S)
    <2>1. S \subseteq 0..n
        OBVIOUS
    <2> QED
        BY <2>1, MaxOfIsGreatest, Zenon
<1>2. {y \in S : y > MaxOf(S)} = {}
    <2>1. \A y \in S : ~(y > MaxOf(S))
        <3> TAKE y \in S
        <3>1. y <= MaxOf(S)
            BY <1>1
        <3>2. y \in 1..n /\ MaxOf(S) \in 1..n
            BY <1>1, Zenon
        <3> QED
            BY <3>1, <3>2
    <2> QED
        BY <2>1, Zenon
<1>3. MaxOf(S) \in T
    BY <1>1, <1>2, FS_EmptySet
<1>4. T \subseteq Nat
    <2>1. T \subseteq 1..n
        BY Zenon
    <2> HIDE DEF T
    <2> QED
        BY <2>1
<1>5. MinOf(T) \in T
    <2> HIDE DEF T
    <2> QED
        BY <1>3, <1>4, MinOfIsLeast, Zenon
<1> QED
    BY <1>3, <1>5, Zenon DEF FloorOfLast

\* The floor of the last k rows of S once row m is added.
FloorWith(S, m, k) == IF k = 1 \/ S = {} THEN m ELSE FloorOfLast(S, k - 1)

\* One more row m after those of S moves the floor of the last k rows to the
\* floor of the last k - 1 rows of S: the reason why what
\* retained_floor_after_next_body foresees is what prune_to_count_tx finds.
LEMMA FloorOfLastNext ==
    ASSUME NEW m \in Nat, NEW S, S \subseteq 1..m, m \notin S, NEW k \in Nat \ {0}
    PROVE  FloorOfLast(S \cup {m}, k) = FloorWith(S, m, k)
<1> DEFINE Above(x) == {y \in S : y > x}
           T == {x \in S : Cardinality(Above(x)) < k - 1}
           U == {x \in S \cup {m} : Cardinality({y \in S \cup {m} : y > x}) < k}
<1>1. \A x \in S : Cardinality({y \in S \cup {m} : y > x}) = Cardinality(Above(x)) + 1
    <2> TAKE x \in S
    <2>1. {y \in S \cup {m} : y > x} = Above(x) \cup {m} /\ m \notin Above(x)
        OBVIOUS
    <2>2. IsFiniteSet(Above(x))
        BY AboveIsFinite, Zenon
    <2> HIDE DEF Above
    <2> QED
        BY <2>1, <2>2, FS_AddElement, Zenon
<1>2. {y \in S \cup {m} : y > m} = {}
    <2>1. \A y \in S \cup {m} : ~(y > m)
        <3> TAKE y \in S \cup {m}
        <3>1. y \in 1..m \/ y = m
            OBVIOUS
        <3> QED
            BY <3>1
    <2> QED
        BY <2>1, Zenon
<1>3. \A x \in S : Cardinality(Above(x)) \in Nat
    BY AboveIsFinite, Zenon
<1>4. U = T \cup {m}
    <2> HIDE DEF Above
    <2>1. m \in U
        BY <1>2, FS_EmptySet
    <2>2. \A x \in S : x \in U <=> x \in T
        BY <1>1, <1>3
    <2> QED
        BY <2>1, <2>2, Zenon
<1>5. U \subseteq Nat /\ T \subseteq Nat /\ \A x \in T : x < m
    <2>1. T \subseteq 1..m /\ m \notin T
        BY Zenon
    <2> HIDE DEF T, U
    <2>2. \A x \in T : x \in 1..m /\ x # m
        BY <2>1
    <2> QED
        BY <1>4, <2>2
<1>6. CASE k = 1 \/ S = {}
    <2>1. T = {}
        <3> HIDE DEF Above
        <3>1. \A x \in S : ~(Cardinality(Above(x)) < k - 1)
            BY <1>3, <1>6
        <3> QED
            BY <3>1, Zenon
    <2>2. MinOf(U) = m
        <3> HIDE DEF U, T
        <3> QED
            BY <1>4, <1>5, <2>1, MinOfIsUnique
    <2> QED
        BY <1>6, <2>2, Zenon DEF FloorOfLast, FloorWith
<1>7. CASE ~(k = 1 \/ S = {})
    <2>1. T # {}
        BY <1>7, FloorOfLastIsMember, k - 1 \in Nat \ {0}
    <2>2. MinOf(T) \in T /\ \A y \in T : MinOf(T) <= y
        <3> HIDE DEF T
        <3> QED
            BY <1>5, <2>1, MinOfIsLeast, Zenon
    <2>3. MinOf(U) = MinOf(T)
        <3>1. MinOf(T) \in U /\ \A y \in U : MinOf(T) <= y
            <4> HIDE DEF U, T
            <4>1. \A y \in U : y \in T \/ y = m
                BY <1>4
            <4>2. MinOf(T) \in U /\ MinOf(T) \in Nat /\ MinOf(T) < m
                BY <1>4, <1>5, <2>2, Zenon
            <4> QED
                BY <2>2, <4>1, <4>2
        <3> HIDE DEF U, T
        <3> QED
            BY <1>5, <3>1, MinOfIsUnique, Zenon
    <2> QED
        BY <1>7, <2>3, Zenon DEF FloorOfLast, FloorWith
<1> QED
    BY <1>6, <1>7, Zenon

\* With room for more rows than there are, the floor is the first of them.
LEMMA FloorOfAll ==
    ASSUME NEW n \in Nat, NEW S, S \subseteq 1..n, S # {}, NEW k \in Nat, Cardinality(S) <= k
    PROVE  \A y \in S : FloorOfLast(S, k) <= y
<1>1. IsFiniteSet(S) /\ Cardinality(S) \in Nat
    <2>1. IsFiniteSet(1..n)
        BY FS_Interval
    <2>2. S \in SUBSET (1..n)
        OBVIOUS
    <2> QED
        BY <2>1, <2>2, FS_Subset, FS_CardinalityType, Zenon
<1>2. \A x \in S : Cardinality({y \in S : y > x}) < k
    <2> TAKE x \in S
    <2>1. {y \in S : y > x} \in SUBSET S /\ {y \in S : y > x} # S
        OBVIOUS
    <2>2. Cardinality({y \in S : y > x}) \in Nat
        BY AboveIsFinite, Zenon
    <2> QED
        BY <1>1, <2>1, <2>2, FS_Subset
<1>3. {x \in S : Cardinality({y \in S : y > x}) < k} = S
    BY <1>2, Zenon
<1>4. S \subseteq Nat
    <2>1. \A x \in S : x \in 1..n
        OBVIOUS
    <2> QED
        BY <2>1
<1> QED
    BY <1>3, <1>4, MinOfIsLeast, Zenon DEF FloorOfLast

-----------------------------------------------------------------------------
(* The invariant.                                                           *)

Bodies == Seq(Chunks)
Kinds == {"format"} \cup BodyKinds
Meant == [kind : Kinds, body : Bodies]
Links == Nat \X Kinds \X Bodies
Rows == [kind : Kinds, body : Bodies, prev : Seq(Links), hmac : Seq(Links)]

Blobs == UNION {[D -> Bodies] : D \in SUBSET Bodies}
Dbs == [file : {"absent", "partial", "ready"}, gen : Nat, live : Bodies, events : Seq(Rows), cas : Blobs,
        floor : Nat]

\* The HMAC of row i of a world whose rows are as meant.
HmacOf(gen, rows, i) == [j \in 1..i |-> <<gen, rows[j].kind, rows[j].body>>]

\* Whatever was damaged, the kinds and the HMACs are those of the rows as meant.
Chained(d, rows) ==
    /\ rows \in Seq(Meant)
    /\ Len(rows) = Len(d.events)
    /\ \A i \in 1..Len(d.events) :
          d.events[i].kind = rows[i].kind /\ d.events[i].hmac = HmacOf(d.gen, rows, i)

Follows(d, rows) == Chained(d, rows) /\ (rows # <<>> => rows[Len(rows)].kind \in BodyKinds)

Referenced(d) == {d.events[i].body : i \in {j \in BodySeqs(d.events) : j >= d.floor}}

\* Nothing was damaged: the rows, ...
RowsIntact(d, rows) ==
    \A i \in 1..Len(d.events) :
        /\ d.events[i].body = rows[i].body
        /\ d.events[i].prev = IF i = 1 THEN <<>> ELSE d.events[i - 1].hmac

\* ... the blobs and the floor, and the live body.
Retention(d) ==
    /\ d.cas = [b \in Referenced(d) |-> b]
    /\ IF d.events = <<>> THEN d.floor = NullFloor ELSE d.floor \in BodySeqs(d.events)

Intact(d, rows) ==
    /\ RowsIntact(d, rows)
    /\ Retention(d)
    /\ d.live = IF rows = <<>> THEN <<>> ELSE rows[Len(rows)].body

Types ==
    /\ scope \in Scopes
    /\ minted \in Nat
    /\ up \in BOOLEAN
    /\ retained \in Nat
    /\ conn \in {"none", "Created", "Existing"}
    /\ pc \in {"idle", "open", "creating", "opened", "committed"}
    /\ req \in [verb : {"none"} \cup BodyKinds, body : Bodies]
    /\ acked \subseteq [gen : Nat, seq : Nat, body : Bodies]
    /\ damage \in Nat
    /\ db \in Dbs

\* Where the write in progress is.
Stage ==
    /\ up => retained # 0
    /\ pc # "idle" => up /\ req.verb # "none"
    /\ pc \in {"opened", "committed"} \/ conn # "none" => db.file = "ready"
    /\ pc = "committed" => log # <<>>
    /\ pc = "creating" => db.file = "partial"

\* The file and its generation.
Incarnation ==
    /\ db.file # "ready" => log = <<>>
    /\ db.gen = IF db.file = "absent" THEN 0 ELSE minted
    /\ db.file # "absent" => minted # 0

\* An address in use is one of a row of the incarnation it names.
Handed ==
    \A a \in acked :
        /\ a.gen \in 1..minted
        /\ a.gen = db.gen =>
             a.seq \in DOMAIN log /\ log[a.seq].kind \in BodyKinds /\ log[a.seq].body = a.body
        /\ a.seq # 0

StoreInv ==
    /\ Types
    /\ Stage
    /\ Incarnation
    /\ Handed
    /\ Follows(db, log)
    /\ damage = 0 => Intact(db, log)

-----------------------------------------------------------------------------
(* The transaction of a write.                                             *)

WithRow(d, kind, body) == [d EXCEPT !.events = AppendRow(d, kind, body)]

\* append_tx_inner extends the chain by one row and leaves the rest alone.
LEMMA WithRowExtends ==
    ASSUME NEW d \in Dbs, NEW k \in Kinds, NEW b \in Bodies
    PROVE  LET e == WithRow(d, k, b)
               n == Len(d.events)
           IN  /\ e \in Dbs
               /\ e.file = d.file /\ e.gen = d.gen /\ e.live = d.live /\ e.cas = d.cas /\ e.floor = d.floor
               /\ n \in Nat /\ Len(e.events) = n + 1
               /\ e.events # <<>>
               /\ \A i \in 1..n : e.events[i] = d.events[i]
               /\ e.events[n + 1].kind = k /\ e.events[n + 1].body = b
               /\ e.events[n + 1].prev = LatestHmac(d.events)
               /\ e.events[n + 1].hmac = EventHmac(LatestHmac(d.events), d.gen, k, b)
<1> DEFINE e == WithRow(d, k, b)
           n == Len(d.events)
           row == [kind |-> k, body |-> b, prev |-> LatestHmac(d.events),
                   hmac |-> EventHmac(LatestHmac(d.events), d.gen, k, b)]
<1>1. d.events \in Seq(Rows) /\ n \in Nat /\ d.gen \in Nat
    BY DEF Dbs
<1>2. LatestHmac(d.events) \in Seq(Links)
    <2>1. CASE d.events = <<>>
        BY <2>1 DEF LatestHmac
    <2>2. CASE d.events # <<>>
        <3>1. n \in 1..n
            BY <1>1, <2>2
        <3>2. d.events[n] \in Rows
            BY <1>1, <3>1
        <3> QED
            BY <2>2, <3>2, Zenon DEF LatestHmac, Rows
    <2> QED
        BY <2>1, <2>2, Zenon
<1>3. <<d.gen, k, b>> \in Links
    BY <1>1, Zenon DEF Links
<1>4. EventHmac(LatestHmac(d.events), d.gen, k, b) \in Seq(Links)
    BY <1>2, <1>3 DEF EventHmac
<1>5. row \in Rows
    BY <1>2, <1>4, Zenon DEF Rows
<1>6. AppendRow(d, k, b) = Append(d.events, row)
    BY DEF AppendRow
<1>7. Append(d.events, row) \in Seq(Rows)
    BY <1>1, <1>5
<1>8. e = [d EXCEPT !.events = Append(d.events, row)]
    BY <1>6, Zenon DEF WithRow
<1>9. /\ e \in Dbs
      /\ e.file = d.file /\ e.gen = d.gen /\ e.live = d.live /\ e.cas = d.cas /\ e.floor = d.floor
      /\ e.events = Append(d.events, row)
    <2> HIDE DEF row, e
    <2> QED
        BY <1>7, <1>8, Zenon DEF Dbs
<1>10. /\ Len(Append(d.events, row)) = n + 1
       /\ \A i \in 1..n : Append(d.events, row)[i] = d.events[i]
       /\ Append(d.events, row)[n + 1] = row
       /\ Append(d.events, row) # <<>>
    <2> HIDE DEF row
    <2> QED
        BY <1>1, <1>5
<1>11. /\ row.kind = k /\ row.body = b /\ row.prev = LatestHmac(d.events)
       /\ row.hmac = EventHmac(LatestHmac(d.events), d.gen, k, b)
    OBVIOUS
<1> HIDE DEF row
<1> QED
    BY <1>1, <1>9, <1>10, <1>11, Zenon

\* The HMACs of the rows before are untouched by a row that is added, and the
\* new one is theirs with the row appended.
LEMMA HmacExtends ==
    ASSUME NEW g \in Nat, NEW rows \in Seq(Meant), NEW k \in Kinds, NEW b \in Bodies
    PROVE  LET more == Append(rows, [kind |-> k, body |-> b])
               n == Len(rows)
           IN  /\ \A i \in 0..n : HmacOf(g, rows, i) \in Seq(Links) /\ HmacOf(g, more, i) = HmacOf(g, rows, i)
               /\ EventHmac(HmacOf(g, rows, n), g, k, b) = HmacOf(g, more, n + 1)
<1> DEFINE r == [kind |-> k, body |-> b]
           more == Append(rows, r)
           n == Len(rows)
<1>1. r \in Meant /\ more \in Seq(Meant) /\ n \in Nat /\ Len(more) = n + 1
    BY DEF Meant
<1>2. \A j \in 1..n : more[j] = rows[j] /\ rows[j] \in Meant
    BY <1>1
<1>3. more[n + 1] = r
    BY <1>1
<1>4. \A j \in 1..n : <<g, rows[j].kind, rows[j].body>> \in Links
    BY <1>2, Zenon DEF Meant, Links
<1>5. <<g, k, b>> \in Links
    BY DEF Links
<1> HIDE DEF more, n
<1>6. ASSUME NEW i \in 0..n
      PROVE  HmacOf(g, rows, i) \in Seq(Links) /\ HmacOf(g, more, i) = HmacOf(g, rows, i)
    <2>1. \A j \in 1..i : j \in 1..n
        BY <1>1
    <2>2. HmacOf(g, more, i) = HmacOf(g, rows, i)
        BY <1>2, <2>1, Zenon DEF HmacOf
    <2>3. \A j \in 1..i : <<g, rows[j].kind, rows[j].body>> \in Links
        BY <1>4, <2>1, Zenon
    <2>4. i \in Nat
        BY <1>1
    <2>5. HmacOf(g, rows, i) \in Seq(Links)
        <3> DEFINE e(j) == <<g, rows[j].kind, rows[j].body>>
        <3>1. \A j \in 1..i : e(j) \in Links
            BY <2>3, Zenon
        <3> HIDE DEF e
        <3>2. [j \in 1..i |-> e(j)] \in Seq(Links)
            BY <2>4, <3>1, IsASeq
        <3> QED
            BY <3>2, Zenon DEF HmacOf, e
    <2> QED
        BY <2>2, <2>5, Zenon
<1>7. EventHmac(HmacOf(g, rows, n), g, k, b) = HmacOf(g, more, n + 1)
    <2> DEFINE h == HmacOf(g, rows, n)
    <2>1. h \in Seq(Links) /\ n \in Nat
        BY <1>1, <1>6
    <2>2. Len(h) = n
        BY <2>1 DEF HmacOf
    <2>3. Append(h, <<g, k, b>>) = [j \in 1..n + 1 |-> IF j = n + 1 THEN <<g, k, b>> ELSE h[j]]
        <3> HIDE DEF h
        <3> QED
            BY <2>1, <2>2, <1>5
    <2>4. ASSUME NEW j \in 1..n + 1
          PROVE  (IF j = n + 1 THEN <<g, k, b>> ELSE h[j]) = <<g, more[j].kind, more[j].body>>
        <3>1. CASE j = n + 1
            BY <3>1, <1>3
        <3>2. CASE j # n + 1
            <4>1. j \in 1..n
                BY <3>2, <2>1
            <4> QED
                BY <3>2, <4>1, <1>2, <2>1, Zenon DEF HmacOf
        <3> QED
            BY <3>1, <3>2, Zenon
    <2> HIDE DEF h
    <2>5. Append(h, <<g, k, b>>) = HmacOf(g, more, n + 1)
        BY <2>3, <2>4, Zenon DEF HmacOf
    <2> QED
        BY <2>5, Zenon DEF EventHmac, h
<1> QED
    BY <1>6, <1>7, Zenon DEF more, n

\* The HMAC the next row is chained to is that of all rows as meant.
LEMMA LatestIsMeant ==
    ASSUME NEW d \in Dbs, NEW rows, Chained(d, rows)
    PROVE  LatestHmac(d.events) = HmacOf(d.gen, rows, Len(rows))
<1>1. d.events \in Seq(Rows) /\ Len(d.events) \in Nat /\ Len(rows) = Len(d.events)
    BY DEF Dbs, Chained
<1>2. CASE d.events = <<>>
    <2>1. Len(rows) = 0
        BY <1>1, <1>2, Zenon
    <2>2. [j \in 1..0 |-> <<d.gen, rows[j].kind, rows[j].body>>] = <<>>
        OBVIOUS
    <2> QED
        BY <1>2, <2>1, <2>2, Zenon DEF LatestHmac, HmacOf
<1>3. CASE d.events # <<>>
    <2>1. Len(d.events) \in 1..Len(d.events)
        BY <1>1, <1>3
    <2> QED
        BY <1>1, <1>3, <2>1, Zenon DEF LatestHmac, Chained
<1> QED
    BY <1>2, <1>3, Zenon

\* A row that is added as meant keeps the chain as meant.
LEMMA ChainedExtends ==
    ASSUME NEW d \in Dbs, NEW rows, Chained(d, rows), NEW k \in Kinds, NEW b \in Bodies
    PROVE  Chained(WithRow(d, k, b), Append(rows, [kind |-> k, body |-> b]))
<1> DEFINE e == WithRow(d, k, b)
           n == Len(d.events)
           more == Append(rows, [kind |-> k, body |-> b])
<1>1. rows \in Seq(Meant) /\ Len(rows) = n /\ n \in Nat /\ d.gen \in Nat
    BY DEF Chained, Dbs
<1>2. /\ e.gen = d.gen /\ Len(e.events) = n + 1
      /\ \A i \in 1..n : e.events[i] = d.events[i]
      /\ e.events[n + 1].kind = k
      /\ e.events[n + 1].hmac = EventHmac(LatestHmac(d.events), d.gen, k, b)
    BY WithRowExtends
<1>3. [kind |-> k, body |-> b] \in Meant
    BY Zenon DEF Meant
<1>4. /\ more \in Seq(Meant) /\ Len(more) = n + 1
      /\ \A i \in 1..n : more[i] = rows[i]
      /\ more[n + 1].kind = k
    BY <1>1, <1>3
<1>5. /\ \A i \in 0..n : HmacOf(d.gen, more, i) = HmacOf(d.gen, rows, i)
      /\ EventHmac(LatestHmac(d.events), d.gen, k, b) = HmacOf(d.gen, more, n + 1)
    BY <1>1, HmacExtends, LatestIsMeant
<1>6. \A i \in 1..n : d.events[i].kind = rows[i].kind /\ d.events[i].hmac = HmacOf(d.gen, rows, i)
    BY DEF Chained
<1> HIDE DEF e, more, n
<1>7. ASSUME NEW i \in 1..n + 1
      PROVE  e.events[i].kind = more[i].kind /\ e.events[i].hmac = HmacOf(e.gen, more, i)
    <2>1. CASE i = n + 1
        BY <2>1, <1>2, <1>4, <1>5, Zenon
    <2>2. CASE i # n + 1
        <3>1. i \in 1..n /\ i \in 0..n
            BY <1>1, <2>2
        <3> QED
            BY <3>1, <1>2, <1>4, <1>5, <1>6, Zenon
    <2> QED
        BY <2>1, <2>2, Zenon
<1>8. Chained(e, more)
    BY <1>2, <1>4, <1>7, Zenon DEF Chained
<1> QED
    BY <1>8, Zenon DEF e, more

\* ... and the rows undamaged.
LEMMA RowsIntactExtends ==
    ASSUME NEW d \in Dbs, NEW rows, Chained(d, rows), RowsIntact(d, rows), NEW k \in Kinds, NEW b \in Bodies
    PROVE  RowsIntact(WithRow(d, k, b), Append(rows, [kind |-> k, body |-> b]))
<1> DEFINE e == WithRow(d, k, b)
           n == Len(d.events)
           more == Append(rows, [kind |-> k, body |-> b])
<1>1. rows \in Seq(Meant) /\ Len(rows) = n /\ n \in Nat /\ d.events \in Seq(Rows)
    BY DEF Chained, Dbs
<1>2. /\ Len(e.events) = n + 1
      /\ \A i \in 1..n : e.events[i] = d.events[i]
      /\ e.events[n + 1].body = b
      /\ e.events[n + 1].prev = LatestHmac(d.events)
    BY WithRowExtends
<1>3. [kind |-> k, body |-> b] \in Meant
    BY Zenon DEF Meant
<1>4. /\ \A i \in 1..n : more[i] = rows[i]
      /\ more[n + 1].body = b
    BY <1>1, <1>3
<1>5. LatestHmac(d.events) = IF n + 1 = 1 THEN <<>> ELSE d.events[n].hmac
    BY <1>1 DEF LatestHmac
<1>6. \A i \in 1..n : /\ d.events[i].body = rows[i].body
                      /\ d.events[i].prev = IF i = 1 THEN <<>> ELSE d.events[i - 1].hmac
    BY Zenon DEF RowsIntact
<1> HIDE DEF e, more, n
<1>7. ASSUME NEW i \in 1..n + 1
      PROVE  /\ e.events[i].body = more[i].body
             /\ e.events[i].prev = IF i = 1 THEN <<>> ELSE e.events[i - 1].hmac
    <2>1. CASE i = n + 1
        <3>1. i # 1 => n \in 1..n /\ i - 1 = n
            BY <1>1, <2>1
        <3> QED
            BY <1>1, <2>1, <1>2, <1>4, <1>5, <3>1, Zenon
    <2>2. CASE i # n + 1
        <3>1. i \in 1..n /\ (i # 1 => i - 1 \in 1..n)
            BY <1>1, <2>2
        <3> QED
            BY <3>1, <1>2, <1>4, <1>6, Zenon
    <2> QED
        BY <2>1, <2>2, Zenon
<1>8. RowsIntact(e, more)
    BY <1>2, <1>7, Zenon DEF RowsIntact
<1> QED
    BY <1>8, Zenon DEF e, more

\* A row that is added is a body row or leaves the body rows alone.
LEMMA BodySeqsExtend ==
    ASSUME NEW d \in Dbs, NEW k \in Kinds, NEW b \in Bodies
    PROVE  LET e == WithRow(d, k, b)
               n == Len(d.events)
           IN  /\ BodySeqs(d.events) \subseteq 1..n
               /\ BodySeqs(e.events) = BodySeqs(d.events) \cup (IF k \in BodyKinds THEN {n + 1} ELSE {})
<1> DEFINE e == WithRow(d, k, b)
           n == Len(d.events)
<1>1. n \in Nat /\ DOMAIN d.events = 1..n
    BY DEF Dbs
<1>2. /\ e \in Dbs /\ Len(e.events) = n + 1
      /\ \A i \in 1..n : e.events[i] = d.events[i]
      /\ e.events[n + 1].kind = k
    BY WithRowExtends
<1> HIDE DEF e
<1>3. DOMAIN e.events = 1..n + 1
    BY <1>2 DEF Dbs
<1> HIDE DEF n
<1>4. BodySeqs(d.events) \subseteq 1..n
    BY <1>1, Zenon DEF BodySeqs
<1>5. ASSUME NEW i
      PROVE  i \in BodySeqs(e.events) <=> i \in BodySeqs(d.events) \/ (k \in BodyKinds /\ i = n + 1)
    <2>1. i \in 1..n + 1 <=> i \in 1..n \/ i = n + 1
        BY <1>1
    <2>2. n + 1 \notin 1..n
        BY <1>1
    <2> QED
        BY <1>1, <1>2, <1>3, <2>1, <2>2, Zenon DEF BodySeqs
<1>6. BodySeqs(e.events) = BodySeqs(d.events) \cup (IF k \in BodyKinds THEN {n + 1} ELSE {})
    BY <1>5, Zenon
<1> QED
    BY <1>4, <1>6, Zenon DEF e, n

\* retain_body_tx files bodies only.
LEMMA RetainType ==
    ASSUME NEW cas \in Blobs, NEW b \in Bodies
    PROVE  Retain(cas, b) \in Blobs /\ DOMAIN Retain(cas, b) = DOMAIN cas \cup {b}
<1>1. PICK D \in SUBSET Bodies : cas \in [D -> Bodies]
    BY Zenon DEF Blobs
<1>2. CASE b \in DOMAIN cas
    BY <1>2, Zenon DEF Retain
<1>3. CASE b \notin DOMAIN cas
    <2>1. Retain(cas, b) \in [D \cup {b} -> Bodies]
        BY <1>1, <1>3, Zenon DEF Retain
    <2>2. D \cup {b} \in SUBSET Bodies
        OBVIOUS
    <2>3. Retain(cas, b) \in Blobs
        BY <2>1, <2>2, Zenon DEF Blobs
    <2> QED
        BY <1>1, <2>1, <2>3, Zenon
<1> QED
    BY <1>2, <1>3, Zenon

\* prune_to_count_tx keeps blobs.
LEMMA WithoutType ==
    ASSUME NEW cas \in Blobs, NEW gone
    PROVE  Without(cas, gone) \in Blobs
<1>1. PICK D \in SUBSET Bodies : cas \in [D -> Bodies]
    BY DEF Blobs
<1>2. Without(cas, gone) \in [D \ gone -> Bodies]
    BY <1>1, Zenon DEF Without
<1>3. D \ gone \in SUBSET Bodies
    OBVIOUS
<1> QED
    BY <1>2, <1>3, Zenon DEF Blobs

\* The database of a write after each of its statements (CommitBody).
Opened(d, g) == IF g THEN WithRow(d, "format", <<>>) ELSE d
OpenedRows(rows, g) == IF g THEN Append(rows, [kind |-> "format", body |-> <<>>]) ELSE rows
Stored(d, body, g) == [Opened(d, g) EXCEPT !.cas = Retain(@, body), !.live = body]
Marked(d, kind, body, g) == MarkRetentionStarted(WithRow(Stored(d, body, g), kind, body))

\* The format row changes neither the body rows nor the other fields.
LEMMA OpenedFacts ==
    ASSUME NEW d \in Dbs, NEW g \in BOOLEAN
    PROVE  LET o == Opened(d, g)
           IN  /\ o \in Dbs
               /\ o.file = d.file /\ o.gen = d.gen /\ o.live = d.live /\ o.cas = d.cas /\ o.floor = d.floor
               /\ BodySeqs(o.events) = BodySeqs(d.events)
               /\ Len(d.events) \in Nat /\ Len(o.events) \in Nat /\ Len(o.events) >= Len(d.events)
               /\ \A i \in 1..Len(d.events) : o.events[i] = d.events[i]
<1>1. "format" \in Kinds /\ "format" \notin BodyKinds /\ <<>> \in Bodies
    BY DEF Kinds, BodyKinds, Bodies
<1>2. Len(d.events) \in Nat
    BY DEF Dbs
<1>3. CASE g
    <2> DEFINE o == WithRow(d, "format", <<>>)
    <2>1. /\ o \in Dbs
          /\ o.file = d.file /\ o.gen = d.gen /\ o.live = d.live /\ o.cas = d.cas /\ o.floor = d.floor
          /\ Len(o.events) = Len(d.events) + 1
          /\ \A i \in 1..Len(d.events) : o.events[i] = d.events[i]
        BY <1>1, WithRowExtends
    <2>2. BodySeqs(o.events) = BodySeqs(d.events)
        BY <1>1, BodySeqsExtend, Zenon
    <2> QED
        BY <1>2, <1>3, <2>1, <2>2 DEF Opened
<1>4. CASE ~g
    BY <1>2, <1>4 DEF Opened
<1> QED
    BY <1>3, <1>4, Zenon

\* What Marked makes of a database: one more row, its body filed, the floor
\* set by the first body row.
MarkedIs(f, d, kind, body, g) ==
    LET m == Len(f.events)
        n == Len(d.events)
    IN  /\ f \in Dbs
        /\ f.file = d.file /\ f.gen = d.gen /\ f.live = body
        /\ f.events = WithRow(Opened(d, g), kind, body).events
        /\ f.cas = Retain(d.cas, body)
        /\ f.floor = (IF d.floor = NullFloor THEN m ELSE d.floor)
        /\ n \in Nat /\ m \in Nat /\ m > n
        /\ BodySeqs(d.events) \subseteq 1..n
        /\ BodySeqs(f.events) = BodySeqs(d.events) \cup {m}
        /\ \A i \in BodySeqs(d.events) : f.events[i].body = d.events[i].body
        /\ f.events[m].body = body

\* The database before the prune.
LEMMA MarkedFacts ==
    ASSUME NEW d \in Dbs, NEW kind \in BodyKinds, NEW body \in Bodies, NEW g \in BOOLEAN
    PROVE  MarkedIs(Marked(d, kind, body, g), d, kind, body, g)
<1> DEFINE o == Opened(d, g)
           s == Stored(d, body, g)
           w == WithRow(s, kind, body)
           f == Marked(d, kind, body, g)
           m == Len(f.events)
           n == Len(d.events)
<1>1. kind \in Kinds
    BY Zenon DEF Kinds
<1>2. /\ o \in Dbs
      /\ o.file = d.file /\ o.gen = d.gen /\ o.live = d.live /\ o.cas = d.cas /\ o.floor = d.floor
      /\ BodySeqs(o.events) = BodySeqs(d.events)
      /\ n \in Nat /\ Len(o.events) \in Nat /\ Len(o.events) >= n
      /\ \A i \in 1..n : o.events[i] = d.events[i]
    BY OpenedFacts, Zenon
<1>3. Retain(d.cas, body) \in Blobs
    BY RetainType, Zenon DEF Dbs
<1>4. s = [o EXCEPT !.cas = Retain(d.cas, body), !.live = body]
    BY <1>2, Zenon DEF Stored
<1> HIDE DEF o, s
<1>5. /\ s \in Dbs
      /\ s.file = o.file /\ s.gen = o.gen /\ s.live = body /\ s.cas = Retain(d.cas, body) /\ s.floor = o.floor
      /\ s.events = o.events
    BY <1>2, <1>3, <1>4, Zenon DEF Dbs
<1>6. /\ w \in Dbs
      /\ w.file = s.file /\ w.gen = s.gen /\ w.live = s.live /\ w.cas = s.cas /\ w.floor = s.floor
      /\ Len(w.events) = Len(s.events) + 1
      /\ \A i \in 1..Len(s.events) : w.events[i] = s.events[i]
      /\ w.events[Len(s.events) + 1].body = body
    BY <1>1, <1>5, WithRowExtends
<1>7. /\ BodySeqs(s.events) \subseteq 1..Len(s.events)
      /\ BodySeqs(w.events) = BodySeqs(s.events) \cup {Len(s.events) + 1}
    BY <1>1, <1>5, BodySeqsExtend, Zenon
<1>8. w.events = WithRow(o, kind, body).events
    <2>1. w.events = AppendRow(s, kind, body)
        BY <1>5, Zenon DEF WithRow, Dbs
    <2>2. WithRow(o, kind, body).events = AppendRow(o, kind, body)
        BY <1>2, Zenon DEF WithRow, Dbs
    <2>3. AppendRow(s, kind, body) = AppendRow(o, kind, body)
        BY <1>5, Zenon DEF AppendRow
    <2> QED
        BY <2>1, <2>2, <2>3, Zenon
<1>9. f = [w EXCEPT !.floor = IF w.floor = NullFloor THEN Len(w.events) ELSE w.floor]
    BY Zenon DEF Marked, MarkRetentionStarted, s
<1> HIDE DEF w, f
<1>10. /\ f \in Dbs
       /\ f.file = w.file /\ f.gen = w.gen /\ f.live = w.live /\ f.cas = w.cas /\ f.events = w.events
       /\ f.floor = IF w.floor = NullFloor THEN Len(w.events) ELSE w.floor
    <2> DEFINE floor == IF w.floor = NullFloor THEN Len(w.events) ELSE w.floor
    <2>1. floor \in Nat
        BY <1>6 DEF Dbs
    <2>2. f = [w EXCEPT !.floor = floor]
        BY <1>9, Zenon
    <2> HIDE DEF floor
    <2>3. /\ f \in Dbs
          /\ f.file = w.file /\ f.gen = w.gen /\ f.live = w.live /\ f.cas = w.cas /\ f.events = w.events
          /\ f.floor = floor
        BY <1>6, <2>1, <2>2, Zenon DEF Dbs
    <2> QED
        BY <2>3, Zenon DEF floor
<1>11. m = Len(o.events) + 1
    BY <1>5, <1>6, <1>10, Zenon
<1>12. BodySeqs(d.events) \subseteq 1..n
    BY <1>1, BodySeqsExtend, Zenon
<1>13. \A i \in BodySeqs(d.events) : f.events[i].body = d.events[i].body
    <2> TAKE i \in BodySeqs(d.events)
    <2>1. i \in 1..n /\ i \in 1..Len(o.events)
        BY <1>2, <1>12
    <2> QED
        BY <2>1, <1>2, <1>5, <1>6, <1>10, Zenon
<1>14. BodySeqs(f.events) = BodySeqs(d.events) \cup {m} /\ f.events[m].body = body
    BY <1>2, <1>5, <1>6, <1>7, <1>10, <1>11, Zenon
<1>15. m \in Nat /\ m > n
    BY <1>2, <1>11
<1>16. /\ f.file = d.file /\ f.gen = d.gen /\ f.live = body
       /\ f.events = WithRow(o, kind, body).events
       /\ f.cas = Retain(d.cas, body)
       /\ f.floor = IF d.floor = NullFloor THEN m ELSE d.floor
    BY <1>2, <1>5, <1>6, <1>8, <1>10, Zenon
<1> QED
    BY <1>2, <1>10, <1>12, <1>13, <1>14, <1>15, <1>16, Zenon DEF MarkedIs, f, o

\* prune_to_count_tx leaves the rows and the live body alone, and the blobs are
\* still those of the rows from the floor on.
LEMMA PruneFacts ==
    ASSUME NEW f \in Dbs, BodySeqs(f.events) # {}, NEW k \in Nat \ {0}
    PROVE  LET c == PruneToCount(f, k)
           IN  /\ c \in Dbs
               /\ c.file = f.file /\ c.gen = f.gen /\ c.live = f.live /\ c.events = f.events
               /\ Retention(f) => Retention(c)
<1> DEFINE c == PruneToCount(f, k)
           S == BodySeqs(f.events)
           n == Len(f.events)
           floor == FloorOfLast(S, k)
           gone == Unreferenced(f, floor)
<1>1. n \in Nat /\ DOMAIN f.events = 1..n
    BY DEF Dbs
<1>2. S \subseteq 1..n
    BY <1>1, Zenon DEF BodySeqs
<1>3. floor \in S
    <2> HIDE DEF S
    <2> QED
        BY <1>1, <1>2, FloorOfLastIsMember, Zenon DEF S
<1>4. floor \in Nat
    BY <1>2, <1>3
<1>5. f.events # <<>>
    BY <1>1, <1>2, <1>3
<1>6. CASE floor <= f.floor
    <2>1. c = f
        BY <1>6, Zenon DEF PruneToCount
    <2> QED
        BY <2>1, Zenon
<1>7. CASE ~(floor <= f.floor)
    <2>1. c = [f EXCEPT !.cas = Without(f.cas, gone), !.floor = floor]
        BY <1>7, Zenon DEF PruneToCount
    <2>2. Without(f.cas, gone) \in Blobs
        BY WithoutType, Zenon DEF Dbs
    <2> HIDE DEF c, gone, floor
    <2>3. /\ c \in Dbs
          /\ c.file = f.file /\ c.gen = f.gen /\ c.live = f.live /\ c.events = f.events
          /\ c.cas = Without(f.cas, gone) /\ c.floor = floor
        BY <1>4, <2>1, <2>2, Zenon DEF Dbs
    <2>4. ASSUME Retention(f)
          PROVE  Retention(c)
        <3>1. f.cas = [b \in Referenced(f) |-> b] /\ f.floor \in Nat
            BY <2>4, Zenon DEF Retention, Dbs
        <3>2. ASSUME NEW b
              PROVE  b \in Referenced(f) /\ b \notin gone <=> b \in Referenced(c)
            <4>1. b \in Referenced(f) <=> \E i \in S : i >= f.floor /\ f.events[i].body = b
                BY Zenon DEF Referenced
            <4>2. b \in Referenced(c) <=> \E i \in S : i >= floor /\ f.events[i].body = b
                BY <2>3, Zenon DEF Referenced
            <4>3. b \in gone <=> /\ b \in Referenced(f)
                                 /\ \E i \in S : i < floor /\ f.events[i].body = b
                                 /\ \A i \in S : i >= floor => f.events[i].body # b
                BY <3>1, Zenon DEF gone, Unreferenced
            <4>4. \A i \in S : i \in Nat /\ (i >= floor \/ i < floor) /\ (i >= floor => i >= f.floor)
                <5> TAKE i \in S
                <5>1. i \in 1..n
                    BY <1>2, Zenon
                <5> QED
                    BY <5>1, <1>4, <1>7, <3>1
            <4> HIDE DEF S
            <4> QED
                BY <4>1, <4>2, <4>3, <4>4, Zenon
        <3>3. Referenced(f) \ gone = Referenced(c)
            BY <3>2, Zenon
        <3>4. c.cas = [b \in Referenced(c) |-> b]
            BY <2>3, <3>1, <3>3, Zenon DEF Without
        <3> QED
            BY <1>3, <1>5, <2>3, <3>4, Zenon DEF Retention
    <2> QED
        BY <2>3, <2>4, Zenon DEF c
<1> QED
    BY <1>6, <1>7, Zenon

\* Before the prune the blobs are those of the rows from the floor on.
LEMMA MarkedRetention ==
    ASSUME NEW d \in Dbs, NEW kind \in BodyKinds, NEW body \in Bodies, NEW g \in BOOLEAN, Retention(d)
    PROVE  Retention(Marked(d, kind, body, g))
<1> DEFINE f == Marked(d, kind, body, g)
           m == Len(f.events)
           n == Len(d.events)
           S == BodySeqs(d.events)
<1>1. /\ f \in Dbs
      /\ f.cas = Retain(d.cas, body)
      /\ f.floor = (IF d.floor = NullFloor THEN m ELSE d.floor)
      /\ n \in Nat /\ m \in Nat /\ m > n
      /\ S \subseteq 1..n
      /\ BodySeqs(f.events) = S \cup {m}
      /\ \A i \in S : f.events[i].body = d.events[i].body
      /\ f.events[m].body = body
    <2>1. MarkedIs(f, d, kind, body, g)
        BY MarkedFacts, Zenon
    <2> HIDE DEF f
    <2> QED
        BY <2>1, Zenon DEF MarkedIs
<1>2. d.cas = [b \in Referenced(d) |-> b] /\ d.floor \in Nat
    BY Zenon DEF Retention, Dbs
<1>3. IF d.events = <<>> THEN d.floor = NullFloor ELSE d.floor \in S
    BY Zenon DEF Retention
<1>4. d.events = <<>> => S = {}
    BY DEF BodySeqs
<1> HIDE DEF f, n, S
<1>5. f.events # <<>>
    BY <1>1 DEF Dbs
<1>6. f.floor \in S \cup {m}
    BY <1>1, <1>3, Zenon
<1>7. \A i \in S : i \in 1..n
    BY <1>1, Zenon
<1>8. d.floor = NullFloor => S = {}
    BY <1>3, <1>4, <1>7 DEF NullFloor
<1>9. ASSUME NEW b
      PROVE  b \in Referenced(f) <=> b \in Referenced(d) \/ b = body
    <2>1. b \in Referenced(d) <=> \E i \in S : i >= d.floor /\ d.events[i].body = b
        BY DEF Referenced, S
    <2>2. b \in Referenced(f) <=> \E i \in S \cup {m} : i >= f.floor /\ f.events[i].body = b
        BY <1>1, Zenon DEF Referenced
    <2>3. CASE d.floor = NullFloor
        <3>1. f.floor = m /\ S = {} /\ m >= m
            BY <1>1, <1>8, <2>3
        <3> QED
            BY <2>1, <2>2, <3>1, <1>1, Zenon
    <2>4. CASE d.floor # NullFloor
        <3>1. f.floor = d.floor /\ d.floor \in S
            BY <1>1, <1>3, <2>4, Zenon
        <3>2. m >= d.floor
            <4>1. d.floor \in 1..n
                BY <3>1, <1>7, Zenon
            <4>2. n \in Nat /\ m \in Nat /\ m > n
                BY <1>1, Zenon
            <4> HIDE DEF m
            <4> QED
                BY <4>1, <4>2
        <3> QED
            BY <2>1, <2>2, <3>1, <3>2, <1>1, Zenon
    <2> QED
        BY <2>3, <2>4, Zenon
<1>10. Referenced(f) = Referenced(d) \cup {body}
    BY <1>9, Zenon
<1>11. Retain(d.cas, body) = [b \in Referenced(f) |-> b]
    <2>1. CASE body \in DOMAIN d.cas
        BY <2>1, <1>2, <1>10, Zenon DEF Retain
    <2>2. CASE body \notin DOMAIN d.cas
        BY <2>2, <1>2, <1>10, Zenon DEF Retain
    <2> QED
        BY <2>1, <2>2, Zenon
<1>12. Retention(f)
    BY <1>1, <1>5, <1>6, <1>11, ZenonT(30) DEF Retention
<1> QED
    BY <1>12, Zenon DEF f

\* The transaction as a whole.
LEMMA CommitFacts ==
    ASSUME NEW d \in Dbs, NEW rows, Chained(d, rows), NEW kind \in BodyKinds, NEW body \in Bodies,
           NEW g \in BOOLEAN, NEW k \in Nat \ {0}
    PROVE  LET c == CommitBody(d, kind, body, k, g)
               more == Append(OpenedRows(rows, g), [kind |-> kind, body |-> body])
           IN  /\ c \in Dbs
               /\ c.file = d.file /\ c.gen = d.gen
               /\ Follows(c, more)
               /\ RowsIntact(d, rows) /\ Retention(d) => Intact(c, more)
<1> DEFINE o == Opened(d, g)
           mid == OpenedRows(rows, g)
           f == Marked(d, kind, body, g)
           c == CommitBody(d, kind, body, k, g)
           w == WithRow(o, kind, body)
           more == Append(mid, [kind |-> kind, body |-> body])
<1>1. kind \in Kinds /\ "format" \in Kinds /\ <<>> \in Bodies
    BY DEF Kinds, Bodies
<1>2. c = PruneToCount(f, k)
    BY Zenon DEF CommitBody, Marked, Stored, Opened, WithRow
<1>3. /\ f \in Dbs /\ f.file = d.file /\ f.gen = d.gen /\ f.live = body
      /\ f.events = w.events
      /\ BodySeqs(f.events) = BodySeqs(d.events) \cup {Len(f.events)}
    <2>1. MarkedIs(f, d, kind, body, g)
        BY MarkedFacts, Zenon
    <2> HIDE DEF f
    <2> QED
        BY <2>1, Zenon DEF MarkedIs
<1>4. Retention(d) => Retention(f)
    BY MarkedRetention, Zenon
<1> HIDE DEF f, c
<1>5. /\ c \in Dbs /\ c.file = f.file /\ c.gen = f.gen /\ c.live = f.live /\ c.events = f.events
      /\ Retention(f) => Retention(c)
    BY <1>2, <1>3, PruneFacts, Zenon
<1>6. o \in Dbs /\ o.gen = d.gen
    BY OpenedFacts, Zenon
<1>7. Chained(o, mid)
    BY <1>1, ChainedExtends, Zenon DEF Opened, OpenedRows
<1>8. RowsIntact(d, rows) => RowsIntact(o, mid)
    BY <1>1, RowsIntactExtends, Zenon DEF Opened, OpenedRows
<1> HIDE DEF o, mid
<1>9. Chained(w, more) /\ w.gen = o.gen
    BY <1>1, <1>6, <1>7, ChainedExtends, WithRowExtends
<1>10. RowsIntact(d, rows) => RowsIntact(w, more)
    BY <1>1, <1>6, <1>7, <1>8, RowsIntactExtends, ZenonT(30)
<1>11. mid \in Seq(Meant) /\ [kind |-> kind, body |-> body] \in Meant
    BY <1>1, <1>7, Zenon DEF Chained, Meant
<1>12. more # <<>> /\ more[Len(more)] = [kind |-> kind, body |-> body]
    BY <1>11
<1> HIDE DEF w, more
<1>13. Follows(c, more)
    BY <1>3, <1>5, <1>6, <1>9, <1>12 DEF Follows, Chained
<1>14. ASSUME RowsIntact(d, rows), Retention(d)
       PROVE  Intact(c, more)
    <2>1. RowsIntact(c, more)
        BY <1>3, <1>5, <1>10, <1>14 DEF RowsIntact
    <2>2. Retention(c)
        BY <1>4, <1>5, <1>14, Zenon
    <2>3. c.live = IF more = <<>> THEN <<>> ELSE more[Len(more)].body
        BY <1>3, <1>5, <1>12
    <2> QED
        BY <2>1, <2>2, <2>3, Zenon DEF Intact
<1> QED
    BY <1>3, <1>5, <1>13, <1>14, Zenon DEF c, more, mid

-----------------------------------------------------------------------------
(* What the gates of a write establish.                                    *)

\* A row that verifies against any HMAC before it has the body that was meant:
\* the body is part of what its HMAC was computed from.
LEMMA RowTells ==
    ASSUME NEW d \in Dbs, NEW rows, Chained(d, rows), NEW i \in 1..Len(d.events),
           NEW prev \in Seq(Links), EventVerifies(d, i, prev)
    PROVE  d.events[i].body = rows[i].body
<1> DEFINE row == d.events[i]
           link == <<d.gen, row.kind, row.body>>
<1>1. i \in Nat /\ i >= 1
    BY DEF Dbs
<1>2. row \in Rows /\ d.gen \in Nat
    BY DEF Dbs
<1>3. link \in Links
    BY <1>2, Zenon DEF Links, Rows
<1>4. row.hmac = Append(prev, link)
    BY Zenon DEF EventVerifies, EventHmac
<1>5. row.hmac = HmacOf(d.gen, rows, i)
    BY Zenon DEF Chained
<1> HIDE DEF row, link
<1>6. Len(Append(prev, link)) = Len(prev) + 1 /\ Append(prev, link)[Len(prev) + 1] = link
    BY <1>3
<1>7. Len(HmacOf(d.gen, rows, i)) = i
    BY <1>1 DEF HmacOf
<1>8. HmacOf(d.gen, rows, i)[i] = link
    BY <1>4, <1>5, <1>6, <1>7, Zenon
<1>9. HmacOf(d.gen, rows, i)[i] = <<d.gen, rows[i].kind, rows[i].body>>
    BY <1>1 DEF HmacOf
<1>10. link[3] = rows[i].body
    BY <1>8, <1>9
<1> QED
    BY <1>10, Zenon DEF link, row

\* The HMAC a row is checked against has the type of one.
LEMMA PrevType ==
    ASSUME NEW d \in Dbs, NEW i \in 1..Len(d.events)
    PROVE  (IF i = 1 THEN <<>> ELSE d.events[i - 1].hmac) \in Seq(Links)
<1>1. CASE i = 1
    BY <1>1
<1>2. CASE i # 1
    <2>1. i - 1 \in 1..Len(d.events)
        BY <1>2 DEF Dbs
    <2>2. d.events[i - 1] \in Rows
        BY <2>1 DEF Dbs
    <2> QED
        BY <1>2, <2>2, Zenon DEF Rows
<1> QED
    BY <1>1, <1>2, Zenon

\* The last row of a chain carries a body, so it is the latest body row.
LEMMA LatestIsLast ==
    ASSUME NEW d \in Dbs, NEW rows, Follows(d, rows), d.events # <<>>
    PROVE  /\ Len(d.events) \in BodySeqs(d.events)
           /\ Len(d.events) \in 1..Len(d.events)
           /\ MaxOf(BodySeqs(d.events)) = Len(d.events)
           /\ rows # <<>>
<1> DEFINE n == Len(d.events)
           S == BodySeqs(d.events)
<1>1. n \in Nat /\ DOMAIN d.events = 1..n /\ d.events \in Seq(Rows)
    BY DEF Dbs
<1>2. n \in 1..n
    BY <1>1
<1>3. rows \in Seq(Meant) /\ Len(rows) = n
    BY Zenon DEF Follows, Chained
<1>4. rows # <<>>
    BY <1>2, <1>3
<1>5. n \in S
    BY <1>1, <1>2, <1>3, <1>4, Zenon DEF BodySeqs, Follows, Chained
<1>6. S \subseteq 1..n
    BY <1>1, Zenon DEF BodySeqs
<1> HIDE DEF n, S
<1>7. S \subseteq 0..n
    BY <1>1, <1>6
<1>8. MaxOf(S) \in S /\ n <= MaxOf(S)
    BY <1>1, <1>5, <1>7, MaxOfIsGreatest, Zenon
<1>9. MaxOf(S) \in 1..n
    BY <1>6, <1>8, Zenon
<1>10. MaxOf(S) = n
    BY <1>1, <1>8, <1>9
<1> QED
    BY <1>2, <1>4, <1>5, <1>10, Zenon DEF n, S

\* A file whose last row and live body verify has the body that was meant last.
LEMMA TailTells ==
    ASSUME NEW d \in Dbs, NEW rows, Follows(d, rows), d.events # <<>>,
           EventVerifies(d, Len(d.events), IF Len(d.events) = 1 THEN <<>> ELSE d.events[Len(d.events) - 1].hmac),
           LiveBodyVerifies(d)
    PROVE  d.live = rows[Len(rows)].body
<1> DEFINE n == Len(d.events)
<1>1. n \in BodySeqs(d.events) /\ n \in 1..n /\ MaxOf(BodySeqs(d.events)) = n
    BY LatestIsLast, Zenon
<1>2. d.events[n].body = rows[n].body
    BY <1>1, PrevType, RowTells, Zenon DEF Follows
<1>3. d.live = d.events[n].body
    BY <1>1, Zenon DEF LiveBodyVerifies, LatestBodyEvent
<1> QED
    BY <1>2, <1>3, Zenon DEF Follows, Chained

\* The gates check at least the last row and the live body.
LEMMA GateChecks ==
    ASSUME GatePasses(req.verb)
    PROVE  /\ LiveBodyVerifies(db)
           /\ db.events # <<>> /\ db \in Dbs =>
                EventVerifies(db, Len(db.events),
                              IF Len(db.events) = 1 THEN <<>> ELSE db.events[Len(db.events) - 1].hmac)
<1>1. CASE FullGate(db, TRUE) \/ FullGate(db, FALSE)
    <2>1. db \in Dbs /\ db.events # <<>> => Len(db.events) \in DOMAIN db.events
        BY DEF Dbs
    <2> QED
        BY <1>1, <2>1, Zenon DEF FullGate, VerifyStatement
<1>2. CASE TailGate(db)
    BY <1>2, Zenon DEF TailGate, TailIntact
<1> QED
    BY <1>1, <1>2, Zenon DEF GatePasses

\* What a write that passes its gate stores is what its client meant.
LEMMA WrittenAsMeant ==
    ASSUME StoreInv, GatePasses(req.verb)
    PROVE  NewBody = IntendedBody /\ NewBody \in Bodies
<1>1. db \in Dbs /\ Follows(db, log) /\ req.body \in Bodies /\ db.live \in Bodies
    BY Zenon DEF StoreInv, Types, Dbs
<1>2. LiveBodyVerifies(db)
    BY GateChecks, Zenon
<1>3. CASE log = <<>>
    <2>1. db.events = <<>>
        BY <1>1, <1>3 DEF Follows, Chained, Dbs
    <2>2. db.live = <<>>
        BY <1>2, <2>1 DEF LiveBodyVerifies, LatestBodyEvent, BodySeqs
    <2>3. db.live \o req.body = req.body
        BY <1>1, <2>2, ConcatEmptySeq, Zenon DEF Bodies
    <2> QED
        BY <1>1, <1>3, <2>3, Zenon DEF NewBody, IntendedBody
<1>4. CASE log # <<>>
    <2>1. db.events # <<>>
        BY <1>1, <1>4 DEF Follows, Chained
    <2>2. db.live = log[Len(log)].body
        BY <1>1, <1>2, <2>1, GateChecks, TailTells, Zenon
    <2>3. db.live \o req.body \in Bodies
        BY <1>1 DEF Bodies
    <2> QED
        BY <1>1, <1>4, <2>2, <2>3, Zenon DEF NewBody, IntendedBody
<1> QED
    BY <1>3, <1>4, Zenon

-----------------------------------------------------------------------------
(* StoreInv is inductive.                                                  *)

\* A file without a row follows the empty history.
LEMMA EmptyFacts ==
    ASSUME NEW d \in Dbs, d.live = <<>>, d.events = <<>>, d.cas = [b \in {} |-> b], d.floor = NullFloor
    PROVE  Follows(d, <<>>) /\ Intact(d, <<>>)
<1>1. <<>> \in Seq(Meant)
    OBVIOUS
<1>2. Follows(d, <<>>)
    BY <1>1 DEF Follows, Chained
<1>3. BodySeqs(d.events) = {}
    BY DEF BodySeqs
<1>4. Referenced(d) = {}
    BY <1>3, Zenon DEF Referenced
<1>5. Retention(d)
    BY <1>4, Zenon DEF Retention
<1> QED
    BY <1>2, <1>5 DEF Intact, RowsIntact

\* A world without a file: nothing in it, and nothing was meant.
LEMMA NoDbFacts ==
    /\ NoDb \in Dbs /\ NoDb.file = "absent" /\ NoDb.gen = 0
    /\ NoDb.live = <<>> /\ NoDb.events = <<>> /\ NoDb.cas = [b \in {} |-> b] /\ NoDb.floor = NullFloor
    /\ Follows(NoDb, <<>>) /\ Intact(NoDb, <<>>)
<1> DEFINE none == [b \in {} |-> b]
<1>1. none \in Blobs
    <2>1. none \in [{} -> Bodies] /\ {} \in SUBSET Bodies
        OBVIOUS
    <2> QED
        BY <2>1, Zenon DEF Blobs
<1>2. NoDb = [file |-> "absent", gen |-> 0, live |-> <<>>, events |-> <<>>, cas |-> none, floor |-> NullFloor]
    BY Zenon DEF NoDb
<1> HIDE DEF none
<1>3. <<>> \in Bodies /\ <<>> \in Seq(Rows) /\ NullFloor \in Nat
    BY DEF Bodies, NullFloor
<1>4. /\ NoDb \in Dbs /\ NoDb.file = "absent" /\ NoDb.gen = 0
      /\ NoDb.live = <<>> /\ NoDb.events = <<>> /\ NoDb.cas = none /\ NoDb.floor = NullFloor
    BY <1>1, <1>2, <1>3, Zenon DEF Dbs
<1> QED
    BY <1>4, EmptyFacts, Zenon DEF none

\* A file just made is as empty as none, but for its state and incarnation.
LEMMA NewDbFacts ==
    ASSUME NEW gen \in Nat, NEW file \in {"absent", "partial", "ready"}
    PROVE  LET d == NewDb(gen, file)
           IN  d \in Dbs /\ d.file = file /\ d.gen = gen /\ Follows(d, <<>>) /\ Intact(d, <<>>)
<1> DEFINE d == NewDb(gen, file)
<1>1. d = [NoDb EXCEPT !.file = file, !.gen = gen]
    BY DEF NewDb
<1> HIDE DEF d
<1>2. /\ d \in Dbs /\ d.file = file /\ d.gen = gen
      /\ d.live = NoDb.live /\ d.events = NoDb.events /\ d.cas = NoDb.cas /\ d.floor = NoDb.floor
    BY <1>1, NoDbFacts, Zenon DEF Dbs
<1> QED
    BY <1>2, NoDbFacts, EmptyFacts, Zenon DEF d

\* The invariant holds of a store that was never used.
LEMMA InitInv == Init => StoreInv
<1> SUFFICES ASSUME Init PROVE StoreInv
    OBVIOUS
<1>1. req \in [verb : {"none"} \cup BodyKinds, body : Bodies]
    BY DEF Init, NoReq, Bodies
<1>2. Types
    BY <1>1, NoDbFacts, Zenon DEF Init, Types
<1> QED
    BY <1>2, NoDbFacts, Zenon DEF Init, StoreInv, Stage, Incarnation, Handed

\* A step that leaves the file, its history and the addresses alone.
LEMMA QuietStep ==
    ASSUME StoreInv, UNCHANGED <<scope, db, minted, log, acked, damage>>, Stage',
           up' \in BOOLEAN, retained' \in Nat, conn' \in {"none", "Created", "Existing"},
           pc' \in {"idle", "open", "creating", "opened", "committed"},
           req' \in [verb : {"none"} \cup BodyKinds, body : Bodies]
    PROVE  StoreInv'
<1>1. Types'
    BY Zenon DEF StoreInv, Types
<1>2. Incarnation' /\ Handed'
    BY Zenon DEF StoreInv, Incarnation, Handed
<1> QED
    BY <1>1, <1>2, Zenon DEF StoreInv

\* The request of a writer that does nothing is a request.
LEMMA NoReqType == NoReq \in [verb : {"none"} \cup BodyKinds, body : Bodies]
    BY DEF NoReq, Bodies

\* Starting the engine reads a retention count and touches no file.
LEMMA StartStep == ASSUME StoreInv, NEW n \in scope.counts, Start(n) PROVE StoreInv'
<1>1. n \in Nat \ {0}
    BY WorldStoreAssumption, Zenon DEF StoreInv, Types
<1> QED
    BY <1>1, QuietStep, Zenon DEF Start, StoreInv, Types, Stage

\* A crash loses the request and the connection, and nothing of the file.
LEMMA CrashStep == ASSUME StoreInv, Crash PROVE StoreInv'
    BY NoReqType, QuietStep, ZenonT(30) DEF Crash, StoreInv, Types, Stage

\* A writer connection that is closed for another takes nothing with it.
LEMMA EvictConnStep == ASSUME StoreInv, EvictConn PROVE StoreInv'
    BY QuietStep, Zenon DEF EvictConn, StoreInv, Types, Stage

\* A write that begins only remembers its request.
LEMMA BeginStep ==
    ASSUME StoreInv, (\E body \in Puts : BeginPut(body)) \/ (\E body \in Appends : BeginAppend(body))
    PROVE  StoreInv'
<1>1. PICK verb \in BodyKinds, body \in Bodies :
          /\ up /\ pc = "idle" /\ db.file # "partial"
          /\ pc' = "open"
          /\ req' = [verb |-> verb, body |-> body]
          /\ UNCHANGED <<scope, db, minted, up, retained, verified, conn, log, acked, damage>>
    BY WorldStoreAssumption, Zenon DEF BeginPut, BeginAppend, BodyKinds, Bodies
<1>2. verb # "none"
    BY DEF BodyKinds
<1>3. req' \in [verb : {"none"} \cup BodyKinds, body : Bodies] /\ req'.verb = verb
    BY <1>1, Zenon
<1> QED
    BY <1>1, <1>2, <1>3, QuietStep, Zenon DEF StoreInv, Types, Stage

\* Opening a writer connection changes the connection only.
LEMMA OpenWriterStep == ASSUME StoreInv, OpenWriter PROVE StoreInv'
    BY QuietStep, Zenon DEF OpenWriter, StoreInv, Types, Stage

\* A write that ends without a commit leaves the file as it was.
LEMMA EndStep == ASSUME StoreInv, CreateFails \/ RefuseTx \/ TxFails PROVE StoreInv'
    BY NoReqType, QuietStep, Zenon DEF CreateFails, RefuseTx, TxFails, StoreInv, Types, Stage

\* A file that is created gets an incarnation no address was ever handed out for.
LEMMA CreateFileStep == ASSUME StoreInv, CreateFile PROVE StoreInv'
<1>1. minted \in Nat /\ minted' = minted + 1 /\ db' = NewDb(minted', "partial") /\ log' = <<>>
    BY Zenon DEF CreateFile, StoreInv, Types
<1>2. /\ db' \in Dbs /\ db'.file = "partial" /\ db'.gen = minted'
      /\ Follows(db', log') /\ Intact(db', log')
    BY <1>1, NewDbFacts
<1>3. Types'
    BY <1>1, <1>2 DEF CreateFile, StoreInv, Types
<1>4. Stage'
    BY <1>2, Zenon DEF CreateFile, StoreInv, Stage, Types
<1>5. Incarnation'
    BY <1>1, <1>2 DEF Incarnation
<1>6. Handed'
    BY <1>1, <1>2 DEF CreateFile, StoreInv, Handed
<1> QED
    BY <1>2, <1>3, <1>4, <1>5, <1>6, Zenon DEF StoreInv

\* What a file is does not depend on how far its schema got.
LEMMA CreateSchemaStep == ASSUME StoreInv, CreateSchema PROVE StoreInv'
<1>1. db \in Dbs /\ db' = [db EXCEPT !.file = "ready"]
    BY Zenon DEF CreateSchema, StoreInv, Types
<1>2. /\ db' \in Dbs /\ db'.file = "ready" /\ db'.gen = db.gen /\ db'.live = db.live
      /\ db'.events = db.events /\ db'.cas = db.cas /\ db'.floor = db.floor
    BY <1>1, Zenon DEF Dbs
<1>3. log' = log /\ minted' = minted /\ acked' = acked /\ damage' = damage /\ db.file = "partial"
    BY Zenon DEF CreateSchema, StoreInv, Stage
<1>4. Follows(db', log')
    BY <1>2, <1>3, Zenon DEF StoreInv, Follows, Chained
<1>5. Referenced(db') = Referenced(db)
    BY <1>2, Zenon DEF Referenced
<1>6. damage' = 0 => Intact(db', log')
    BY <1>2, <1>3, <1>5, ZenonT(30) DEF StoreInv, Intact, RowsIntact, Retention
<1>7. Types'
    BY <1>2, Zenon DEF CreateSchema, StoreInv, Types
<1>8. Stage'
    BY <1>2, Zenon DEF CreateSchema, StoreInv, Stage
<1>9. Incarnation' /\ Handed'
    BY <1>2, <1>3, Zenon DEF StoreInv, Incarnation, Handed
<1> QED
    BY <1>4, <1>6, <1>7, <1>8, <1>9, Zenon DEF StoreInv

\* A commit appends the row that was meant, chained to the last one, and prunes
\* what the retention no longer covers.
LEMMA CommitStep == ASSUME StoreInv, CommitTx PROVE StoreInv'
<1> DEFINE g == IsGenesis(req.verb)
           body == NewBody
           more == Append(OpenedRows(log, g), [kind |-> req.verb, body |-> body])
<1>1. db \in Dbs /\ Chained(db, log) /\ log \in Seq(Meant)
    BY Zenon DEF StoreInv, Types, Follows, Chained
<1>2. req.verb \in BodyKinds
    BY Zenon DEF CommitTx, StoreInv, Types, Stage
<1>3. body \in Bodies /\ body = IntendedBody
    BY WrittenAsMeant, Zenon DEF CommitTx
<1>4. retained \in Nat \ {0} /\ db.file = "ready"
    BY Zenon DEF CommitTx, StoreInv, Types, Stage
<1>5. g \in BOOLEAN
    BY Zenon DEF IsGenesis
<1>6. log' = more
    BY <1>3, Zenon DEF CommitTx, IntendedLog, OpenedRows
<1>7. db' = CommitBody(db, req.verb, body, retained, g)
    BY Zenon DEF CommitTx
<1>8. UNCHANGED <<scope, minted, up, retained, req, acked, damage>>
    BY Zenon DEF CommitTx
<1>9. OpenedRows(log, g) \in Seq(Meant) /\ Len(OpenedRows(log, g)) >= Len(log)
      /\ \A i \in 1..Len(log) : OpenedRows(log, g)[i] = log[i]
    <2>1. [kind |-> "format", body |-> <<>>] \in Meant
        BY DEF Meant, Kinds, Bodies
    <2> QED
        BY <1>1, <2>1 DEF OpenedRows
<1>10. [kind |-> req.verb, body |-> body] \in Meant
    BY <1>2, <1>3, Zenon DEF Meant, Kinds
<1> DEFINE opened == OpenedRows(log, g)
           row == [kind |-> req.verb, body |-> body]
<1> HIDE DEF g, body, opened, row
<1>11. /\ more \in Seq(Meant) /\ more # <<>> /\ Len(more) >= Len(log)
       /\ \A i \in 1..Len(log) : more[i] = log[i]
    <2>1. opened \in Seq(Meant) /\ Len(opened) >= Len(log) /\ \A i \in 1..Len(log) : opened[i] = log[i]
        BY <1>9, Zenon DEF opened
    <2>2. row \in Meant
        BY <1>10, Zenon DEF row
    <2>3. /\ Append(opened, row) \in Seq(Meant) /\ Len(Append(opened, row)) = Len(opened) + 1
          /\ \A i \in 1..Len(opened) : Append(opened, row)[i] = opened[i]
        BY <2>1, <2>2
    <2>4. more = Append(opened, row)
        BY Zenon DEF opened, row
    <2> HIDE DEF more
    <2>5. Len(opened) \in Nat /\ Len(log) \in Nat
        BY <1>1, <2>1
    <2>6. \A i \in 1..Len(log) : i \in 1..Len(opened)
        BY <2>1, <2>5
    <2>7. more \in Seq(Meant) /\ Len(more) = Len(opened) + 1
        BY <2>3, <2>4, Zenon
    <2>8. more # <<>> /\ Len(more) >= Len(log)
        BY <2>1, <2>5, <2>7
    <2> QED
        BY <2>1, <2>3, <2>4, <2>6, <2>7, <2>8, Zenon
<1> HIDE DEF more
<1>12. /\ db' \in Dbs /\ db'.file = db.file /\ db'.gen = db.gen
       /\ Follows(db', more)
       /\ RowsIntact(db, log) /\ Retention(db) => Intact(db', more)
    BY <1>1, <1>2, <1>3, <1>4, <1>5, <1>7, CommitFacts DEF more
<1>13. damage' = 0 => Intact(db', log')
    BY <1>6, <1>8, <1>12, Zenon DEF StoreInv, Intact
<1>14. Types'
    <2>1. conn' \in {"none", "Created", "Existing"} /\ pc' = "committed"
        BY Zenon DEF CommitTx, StoreInv, Types
    <2> QED
        BY <1>8, <1>12, <2>1, Zenon DEF StoreInv, Types
<1>15. Stage'
    BY <1>4, <1>6, <1>8, <1>11, <1>12 DEF CommitTx, StoreInv, Stage
<1>16. Incarnation'
    BY <1>4, <1>8, <1>12, Zenon DEF StoreInv, Incarnation
<1>17. Handed'
    <2> SUFFICES ASSUME NEW a \in acked, a.gen = db.gen
                 PROVE  a.seq \in DOMAIN more /\ more[a.seq] = log[a.seq]
        BY <1>6, <1>8, <1>12, Zenon DEF StoreInv, Handed
    <2>1. a.seq \in 1..Len(log)
        BY <1>1 DEF StoreInv, Handed
    <2> QED
        BY <1>1, <1>11, <2>1
<1> QED
    BY <1>6, <1>12, <1>13, <1>14, <1>15, <1>16, <1>17, ZenonT(30) DEF StoreInv

\* An acknowledgement hands out the address of the row that was just committed.
LEMMA AckStep == ASSUME StoreInv, Ack PROVE StoreInv'
<1> DEFINE n == Len(db.events)
           new == [gen |-> db.gen, seq |-> n, body |-> log[Len(log)].body]
<1>1. db \in Dbs /\ log \in Seq(Meant) /\ Len(log) = n /\ log # <<>> /\ db.file = "ready"
    BY Zenon DEF Ack, StoreInv, Types, Stage, Follows, Chained
<1>2. n \in DOMAIN log /\ n \in Nat /\ n # 0 /\ log[n] \in Meant /\ log[n].kind \in BodyKinds
    BY <1>1 DEF StoreInv, Follows
<1>3. db.gen = minted /\ minted \in Nat /\ minted # 0
    BY <1>1, Zenon DEF StoreInv, Incarnation, Types
<1>4. new \in [gen : Nat, seq : Nat, body : Bodies] /\ new.gen \in 1..minted
    BY <1>1, <1>2, <1>3 DEF Meant
<1>5. acked' = acked \cup {new} /\ UNCHANGED <<scope, db, minted, up, retained, conn, log, damage>>
    BY Zenon DEF Ack
<1>6. Types'
    BY <1>4, <1>5, NoReqType, Zenon DEF Ack, StoreInv, Types
<1>7. Stage'
    BY <1>5, Zenon DEF Ack, StoreInv, Stage
<1>8. Incarnation'
    BY <1>5, Zenon DEF StoreInv, Incarnation
<1>9. Handed'
    <2> SUFFICES ASSUME NEW a \in acked \cup {new}
                 PROVE  /\ a.gen \in 1..minted
                        /\ a.gen = db.gen =>
                             a.seq \in DOMAIN log /\ log[a.seq].kind \in BodyKinds /\ log[a.seq].body = a.body
                        /\ a.seq # 0
        BY <1>5, Zenon DEF Handed
    <2>1. CASE a \in acked
        BY <2>1, Zenon DEF StoreInv, Handed
    <2>2. CASE a = new
        BY <1>1, <1>2, <1>4, <2>2, Zenon
    <2> QED
        BY <2>1, <2>2, Zenon
<1> QED
    BY <1>5, <1>6, <1>7, <1>8, <1>9, Zenon DEF StoreInv

\* A delete ends the incarnation: no address handed out before names the next.
LEMMA DeleteStep == ASSUME StoreInv, DeleteWorld PROVE StoreInv'
<1>1. db' = NoDb /\ log' = <<>>
    BY Zenon DEF DeleteWorld
<1>2. db' \in Dbs /\ db'.file = "absent" /\ db'.gen = 0 /\ Follows(db', log') /\ Intact(db', log')
    BY <1>1, NoDbFacts, Zenon
<1>3. Types'
    BY <1>2, Zenon DEF DeleteWorld, StoreInv, Types
<1>4. Stage'
    BY <1>2, Zenon DEF DeleteWorld, StoreInv, Stage
<1>5. Incarnation'
    BY <1>1, <1>2, Zenon DEF Incarnation
<1>6. Handed'
    BY <1>2 DEF DeleteWorld, StoreInv, Types, Handed
<1> QED
    BY <1>2, <1>3, <1>4, <1>5, <1>6, Zenon DEF StoreInv

\* Damage reaches bodies and blobs; the kinds and the HMACs stay.
LEMMA DamageStep == ASSUME StoreInv, Damage PROVE StoreInv'
<1>1. db \in Dbs /\ Puts \subseteq Bodies
    BY WorldStoreAssumption, Zenon DEF StoreInv, Types, Bodies
<1>2. /\ db' \in Dbs /\ db'.file = db.file /\ db'.gen = db.gen
      /\ Len(db'.events) = Len(db.events)
      /\ \A i \in 1..Len(db.events) :
            db'.events[i].kind = db.events[i].kind /\ db'.events[i].hmac = db.events[i].hmac
    <2>1. CASE \E i \in DOMAIN db.events, b \in Puts : db' = [db EXCEPT !.events[i].body = b]
        <3>1. PICK i \in DOMAIN db.events, b \in Bodies : db' = [db EXCEPT !.events[i].body = b]
            BY <1>1, <2>1, Zenon
        <3> DEFINE row == [db.events[i] EXCEPT !.body = b]
                   rows == [db.events EXCEPT ![i] = row]
        <3>2. db.events \in Seq(Rows) /\ db.events[i] \in Rows /\ DOMAIN db.events = 1..Len(db.events)
            BY <1>1 DEF Dbs
        <3>3. row \in Rows /\ row.kind = db.events[i].kind /\ row.hmac = db.events[i].hmac
            BY <3>2, Zenon DEF Rows
        <3>4. db' = [db EXCEPT !.events = rows]
            BY <3>1, Zenon
        <3> HIDE DEF row
        <3>5. /\ rows \in Seq(Rows) /\ Len(rows) = Len(db.events)
              /\ \A j \in 1..Len(db.events) : rows[j] = IF j = i THEN row ELSE db.events[j]
            BY <3>2, <3>3
        <3> HIDE DEF rows
        <3>6. db' \in Dbs /\ db'.file = db.file /\ db'.gen = db.gen /\ db'.events = rows
            BY <1>1, <3>4, <3>5, Zenon DEF Dbs
        <3> QED
            BY <3>3, <3>5, <3>6, Zenon
    <2>2. CASE \E b \in Puts : db' = [db EXCEPT !.live = b]
        BY <1>1, <2>2, Zenon DEF Dbs
    <2>3. CASE \E k \in DOMAIN db.cas, b \in Puts : db' = [db EXCEPT !.cas[k] = b]
        <3>1. PICK k \in DOMAIN db.cas, b \in Bodies : db' = [db EXCEPT !.cas[k] = b]
            BY <1>1, <2>3, Zenon
        <3> DEFINE blobs == [db.cas EXCEPT ![k] = b]
        <3>2. PICK D \in SUBSET Bodies : db.cas \in [D -> Bodies]
            BY <1>1, Zenon DEF Dbs, Blobs
        <3>3. blobs \in [D -> Bodies]
            BY <3>2, Zenon
        <3>4. blobs \in Blobs
            BY <3>3, Zenon DEF Blobs
        <3>5. db' = [db EXCEPT !.cas = blobs]
            BY <3>1, Zenon
        <3> HIDE DEF blobs
        <3> QED
            BY <1>1, <3>4, <3>5, Zenon DEF Dbs
    <2>4. CASE \E k \in DOMAIN db.cas : db' = [db EXCEPT !.cas = Without(@, {k})]
        <3>1. PICK k \in DOMAIN db.cas : db' = [db EXCEPT !.cas = Without(@, {k})]
            BY <2>4, Zenon
        <3>2. Without(db.cas, {k}) \in Blobs
            BY <1>1, WithoutType, Zenon DEF Dbs
        <3> QED
            BY <1>1, <3>1, <3>2, Zenon DEF Dbs
    <2> QED
        BY <2>1, <2>2, <2>3, <2>4, Zenon DEF Damage, Damaged
<1>3. UNCHANGED <<scope, minted, up, retained, conn, pc, req, log, acked>> /\ damage' = damage + 1
    BY Zenon DEF Damage
<1>4. damage' \in Nat /\ damage' # 0
    BY <1>3 DEF StoreInv, Types
<1>5. Follows(db', log')
    BY <1>2, <1>3, Zenon DEF StoreInv, Follows, Chained
<1>6. Types'
    BY <1>2, <1>3, <1>4, Zenon DEF StoreInv, Types
<1>7. Stage' /\ Incarnation' /\ Handed'
    BY <1>2, <1>3, Zenon DEF StoreInv, Stage, Incarnation, Handed
<1> QED
    BY <1>4, <1>5, <1>6, <1>7, Zenon DEF StoreInv

\* The facts every property below rests on hold in every reachable state.
THEOREM StoreInvariant == Spec => []StoreInv
<1>1. StoreInv /\ [Next]_vars => StoreInv'
    <2> SUFFICES ASSUME StoreInv, [Next]_vars PROVE StoreInv'
        OBVIOUS
    <2>1. CASE UNCHANGED vars
        BY <2>1, Zenon DEF vars, StoreInv, Types, Stage, Incarnation, Handed
    <2>2. CASE StartRefused
        BY <2>2, Zenon DEF StartRefused, vars, StoreInv, Types, Stage, Incarnation, Handed
    <2> QED
        BY <2>1, <2>2, StartStep, CrashStep, EvictConnStep, BeginStep, OpenWriterStep, EndStep,
           CreateFileStep, CreateSchemaStep, CommitStep, AckStep, DeleteStep, DamageStep, ZenonT(30) DEF Next
<1> QED
    BY <1>1, InitInv, PTL DEF Spec

-----------------------------------------------------------------------------
(* An undamaged file verifies, and a file that verifies tells its history. *)

\* The HMAC of a row is that of the row before it with the row appended.
LEMMA HmacStep ==
    ASSUME NEW g \in Nat, NEW rows \in Seq(Meant), NEW i \in 1..Len(rows)
    PROVE  HmacOf(g, rows, i) = Append(HmacOf(g, rows, i - 1), <<g, rows[i].kind, rows[i].body>>)
<1> DEFINE e(j) == <<g, rows[j].kind, rows[j].body>>
           h == [j \in 1..i - 1 |-> e(j)]
<1>1. i \in Nat /\ i - 1 \in Nat /\ Len(rows) \in Nat
    OBVIOUS
<1>2. \A j \in 1..i : j \in 1..Len(rows)
    BY <1>1
<1>3. \A j \in 1..i : e(j) \in Links
    <2> TAKE j \in 1..i
    <2>1. rows[j] \in Meant
        BY <1>2
    <2> QED
        BY <2>1, Zenon DEF Links, Meant
<1> HIDE DEF e
<1>4. \A j \in 1..i - 1 : j \in 1..i
    BY <1>1
<1>5. h \in Seq(Links)
    BY <1>1, <1>3, <1>4, IsASeq
<1>6. Len(h) = i - 1 /\ \A j \in 1..i - 1 : h[j] = e(j)
    BY <1>1, <1>5
<1>7. i \in 1..i
    BY <1>1
<1> HIDE DEF h
<1> DEFINE full == [j \in 1..i |-> e(j)]
<1>8. full \in Seq(Links) /\ Len(full) = i /\ \A j \in 1..i : full[j] = e(j)
    BY <1>1, <1>3, IsASeq
<1>9. /\ Append(h, e(i)) \in Seq(Links) /\ Len(Append(h, e(i))) = i
      /\ \A j \in 1..i : Append(h, e(i))[j] = e(j)
    <2> DEFINE x == e(i)
    <2>1. x \in Links
        BY <1>3, <1>7, Zenon
    <2> HIDE DEF x
    <2>2. /\ Append(h, x) \in Seq(Links) /\ Len(Append(h, x)) = Len(h) + 1
          /\ \A j \in 1..Len(h) : Append(h, x)[j] = h[j]
          /\ Append(h, x)[Len(h) + 1] = x
        BY <1>5, <2>1, AppendProperties
    <2>3. \A j \in 1..i : j = i \/ j \in 1..i - 1
        BY <1>1
    <2> QED
        BY <1>1, <1>6, <2>2, <2>3 DEF x
<1> HIDE DEF full
<1>10. Append(h, e(i)) = full
    BY <1>8, <1>9, SeqEqual, Zenon
<1> QED
    BY <1>10, Zenon DEF HmacOf, h, e, full

\* Before the first row there is no HMAC.
LEMMA EmptyHmac == ASSUME NEW g, NEW rows PROVE HmacOf(g, rows, 0) = <<>>
<1> DEFINE e(j) == <<g, rows[j].kind, rows[j].body>>
<1> HIDE DEF e
<1>1. [j \in 1..0 |-> e(j)] = <<>>
    OBVIOUS
<1> QED
    BY <1>1, Zenon DEF HmacOf, e

\* A row of an undamaged file verifies.
LEMMA IntactRowVerifies ==
    ASSUME NEW d \in Dbs, NEW rows, Chained(d, rows), RowsIntact(d, rows), NEW i \in 1..Len(d.events)
    PROVE  EventVerifies(d, i, IF i = 1 THEN <<>> ELSE d.events[i - 1].hmac)
<1> DEFINE n == Len(d.events)
           prev == IF i = 1 THEN <<>> ELSE d.events[i - 1].hmac
<1>1. n \in Nat /\ d.gen \in Nat /\ rows \in Seq(Meant) /\ Len(rows) = n /\ i \in 1..n
    BY DEF Dbs, Chained
<1>2. prev = HmacOf(d.gen, rows, i - 1)
    <2>1. CASE i = 1
        BY <2>1, EmptyHmac
    <2>2. CASE i # 1
        <3>1. i - 1 \in 1..n
            BY <1>1, <2>2
        <3> QED
            BY <2>2, <3>1, Zenon DEF Chained
    <2> QED
        BY <2>1, <2>2, Zenon
<1>3. d.events[i].hmac = HmacOf(d.gen, rows, i) /\ d.events[i].kind = rows[i].kind
    BY Zenon DEF Chained
<1>4. d.events[i].body = rows[i].body /\ d.events[i].prev = prev
    BY Zenon DEF RowsIntact
<1> HIDE DEF prev
<1>5. d.events[i].hmac = Append(prev, <<d.gen, d.events[i].kind, d.events[i].body>>)
    BY <1>1, <1>2, <1>3, <1>4, HmacStep, ZenonT(30)
<1>6. EventVerifies(d, i, prev)
    BY <1>4, <1>5, Zenon DEF EventVerifies, EventHmac
<1> QED
    BY <1>6, Zenon DEF prev

\* A file nothing was done to passes verify_world.
LEMMA IntactVerifies ==
    ASSUME NEW d \in Dbs, NEW rows, Follows(d, rows), Intact(d, rows), d.events # <<>>
    PROVE  VerifyWorld(d)
<1> DEFINE n == Len(d.events)
<1>1. n \in Nat /\ DOMAIN d.events = 1..n /\ rows # <<>> /\ rows \in Seq(Meant) /\ Len(rows) = n
    BY LatestIsLast DEF Dbs, Follows, Chained
<1>2. d.floor \in BodySeqs(d.events) /\ d.cas = [b \in Referenced(d) |-> b]
    BY Zenon DEF Intact, Retention
<1>3. d.floor \in 1..n /\ d.events[d.floor].kind \in BodyKinds
    BY <1>1, <1>2, Zenon DEF BodySeqs
<1>4. d.floor # NullFloor
    BY <1>3 DEF NullFloor
<1>5. DOMAIN d.cas = Referenced(d) /\ \A b \in DOMAIN d.cas : d.cas[b] = b
    BY <1>2, Zenon
<1>6. RetentionLoads(d, TRUE)
    BY <1>4, <1>5, Zenon DEF RetentionLoads
<1>7. ASSUME NEW i \in DOMAIN d.events
      PROVE  EventVerifies(d, i, IF i = 1 THEN <<>> ELSE d.events[i - 1].hmac) /\ RetainedBodyVerifies(d, i)
    <2>1. EventVerifies(d, i, IF i = 1 THEN <<>> ELSE d.events[i - 1].hmac)
        BY <1>1, IntactRowVerifies, Zenon DEF Follows, Intact
    <2>2. i >= d.floor /\ d.events[i].kind \in BodyKinds => d.events[i].body \in Referenced(d)
        BY <1>1, Zenon DEF Referenced, BodySeqs
    <2>3. RetainedBodyVerifies(d, i)
        BY <1>3, <1>5, <2>2, Zenon DEF RetainedBodyVerifies
    <2> QED
        BY <2>1, <2>3, Zenon
<1>8. VerifyCompletion(d)
    BY <1>1, <1>3, <1>5, Zenon DEF VerifyCompletion, Referenced
<1>9. VerifyStatement(d, FALSE)
    BY <1>7, <1>8, Zenon DEF VerifyStatement
<1>10. LiveBodyVerifies(d)
    <2>1. n \in BodySeqs(d.events) /\ MaxOf(BodySeqs(d.events)) = n /\ n \in 1..n
        BY LatestIsLast, Zenon
    <2>2. d.live = d.events[n].body
        BY <1>1, <2>1, Zenon DEF Intact, RowsIntact
    <2> QED
        BY <2>1, <2>2, Zenon DEF LiveBodyVerifies, LatestBodyEvent
<1> QED
    BY <1>6, <1>9, <1>10, Zenon DEF VerifyWorld

\* Without damage, a world with a committed write is accepted by the next start.
THEOREM CommittedVerifiesAlways == Spec => []CommittedVerifies
<1>1. StoreInv => CommittedVerifies
    BY IntactVerifies, ZenonT(30) DEF StoreInv, Types, CommittedVerifies
<1> QED
    BY <1>1, StoreInvariant, PTL

\* What a walk that succeeds says of the row of an address: it is the row that
\* was meant, and its body is there and whole, or legitimately gone.
LEMMA WalkTells ==
    ASSUME NEW d \in Dbs, NEW rows, Follows(d, rows), ChainIntact(d), NEW i \in DOMAIN d.events
    PROVE  /\ d.events[i].kind = rows[i].kind /\ d.events[i].body = rows[i].body
           /\ d.events[i].kind \in BodyKinds =>
                /\ d.floor # NullFloor
                /\ d.events[i].body \notin DOMAIN d.cas => i < d.floor
                /\ d.events[i].body \in DOMAIN d.cas => d.cas[d.events[i].body] = d.events[i].body
<1>1. i \in 1..Len(d.events) /\ i \in Nat /\ d.floor \in Nat /\ Len(d.events) \in Nat
    BY DEF Dbs
<1>2. EventVerifies(d, i, IF i = 1 THEN <<>> ELSE d.events[i - 1].hmac) /\ RetainedBodyVerifies(d, i)
    BY Zenon DEF ChainIntact, VerifyStatement
<1>3. d.events[i].kind = rows[i].kind /\ d.events[i].body = rows[i].body
    BY <1>1, <1>2, PrevType, RowTells, ZenonT(30) DEF Follows, Chained
<1>4. d.events[i].kind \in BodyKinds => d.floor # NullFloor
    BY Zenon DEF ChainIntact, RetentionLoads, HasBodyBearingEvents
<1>5. d.events[i].kind \in BodyKinds /\ d.events[i].body \notin DOMAIN d.cas => ~(i >= d.floor)
    BY <1>2, <1>4, Zenon DEF RetainedBodyVerifies
<1> QED
    BY <1>1, <1>3, <1>4, <1>5 DEF ChainIntact, RetentionLoads

Found(body) == [Outcome("Body") EXCEPT !.body = body]

\* What both resolvers find behind the row of an address.
LEMMA RetainedTells ==
    ASSUME NEW d \in Dbs, NEW rows, Follows(d, rows), ChainIntact(d),
           NEW a, a.seq \in DOMAIN d.events, d.events[a.seq].kind \in BodyKinds,
           d.events[a.seq].body = a.body
    PROVE  /\ RetainedBodyRead(d, a, d.events[a.seq])
                = IF a.body \in DOMAIN d.cas THEN Found(a.body) ELSE Outcome("Expired")
           /\ a.body \notin DOMAIN d.cas => a.seq < d.floor
<1>1. /\ d.floor # NullFloor
      /\ a.body \notin DOMAIN d.cas => a.seq < d.floor
      /\ a.body \in DOMAIN d.cas => d.cas[a.body] = a.body
    BY WalkTells, Zenon
<1>2. a.seq \in Nat /\ d.floor \in Nat
    BY DEF Dbs
<1>3. CASE a.body \in DOMAIN d.cas
    <2>1. SizeFits(d.events[a.seq], d.cas[a.body])
        BY <1>1, <1>3, Zenon DEF SizeFits
    <2> QED
        BY <1>1, <1>3, <2>1, Zenon DEF RetainedBodyRead, BodyRead, Found
<1>4. CASE a.body \notin DOMAIN d.cas
    <2>1. ~(a.seq >= d.floor)
        BY <1>1, <1>2, <1>4
    <2> QED
        BY <1>1, <1>4, <2>1, Zenon DEF RetainedBodyRead, MissingBodyRead
<1> QED
    BY <1>3, <1>4, Zenon

\* A body row matches its own body.
LEMMA MatchTells ==
    ASSUME NEW row, row.kind \in BodyKinds
    PROVE  MatchBodyRow(row, row.body).is = "Body"
    BY Zenon DEF MatchBodyRow

\* The outcomes are told apart by their names.
LEMMA OutcomeFacts ==
    ASSUME NEW is, NEW gen, NEW body
    PROVE  /\ Outcome(is).is = is /\ Outcome(is).body = <<>>
           /\ Found(body).is = "Body" /\ Found(body).body = body
           /\ [Outcome("GenMismatch") EXCEPT !.gen = gen].is = "GenMismatch"
    BY Zenon DEF Outcome, Found, NoBody

\* read_timeline_body_via_conn of the address of a row.
LEMMA ReadTells ==
    ASSUME NEW d \in Dbs, NEW rows, Follows(d, rows), ChainIntact(d),
           NEW a, a.gen = d.gen, a.seq \in DOMAIN d.events, d.events[a.seq].kind \in BodyKinds,
           d.events[a.seq].body = a.body
    PROVE  ReadTimelineBody(d, a) = IF a.body \in DOMAIN d.cas THEN Found(a.body) ELSE Outcome("Expired")
<1>1. LoadEventSnapshot(d, a.seq) = <<d.events[a.seq]>>
    BY Zenon DEF LoadEventSnapshot
<1>2. MatchBodyRow(d.events[a.seq], a.body).is = "Body"
    BY MatchTells, Zenon
<1>3. TimelineReadFromSnapshot(d, a, d.events[a.seq]) = RetainedBodyRead(d, a, d.events[a.seq])
    BY <1>2, Zenon DEF TimelineReadFromSnapshot
<1>4. ReadTimelineBody(d, a) = RetainedBodyRead(d, a, d.events[a.seq])
    BY <1>1, <1>3 DEF ReadTimelineBody
<1> QED
    BY <1>4, RetainedTells, Zenon

\* A chain that verifies, damaged before or not, tells what the clients wrote.
THEOREM ChainTellsHistoryAlways == Spec => []ChainTellsHistory
<1>1. StoreInv => ChainTellsHistory
    <2> SUFFICES ASSUME StoreInv, db.events # <<>>, VerifyWorld(db)
                 PROVE  /\ [i \in DOMAIN db.events |-> Told(db.events[i])] = log
                        /\ db.live = log[Len(log)].body
                        /\ LatestBodyHead(db)[1].body = log[Len(log)].body
                        /\ ReadTimelineBody(db, LatestBodyHead(db)[1]).body = log[Len(log)].body
        BY Zenon DEF ChainTellsHistory
    <2> DEFINE n == Len(db.events)
               head == Address(db.gen, n, db.events[n].body)
    <2>1. db \in Dbs /\ Follows(db, log) /\ ChainIntact(db) /\ LiveBodyVerifies(db)
        BY ZenonT(30) DEF StoreInv, Types, VerifyWorld, ChainIntact
    <2>2. /\ log \in Seq(Meant) /\ Len(log) = n /\ DOMAIN log = 1..n
          /\ DOMAIN db.events = 1..n /\ n \in Nat
        BY <2>1 DEF Dbs, Follows, Chained
    <2>3. n \in BodySeqs(db.events) /\ n \in 1..n /\ MaxOf(BodySeqs(db.events)) = n
        BY <2>1, LatestIsLast, Zenon
    <2>4. ASSUME NEW i \in 1..n PROVE Told(db.events[i]) = log[i]
        <3>1. db.events[i].kind = log[i].kind /\ db.events[i].body = log[i].body
            BY <2>1, <2>2, WalkTells
        <3>2. log[i] \in Meant
            BY <2>2
        <3>3. log[i] = [kind |-> log[i].kind, body |-> log[i].body]
            BY <3>2, Zenon DEF Meant
        <3> QED
            BY <3>1, <3>3, Zenon DEF Told
    <2>5. [i \in DOMAIN db.events |-> Told(db.events[i])] = log
        <3>1. log = [i \in 1..n |-> log[i]]
            BY <2>2
        <3> QED
            BY <2>2, <2>4, <3>1, ZenonT(30)
    <2>6. db.events[n].body = log[n].body /\ db.events[n].kind \in BodyKinds
        BY <2>1, <2>2, <2>3, WalkTells, Zenon DEF BodySeqs
    <2>7. db.live = log[n].body
        <3>1. EventVerifies(db, n, IF n = 1 THEN <<>> ELSE db.events[n - 1].hmac)
            BY <2>1, <2>2, <2>3, Zenon DEF ChainIntact, VerifyStatement
        <3> QED
            BY <2>1, <2>2, <3>1, TailTells, ZenonT(30)
    <2>8. LoadLatestBodyHead(db) = <<n>>
        BY <2>3, Zenon DEF LoadLatestBodyHead
    <2>9. LatestBodyHead(db) = <<head>>
        BY <2>1, <2>8 DEF LatestBodyHead
    <2>10. head.gen = db.gen /\ head.seq = n /\ head.body = db.events[n].body
        BY Zenon DEF Address
    <2>11. head.body \in DOMAIN db.cas
        <3>1. VerifyCompletion(db) /\ RetainedBodyVerifies(db, n) /\ db.floor # NullFloor
            BY <2>1, <2>2, <2>3, <2>6, WalkTells, ZenonT(30) DEF ChainIntact, VerifyStatement
        <3>2. db.floor \in 1..n
            BY <2>2, <3>1, Zenon DEF VerifyCompletion
        <3>3. n >= db.floor
            BY <2>2, <3>2
        <3> QED
            BY <2>6, <2>10, <3>1, <3>3, Zenon DEF RetainedBodyVerifies
    <2> HIDE DEF head
    <2>12. ReadTimelineBody(db, head) = Found(head.body)
        BY <2>1, <2>2, <2>3, <2>6, <2>10, <2>11, ReadTells, ZenonT(30)
    <2>13. Found(head.body).body = head.body
        BY OutcomeFacts, Zenon
    <2> QED
        BY <2>2, <2>5, <2>6, <2>7, <2>9, <2>10, <2>12, <2>13
<1> QED
    BY <1>1, StoreInvariant, PTL

\* The choice from one proof is that proof.
LEMMA OnlyProof ==
    ASSUME NEW x
    PROVE  (CHOOSE o \in {x} : TRUE) = x /\ OrInvalidShape({x}) = x
    BY Zenon DEF OrInvalidShape

Mismatch(gen) == [Outcome("GenMismatch") EXCEPT !.gen = gen]

Addresses == [gen : Nat, seq : Nat, body : Bodies]

\* dereference_timeline_coordinate_via_conn of the address of a row.
LEMMA DereferenceTells ==
    ASSUME NEW d \in Dbs, NEW rows, Follows(d, rows), ChainIntact(d),
           NEW a \in Addresses, a.gen = d.gen, a.seq \in DOMAIN d.events, d.events[a.seq].kind \in BodyKinds,
           d.events[a.seq].body = a.body
    PROVE  DereferenceCoordinate(d, a) = IF a.body \in DOMAIN d.cas THEN Found(a.body) ELSE Outcome("Expired")
<1> DEFINE row == d.events[a.seq]
           read == IF a.body \in DOMAIN d.cas THEN Found(a.body) ELSE Outcome("Expired")
<1>1. LoadEventSnapshot(d, a.seq) = <<row>>
    BY Zenon DEF LoadEventSnapshot
<1>2. MatchBodyRow(row, a.body).is = "Body"
    BY MatchTells, Zenon
<1>3. Address(d.gen, a.seq, row.body) = a
    BY Zenon DEF Address, Addresses
<1>4. VerifiedCoordinateBodyEvent(a, d.gen, row.body) = {a}
    BY <1>3, Zenon DEF VerifiedCoordinateBodyEvent
<1>5. RetainedBodyRead(d, a, row) = read
    BY RetainedTells, Zenon
<1>6. read.is = "Expired" => read = Outcome("Expired")
    BY OutcomeFacts, Zenon
<1> HIDE DEF read, row
<1>7. DereferenceBody(d, a, a, row) = read
    <2>1. VerifiedExpiredBody(a, a) = {Outcome("Expired")}
        BY Zenon DEF VerifiedExpiredBody
    <2> QED
        BY <1>5, <1>6, <2>1, OnlyProof, Zenon DEF DereferenceBody
<1>8. DereferenceSnapshot(d, a, row) = read
    <2>1. DereferenceSnapshot(d, a, row) = OrInvalidShape({DereferenceBody(d, a, b, row) : b \in {a}})
        BY <1>2, <1>4, Zenon DEF DereferenceSnapshot
    <2>2. {DereferenceBody(d, a, b, row) : b \in {a}} = {read}
        BY <1>7, Zenon
    <2> QED
        BY <2>1, <2>2, OnlyProof, ZenonT(30)
<1> QED
    BY <1>1, <1>8 DEF DereferenceCoordinate, read

\* What both resolvers answer for an address the engine handed out.
Resolved(a) ==
    IF ~ChainIntact(db) THEN Outcome("ChainBroken")
    ELSE IF a.gen # db.gen THEN Mismatch(db.gen)
    ELSE IF a.body \in DOMAIN db.cas THEN Found(a.body)
    ELSE Outcome("Expired")

\* Both ways to read an address resolve it alike, and an expired one lies below
\* the floor.
LEMMA BothResolve ==
    ASSUME StoreInv, NEW a \in acked
    PROVE  /\ a \in Addresses
           /\ ReadTimelineBody(db, a) = Resolved(a)
           /\ DereferenceCoordinate(db, a) = Resolved(a)
           /\ ChainIntact(db) /\ a.gen = db.gen /\ a.body \notin DOMAIN db.cas => a.seq < db.floor
<1>1. db \in Dbs /\ Follows(db, log) /\ a \in Addresses
    BY Zenon DEF StoreInv, Types, Addresses
<1>2. CASE ~ChainIntact(db)
    BY <1>1, <1>2, Zenon DEF ReadTimelineBody, DereferenceCoordinate, Resolved
<1>3. CASE ChainIntact(db) /\ a.gen # db.gen
    <2>1. VerifiedGenerationMismatch(a, db.gen) = {Mismatch(db.gen)}
        BY <1>3, Zenon DEF VerifiedGenerationMismatch, Mismatch
    <2> QED
        BY <1>1, <1>3, <2>1, OnlyProof, ZenonT(30) DEF ReadTimelineBody, DereferenceCoordinate, Resolved, Mismatch
<1>4. CASE ChainIntact(db) /\ a.gen = db.gen
    <2>1. a.seq \in DOMAIN log /\ log[a.seq].kind \in BodyKinds /\ log[a.seq].body = a.body
        BY <1>4, Zenon DEF StoreInv, Handed
    <2>2. DOMAIN db.events = DOMAIN log
        BY <1>1 DEF Dbs, Follows, Chained
    <2>3. db.events[a.seq].kind \in BodyKinds /\ db.events[a.seq].body = a.body
        BY <1>1, <1>4, <2>1, <2>2, WalkTells
    <2> QED
        BY <1>1, <1>4, <2>1, <2>2, <2>3, ReadTells, DereferenceTells, RetainedTells, ZenonT(30) DEF Resolved
<1> QED
    BY <1>2, <1>3, <1>4, Zenon

\* The two resolvers agree about every address in use, whatever was damaged.
THEOREM ResolversAgreeAlways == Spec => []ResolversAgree
<1>1. StoreInv => ResolversAgree
    <2> SUFFICES ASSUME StoreInv, NEW a \in acked
                 PROVE  LET read  == EngineReadTimelineBody(db, a)
                            deref == EngineDereference(db, Coordinate(EventDict(<<a>>)))
                        IN  read = deref \/ (read.is = "Unproven" /\ deref.is = "UnprovenCoordinate")
        BY Zenon DEF ResolversAgree
    <2>1. a \in Addresses /\ ReadTimelineBody(db, a) = Resolved(a) /\ DereferenceCoordinate(db, a) = Resolved(a)
        BY BothResolve, Zenon
    <2>2. Coordinate(EventDict(<<a>>)) = a
        BY <2>1, Zenon DEF Coordinate, EventDict, Wire, Address, Addresses
    <2>3. db.file \in {"absent", "partial", "ready"}
        BY Zenon DEF StoreInv, Types, Dbs
    <2>4. CASE db.file = "absent"
        BY <2>2, <2>4, OutcomeFacts, Zenon
           DEF EngineReadTimelineBody, CoreReadTimelineBody, CachedReadTimelineBody, EngineDereference, CachedDereference
    <2>5. CASE db.file = "partial"
        <3>1. CoreReadTimelineBody(db, a) = {Outcome("Storage")}
            BY <2>5, OutcomeFacts DEF CoreReadTimelineBody, CachedReadTimelineBody
        <3>2. CachedDereference(db, a) = {Outcome("Storage")}
            BY <2>5, Zenon DEF CachedDereference
        <3> QED
            BY <2>2, <3>1, <3>2, OnlyProof, Zenon DEF EngineReadTimelineBody, EngineDereference
    <2>6. CASE db.file = "ready"
        <3>1. Resolved(a).is # "Sqlite"
            BY OutcomeFacts, Zenon DEF Resolved, Mismatch
        <3>2. CoreReadTimelineBody(db, a) = {Resolved(a)}
            BY <2>1, <2>6, <3>1, Zenon DEF CoreReadTimelineBody, CachedReadTimelineBody
        <3>3. CachedDereference(db, a) = {Resolved(a)}
            BY <2>1, <2>6, Zenon DEF CachedDereference
        <3> QED
            BY <2>2, <3>2, <3>3, OnlyProof, Zenon DEF EngineReadTimelineBody, EngineDereference
    <2> QED
        BY <2>3, <2>4, <2>5, <2>6, Zenon
<1> QED
    BY <1>1, StoreInvariant, PTL

\* What Python's get_at makes of an outcome of the engine.
LEMMA SdkTells ==
    ASSUME NEW d, NEW a \in Addresses, a.gen # 0, a.seq # 0,
           NEW o, EngineDereference(d, a) = o
    PROVE  LET got == GetAt(d, EventDict(<<a>>))
           IN  /\ o.is \in {"ChainBroken", "Storage"} => got.raised = "StorageError"
               /\ o.is = "Body" => got.raised = "nothing" /\ got.body = o.body
               /\ o.is = "Expired" => got.raised = "TimelineUnavailable" /\ got.kind = "EXPIRED"
               /\ o.is = "GenMismatch" => got.raised = "TimelineUnavailable" /\ got.kind = "GEN_MISMATCH"
               /\ o.is = "UnprovenCoordinate" => got.raised = "TimelineUnavailable" /\ got.kind = "UNPROVEN"
<1> DEFINE wire == EventDict(<<a>>)
           got == GetAt(d, wire)
<1>1. wire = [timeline_world |-> "durable", timeline_generation |-> a.gen, timeline_seq |-> a.seq,
              timeline_body_sha256 |-> a.body]
    BY ZenonT(30) DEF EventDict, Wire
<1> HIDE DEF wire
<1>2. "timeline_seq" \in DOMAIN wire
    BY <1>1, Zenon
<1>3. Coordinate(wire) = a
    BY <1>1, Zenon DEF Coordinate, Address, Addresses
<1>4. InvalidCoordinate(wire) = "none"
    <2>1. a.gen \in Nat /\ a.seq \in Nat /\ a.body \in Bodies
        BY Zenon DEF Addresses
    <2>2. a.body # NotHex
        BY <2>1, WorldStoreAssumption, Zenon DEF Bodies
    <2>3. ~(a.seq <= 0)
        BY <2>1
    <2> QED
        BY <1>1, <2>2, <2>3, Zenon DEF InvalidCoordinate
<1>5. CASE o.is \in {"ChainBroken", "Storage"}
    <2>1. FfiDereference(d, wire) = [error |-> "StorageError"]
        BY <1>3, <1>4, <1>5, ZenonT(30) DEF FfiDereference
    <2>2. got = Raised("StorageError", "none")
        BY <1>2, <2>1 DEF GetAt
    <2> QED
        BY <1>5, <2>2 DEF Raised, wire
<1>6. CASE o.is \notin {"ChainBroken", "Storage"}
    <2> DEFINE ffi == FfiTimelineDereference(o)
    <2>1. FfiDereference(d, wire) = [record |-> ffi]
        BY <1>3, <1>4, <1>6, ZenonT(30) DEF FfiDereference
    <2> HIDE DEF ffi
    <2>2. got = SdkOutcome(ffi)
        BY <1>2, <2>1 DEF GetAt
    <2>3. ffi.kind = FfiKind[o.is] /\ ffi.representation = IF o.is = "Body" THEN <<o.body>> ELSE <<>>
        BY Zenon DEF FfiTimelineDereference, ffi
    <2>4. /\ FfiKind["Body"] = "BODY" /\ FfiKind["GenMismatch"] = "GEN_MISMATCH"
          /\ FfiKind["Expired"] = "EXPIRED" /\ FfiKind["UnprovenCoordinate"] = "UNPROVEN"
        BY Zenon DEF FfiKind
    <2>5. o.is = "Body" => got = Returned(o.body)
        BY <2>2, <2>3, <2>4 DEF SdkOutcome
    <2>6. o.is \in {"Expired", "GenMismatch", "UnprovenCoordinate"}
            => got = Raised("TimelineUnavailable", FfiKind[o.is])
        BY <2>2, <2>3, <2>4, Zenon DEF SdkOutcome
    <2> QED
        BY <1>6, <2>4, <2>5, <2>6 DEF Raised, Returned, wire
<1> QED
    BY <1>5, <1>6, Zenon

\* get_at of an address in use answers the body written there or, without
\* damage, gives the true reason why it cannot.
THEOREM AddressesAreStableAlways == Spec => []AddressesAreStable
<1>1. StoreInv => AddressesAreStable
    <2> SUFFICES ASSUME StoreInv, NEW a \in acked
                 PROVE  LET got == GetAt(db, EventDict(<<a>>))
                        IN  /\ got.raised = "nothing" => got.body = a.body /\ a.gen = db.gen
                            /\ damage = 0 =>
                                 \/ got.raised = "nothing"
                                 \/ got.kind = "EXPIRED" /\ a.gen = db.gen /\ a.seq < db.floor
                                 \/ got.kind = "GEN_MISMATCH" /\ a.gen < db.gen
                                 \/ got.kind = "UNPROVEN" /\ db.file = "absent"
                                 \/ got.raised = "StorageError" /\ a.gen < db.gen /\ db.events = <<>>
        BY Zenon DEF AddressesAreStable
    <2> DEFINE o == EngineDereference(db, a)
               got == GetAt(db, EventDict(<<a>>))
    <2>1. /\ a \in Addresses /\ DereferenceCoordinate(db, a) = Resolved(a)
          /\ ChainIntact(db) /\ a.gen = db.gen /\ a.body \notin DOMAIN db.cas => a.seq < db.floor
        BY BothResolve, Zenon
    <2>2. a.gen \in 1..minted /\ a.seq # 0 /\ minted \in Nat /\ a.gen # 0
        BY DEF StoreInv, Handed, Types
    <2>3. /\ o.is \in {"ChainBroken", "Storage"} => got.raised = "StorageError"
          /\ o.is = "Body" => got.raised = "nothing" /\ got.body = o.body
          /\ o.is = "Expired" => got.raised = "TimelineUnavailable" /\ got.kind = "EXPIRED"
          /\ o.is = "GenMismatch" => got.raised = "TimelineUnavailable" /\ got.kind = "GEN_MISMATCH"
          /\ o.is = "UnprovenCoordinate" => got.raised = "TimelineUnavailable" /\ got.kind = "UNPROVEN"
        BY <2>1, <2>2, SdkTells, ZenonT(30)
    <2>4. db \in Dbs /\ Follows(db, log) /\ db.file \in {"absent", "partial", "ready"}
        BY Zenon DEF StoreInv, Types, Dbs
    <2>5. db.file # "absent" /\ a.gen # db.gen => a.gen < db.gen
        BY <2>2 DEF StoreInv, Incarnation
    <2>6. db.events = <<>> => a.gen # db.gen
        BY <2>4 DEF StoreInv, Handed, Follows, Chained, Dbs
    <2>7. CASE db.file = "absent"
        <3>1. o = Outcome("UnprovenCoordinate")
            BY <2>7, Zenon DEF EngineDereference, CachedDereference
        <3>2. o.is = "UnprovenCoordinate"
            BY <3>1, OutcomeFacts, Zenon
        <3> HIDE DEF o, got
        <3> QED
            BY <2>3, <2>7, <3>2, Zenon DEF got
    <2>8. CASE db.file = "partial"
        <3>1. CachedDereference(db, a) = {Outcome("Storage")}
            BY <2>8 DEF CachedDereference
        <3>2. o = Outcome("Storage")
            BY <3>1, OnlyProof, Zenon DEF EngineDereference
        <3>3. o.is = "Storage"
            BY <3>2, OutcomeFacts, Zenon
        <3>4. log = <<>>
            BY <2>8, Zenon DEF StoreInv, Incarnation
        <3>5. db.events = <<>>
            BY <2>4, <3>4 DEF Follows, Chained, Dbs
        <3> HIDE DEF o, got
        <3> QED
            BY <2>3, <2>5, <2>6, <2>8, <3>3, <3>5, Zenon DEF got
    <2>9. CASE db.file = "ready"
        <3>1. CachedDereference(db, a) = {Resolved(a)}
            BY <2>1, <2>9, Zenon DEF CachedDereference
        <3>2. o = Resolved(a)
            BY <3>1, OnlyProof, Zenon DEF EngineDereference
        <3>3. damage = 0 /\ db.events # <<>> => ChainIntact(db)
            BY <2>4, IntactVerifies, ZenonT(30) DEF StoreInv, VerifyWorld, ChainIntact
        <3>4. CASE ~ChainIntact(db)
            <4>1. o.is = "ChainBroken"
                BY <3>2, <3>4, OutcomeFacts, ZenonT(30) DEF Resolved
            <4> HIDE DEF o, got
            <4> QED
                BY <2>3, <2>5, <2>6, <2>9, <3>3, <3>4, <4>1, ZenonT(30) DEF got
        <3>5. CASE ChainIntact(db) /\ a.gen # db.gen
            <4>0. Mismatch(db.gen).is = "GenMismatch"
                BY OutcomeFacts, Zenon DEF Mismatch
            <4>1. o.is = "GenMismatch"
                BY <3>2, <3>5, <4>0, ZenonT(30) DEF Resolved
            <4> HIDE DEF o, got
            <4> QED
                BY <2>3, <2>5, <2>9, <3>5, <4>1, Zenon DEF got
        <3>6. CASE ChainIntact(db) /\ a.gen = db.gen /\ a.body \in DOMAIN db.cas
            <4>1. o.is = "Body" /\ o.body = a.body
                BY <3>2, <3>6, OutcomeFacts, ZenonT(30) DEF Resolved
            <4> HIDE DEF o, got
            <4> QED
                BY <2>3, <3>6, <4>1, Zenon DEF got
        <3>7. CASE ChainIntact(db) /\ a.gen = db.gen /\ a.body \notin DOMAIN db.cas
            <4>1. o.is = "Expired"
                BY <3>2, <3>7, OutcomeFacts, Zenon DEF Resolved
            <4> HIDE DEF o, got
            <4> QED
                BY <2>1, <2>3, <3>7, <4>1, Zenon DEF got
        <3> QED
            BY <3>4, <3>5, <3>6, <3>7, Zenon
    <2> QED
        BY <2>4, <2>7, <2>8, <2>9, ZenonT(30)
<1> QED
    BY <1>1, StoreInvariant, PTL

-----------------------------------------------------------------------------
(* The quota preflight.                                                    *)

\* The preflight of a write, which knows only the rows so far, against the
\* transaction, which has appended its own: the same bodies are filed and the
\* same are pruned, the two floors computed from different sets of rows.
LEMMA EstimateIsExact ==
    ASSUME NEW d \in Dbs, Retention(d), NEW kind \in BodyKinds, NEW body \in Bodies,
           NEW g \in BOOLEAN, NEW k \in Nat \ {0}
    PROVE  LET c == CommitBody(d, kind, body, k, g)
           IN  /\ MissingBody(d, body) = DOMAIN c.cas \ DOMAIN d.cas
               /\ PrunableAfterNext(d, body, k) = DOMAIN d.cas \ DOMAIN c.cas
<1> DEFINE c == CommitBody(d, kind, body, k, g)
           f == Marked(d, kind, body, g)
           n == Len(d.events)
           m == Len(f.events)
           S == BodySeqs(d.events)
           new == FloorOfLast(S \cup {m}, k)
           est == FloorAfterNext(d, k)
<1>1. /\ f \in Dbs
      /\ f.cas = Retain(d.cas, body)
      /\ f.floor = (IF d.floor = NullFloor THEN m ELSE d.floor)
      /\ n \in Nat /\ m \in Nat /\ m > n
      /\ S \subseteq 1..n
      /\ BodySeqs(f.events) = S \cup {m}
      /\ \A i \in S : f.events[i].body = d.events[i].body
      /\ f.events[m].body = body
    <2>1. MarkedIs(f, d, kind, body, g)
        BY MarkedFacts, Zenon
    <2> HIDE DEF f
    <2> QED
        BY <2>1, Zenon DEF MarkedIs
<1>2. c = PruneToCount(f, k)
    BY Zenon DEF CommitBody, Marked, Stored, Opened, WithRow
<1>3. DOMAIN f.cas = DOMAIN d.cas \cup {body} /\ f.cas \in Blobs
    BY <1>1, RetainType, Zenon DEF Dbs
<1>4. d.floor \in Nat /\ DOMAIN d.events = 1..n
    BY DEF Dbs
<1>5. S = {} => d.floor = NullFloor /\ DOMAIN d.cas = {}
    <2>1. S = {} => Referenced(d) = {}
        BY Zenon DEF Referenced
    <2> QED
        BY <2>1, Zenon DEF Retention
<1>6. S # {} => d.floor \in S
    <2>1. S # {} => d.events # <<>>
        BY <1>4 DEF BodySeqs
    <2> QED
        BY <2>1, Zenon DEF Retention
<1>7. \A i \in S : i \in 1..n /\ i \in Nat /\ i < m /\ i # NullFloor
    BY <1>1 DEF NullFloor
<1> HIDE DEF f, c, S, m, n
<1>8. n \in Nat /\ m \in Nat /\ m > n /\ S \subseteq 1..n
    BY <1>1, Zenon
<1>9. IsFiniteSet(S) /\ Cardinality(S) \in Nat
    <2>1. IsFiniteSet(1..n)
        BY <1>8, FS_Interval
    <2>2. IsFiniteSet(S)
        BY <1>8, <2>1, FS_Subset, Zenon
    <2> QED
        BY <2>2, FS_CardinalityType, Zenon
<1>10. new = IF k = 1 \/ S = {} THEN m ELSE FloorOfLast(S, k - 1)
    <2>1. S \subseteq 1..m /\ m \notin S
        BY <1>8
    <2>2. FloorOfLast(S \cup {m}, k) = FloorWith(S, m, k)
        BY <1>8, <2>1, FloorOfLastNext, Zenon
    <2> QED
        BY <2>2, Zenon DEF FloorWith
<1>11. k # 1 /\ S # {} => FloorOfLast(S, k - 1) \in S
    <2>1. k # 1 => k - 1 \in Nat \ {0}
        OBVIOUS
    <2> QED
        BY <1>1, <2>1, FloorOfLastIsMember, Zenon
<1>12. k # 1 /\ S # {} /\ Cardinality(S) + 1 < k => FloorOfLast(S, k - 1) <= d.floor
    <2> SUFFICES ASSUME k # 1, S # {}, Cardinality(S) + 1 < k
                 PROVE  FloorOfLast(S, k - 1) <= d.floor
        OBVIOUS
    <2>1. k - 1 \in Nat /\ Cardinality(S) <= k - 1
        BY <1>9
    <2> QED
        BY <1>8, <1>6, <2>1, FloorOfAll, Zenon
<1>13. new \in Nat
    BY <1>1, <1>7, <1>10, <1>11, ZenonT(30)
<1>14. est = IF Cardinality(S) + 1 < k THEN NullFloor
             ELSE IF k = 1 THEN n + 1
             ELSE IF S = {} THEN NullFloor
             ELSE FloorOfLast(S, k - 1)
    BY Zenon DEF FloorAfterNext, S, n
<1> HIDE DEF new, est
<1>15. MissingBody(d, body) = {body} \ DOMAIN d.cas
    BY Zenon DEF MissingBody
<1>16. PrunableAfterNext(d, body, k) = IF est <= d.floor THEN {} ELSE Unreferenced(d, est) \ {body}
    BY Zenon DEF PrunableAfterNext, est
<1>17. CASE new <= f.floor
    <2>1. c = f
        BY <1>1, <1>2, <1>17, Zenon DEF PruneToCount, new
    <2>2. PrunableAfterNext(d, body, k) = {}
        <3>1. CASE S = {}
            BY <1>5, <1>16, <3>1, Zenon DEF Unreferenced
        <3>2. CASE S # {}
            <4>1. f.floor = d.floor /\ d.floor < m
                BY <1>1, <1>6, <1>7, <3>2, Zenon
            <4>2. k # 1
                BY <1>1, <1>4, <1>10, <1>17, <4>1
            <4>3. est = NullFloor \/ est = new
                BY <1>10, <1>14, <3>2, <4>2, Zenon
            <4>4. est <= d.floor
                BY <1>4, <1>17, <4>1, <4>3 DEF NullFloor
            <4> QED
                BY <1>16, <4>4, Zenon
        <3> QED
            BY <3>1, <3>2, Zenon
    <2> QED
        BY <1>3, <1>15, <2>1, <2>2, Zenon DEF c
<1>18. CASE ~(new <= f.floor)
    <2> DEFINE gone == Unreferenced(f, new)
    <2>1. c = [f EXCEPT !.cas = Without(f.cas, gone), !.floor = new]
        BY <1>1, <1>2, <1>18, Zenon DEF PruneToCount, new
    <2>2. Without(f.cas, gone) \in Blobs
        BY <1>3, WithoutType, Zenon
    <2> HIDE DEF gone
    <2>3. c.cas = Without(f.cas, gone)
        BY <1>1, <1>13, <2>1, <2>2, Zenon DEF Dbs
    <2>4. DOMAIN c.cas = (DOMAIN d.cas \cup {body}) \ gone
        BY <1>3, <2>3, Zenon DEF Without
    <2>5. S # {} /\ f.floor = d.floor /\ d.floor \in S
        <3>1. S # {}
            <4> SUFFICES ASSUME S = {} PROVE FALSE
                OBVIOUS
            <4>1. new = m /\ f.floor = m
                BY <1>1, <1>5, <1>10, Zenon
            <4> QED
                BY <1>8, <1>18, <4>1
        <3>2. d.floor \in S /\ d.floor # NullFloor
            BY <1>6, <1>7, <3>1, Zenon
        <3> QED
            BY <1>1, <3>1, <3>2, Zenon
    <2>6. new <= m /\ m >= new
        BY <1>1, <1>7, <1>10, <1>11, <2>5
    <2>7. body \notin gone
        BY <1>1, <2>6, Zenon DEF gone, Unreferenced
    <2>8. \A b \in DOMAIN d.cas :
             b \in gone <=> /\ b # body
                            /\ \E i \in S : i < new /\ d.events[i].body = b
                            /\ \A i \in S : i >= new => d.events[i].body # b
        <3>1. ~(m < new)
            BY <1>1, <1>13, <2>6
        <3> QED
            BY <1>1, <1>3, <2>6, <3>1, Zenon DEF gone, Unreferenced
    <2>9. ~(Cardinality(S) + 1 < k)
        <3>1. CASE k = 1
            BY <1>9, <3>1
        <3>2. CASE k # 1
            BY <1>10, <1>12, <1>18, <2>5, <3>2, Zenon
        <3> QED
            BY <3>1, <3>2, Zenon
    <2>10. ~(est <= d.floor) /\ \A i \in S : i < est <=> i < new
        <3>1. CASE k = 1
            <4>1. est = n + 1 /\ new = m
                BY <1>10, <1>14, <2>9, <3>1, Zenon
            <4>2. \A i \in S : i \in 1..n
                BY <1>7, Zenon
            <4>3. \A i \in S : i < est /\ i < new
                BY <1>1, <1>7, <4>1
            <4>4. ~(est <= d.floor)
                <5>1. d.floor \in 1..n
                    BY <2>5, <4>2, Zenon
                <5> QED
                    BY <1>8, <4>1, <5>1
            <4> QED
                BY <4>3, <4>4, Zenon
        <3>2. CASE k # 1
            BY <1>10, <1>14, <1>18, <2>5, <2>9, <3>2, ZenonT(30)
        <3> QED
            BY <3>1, <3>2, Zenon
    <2>11. est \in Nat
        BY <1>1, <1>7, <1>11, <1>14 DEF NullFloor
    <2>12. \A i \in S : i >= est <=> i >= new
        BY <1>7, <1>13, <2>10, <2>11
    <2>13. \A b \in DOMAIN d.cas :
              b \in Unreferenced(d, est) <=> /\ \E i \in S : i < new /\ d.events[i].body = b
                                             /\ \A i \in S : i >= new => d.events[i].body # b
        BY <2>10, <2>12, Zenon DEF Unreferenced, S
    <2>14. Unreferenced(d, est) \subseteq DOMAIN d.cas
        BY Zenon DEF Unreferenced
    <2>15. Unreferenced(d, est) \ {body} = DOMAIN d.cas \cap gone
        BY <2>8, <2>13, <2>14, Zenon
    <2>16. PrunableAfterNext(d, body, k) = DOMAIN d.cas \cap gone
        BY <1>16, <2>10, <2>15, ZenonT(30)
    <2> QED
        BY <1>15, <2>4, <2>7, <2>16, Zenon DEF c
<1> QED
    BY <1>17, <1>18, ZenonT(30)

\* The quota preflight foresees exactly what the transaction files and prunes.
THEOREM PruneEstimateExactAlways == Spec => []PruneEstimateExact
<1>1. StoreInv => PruneEstimateExact
    <2> SUFFICES ASSUME StoreInv, pc = "opened", damage = 0
                 PROVE  LET committed == CommitBody(db, req.verb, NewBody, retained, IsGenesis(req.verb))
                        IN  /\ Filed = DOMAIN committed.cas \ DOMAIN db.cas
                            /\ Prunable = DOMAIN db.cas \ DOMAIN committed.cas
        BY Zenon DEF PruneEstimateExact
    <2>1. db \in Dbs /\ Retention(db) /\ req.verb \in BodyKinds /\ retained \in Nat \ {0}
        BY Zenon DEF StoreInv, Types, Stage, Intact
    <2>2. req.body \in Bodies /\ db.live \in Bodies
        BY Zenon DEF StoreInv, Types, Dbs
    <2>3. NewBody \in Bodies
        BY <2>2 DEF NewBody, Bodies
    <2>4. IsGenesis(req.verb) \in BOOLEAN
        BY Zenon DEF IsGenesis
    <2>5. Filed = MissingBody(db, NewBody) /\ Prunable = PrunableAfterNext(db, NewBody, retained)
        BY DEF Filed, Prunable, AppendMissingBody, AppendPrunableAfterNext, NewBody
    <2> QED
        BY <2>1, <2>3, <2>4, <2>5, EstimateIsExact
<1> QED
    BY <1>1, StoreInvariant, PTL
=============================================================================
