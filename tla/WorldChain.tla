----------------------------- MODULE WorldChain -----------------------------
(***************************************************************************)
(* The contents of one durable world's SQLite file and the pure            *)
(* computations on it: the HMAC chain (audit/append.rs, audit/verifier.rs),*)
(* and content-addressed body retention (world/cas.rs, audit/retention.rs).*)
(*                                                                         *)
(* A body is a sequence of chunks; its SHA-256 is the body itself, so a    *)
(* blob damaged on disk differs from the key it is filed under.  An HMAC   *)
(* is the sequence of everything that was fed into the chain up to its     *)
(* row, so two HMACs are equal exactly when their inputs are.              *)
(***************************************************************************)
EXTENDS Naturals, Sequences, FiniteSets

NullFloor == 0   \* cas_state.first_retained_seq IS NULL

\* A database: `file` says how far world_schema::create got.
NoDb ==
    [file |-> "absent", gen |-> 0, live |-> <<>>, events |-> <<>>, cas |-> [b \in {} |-> b],
     floor |-> NullFloor]

NewDb(gen, file) ==
    [NoDb EXCEPT !.file = file, !.gen = gen]

\* event_hmac: the keyed hash of the previous HMAC, the generation and the row.
EventHmac(prev, gen, kind, body) == Append(prev, <<gen, kind, body>>)

LatestHmac(events) == IF events = <<>> THEN <<>> ELSE events[Len(events)].hmac

\* append_tx_inner: chain a row to the latest one.
AppendRow(db, kind, body) ==
    LET prev == LatestHmac(db.events)
    IN  Append(db.events, [kind |-> kind, body |-> body, prev |-> prev,
                           hmac |-> EventHmac(prev, db.gen, kind, body)])

BodyKinds == {"put", "append"}

\* Sequence numbers of the body-bearing rows.
BodySeqs(events) == {i \in DOMAIN events : events[i].kind \in BodyKinds}

MaxOf(S) == CHOOSE x \in S : \A y \in S : y <= x
MinOf(S) == CHOOSE x \in S : \A y \in S : x <= y

\* The smallest of the n greatest members of S (of all of them if fewer).
FloorOfLast(S, n) == MinOf({x \in S : Cardinality({y \in S : y > x}) < n})

-----------------------------------------------------------------------------
(* Retention (world/cas.rs).                                               *)

\* Bodies only referenced below the floor.
Unreferenced(db, floor) ==
    {b \in DOMAIN db.cas :
        /\ \E i \in BodySeqs(db.events) : i < floor /\ db.events[i].body = b
        /\ \A i \in BodySeqs(db.events) : i >= floor => db.events[i].body # b}

Without(cas, bodies) == [b \in DOMAIN cas \ bodies |-> cas[b]]

\* retain_body_tx: file the body under its hash unless it is there already.
Retain(cas, body) ==
    IF body \in DOMAIN cas THEN cas ELSE [b \in DOMAIN cas \cup {body} |-> IF b = body THEN body ELSE cas[b]]

\* retain_body_tx compares the length of what is stored, nothing more.
RetainFits(cas, body) == body \in DOMAIN cas => Len(cas[body]) = Len(body)

\* mark_retention_started_tx: the checks, for the row just appended.
RetentionMayStart(db) ==
    LET bodySeqs == BodySeqs(db.events)
    IN  IF db.floor = NullFloor
        THEN MinOf(bodySeqs) = Len(db.events)
        ELSE db.floor \in bodySeqs

MarkRetentionStarted(db) ==
    [db EXCEPT !.floor = IF @ = NullFloor THEN Len(db.events) ELSE @]

\* Mutant of PruneToCount: every body referenced below the floor is dropped,
\* the ones a later row refers to included.
PruneToCountShared(db, retained) ==
    LET floor == FloorOfLast(BodySeqs(db.events), retained)
    IN  IF floor <= db.floor
        THEN db
        ELSE [db EXCEPT !.cas = Without(@, {db.events[i].body : i \in {j \in BodySeqs(db.events) : j < floor}}),
                        !.floor = floor]

\* prune_to_count_tx: raise the floor to the last `retained` body rows and
\* drop what only older rows refer to.  The floor is never lowered.
PruneToCount(db, retained) ==
    LET floor == FloorOfLast(BodySeqs(db.events), retained)
    IN  IF floor <= db.floor
        THEN db
        ELSE [db EXCEPT !.cas = Without(@, Unreferenced(db, floor)), !.floor = floor]

\* The body of a write transaction, from the format row to the prune.
CommitBody(db, kind, body, retained, genesis) ==
    LET opened   == IF genesis THEN [db EXCEPT !.events = AppendRow(db, "format", <<>>)] ELSE db
        filed    == [opened EXCEPT !.cas = Retain(@, body), !.live = body]
        appended == [filed EXCEPT !.events = AppendRow(filed, kind, body)]
    IN  PruneToCount(MarkRetentionStarted(appended), retained)

\* Whether the checks inside that transaction pass.
CommitAllowed(db, kind, body, genesis) ==
    LET opened == IF genesis THEN [db EXCEPT !.events = AppendRow(db, "format", <<>>)] ELSE db
    IN  /\ RetainFits(db.cas, body)
        /\ RetentionMayStart([opened EXCEPT !.events = AppendRow(opened, kind, body)])

\* retained_floor_after_next_body: the floor the next write will set, NullFloor
\* for "no prune".
FloorAfterNext(db, retained) ==
    LET bodySeqs == BodySeqs(db.events)
    IN  IF Cardinality(bodySeqs) + 1 < retained THEN NullFloor
        ELSE IF retained = 1 THEN Len(db.events) + 1
        ELSE IF bodySeqs = {} THEN NullFloor
        ELSE FloorOfLast(bodySeqs, retained - 1)

\* Mutant of PrunableAfterNext: the candidate body is counted as prunable.
PrunableAfterNextOwn(db, body, retained) ==
    LET floor == FloorAfterNext(db, retained)
    IN  IF floor <= db.floor THEN {} ELSE Unreferenced(db, floor)

\* prunable_body_len_after_next_body: what the quota check expects the next
\* write of `body` to prune.
PrunableAfterNext(db, body, retained) ==
    LET floor == FloorAfterNext(db, retained)
    IN  IF floor <= db.floor THEN {} ELSE Unreferenced(db, floor) \ {body}

\* missing_body_len: what the quota check expects it to file.
MissingBody(db, body) == {body} \ DOMAIN db.cas

\* The same two of an append: append_body_len_if_missing and
\* append_prunable_body_len_after_next_write extend the live body first.
AppendMissingBody(db, more) == MissingBody(db, db.live \o more)
AppendPrunableAfterNext(db, more, retained) == PrunableAfterNext(db, db.live \o more, retained)

-----------------------------------------------------------------------------
(* Verification.                                                           *)

HasBodyBearingEvents(db) == \E i \in DOMAIN db.events : db.events[i].kind \in BodyKinds

\* retention::load / load_for_append, errors included.
RetentionLoads(db, hashBodies) ==
    /\ hashBodies => \A b \in DOMAIN db.cas : db.cas[b] = b
    /\ db.floor = NullFloor => DOMAIN db.cas = {} /\ ~HasBodyBearingEvents(db)

\* verify_event on row i, given the HMAC of the row before it.  The walk of
\* verify_statement ties each row to the one it has just accepted.
EventVerifies(db, i, prev) ==
    LET row == db.events[i]
    IN  /\ row.prev = prev
        /\ row.hmac = EventHmac(prev, db.gen, row.kind, row.body)

\* retention::verify_retained_body on row i.
RetainedBodyVerifies(db, i) ==
    LET row == db.events[i]
    IN  /\ i = db.floor => row.kind \in BodyKinds
        /\ db.floor # NullFloor /\ i >= db.floor /\ row.kind \in BodyKinds
             => row.body \in DOMAIN db.cas /\ Len(db.cas[row.body]) = Len(row.body)

\* retention::verify_completion: the walk met the floor's row, and no blob that
\* the rows from there on do not refer to is left.
VerifyCompletion(db) ==
    LET referenced == {db.events[i].body : i \in {i \in BodySeqs(db.events) : i >= db.floor}}
    IN  /\ db.floor # NullFloor => db.floor \in DOMAIN db.events
        /\ Cardinality(referenced) = Cardinality(DOMAIN db.cas)

\* verify_statement: the walk over all rows, each tied to the one before it,
\* and verify_completion.
VerifyStatement(db, allowEmpty) ==
    /\ \A i \in DOMAIN db.events :
          /\ EventVerifies(db, i, IF i = 1 THEN <<>> ELSE db.events[i - 1].hmac)
          /\ RetainedBodyVerifies(db, i)
    /\ VerifyCompletion(db)
    /\ allowEmpty \/ db.events # <<>>

\* Mutant of LiveBodyVerifies: the live body is taken on trust.
LiveBodyTrusted(db) == TRUE

\* latest_body_event_tx.
LatestBodyEvent(db) ==
    LET seqs == BodySeqs(db.events)
    IN  IF seqs = {} THEN {} ELSE {db.events[MaxOf(seqs)]}

\* live_body::verify_tx: the live body is the one of the latest body row, or
\* empty if there is none.
LiveBodyVerifies(db) ==
    LET latest == LatestBodyEvent(db)
    IN  IF latest = {} THEN db.live = <<>> ELSE \A row \in latest : db.live = row.body

\* verify_tail_body_tx: the latest row's body is retained and has its hash.
TailBodyVerifies(db) ==
    LET row == db.events[Len(db.events)]
    IN  /\ Len(db.events) = db.floor => row.kind \in BodyKinds
        /\ row.kind \in BodyKinds => db.floor # NullFloor
        /\ row.kind \in BodyKinds /\ Len(db.events) >= db.floor
             => row.body \in DOMAIN db.cas /\ db.cas[row.body] = row.body

\* require_world_intact_tx: what startup and explicit verification require.
VerifyWorld(db) ==
    /\ RetentionLoads(db, TRUE)
    /\ VerifyStatement(db, FALSE)
    /\ LiveBodyVerifies(db)

\* verify_appendable_tx_full: the gate of the first write after startup or
\* creation.  Historical blobs are not hashed again.
FullGate(db, allowEmpty) ==
    /\ RetentionLoads(db, FALSE)
    /\ VerifyStatement(db, allowEmpty)
    /\ db.events # <<>> => TailBodyVerifies(db)
    /\ LiveBodyVerifies(db)

\* require_current_tail_intact_tx: the gate of ordinary reads.
TailIntact(db) ==
    /\ db.events # <<>>
    /\ EventVerifies(db, Len(db.events), IF Len(db.events) = 1 THEN <<>> ELSE db.events[Len(db.events) - 1].hmac)
    /\ TailBodyVerifies(db)
    /\ LiveBodyVerifies(db)

\* verify_appendable_tx_existing_tail_checked: the gate of later writes.
TailGate(db) == RetentionLoads(db, FALSE) /\ TailIntact(db)
=============================================================================
