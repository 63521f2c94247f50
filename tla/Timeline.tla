------------------------------ MODULE Timeline ------------------------------
(***************************************************************************)
(* Historical reads of one durable world: the resolver of addresses the    *)
(* engine handed out (audit/timeline_address.rs), the resolver of untrusted*)
(* wire coordinates (audit/timeline_dereference.rs), the row matching both *)
(* share (audit/timeline_row.rs), and what the FFI and the Python SDK make *)
(* of the outcome (ffi/src/types.rs, sdk/src/l5/__init__.py get_at).       *)
(*                                                                         *)
(* A row that passes the chain walk was written for this world with a      *)
(* known kind, so its target and its digest parse; only the outcomes that  *)
(* remain possible are told apart.                                         *)
(***************************************************************************)
EXTENDS WorldChain, Integers

NoBody == <<>>

\* The outcomes carry what their Rust variants carry that a caller can tell
\* apart: a body, a corruption category, the generation or digest found.
Outcome(is) == [is |-> is, body |-> NoBody, reason |-> "none", gen |-> 0, sha |-> NoBody]

OutcomeCorrupt(reason) == [Outcome("Corrupt") EXCEPT !.reason = reason]

-----------------------------------------------------------------------------
(* Rows (audit/timeline_row.rs).                                           *)

\* load_event_snapshot.
LoadEventSnapshot(db, seq) == IF seq \in DOMAIN db.events THEN <<db.events[seq]>> ELSE <<>>

\* match_body_row_inner: the kind first, then the digest.
MatchBodyRow(row, expected) ==
    CASE row.kind \notin BodyKinds -> [is |-> "NonBody", row |-> row]
      [] row.kind \in BodyKinds /\ row.body # expected -> [is |-> "BodyHashMismatch", row |-> row]
      [] OTHER -> [is |-> "Body", row |-> row]

\* into_representation_with_hmac: the blob has the size the row was signed with.
SizeFits(row, blob) == Len(blob) = Len(row.body)

\* load_latest_body_head.
LoadLatestBodyHead(db) ==
    LET seqs == BodySeqs(db.events)
    IN  IF seqs = {} THEN <<>> ELSE <<MaxOf(seqs)>>

-----------------------------------------------------------------------------
(* Addresses (audit/timeline_address.rs, timeline.rs).                     *)

Address(gen, seq, body) == [gen |-> gen, seq |-> seq, body |-> body]

\* TimelineRead::body: the blob must hash to the address.
BodyRead(address, blob) ==
    IF blob # address.body
    THEN OutcomeCorrupt("BodyHashMismatch")
    ELSE [Outcome("Body") EXCEPT !.body = blob]

\* missing_timeline_body_read: no blob is legitimate only below the floor.
MissingBodyRead(db, address) ==
    IF db.floor # NullFloor /\ address.seq >= db.floor
    THEN OutcomeCorrupt("MissingBodyForPresentRow")
    ELSE Outcome("Expired")

\* The body-bearing row is there and promises the body asked for.
RetainedBodyRead(db, address, row) ==
    IF address.body \notin DOMAIN db.cas THEN MissingBodyRead(db, address)
    ELSE IF ~SizeFits(row, db.cas[address.body]) THEN OutcomeCorrupt("InvalidEventShape")
    ELSE BodyRead(address, db.cas[address.body])

\* timeline_read_from_snapshot.
TimelineReadFromSnapshot(db, address, row) ==
    LET match == MatchBodyRow(row, address.body)
    IN  CASE match.is = "NonBody" -> OutcomeCorrupt("MissingBodyForPresentRow")
          [] match.is = "BodyHashMismatch" -> [Outcome("AddressMismatch") EXCEPT !.sha = row.body]
          [] match.is = "Body" -> RetainedBodyRead(db, address, row)

\* verify_world_tx and require_intact: the walk, without the live body.
ChainIntact(db) == RetentionLoads(db, TRUE) /\ VerifyStatement(db, FALSE)

\* Mutant of ReadTimelineBody: the generation is not compared.
ReadTimelineBodyAnyGeneration(db, address) ==
    LET row == LoadEventSnapshot(db, address.seq)
    IN  IF ~ChainIntact(db) THEN Outcome("ChainBroken")
        ELSE IF row = <<>> THEN Outcome("MissingRow")
        ELSE TimelineReadFromSnapshot(db, address, row[1])

\* read_timeline_body_via_conn.
ReadTimelineBody(db, address) ==
    LET row == LoadEventSnapshot(db, address.seq)
    IN  IF ~ChainIntact(db) THEN Outcome("ChainBroken")
        ELSE IF db.gen # address.gen THEN [Outcome("GenMismatch") EXCEPT !.gen = db.gen]
        ELSE IF row = <<>> THEN Outcome("MissingRow")
        ELSE TimelineReadFromSnapshot(db, address, row[1])

\* cached_read_timeline_body: no outcome without a file, and a file whose schema
\* is incomplete does not open.
CachedReadTimelineBody(db, address) ==
    CASE db.file = "absent" -> {}
      [] db.file = "partial" -> {Outcome("Sqlite")}
      [] db.file = "ready" -> {ReadTimelineBody(db, address)}

\* Core::read_timeline_body: an error of SQLite is one of the audit chain's.
CoreReadTimelineBody(db, address) ==
    {IF read.is = "Sqlite" THEN Outcome("Storage") ELSE read : read \in CachedReadTimelineBody(db, address)}

\* world_read_ops::read_timeline_body: without a file nothing is proved.
EngineReadTimelineBody(db, address) ==
    LET found == CoreReadTimelineBody(db, address)
    IN  IF found = {} THEN Outcome("Unproven") ELSE CHOOSE read \in found : TRUE

\* verified_latest_body_head_via_conn: the address a delete anchors in the
\* ledger.  The chain and the live body must verify.
LatestBodyHead(db) ==
    LET head == LoadLatestBodyHead(db)
    IN  IF ~ChainIntact(db) \/ ~LiveBodyVerifies(db) \/ head = <<>> THEN <<>>
        ELSE <<Address(db.gen, head[1], db.events[head[1]].body)>>

-----------------------------------------------------------------------------
(* Wire coordinates (timeline.rs, audit/timeline_dereference.rs).          *)

\* Wire text is a canonical world name, a memory world's name or no name; a
\* generation of 32 lower-hex digits is its number and anything else 0; a
\* digest of 64 lower-hex digits is the body it is of and anything else NotHex.
NotHex == <<"not hex">>

Wire(world, gen, seq, body) ==
    [timeline_world |-> world, timeline_generation |-> gen, timeline_seq |-> seq,
     timeline_body_sha256 |-> body]

\* TimelineCoordinate::from_wire_parts, the checks in the code's order.
InvalidCoordinate(wire) ==
    CASE wire.timeline_world = "no name" -> "WorldPath"
      [] wire.timeline_world = "memory" -> "MemoryWorld"
      [] wire.timeline_generation = 0 -> "Generation"
      [] wire.timeline_seq <= 0 -> "SeqNonPositive"
      [] wire.timeline_body_sha256 = NotHex -> "BodySha256"
      [] OTHER -> "none"

Coordinate(wire) ==
    Address(wire.timeline_generation, wire.timeline_seq, wire.timeline_body_sha256)

\* The outcomes that prove something: each constructor compares what it was
\* given with the coordinate asked for, and may refuse.
VerifiedGenerationMismatch(asked, gen) ==
    {o \in {[Outcome("GenMismatch") EXCEPT !.gen = gen]} : asked.gen # gen}
VerifiedBodyHashMismatch(asked, sha) ==
    {o \in {[Outcome("BodyHashMismatch") EXCEPT !.sha = sha]} : asked.body # sha}
VerifiedNonBodyEvent(row) == {[Outcome("NonBodyEvent") EXCEPT !.sha = row.body]}
VerifiedExpiredBody(asked, address) == {o \in {Outcome("Expired")} : asked = address}
VerifiedCoordinateBodyEvent(asked, gen, sha) ==
    {a \in {Address(gen, asked.seq, sha)} : asked.gen = gen /\ asked.body = sha}

\* A refusal is answered as a row of the wrong shape.
OrInvalidShape(proofs) == IF proofs = {} THEN OutcomeCorrupt("InvalidEventShape") ELSE CHOOSE o \in proofs : TRUE

\* The end of dereference_snapshot: the body that an address proved here leads to.
DereferenceBody(db, coordinate, address, row) ==
    LET read == RetainedBodyRead(db, address, row)
    IN  IF read.is = "Expired" THEN OrInvalidShape(VerifiedExpiredBody(coordinate, address)) ELSE read

\* dereference_snapshot.
DereferenceSnapshot(db, coordinate, row) ==
    LET match == MatchBodyRow(row, coordinate.body)
    IN  OrInvalidShape(
          CASE match.is = "NonBody" -> VerifiedNonBodyEvent(row)
            [] match.is = "BodyHashMismatch" -> VerifiedBodyHashMismatch(coordinate, row.body)
            [] match.is = "Body" ->
                 {DereferenceBody(db, coordinate, a, row) : a \in VerifiedCoordinateBodyEvent(coordinate, db.gen, row.body)})

\* dereference_timeline_coordinate_via_conn.
DereferenceCoordinate(db, coordinate) ==
    LET row == LoadEventSnapshot(db, coordinate.seq)
    IN  IF ~ChainIntact(db) THEN Outcome("ChainBroken")
        ELSE IF db.gen # coordinate.gen THEN OrInvalidShape(VerifiedGenerationMismatch(coordinate, db.gen))
        ELSE IF row = <<>> THEN Outcome("MissingRow")
        ELSE DereferenceSnapshot(db, coordinate, row[1])

\* cached_dereference_timeline_coordinate.
CachedDereference(db, coordinate) ==
    CASE db.file = "absent" -> {}
      [] db.file = "partial" -> {Outcome("Storage")}
      [] db.file = "ready" -> {DereferenceCoordinate(db, coordinate)}

\* world_read_ops::dereference_timeline_coordinate.
EngineDereference(db, coordinate) ==
    LET found == CachedDereference(db, coordinate)
    IN  IF found = {} THEN Outcome("UnprovenCoordinate") ELSE CHOOSE read \in found : TRUE

-----------------------------------------------------------------------------
(* The FFI record and the Python SDK.                                      *)

\* ffi/src/types.rs From<TimelineDereference>: FfiTimelineDereferenceKind.
FfiKind ==
    [Body |-> "BODY", GenMismatch |-> "GEN_MISMATCH", BodyHashMismatch |-> "BODY_HASH_MISMATCH",
     NonBodyEvent |-> "NON_BODY_EVENT", Expired |-> "EXPIRED", MissingRow |-> "MISSING_ROW",
     UnprovenCoordinate |-> "UNPROVEN", Corrupt |-> "CORRUPT"]

FfiTimelineCorruption ==
    [MissingBodyForPresentRow |-> "MISSING_BODY_FOR_PRESENT_ROW", BodyHashMismatch |-> "BODY_HASH_MISMATCH",
     InvalidEventShape |-> "INVALID_EVENT_SHAPE"]

FfiTimelineDereference(outcome) ==
    [kind               |-> FfiKind[outcome.is],
     representation     |-> IF outcome.is = "Body" THEN <<outcome.body>> ELSE <<>>,
     actual_generation  |-> IF outcome.is = "GenMismatch" THEN <<outcome.gen>> ELSE <<>>,
     actual_body_sha256 |-> IF outcome.is = "BodyHashMismatch" THEN <<outcome.sha>> ELSE <<>>,
     corruption         |-> IF outcome.is = "Corrupt" THEN <<FfiTimelineCorruption[outcome.reason]>> ELSE <<>>]

Returned(body) == [raised |-> "nothing", kind |-> "none", body |-> body]
Raised(class, kind) == [raised |-> class, kind |-> kind, body |-> NoBody]

\* The end of Engine.get_at: what the FFI record becomes in Python.
SdkOutcome(ffi) ==
    CASE ffi.kind = "BODY" -> Returned(ffi.representation[1])
      [] ffi.kind = "CORRUPT" -> Raised("TimelineCorruption", ffi.corruption[1])
      [] OTHER -> Raised("TimelineUnavailable", ffi.kind)

\* Subscription._event: the fields that are None are left out of the dict, so
\* an event without a timeline address has no timeline keys.
EventDict(address) ==
    IF address = <<>> THEN [kind |-> "event"]
    ELSE Wire("durable", address[1].gen, address[1].seq, address[1].body)

\* FfiEngine::dereference_timeline_coordinate on wire fields: an error or the
\* record.  An engine error is EngineError::Storage.
FfiDereference(db, wire) ==
    IF InvalidCoordinate(wire) # "none" THEN [error |-> "InvalidConfig"]
    ELSE LET outcome == EngineDereference(db, Coordinate(wire))
         IN  IF outcome.is \in {"ChainBroken", "Storage"}
             THEN [error |-> "StorageError"]
             ELSE [record |-> FfiTimelineDereference(outcome)]

\* Engine.get_at on the dict `event`.
GetAt(db, event) ==
    IF "timeline_seq" \notin DOMAIN event THEN Raised("ValueError", "none")
    ELSE LET answer == FfiDereference(db, event)
         IN  IF "error" \in DOMAIN answer THEN Raised(answer.error, "none") ELSE SdkOutcome(answer.record)
=============================================================================
