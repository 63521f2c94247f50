----------------------------- MODULE EventRules -----------------------------
(***************************************************************************)
(* What an event says and how it is named: durable cursors on the wire     *)
(* (core/src/subscription_event_id.rs), subscription patterns, the event   *)
(* built from a row when it is written and when it is replayed             *)
(* (core/src/event.rs, core/src/engine_ops.rs), and its rendering as a     *)
(* server-sent event (bin/src/server/listen.rs) and as an item of the      *)
(* Python SDK (ffi/src/types.rs, sdk/src/l5/__init__.py).                  *)
(*                                                                         *)
(* A world's name is a sequence of tokens; "@", "%" and "=" are the bytes  *)
(* that the cursor syntax reserves.  A row's digest, size and content type *)
(* are copied with the row and left out; its HMAC is named by its id.      *)
(***************************************************************************)
EXTENDS Integers, Sequences, SequencesExt, TLC

CONSTANTS
    Durable,   \* names of durable worlds, the delete ledger excepted
    Memory,    \* names of memory worlds
    Ledger     \* the name of the delete ledger

Names == Durable \cup Memory \cup {Ledger}

None == [kind |-> "none"]
Invalid == [kind |-> "invalid"]

-----------------------------------------------------------------------------
(* Durable cursors.                                                        *)

\* A SubscriptionEventId: a row of an incarnation of a world.
EventId(w, g, n) == [kind |-> "id", world |-> w, gen |-> g, seq |-> n]

\* same_chain_at_or_before.
SameChainAtOrBefore(d, e) == d.world = e.world /\ d.gen = e.gen /\ d.seq <= e.seq

Hex == [b \in {"%", "@", "="} |-> CASE b = "%" -> <<"2", "5">>
                                    [] b = "@" -> <<"4", "0">>
                                    [] OTHER   -> <<"3", "D">>]

\* Mutant of EncodeEventIdWorld: a percent sign stands for itself.
EncodeEventIdWorldBarePercent(w) ==
    FlattenSeq([i \in DOMAIN w |-> IF w[i] \in {"@", "="} THEN <<"%">> \o Hex[w[i]] ELSE <<w[i]>>])

\* encode_event_id_world: every reserved byte is escaped.
EncodeEventIdWorld(w) ==
    FlattenSeq([i \in DOMAIN w |-> IF w[i] \in DOMAIN Hex THEN <<"%">> \o Hex[w[i]] ELSE <<w[i]>>])

\* percent_decode_str: an escape that is not one stands for itself.
RECURSIVE PercentDecode(_)
PercentDecode(s) ==
    IF s = <<>> THEN <<>>
    ELSE LET bytes == {b \in DOMAIN Hex : Head(s) = "%" /\ IsPrefix(Hex[b], Tail(s))}
         IN  IF bytes = {} THEN <<Head(s)>> \o PercentDecode(Tail(s))
             ELSE <<CHOOSE b \in bytes : TRUE>> \o PercentDecode(SubSeq(s, 4, Len(s)))

\* Display: <percent-encoded-world>@<generation>=<seq>.
ToSseId(id) == EncodeEventIdWorld(id.world) \o <<"@", ToString(id.gen), "=", ToString(id.seq)>>

\* WorldGeneration::new and the parse of the sequence number: numerals only,
\* and a sequence number is positive.
MaxNumeral == 9
Numeral(s) == IF \E n \in 1..MaxNumeral : s = <<ToString(n)>>
              THEN CHOOSE n \in 1..MaxNumeral : s = <<ToString(n)>>
              ELSE 0

\* from_sse_id: split at the last "=" and the last "@" before it, decode, and
\* accept only the spelling that Display would have produced.
FromSseId(raw) ==
    LET eq == SelectLastInSeq(raw, LAMBDA t : t = "=")
        at == SelectLastInSubSeq(raw, 1, eq - 1, LAMBDA t : t = "@")
        id == EventId(PercentDecode(SubSeq(raw, 1, at - 1)),
                      Numeral(SubSeq(raw, at + 1, eq - 1)),
                      Numeral(SubSeq(raw, eq + 1, Len(raw))))
    IN  IF eq # 0 /\ at # 0 /\ id.world \in Names \ Memory /\ 0 \notin {id.gen, id.seq}
             /\ ToSseId(id) = raw
        THEN id
        ELSE Invalid

\* listen.rs, parse_last_event_id: the header, if there is one, once and whole.
ParseLastEventId(headers) ==
    CASE headers = <<>> -> None
      [] Len(headers) > 1 -> Invalid
      [] OTHER -> IF headers[1] = <<>> THEN Invalid ELSE FromSseId(headers[1])

-----------------------------------------------------------------------------
(* Patterns.                                                               *)

\* SubscribePattern::new, event::pattern: everything, or a path that begins with
\* a slash, whether or not the caller wrote one.
Pattern(raw) ==
    CASE raw \in {<<>>, <<"/">>, <<"*">>, <<"/", "*">>} -> <<"*">>
      [] Head(raw) = "/" -> raw
      [] OTHER -> <<"/">> \o raw

\* strip_prefix('/').
Bare(pattern) == IF Head(pattern) = "/" THEN Tail(pattern) ELSE pattern

\* event::matches_world.
MatchesWorld(pattern, w) ==
    \/ pattern = <<"*">>
    \/ IF Last(pattern) = "*" THEN IsPrefix(Bare(Front(pattern)), w) ELSE w = Bare(pattern)

\* SubscribePattern::exact_world.
ExactWorld(pattern) ==
    CASE Last(pattern) = "*" -> None
      [] Bare(pattern) \in Names -> [kind |-> "world", world |-> Bare(pattern)]
      [] OTHER -> Invalid

-----------------------------------------------------------------------------
(* Rows, and the events built from them.                                   *)

\* A row of a chain: its kind, its target and the reserved headers that name
\* the body a delete was about.
Row(kind, target, subject) ==
    [kind |-> kind, target |-> target,
     headers |-> IF subject = None THEN {}
                 ELSE {<<"world", subject.world>>, <<"generation", <<ToString(subject.gen)>>>>,
                       <<"seq", <<ToString(subject.seq)>>>>}]

BodyKinds == {"put", "append"}
DeleteKinds == {"delete_intent", "delete_commit", "delete_commit_failed"}

Payload(kind, target, subject) == [kind |-> kind, target |-> target, subject |-> subject]

\* What an event is about: ChangeTarget::Chain, a row with its identity, its
\* body's address and its payload, or ChangeTarget::Ephemeral, a world.
ChainTarget(id, address, payload) ==
    [world |-> id.world, ident |-> id, address |-> address, payload |-> payload]

EphemeralTarget(w) == [world |-> w, ident |-> [kind |-> "ephemeral"], address |-> None, payload |-> None]

\* An event before it has a delivery id.
Change(verb, target, etag, ledgerId, subject) ==
    [id |-> 0, verb |-> verb, world |-> target.world, ident |-> target.ident, address |-> target.address,
     payload |-> target.payload, etag |-> etag, ledgerId |-> ledgerId, subject |-> subject]

\* A row that the ledger writer appended; the subject is the one the delete
\* captured, not the row's headers.
AppendedLedgerEvent(id, row, subject) ==
    [kind |-> row.kind, target |-> row.target, id |-> id, subject |-> subject]

\* A ping, and the aux that a delete's ping takes from its intent row.
EphemeralChange(verb, w, etag) == Change(verb, EphemeralTarget(w), etag, None, None)
DeletePing(w, intent) == Change("Delete", EphemeralTarget(w), None, intent.id, intent.subject)

\* ChangeTarget::from_appended_body_audit_row.
AppendedBody(verb, id, row) ==
    Change(verb, ChainTarget(id, id, Payload(row.kind, row.target, None)), id, None, None)

\* ChangeTarget::from_appended_audit_row, for a format row.
AppendedFormat(id, row) ==
    Change("Format", ChainTarget(id, None, Payload(row.kind, row.target, None)), id, None, None)

\* ChangeTarget::from_appended_ledger_event.
AppendedLedger(e) ==
    Change("Delete", ChainTarget(e.id, None, Payload(e.kind, e.target, e.subject)), e.id, None, None)

\* replay_event_kind_to_change_verb.
ReplayVerb(kind) ==
    CASE kind = "put" -> "Replace"
      [] kind = "append" -> "Append"
      [] kind = "format" -> "Format"
      [] kind \in DeleteKinds -> "Delete"

\* delete_subject_proof_from_headers: none for a memory world's delete.
SubjectFromHeaders(target, headers) ==
    LET Header(name) == (CHOOSE h \in headers : h[1] = name)[2]
    IN  IF headers = {} /\ target \in Memory THEN None
        ELSE IF headers = {} \/ Header("world") # target THEN Invalid
        ELSE EventId(Header("world"), Numeral(Header("generation")), Numeral(Header("seq")))

\* A row read back from the chain: VerifiedReplayBodyEvent, whose target is the
\* world itself, ...
ReplayedBody(id, row) == [id |-> id, kind |-> row.kind, address |-> id, target |-> id.world, subject |-> None]

\* ... and VerifiedReplayNonBodyEvent, with the subject its headers name.
ReplayedNonBody(id, row) ==
    [id |-> id, kind |-> row.kind, address |-> None, target |-> row.target,
     subject |-> IF row.kind \in DeleteKinds THEN SubjectFromHeaders(row.target, row.headers) ELSE None]

\* Mutant of ReplayedChange: the subject of a delete is not read back.
ReplayedChangeNoSubject(id, row) ==
    LET e == IF row.kind \in BodyKinds THEN ReplayedBody(id, row) ELSE ReplayedNonBody(id, row)
    IN  Change(ReplayVerb(e.kind), ChainTarget(id, e.address, Payload(e.kind, e.target, None)), id, None, None)

\* The event of a row read back from the chain: from_verified_replay_body_event,
\* from_verified_non_body_replay_event.
ReplayedChange(id, row) ==
    LET e == IF row.kind \in BodyKinds THEN ReplayedBody(id, row) ELSE ReplayedNonBody(id, row)
    IN  Change(ReplayVerb(e.kind), ChainTarget(id, e.address, Payload(e.kind, e.target, e.subject)), id, None, None)

-----------------------------------------------------------------------------
(* What a listener sees.                                                   *)

\* AuditEventType and its wire spelling.
AuditEventType == [kind \in BodyKinds \cup DeleteKinds \cup {"format"} |-> kind]

\* From<event::ChangeEvent>: the public event.  A delete's subject is the
\* payload's, or else the one the ping carries.
PublicEvent(e) ==
    [id |-> e.id, ident |-> e.ident, verb |-> e.verb, path |-> e.world, etag |-> e.etag, address |-> e.address,
     ledgerId |-> e.ledgerId,
     subject |-> IF e.payload # None /\ e.payload.subject # None THEN e.payload.subject ELSE e.subject,
     auditType |-> IF e.payload = None THEN {} ELSE {AuditEventType[e.payload.kind]},
     auditTarget |-> IF e.payload = None THEN <<>> ELSE e.payload.target]

Method == [Replace |-> "PUT", Append |-> "POST", Delete |-> "DELETE", Format |-> "FORMAT"]

\* durable_sse_id: only a row of the event's own world has one.
DurableSseId(c) ==
    IF c.ident.kind = "id" /\ c.ident.world = c.path THEN ToSseId(c.ident) ELSE <<>>

\* sse_change_event.
SseChangeEvent(c) ==
    [event |-> Method[c.verb], path |-> c.path, etag |-> c.etag,
     timeline |-> IF c.address # None /\ c.address.world = c.path THEN c.address ELSE None,
     ledgerCursor |-> IF c.ledgerId = None THEN <<>> ELSE ToSseId(c.ledgerId),
     targetGeneration |-> IF c.subject = None THEN 0 ELSE c.subject.gen,
     eventType |-> c.auditType, target |-> c.auditTarget,
     id |-> DurableSseId(c)]

\* What recv returns instead of an event, and how sse_reset_event tells it.
ResetReasonWire == [Incarnation |-> "incarnation", Truncation |-> "truncation", RingMiss |-> "ring-miss",
                    Memory |-> "memory"]
Reset(why) == [verb |-> "reset", reason |-> why]
Lagged == [verb |-> "lagged"]
IsChange(item) == item.verb \notin {"reset", "lagged"}
SseResetEvent(item) == [event |-> "reset", data |-> ResetReasonWire[item.reason], id |-> <<>>]

\* The stream of listen.rs: one server-sent event per item received.
SseItem(item) ==
    CASE item.verb = "reset" -> SseResetEvent(item)
      [] item.verb = "lagged" -> [event |-> "lag", id |-> <<>>]
      [] OTHER -> SseChangeEvent(PublicEvent(item))

-----------------------------------------------------------------------------
(* What an embedding program sees.                                         *)

\* From<ChangeVerb>, by the names that UniFFI gives the variants in Python.
FfiChangeVerb == [Replace |-> "REPLACE", Append |-> "APPEND", Delete |-> "DELETE", Format |-> "FORMAT"]

\* From<ChangeEvent>: the event flattened to optional fields (a set of no value
\* or one); the cursor is any chain identity, whatever its world.
FfiChangeEvent(c) ==
    [id |-> c.id, verb |-> FfiChangeVerb[c.verb], path |-> c.path, etag |-> c.etag,
     cursor |-> IF c.ident.kind = "id" THEN ToSseId(c.ident) ELSE <<>>,
     timeline_world |-> IF c.address = None THEN {} ELSE {c.address.world},
     timeline_generation |-> IF c.address = None THEN {} ELSE {c.address.gen},
     timeline_seq |-> IF c.address = None THEN {} ELSE {c.address.seq},
     delete_ledger_cursor |-> IF c.ledgerId = None THEN {} ELSE {ToSseId(c.ledgerId)},
     delete_ledger_seq |-> IF c.ledgerId = None THEN {} ELSE {c.ledgerId.seq},
     delete_subject_generation |-> IF c.subject = None THEN {} ELSE {c.subject.gen},
     audit_event_type |-> c.auditType,
     audit_event_target |-> IF c.auditTarget = <<>> THEN {} ELSE {c.auditTarget}]

\* From<SubscriptionResetReason>, by the variants' names in Python.
FfiResetReason == [Incarnation |-> "INCARNATION", Truncation |-> "TRUNCATION", RingMiss |-> "RING_MISS",
                   Memory |-> "MEMORY"]

\* TryFrom<FfiSubscriptionResume>: the cursor, if there is one, in its wire form.
FfiResume(cursors) == IF cursors = <<>> THEN None ELSE FromSseId(cursors[1])

\* str.lower, of the names above.
Lower == [REPLACE |-> "replace", APPEND |-> "append", DELETE |-> "delete", FORMAT |-> "format",
          INCARNATION |-> "incarnation", TRUNCATION |-> "truncation", RING_MISS |-> "ring_miss",
          MEMORY |-> "memory"]

\* Subscription._event: the fields that are always there, and the optional
\* ones that have a value.
SdkEvent(e) ==
    LET always == {"id", "cursor", "verb", "path", "etag"}
    IN  [kind |-> "event", id |-> e.id, cursor |-> e.cursor, verb |-> Lower[e.verb], path |-> e.path,
         etag |-> e.etag,
         optional |-> [f \in {f \in DOMAIN e \ always : e[f] # {}} |-> CHOOSE v \in e[f] : TRUE]]

\* Subscription.next: one dictionary per item received.
SdkNext(item) ==
    CASE item.verb = "reset" ->
           [kind |-> "reset", reason |-> Lower[FfiResetReason[item.reason]], cursor |-> <<>>]
      [] item.verb = "lagged" -> [kind |-> "lagged", cursor |-> <<>>]
      [] OTHER -> SdkEvent(FfiChangeEvent(PublicEvent(item)))
=============================================================================
