----------------------------- MODULE AuditTrail -----------------------------
(***************************************************************************)
(* What the audit trail proves to somebody outside the engine.  The rows   *)
(* of a world's events table and of the delete ledger, field by field; the *)
(* engine's verifier (audit/verifier.rs, audit/headers.rs) and the         *)
(* independent one (tools/audit_chain_verify.py); the endpoints of         *)
(* /proc/audit (engine_introspection.rs, server/proc.rs) and what Python   *)
(* is told (sdk/src/l5); ordinary reads; and a host that keeps stamps and  *)
(* compares them later.  Files are edited, cut short, put in another       *)
(* world's place or directory, or restored from a copy.                    *)
(*                                                                         *)
(* A world is the sequence of its path segments.  A hash is the value      *)
(* hashed, an HMAC the sequence of what was fed into the chain so far, so  *)
(* nobody without the key produces one.  Stored headers are a set of       *)
(* <<name, value>>: both verifiers read them back in canonical order.      *)
(* Retained bodies and the live body are WorldStore's subject.             *)
(***************************************************************************)
EXTENDS HttpRules, SequencesExt

CONSTANTS
    Subject,       \* the durable world whose trail is watched
    Bodies,        \* bodies written to it
    Scopes         \* the bounds a run considers (see scope)

ASSUME AuditTrailAssumption ==
    /\ ValidWorldName(Subject) /\ ~IsMemoryWorld(Subject) /\ Subject # DeleteLedger
    /\ \A sc \in Scopes : {sc.rows, sc.ledger, sc.gens, sc.edits, sc.restores, sc.anchors} \subseteq Nat

Chains == {Subject, DeleteLedger}

MemoryWorld == <<"tmp", "m">>

Malformed == "malformed"   \* text no parser of the field accepts
NotText == "blob"          \* a value that is not text at all
EmptyBody == ""
Forged == << <<>> >>       \* 64 hex digits that are the HMAC of nothing
BodyKinds == {"put", "append"}
DeleteKinds == {"delete_intent", "delete_commit", "delete_commit_failed"}

NoFile == [there |-> FALSE, gen |-> 0, rows |-> <<>>]

-----------------------------------------------------------------------------
(* Rows as the engine writes them (audit/append.rs, audit/headers.rs).     *)

SubjectHeaders(world, gen, seq, body, hmac) ==
    {<<"subject-world", world>>, <<"subject-generation", gen>>, <<"subject-seq", seq>>,
     <<"subject-body", body>>, <<"subject-hmac", hmac>>}

SubjectNames == {"subject-world", "subject-generation", "subject-seq", "subject-body", "subject-hmac"}

\* AuditHeaders: a caller's own headers may not use the reserved names, ...
FromUser(headers) == \A h \in headers : h[1] \notin SubjectNames
\* ... and are stored with those of the subject, if there is one.
ToStoragePairs(user, subject) == user \cup subject

MetaSha256(ctype, headers) == <<ctype, headers>>

\* event_hmac.
EventHmac(prev, world, gen, row) ==
    Append(prev, <<world, row.ts, row.kind, row.target, gen, row.body, row.ctype, row.meta>>)

ChainLatest(rows) == IF rows = <<>> THEN <<>> ELSE rows[Len(rows)].hmac

\* append_tx_inner.
AppendTxInner(world, db, kind, target, body, headers) ==
    LET prev == ChainLatest(db.rows)
        row  == [kind |-> kind, target |-> target, body |-> body, ctype |-> "text", headers |-> headers,
                 meta |-> MetaSha256("text", headers), ts |-> "t1", prev |-> prev, hmac |-> prev]
    IN  [db EXCEPT !.rows = Append(@, [row EXCEPT !.hmac = EventHmac(prev, world, db.gen, row)])]

\* append_format_tx_row.
AppendFormat(world, db) ==
    AppendTxInner(world, db, "format", world, EmptyBody, {<<"version", "2">>})

-----------------------------------------------------------------------------
(* The engine's verifier.                                                  *)

OneHeader(headers, name) == {h[2] : h \in {g \in headers : g[1] = name}}

HasOne(headers, name) == Cardinality({g \in headers : g[1] = name}) = 1

ValueOf(headers, name) == CHOOSE v \in OneHeader(headers, name) : TRUE

\* delete_subject_proof_from_headers succeeds.
SubjectProofParses(target, body, headers) ==
    LET present == \E h \in headers : h[1] \in SubjectNames
    IN  \/ ~present /\ IsMemoryWorld(target)
        \/ /\ \A name \in SubjectNames : HasOne(headers, name)
           /\ ValueOf(headers, "subject-world") = target
           /\ ValueOf(headers, "subject-generation") > 0
           /\ ValueOf(headers, "subject-seq") > 0
           /\ ValueOf(headers, "subject-body") = body
           /\ ValueOf(headers, "subject-hmac") # <<>>

\* verify_delete_subject_proof.
DeleteSubjectVerifies(row) ==
    row.kind \in DeleteKinds =>
      /\ row.target[1] \in Namespaces /\ ValidWorldName(row.target)
      /\ row.body # Malformed
      /\ SubjectProofParses(row.target, row.body, row.headers)

\* Mutant of EventVerifies: the stored headers are not held against meta.
EventVerifiesNoMeta(world, gen, row, prev) ==
    /\ row.kind \in BodyKinds \cup DeleteKinds \cup {"format"}
    /\ row.kind \in BodyKinds \cup {"format"} => row.target = world
    /\ row.prev = prev
    /\ row.kind = "format" => <<"version", "2">> \in row.headers
    /\ DeleteSubjectVerifies(row)
    /\ row.ts # Malformed
    /\ row.hmac = EventHmac(prev, world, gen, row)

\* verify_event: a row is accepted after the row with HMAC prev.
EventVerifies(world, gen, row, prev) ==
    /\ row.kind \in BodyKinds \cup DeleteKinds \cup {"format"}
    /\ row.kind \in BodyKinds \cup {"format"} => row.target = world
    /\ row.prev = prev
    /\ row.kind = "format" => <<"version", "2">> \in row.headers
    /\ DeleteSubjectVerifies(row)
    /\ row.meta = MetaSha256(row.ctype, row.headers)
    /\ row.ts # Malformed
    /\ row.hmac = EventHmac(prev, world, gen, row)

\* The rows that are not accepted.  A row that is was tied to its predecessor's
\* HMAC, so up to the first of these each row can be judged on its own.
Rejected(world, db) ==
    {i \in DOMAIN db.rows :
        ~EventVerifies(world, db.gen, db.rows[i], IF i = 1 THEN <<>> ELSE db.rows[i - 1].hmac)}

Broken(at) == [status |-> "broken", at |-> at]
Valid(events, genesis, latest) ==
    [status |-> "valid", events |-> events, genesis |-> genesis, latest |-> latest]
Unreadable == [status |-> "error"]

\* The columns of a row have the types of EventRow.
EventRowReads(row) == row.ts # NotText

\* verify_statement_capture without retention: the walk, then the empty chain.
\* A row is judged once the next one was read.
VerifyStatementCapture(world, db, allowEmpty) ==
    LET rejected == Rejected(world, db)
        unread == {i \in DOMAIN db.rows : ~EventRowReads(db.rows[i])}
    IN  IF db.gen = 0 THEN Unreadable
        ELSE IF \E i \in unread : \A j \in rejected : i <= j + 1 THEN Unreadable
        ELSE IF rejected # {} THEN Broken(Min(rejected) - 1)
        ELSE IF db.rows = <<>> THEN (IF allowEmpty THEN Valid(0, <<>>, <<>>) ELSE Broken(0))
        ELSE Valid(Len(db.rows), db.rows[1].hmac, ChainLatest(db.rows))

\* verify_tail_event: the last row after what the row before it says.
VerifyTailEvent(world, db) ==
    LET rows == db.rows
    IN  EventVerifies(world, db.gen, rows[Len(rows)], ChainLatest(Front(rows)))

\* latest_event_with_headers_tx and previous_hmac_tx find what they look for.
TailReads(db) ==
    /\ db.rows # <<>>
    /\ EventRowReads(Last(db.rows))

\* require_current_tail_intact_tx: what ordinary reads and later writes check.
RequireCurrentTailIntact(world, db) ==
    /\ db.gen # 0
    /\ TailReads(db)
    /\ VerifyTailEvent(world, db)

\* read_with_hmac_via_conn: the last row's HMAC is the ETag of the body.
ReadWithHmacViaConn(world, db) ==
    IF RequireCurrentTailIntact(world, db) THEN [status |-> "read", row |-> Last(db.rows)]
    ELSE Unreadable

\* ChainSeq::new: ordinals of a chain start at 1.
ChainSeqNew(raw) == raw > 0

\* ChainEventCount::latest_seq: the last ordinal, when the walk saw a row.
LatestSeq(count) == IF ChainSeqNew(count) THEN {count} ELSE {}

\* ChainStamp: an ordinal of this generation, and the HMAC the walk had there.
StampOf(gen, seq, hmac) == [gen |-> gen, seq |-> seq, hmac |-> hmac]

\* ChainStampRead, and ChainStampMissing: how many rows the walk saw.
StampFound(stamp) == [status |-> "found", stamp |-> stamp]
StampMissing(gen, requested, observed) ==
    [status |-> "missing", gen |-> gen, requested |-> requested, observed |-> observed]

\* verified_head_from_ok: nothing to anchor in an empty chain.
VerifiedHeadFromOk(db, ok) ==
    IF LatestSeq(ok.events) = {} THEN [status |-> "none"]
    ELSE [status |-> "head", stamp |-> StampOf(db.gen, ok.events, ok.latest)]

\* chain_head_via_conn.
ChainHeadViaConn(world, db) ==
    LET report == VerifyStatementCapture(world, db, TRUE)
    IN  IF report.status = "valid" THEN VerifiedHeadFromOk(db, report) ELSE report

\* Mutant of VerifiedStamp: the stamp of the head, whatever was asked for.
VerifiedStampOfHead(db, seq) ==
    IF Len(db.rows) < seq THEN StampMissing(db.gen, seq, Len(db.rows))
    ELSE StampFound(StampOf(db.gen, seq, ChainLatest(db.rows)))

\* verified_stamp_from_completed_walk: the HMAC the walk captured at ordinal seq,
\* or how many rows there are.
VerifiedStamp(db, seq) ==
    IF Len(db.rows) < seq THEN StampMissing(db.gen, seq, Len(db.rows))
    ELSE StampFound(StampOf(db.gen, seq, db.rows[seq].hmac))

\* chain_stamp_via_conn.
ChainStampViaConn(world, db, seq) ==
    LET report == VerifyStatementCapture(world, db, TRUE)
    IN  IF report.status = "valid" THEN VerifiedStamp(db, seq) ELSE report

\* verify_chain_via_conn.
VerifyChainViaConn(world, db) == VerifyStatementCapture(world, db, FALSE)

-----------------------------------------------------------------------------
(* Directories.  A name in the data root is a world and how it is spelled. *)

DiskName(w) == [world |-> w, spelling |-> "canonical"]

\* decode_disk_world_name: the name decodes to a world, and is what this world
\* encodes to.
DecodeDiskWorldName(name) ==
    IF name.spelling = "not utf-8" THEN "corrupt"
    ELSE IF ~ValidWorldName(name.world) THEN "corrupt"
    ELSE IF DiskName(name.world) # name THEN "corrupt"
    ELSE "world"

\* try_for_each and verify_world_with_file_op over <<name, database>>.
AllWorldsVerify(found) ==
    \A f \in found :
      /\ DecodeDiskWorldName(f[1]) = "world"
      /\ VerifyChainViaConn(f[1].world, f[2]).status = "valid"

-----------------------------------------------------------------------------
(* The independent verifier (tools/audit_chain_verify.py).                 *)

\* is_canonical_world.
ToolIsCanonicalWorld(w) ==
    /\ w # <<>>
    /\ ~(Len(w) = 1 /\ w[1] \in Namespaces \cup {"proc"}) /\ w # <<"var", "log">> /\ w[1] # "proc"
    /\ \A i \in DOMAIN w : w[i] \notin {"", "Dot", "Raw", "Long"}
    /\ w[1] \in Namespaces

\* verify_delete_subject_proof of the tool: presence of all five, then each.
ToolSubjectVerifies(row) ==
    LET only(name) == HasOne(row.headers, name)
        value(name) == ValueOf(row.headers, name)
    IN  \/ /\ \A h \in row.headers : h[1] \notin SubjectNames
           /\ row.target[1] \in {"tmp", "dev", "sys"}
        \/ /\ row.body # Malformed
           /\ \A name \in SubjectNames : only(name)
           /\ ToolIsCanonicalWorld(value("subject-world"))
           /\ value("subject-world") = row.target
           /\ value("subject-generation") # 0
           /\ value("subject-seq") # 0
           /\ value("subject-body") # Malformed
           /\ value("subject-body") = row.body
           /\ value("subject-hmac") # <<>>

\* meta_sha256_canonical and event_hmac of the tool.
ToolMetaSha256(row) == <<row.ctype, row.headers>>

ToolEventHmac(prev, world, gen, row) ==
    Append(prev, <<world, row.ts, row.kind, row.target, gen, row.body, row.ctype, row.meta>>)

\* Mutant of ToolVerifyEvent: the tool trusts the row's own link.
ToolVerifyEventUnlinked(world, gen, row, prev) ==
    /\ row.kind \in {"put", "append", "format"} \cup DeleteKinds
    /\ row.kind \in {"put", "append", "format"} => row.target = world
    /\ row.kind = "format" => <<"version", "2">> \in row.headers
    /\ row.kind \in DeleteKinds => ToolIsCanonicalWorld(row.target) /\ ToolSubjectVerifies(row)
    /\ row.meta = ToolMetaSha256(row)
    /\ row.ts # Malformed
    /\ row.hmac = ToolEventHmac(row.prev, world, gen, row)

\* verify_event of the tool.
ToolVerifyEvent(world, gen, row, prev) ==
    /\ row.kind \in {"put", "append", "format"} \cup DeleteKinds
    /\ row.kind \in {"put", "append", "format"} => row.target = world
    /\ row.kind = "format" => <<"version", "2">> \in row.headers
    /\ row.kind \in DeleteKinds => ToolIsCanonicalWorld(row.target) /\ ToolSubjectVerifies(row)
    /\ row.prev = prev
    /\ row.meta = ToolMetaSha256(row)
    /\ row.ts # Malformed
    /\ row.hmac = ToolEventHmac(prev, world, gen, row)

\* row_from_sql raises for a column of another type.
ToolRowFromSql(row) == row.ts # NotText

\* verify_connection: a row is verified when the next one, or the end, is there.
ToolVerifyConnection(world, db, allowEmpty) ==
    LET verify(acc) ==
            IF acc.current = <<>> THEN acc
            ELSE IF ToolVerifyEvent(world, db.gen, acc.current[1], acc.prev)
                 THEN [acc EXCEPT !.prev = acc.current[1].hmac, !.events = @ + 1, !.current = <<>>,
                                  !.genesis = IF acc.events = 0 THEN acc.current[1].hmac ELSE @]
                 ELSE [acc EXCEPT !.is = "broken"]
        step(acc, row) ==
            IF acc.is # "going" THEN acc
            ELSE IF ~ToolRowFromSql(row) THEN [acc EXCEPT !.is = "error"]
            ELSE LET next == verify(acc)
                 IN  IF next.is = "broken" THEN next ELSE [next EXCEPT !.current = <<row>>]
        start == [is |-> "going", current |-> <<>>, prev |-> <<>>, genesis |-> <<>>, events |-> 0]
        walk == FoldLeft(step, start, db.rows)
        end == IF walk.is = "going" THEN verify(walk) ELSE walk
    IN  IF db.gen = 0 \/ end.is = "error" THEN Unreadable
        ELSE IF end.is = "broken" THEN Broken(end.events)
        ELSE IF end.events = 0 /\ ~allowEmpty THEN Broken(0)
        ELSE Valid(end.events, end.genesis, end.prev)

\* world_from_disk_name of the tool.
ToolWorldFromDiskName(name) ==
    IF name.spelling # "not utf-8" /\ ToolIsCanonicalWorld(name.world) /\ DiskName(name.world) = name
    THEN "world" ELSE "error"

\* iter_world_dbs: one bad name, and nothing is verified.
ToolIterWorldDbs(found) ==
    IF \E f \in found : ToolWorldFromDiskName(f[1]) = "error" THEN "error" ELSE "found"

\* verify_data_root for the worlds that were named, or all: their statuses.
ToolVerifyDataRoot(found, worlds, allowEmpty) ==
    LET dbs(w) == {f[2] : f \in {g \in found : g[1] = DiskName(w)}}
        targets == IF worlds # {} THEN worlds ELSE {f[1].world : f \in found}
    IN  {IF dbs(w) = {} THEN "missing"
         ELSE ToolVerifyConnection(w, CHOOSE db \in dbs(w) : TRUE, allowEmpty).status : w \in targets}

\* main: the exit status.
ToolMain(found, args) ==
    IF ~args.key \/ (args.worlds = {} /\ ToolIterWorldDbs(found) = "error") THEN 1
    ELSE LET results == ToolVerifyDataRoot(found, args.worlds, args.allowEmpty)
         IN  IF args.requireWorlds /\ results = {} THEN 1
             ELSE IF results \subseteq {"valid"} THEN 0 ELSE 1

-----------------------------------------------------------------------------
VARIABLES
    scope,      \* bounds of the behaviour, fixed: rows of Subject's chain
                \* and of the ledger (.rows, .ledger), incarnations of Subject
                \* (.gens), edits of files (.edits),
                \* copies put in place (.restores), stamps kept (.anchors)
    file,       \* the SQLite file in the directory of each chain's world
    copy,       \* a copy of Subject's file somebody keeps
    stray,      \* directories that are no chain's: <<name, database>>
    memory,     \* MemoryWorld exists
    up,         \* an engine is running
    verified,   \* chains in its AuditVerificationCache
    minted,     \* generations minted so far
    del,        \* the delete in progress
    anchors,    \* stamps the host keeps, each with the rows it stood for (history)
    written,    \* history: <<world, generation, rows>> after every engine commit
    edits,      \* history: edits made behind the engine
    restores    \* history: copies put in place behind the engine

vars == <<scope, file, copy, stray, memory, up, verified, minted, del, anchors, written, edits, restores>>

NoDelete == [step |-> "none", target |-> <<>>, body |-> EmptyBody, headers |-> {}]

Init ==
    /\ scope \in Scopes
    /\ file = [w \in Chains |-> NoFile]
    /\ copy = NoFile
    /\ stray = {}
    /\ memory = FALSE
    /\ up = FALSE
    /\ verified = {}
    /\ minted = 0
    /\ del = NoDelete
    /\ anchors = {}
    /\ written = {}
    /\ edits = 0
    /\ restores = 0

(* ---- the engine ------------------------------------------------------- *)

\* What a walk over the data root finds.
Found == {<<DiskName(w), file[w]>> : w \in {c \in Chains : file[c].there}} \cup stray

\* EngineBuilder::build: every world on disk must verify.
Start ==
    /\ ~up
    /\ AllWorldsVerify(Found)
    /\ up' = TRUE
    /\ verified' = {w \in Chains : file[w].there}
    /\ UNCHANGED <<scope, file, copy, stray, memory, minted, del, anchors, written, edits, restores>>

\* The process ends, with it a delete in progress and what was in memory.
Stop ==
    /\ up
    /\ up' = FALSE
    /\ verified' = {}
    /\ memory' = FALSE
    /\ del' = NoDelete
    /\ UNCHANGED <<scope, file, copy, stray, minted, anchors, written, edits, restores>>

\* verify_appendable_tx_full the first time, its last row after that.
MayAppend(w) ==
    IF w \in verified THEN RequireCurrentTailIntact(w, file[w])
    ELSE VerifyStatementCapture(w, file[w], FALSE).status = "valid"

Commit(w, next) ==
    /\ Len(next.rows) <= IF w = Subject THEN scope.rows ELSE scope.ledger
    /\ file' = [file EXCEPT ![w] = next]
    /\ written' = written \cup {<<w, next.gen, next.rows>>}

\* A PUT that creates Subject: the format row and the first body in one
\* transaction.
CreateWorld(body) ==
    /\ up /\ del = NoDelete
    /\ ~file[Subject].there
    /\ minted < scope.gens
    /\ minted' = minted + 1
    /\ LET fresh == [there |-> TRUE, gen |-> minted', rows |-> <<>>]
       IN  Commit(Subject, AppendTxInner(Subject, AppendFormat(Subject, fresh), "put", Subject, body, {<<"user", "u">>}))
    /\ verified' = verified \cup {Subject}
    /\ UNCHANGED <<scope, copy, stray, memory, up, del, anchors, edits, restores>>

\* A later PUT or APPEND.
Write(kind, body) ==
    /\ up /\ del = NoDelete
    /\ file[Subject].there
    /\ MayAppend(Subject)
    /\ Commit(Subject, AppendTxInner(Subject, file[Subject], kind, Subject, body, {<<"user", "u">>}))
    /\ verified' = verified \cup {Subject}
    /\ UNCHANGED <<scope, copy, stray, memory, up, minted, del, anchors, edits, restores>>

\* append_with_conn_genesis_row on a ledger without rows, ...
AppendWithConnGenesisRow(db, kind, target, body, headers) ==
    /\ VerifyStatementCapture(DeleteLedger, db, TRUE).status = "valid"
    /\ Commit(DeleteLedger,
              AppendTxInner(DeleteLedger, AppendFormat(DeleteLedger, db), kind, target, body, headers))

\* ... and append_with_conn_existing_row on one with rows, all of them verified.
AppendWithConnExistingRow(db, kind, target, body, headers) ==
    /\ VerifyStatementCapture(DeleteLedger, db, FALSE).status = "valid"
    /\ Commit(DeleteLedger, AppendTxInner(DeleteLedger, db, kind, target, body, headers))

\* LedgerWriter::append opens or creates the ledger.
LedgerAppend(kind, target, body, headers) ==
    LET ledger == file[DeleteLedger]
        opened == IF ledger.there THEN ledger ELSE [there |-> TRUE, gen |-> 1, rows |-> <<>>]
    IN  IF opened.rows = <<>> THEN AppendWithConnGenesisRow(opened, kind, target, body, headers)
        ELSE AppendWithConnExistingRow(opened, kind, target, body, headers)

\* A PUT to the world in memory.
PutMemory ==
    /\ up /\ ~memory
    /\ scope.edits + scope.restores = 0
    /\ memory' = TRUE
    /\ UNCHANGED <<scope, file, copy, stray, up, verified, minted, del, anchors, written, edits, restores>>

\* The seqs load_latest_body_head considers.
BodySeqs(db) == {i \in DOMAIN db.rows : db.rows[i].kind \in BodyKinds}

\* Mutant of LoadLatestBodyHead: ORDER BY id without DESC.
LoadFirstBodyHead(db) == Min(BodySeqs(db))

LoadLatestBodyHead(db) == Max(BodySeqs(db))

\* verified_latest_body_head_via_conn: a chain that verifies, and a body in it.
VerifiedLatestBodyHead(world, db) ==
    VerifyStatementCapture(world, db, FALSE).status = "valid" /\ BodySeqs(db) # {}

\* Headers that come with the request of a delete.
DeleteHeaders == {{<<"user", "d">>}, {<<"user", "d">>, <<"subject-seq", 1>>}}

\* No file, or a tombstone in the read cache while a delete is under way.
NotThere(w) == ~file[w].there \/ (del.step = "tombstoned" /\ del.target = w)

\* Core::latest_body_head, through the read cache: none without a file.
CachedLatestBodyHead(w) == VerifiedLatestBodyHead(w, file[w])
LatestBodyHead(w) == ~NotThere(w) /\ CachedLatestBodyHead(w)

\* capture_delete_subject_proof: the latest body of the verified chain.
DeleteSubject(user) ==
    LET seq == LoadLatestBodyHead(file[Subject])
        row == file[Subject].rows[seq]
    IN  [step |-> "intent", target |-> Subject, body |-> row.body,
         headers |-> ToStoragePairs(user, SubjectHeaders(Subject, file[Subject].gen, seq, row.body, row.hmac))]

\* delete_blocking up to the tombstone: the intent row names its subject.
DeleteIntent(user) ==
    /\ up /\ del = NoDelete
    /\ FromUser(user)
    /\ LatestBodyHead(Subject)
    /\ del' = DeleteSubject(user)
    /\ LedgerAppend("delete_intent", Subject, del'.body, del'.headers)
    /\ UNCHANGED <<scope, copy, stray, memory, up, verified, minted, anchors, edits, restores>>

\* A memory world has no chain: its intent row has no subject.
DeleteMemoryIntent(user) ==
    /\ up /\ del = NoDelete /\ memory
    /\ FromUser(user)
    /\ del' = [step |-> "intent", target |-> MemoryWorld, body |-> EmptyBody, headers |-> ToStoragePairs(user, {})]
    /\ LedgerAppend("delete_intent", del'.target, del'.body, del'.headers)
    /\ UNCHANGED <<scope, copy, stray, memory, up, verified, minted, anchors, edits, restores>>

\* install_tombstone_blocking: readers of the target find nothing.
DeleteTombstone ==
    /\ del.step = "intent"
    /\ del' = [del EXCEPT !.step = "tombstoned"]
    /\ UNCHANGED <<scope, file, copy, stray, memory, up, verified, minted, anchors, written, edits, restores>>

\* delete_world_now succeeds.
DeleteRemove ==
    /\ del.step = "tombstoned"
    /\ file' = IF del.target = Subject THEN [file EXCEPT ![Subject] = NoFile] ELSE file
    /\ memory' = (memory /\ del.target # MemoryWorld)
    /\ verified' = verified \ {del.target}
    /\ del' = [del EXCEPT !.step = "removed"]
    /\ UNCHANGED <<scope, copy, stray, up, minted, anchors, written, edits, restores>>

\* delete_world_now fails: the tombstone is lifted, the world stays.
DeleteFails ==
    /\ del.step = "tombstoned"
    /\ del' = NoDelete
    /\ UNCHANGED <<scope, file, copy, stray, memory, up, verified, minted, anchors, written, edits, restores>>

\* The closing row: delete_commit, delete_commit_failed when that could not be
\* appended, nothing when neither could.
DeleteClose ==
    /\ del.step = "removed"
    /\ \/ \E kind \in {"delete_commit", "delete_commit_failed"} :
             LedgerAppend(kind, del.target, del.body, del.headers)
       \/ UNCHANGED <<file, written>>
    /\ del' = NoDelete
    /\ UNCHANGED <<scope, copy, stray, memory, up, verified, minted, anchors, edits, restores>>

(* ---- /proc/audit (engine_introspection.rs, server/proc.rs) ------------ *)

\* with_tracked_conn around one of the functions on a connection.
WithTrackedConn(w, result) == IF NotThere(w) THEN [status |-> "NotFound"] ELSE result

CachedReadWithHmac(w) == WithTrackedConn(w, ReadWithHmacViaConn(w, file[w]))
CachedChainHead(w) == WithTrackedConn(w, ChainHeadViaConn(w, file[w]))
CachedChainStamp(w, seq) == WithTrackedConn(w, ChainStampViaConn(w, file[w], seq))
CachedVerifyChain(w) == WithTrackedConn(w, VerifyChainViaConn(w, file[w]))

\* A chain that cannot be read is a storage error, and except where the chain
\* itself was asked about, so is a broken one.
OrStorage(failures, report) == IF report.status \in failures THEN [status |-> "Storage"] ELSE report

\* A world in memory has no chain.
OfMemoryWorld == IF memory THEN [status |-> "not applicable"] ELSE [status |-> "NotFound"]

\* verify_audit.
VerifyAudit(w) ==
    IF w = MemoryWorld THEN OfMemoryWorld ELSE OrStorage({"error"}, CachedVerifyChain(w))

\* chain_head.
ChainHead(w) ==
    IF w = MemoryWorld THEN OfMemoryWorld ELSE OrStorage({"error", "broken"}, CachedChainHead(w))

\* chain_stamp.
ChainStamp(w, seq) ==
    IF w = MemoryWorld THEN OfMemoryWorld ELSE OrStorage({"error", "broken"}, CachedChainStamp(w, seq))

\* Engine::verify_audit, chain_head and chain_stamp, which hosts call directly
\* and the routes call: the caller's tier, then the operation.
EngineVerifyAudit(w, mayRead) == IF mayRead THEN VerifyAudit(w) ELSE [status |-> "Auth"]
EngineChainHead(w, mayRead) == IF mayRead THEN ChainHead(w) ELSE [status |-> "Auth"]
EngineChainStamp(w, seq, mayRead) == IF mayRead THEN ChainStamp(w, seq) ELSE [status |-> "Auth"]

\* Responses: the status, and the x-audit-* headers that are there.
Respond(code) == [code |-> code]

AuditValid(r) == [code |-> 200, valid |-> "true", events |-> r.events, genesis |-> r.genesis, latest |-> r.latest]
AuditBroken(r) == [code |-> 409, valid |-> "false", break_at |-> r.at]
AuditHead(r) == [code |-> 200, generation |-> r.stamp.gen, seq |-> r.stamp.seq, hmac |-> r.stamp.hmac]
AuditStamp(r) ==
    IF r.status = "found" THEN AuditHead(r)
    ELSE [code |-> 204, generation |-> r.gen, events |-> r.observed]

\* proc_audit_verify: method, path, then the engine, which checks the tier.
\* A request is [method, world, action, seq, mayRead]; ordinals start at 1.
ProcAudit(r) ==
    LET result == CASE r.action = "verify" -> EngineVerifyAudit(r.world, r.mayRead)
                    [] r.action = "head"   -> EngineChainHead(r.world, r.mayRead)
                    [] r.action = "stamp"  -> EngineChainStamp(r.world, r.seq, r.mayRead)
    IN  IF r.method = "OPTIONS" THEN Respond(204)
        ELSE IF r.method \notin {"GET", "HEAD"} THEN Respond(405)
        ELSE IF r.action = "stamp" /\ ~ChainSeqNew(r.seq) THEN Respond(400)
        ELSE CASE result.status = "Auth" -> Respond(401)
               [] result.status = "NotFound" -> Respond(404)
               [] result.status = "Storage" -> Respond(500)
               [] result.status \in {"not applicable", "none"} -> Respond(204)
               [] result.status = "valid" -> AuditValid(result)
               [] result.status = "broken" -> AuditBroken(result)
               [] result.status = "head" -> AuditHead(result)
               [] result.status \in {"found", "missing"} -> AuditStamp(result)

Request(w, action, seq) ==
    [method |-> "GET", world |-> w, action |-> action, seq |-> seq, mayRead |-> TRUE]

\* FfiAuditVerify, and Engine.verify and Engine.chain_head of the SDK.
FfiAuditVerify(result) ==
    CASE result.status = "valid" -> [is |-> "VALID", valid |-> result]
      [] result.status = "broken" -> [is |-> "BROKEN", broken |-> result]
      [] result.status = "not applicable" -> [is |-> "NOT_APPLICABLE"]
      [] OTHER -> [is |-> "exception"]
SdkVerify(w) == FfiAuditVerify(EngineVerifyAudit(w, TRUE)).is = "VALID"
SdkChainHead(w) ==
    LET result == FfiAuditVerify(EngineVerifyAudit(w, TRUE))
    IN  IF result.is = "VALID"
        THEN <<[events |-> result.valid.events, genesis |-> result.valid.genesis, latest |-> result.valid.latest]>>
        ELSE <<>>

\* The host asks for the head and keeps the stamp.
Anchor(method, mayRead) ==
    LET head == ProcAudit([Request(Subject, "head", 0) EXCEPT !.mayRead = mayRead, !.method = method])
    IN  /\ up
        /\ head.code = 200
        /\ Cardinality(anchors) < scope.anchors
        /\ anchors' = anchors \cup {[gen |-> head.generation, seq |-> head.seq, hmac |-> head.hmac,
                                      rows |-> file[Subject].rows]}
        /\ UNCHANGED <<scope, file, copy, stray, memory, up, verified, minted, del, written, edits, restores>>

\* What the host concludes from the stamp at the anchored ordinal.
Compare(a) ==
    LET stamp == ProcAudit(Request(Subject, "stamp", a.seq))
    IN  IF stamp.code \notin {200, 204} THEN "gone or broken"
        ELSE IF stamp.generation # a.gen THEN "replaced"
        ELSE IF stamp.code = 204 THEN "cut short"
        ELSE IF stamp.hmac # a.hmac THEN "diverged"
        ELSE "intact"

(* ---- changes behind the engine ---------------------------------------- *)

EditedRow(row) ==
    {[row EXCEPT !.kind = k] : k \in {"put", "append", "delete_intent", Malformed}}
      \cup {[row EXCEPT !.target = t] : t \in {Subject, <<"home", "Dot">>}}
      \cup {[row EXCEPT !.body = b] : b \in Bodies \cup {EmptyBody, Malformed}}
      \cup {[row EXCEPT !.ts = t] : t \in {"t2", Malformed, NotText}}
      \cup {[row EXCEPT !.prev = p] : p \in {<<>>, Forged}}
      \cup {[row EXCEPT !.hmac = h] : h \in {row.prev, Forged}}
      \cup {[row EXCEPT !.headers = @ \ {h}] : h \in row.headers}
      \cup {[row EXCEPT !.headers = {}, !.meta = MetaSha256(row.ctype, {})]}

EditedFile(w) ==
    LET f == file[w]
    IN  {[f EXCEPT !.rows[i] = row] : <<i, row>> \in UNION {{<<i, r>> : r \in EditedRow(f.rows[i])} : i \in DOMAIN f.rows}}
          \cup {[f EXCEPT !.rows = SubSeq(@, 1, i - 1) \o SubSeq(@, i + 1, Len(@))] : i \in DOMAIN f.rows}
          \cup {[f EXCEPT !.rows = Append(@, @[i])] : i \in DOMAIN f.rows}
          \cup {[f EXCEPT !.gen = g] : g \in 0..(scope.gens + 1)}

\* A row or the generation is edited, a row removed or repeated.
Edit(w) ==
    /\ edits < scope.edits
    /\ file[w].there
    /\ \E f \in EditedFile(w) \ {file[w]} : file' = [file EXCEPT ![w] = f]
    /\ edits' = edits + 1
    /\ UNCHANGED <<scope, copy, stray, memory, up, verified, minted, del, anchors, written, restores>>

\* Somebody copies Subject's file and puts the copy in a world's directory.
KeepCopy ==
    /\ scope.restores > 0
    /\ copy = NoFile
    /\ file[Subject].there
    /\ copy' = file[Subject]
    /\ UNCHANGED <<scope, file, stray, memory, up, verified, minted, del, anchors, written, edits, restores>>

\* Or in a directory of its own, well named or not.
StrayNames ==
    {DiskName(<<"home", "b">>), DiskName(<<"home">>), DiskName(<<"home", "Dot">>),
     [DiskName(Subject) EXCEPT !.spelling = "lower hex"], [DiskName(Subject) EXCEPT !.spelling = "not utf-8"]}

Misplace ==
    /\ restores < scope.restores
    /\ ~up
    /\ copy.there
    /\ \E name \in StrayNames : stray' = stray \cup {<<name, copy>>}
    /\ restores' = restores + 1
    /\ UNCHANGED <<scope, file, copy, memory, up, verified, minted, del, anchors, written, edits>>

RestoreCopy(w) ==
    /\ restores < scope.restores
    /\ ~up
    /\ copy.there /\ copy # file[w]
    /\ file' = [file EXCEPT ![w] = copy]
    /\ restores' = restores + 1
    /\ UNCHANGED <<scope, copy, stray, memory, up, verified, minted, del, anchors, written, edits>>

Next ==
    \/ Start \/ Stop
    \/ \E body \in Bodies : CreateWorld(body)
    \/ \E kind \in BodyKinds, body \in Bodies : Write(kind, body)
    \/ \E user \in DeleteHeaders : DeleteIntent(user) \/ DeleteMemoryIntent(user)
    \/ DeleteTombstone \/ DeleteRemove \/ DeleteFails \/ DeleteClose
    \/ PutMemory
    \/ \E method \in {"GET", "HEAD", "POST"}, mayRead \in BOOLEAN : Anchor(method, mayRead)
    \/ \E w \in Chains : Edit(w) \/ RestoreCopy(w)
    \/ KeepCopy \/ Misplace

Spec == Init /\ [][Next]_vars

-----------------------------------------------------------------------------
(* Properties                                                              *)

\* The ways the tool is called.
ToolArgs(worlds, allowEmpty, requireWorlds) ==
    [key |-> TRUE, worlds |-> worlds, allowEmpty |-> allowEmpty, requireWorlds |-> requireWorlds]

\* Whoever is asked gives the same verdict, whatever was done to the files:
\* tools/audit_chain_verify.py "mirrors the Engine audit frame" (the same row
\* breaks, the same head is reported, the exit status says whether an engine
\* would start on the data root), /proc/audit answers 200, 409 with that row or
\* an error, and Python's verify and chain_head say the same.
VerifiersAgree ==
    /\ \A w \in Chains, allowEmpty \in BOOLEAN :
         file[w].there =>
           ToolVerifyConnection(w, file[w], allowEmpty) = VerifyStatementCapture(w, file[w], allowEmpty)
    /\ ToolMain(Found, ToolArgs({}, FALSE, FALSE)) = 0 <=> AllWorldsVerify(Found)
    /\ ToolMain(Found, ToolArgs({Subject}, FALSE, TRUE)) = 0 <=> VerifyChainViaConn(Subject, file[Subject]).status = "valid"
    /\ (up /\ ~NotThere(Subject)) =>
         LET tool == ToolVerifyConnection(Subject, file[Subject], FALSE)
             proc == ProcAudit(Request(Subject, "verify", 0))
         IN  CASE tool.status = "valid" ->
                    /\ proc = [code |-> 200, valid |-> "true", events |-> tool.events,
                               genesis |-> tool.genesis, latest |-> tool.latest]
                    /\ SdkVerify(Subject)
                    /\ SdkChainHead(Subject)[1].latest = ProcAudit(Request(Subject, "head", 0)).hmac
               [] tool.status = "broken" ->
                    proc = [code |-> 409, valid |-> "false", break_at |-> tool.at] /\ ~SdkVerify(Subject)
               [] tool.status = "error" -> proc.code = 500 /\ SdkChainHead(Subject) = <<>>

\* A chain that verifies was written by an engine, for this world and this
\* generation, row for row (event_hmac covers the previous HMAC, the world and
\* the generation); edits, cuts followed by writes, misplaced files and
\* restored copies included.  And although an ordinary read checks the last row
\* only, the row it returns is one that an engine wrote here.
ValidWasWritten ==
    \A w \in Chains :
      LET wrote == {t[3] : t \in {u \in written : u[1] = w /\ u[2] = file[w].gen}}
          read  == CachedReadWithHmac(w)
      IN  /\ file[w].there /\ VerifyStatementCapture(w, file[w], FALSE).status = "valid"
               => \E rows \in wrote : IsPrefix(file[w].rows, rows)
          /\ read.status = "read" => \E rows \in wrote : \E i \in DOMAIN rows : rows[i] = read.row

\* The anchoring contract of HeadStamp and chain_stamp: comparing the stamp at
\* the anchored ordinal says "intact" exactly when the anchored history is
\* still the beginning of a chain that verifies.  A world in memory never
\* answers with a stamp.
AnchorTells ==
    up =>
      /\ \A a \in anchors :
           Compare(a) = "intact" <=>
             /\ ProcAudit(Request(Subject, "verify", 0)).code = 200
             /\ file[Subject].gen = a.gen
             /\ IsPrefix(a.rows, file[Subject].rows)
      /\ \A action \in {"verify", "head", "stamp"} :
           ProcAudit(Request(MemoryWorld, action, 1)) = Respond(IF memory THEN 204 ELSE 404)

\* Nothing anchored disappears without a trace: with files left alone, an
\* anchored history is still there or the delete ledger holds an intent whose
\* subject (capture_delete_subject_proof) is a continuation of that history.
LossIsExplained ==
    edits + restores = 0 => \A a \in anchors :
      \/ file[Subject].there /\ file[Subject].gen = a.gen /\ IsPrefix(a.rows, file[Subject].rows)
      \/ \E i \in DOMAIN file[DeleteLedger].rows :
            LET row == file[DeleteLedger].rows[i]
            IN  /\ row.kind = "delete_intent"
                /\ <<"subject-generation", a.gen>> \in row.headers
                /\ IsPrefix(a.hmac, ValueOf(row.headers, "subject-hmac"))
=============================================================================
