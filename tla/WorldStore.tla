----------------------------- MODULE WorldStore -----------------------------
(***************************************************************************)
(* The life of one durable world: engine start with chain verification,    *)
(* PUT and APPEND through the cached writer connection, delete and         *)
(* re-creation, connection eviction, crashes between any two of these      *)
(* steps, failing transactions, and damage to the file on disk.            *)
(*                                                                         *)
(* The world lock admits one write or delete at a time (WorldLocks is its  *)
(* own component), so the writer is one sequential process here; a SQLite  *)
(* transaction is one step.                                                *)
(***************************************************************************)
EXTENDS Timeline

CONSTANTS
    Chunks,          \* what bodies are made of
    Puts,            \* bodies clients PUT
    Appends,         \* bodies clients APPEND
    MaxBody,         \* max_world_bytes
    Scopes           \* the bounds a run considers (see scope)

ASSUME WorldStoreAssumption ==
    /\ Puts \cup Appends \subseteq Seq(Chunks)
    /\ NotHex \notin Seq(Chunks)
    /\ MaxBody \in Nat
    /\ \A sc \in Scopes :
          /\ sc.counts \subseteq Nat \ {0}
          /\ {sc.events, sc.gens, sc.damage} \subseteq Nat
          /\ sc.faults \in BOOLEAN

VARIABLES
    scope,     \* bounds of the behaviour, fixed: the values of
               \* retained_body_count engines are built with (.counts), rows of
               \* a chain (.events), incarnations (.gens), damaging events
               \* (.damage), and whether SQLite transactions and schema
               \* creation may fail (.faults)
    db,        \* the world's SQLite file
    minted,    \* generations minted so far
    up,        \* an engine is running
    retained,  \* its retained_body_count
    verified,  \* the world is in AuditVerificationCache
    conn,      \* cached writer: "none", "Created" or "Existing"
    pc,        \* the write in progress: "idle", "open", "creating", "opened", "committed"
    req,       \* its verb and body
    log,       \* history: the rows as they were meant, this incarnation
    acked,     \* history: addresses handed out in answers
    damage     \* history: damaging events so far

vars == <<scope, db, minted, up, retained, verified, conn, pc, req, log, acked, damage>>

NoReq == [verb |-> "none", body |-> <<>>]

Init ==
    /\ scope \in Scopes
    /\ db = NoDb
    /\ minted = 0
    /\ up = FALSE
    /\ retained = 0
    /\ verified = FALSE
    /\ conn = "none"
    /\ pc = "idle"
    /\ req = NoReq
    /\ log = <<>>
    /\ acked = {}
    /\ damage = 0

-----------------------------------------------------------------------------
(* Engine lifecycle.                                                       *)

\* The open of an existing file checks its shape, then the chain is verified.
StartupAccepts == db.file = "absent" \/ (db.file = "ready" /\ VerifyWorld(db))

\* EngineBuilder::build.
Start(n) ==
    /\ ~up
    /\ StartupAccepts
    /\ up' = TRUE
    /\ retained' = n
    /\ verified' = (db.file = "ready")
    /\ UNCHANGED <<scope, db, minted, conn, pc, req, log, acked, damage>>

\* EngineBuilder::build fails: a file it finds does not open or does not verify.
StartRefused ==
    /\ ~up
    /\ ~StartupAccepts
    /\ UNCHANGED vars

\* The process stops, in an orderly way or not.  A committed transaction stays
\* (journal_mode=WAL, synchronous=FULL), everything in memory is gone.
Crash ==
    /\ up
    /\ up' = FALSE
    /\ verified' = FALSE
    /\ conn' = "none"
    /\ pc' = "idle"
    /\ req' = NoReq
    /\ UNCHANGED <<scope, db, minted, retained, log, acked, damage>>

\* evict_cached_write_conn_if_needed, on behalf of another world.
EvictConn ==
    /\ conn # "none"
    /\ pc = "idle"
    /\ conn' = "none"
    /\ UNCHANGED <<scope, db, minted, up, retained, verified, pc, req, log, acked, damage>>

-----------------------------------------------------------------------------
(* A write.                                                                *)

\* replace_write_blocking up to the connection: the quota snapshot opens the
\* file if there is one and fails on an incomplete schema.
BeginPut(body) ==
    /\ up /\ pc = "idle"
    /\ db.file # "partial"
    /\ pc' = "open"
    /\ req' = [verb |-> "put", body |-> body]
    /\ UNCHANGED <<scope, db, minted, up, retained, verified, conn, log, acked, damage>>

\* append_write_blocking up to the connection: the world must exist, and the
\* result must fit max_world_bytes.
BeginAppend(body) ==
    /\ up /\ pc = "idle"
    /\ db.file = "ready"
    /\ Len(db.live) + Len(body) <= MaxBody
    /\ pc' = "open"
    /\ req' = [verb |-> "append", body |-> body]
    /\ UNCHANGED <<scope, db, minted, up, retained, verified, conn, log, acked, damage>>

\* cached_write_conn / cached_existing_write_conn with the file in place.
OpenWriter ==
    /\ pc = "open"
    /\ conn # "none" \/ db.file = "ready"
    /\ conn' = IF conn = "none" THEN "Existing" ELSE conn
    /\ pc' = "opened"
    /\ UNCHANGED <<scope, db, minted, up, retained, verified, req, log, acked, damage>>

\* Mutant of CreateFile: the new incarnation reuses the first generation.
CreateFileSameGeneration ==
    /\ pc = "open"
    /\ conn = "none" /\ db.file = "absent"
    /\ minted < scope.gens
    /\ minted' = minted + 1
    /\ db' = NewDb(1, "partial")
    /\ log' = <<>>
    /\ pc' = "creating"
    /\ UNCHANGED <<scope, up, retained, verified, conn, req, acked, damage>>

\* open_world_paths_with_generation_minter_and_kind without a file: mint a
\* generation and create the file; the schema follows statement by statement.
CreateFile ==
    /\ pc = "open"
    /\ conn = "none" /\ db.file = "absent"
    /\ minted < scope.gens
    /\ minted' = minted + 1
    /\ db' = NewDb(minted', "partial")
    /\ log' = <<>>
    /\ pc' = "creating"
    /\ UNCHANGED <<scope, up, retained, verified, conn, req, acked, damage>>

\* world_schema::create ends: an empty "bootstrap" database.
CreateSchema ==
    /\ pc = "creating"
    /\ db' = [db EXCEPT !.file = "ready"]
    /\ conn' = "Created"
    /\ pc' = "opened"
    /\ UNCHANGED <<scope, minted, up, retained, verified, req, log, acked, damage>>

\* A statement of world_schema::create fails.
CreateFails ==
    /\ scope.faults
    /\ pc = "creating"
    /\ pc' = "idle"
    /\ req' = NoReq
    /\ UNCHANGED <<scope, db, minted, up, retained, verified, conn, log, acked, damage>>

\* audit_chain_opening: APPEND never relies on the connection's memory.
IsGenesis(verb) ==
    \/ verb = "put" /\ conn = "Created"
    \/ db.events = <<>> /\ db.live = <<>>

\* verify_appendable_world_tx.
GatePasses(verb) ==
    IF IsGenesis(verb) THEN FullGate(db, TRUE)
    ELSE IF verified THEN TailGate(db)
    ELSE FullGate(db, FALSE)

\* PUT replaces the live body, APPEND extends it.
NewBody == IF req.verb = "append" THEN db.live \o req.body ELSE req.body

\* The quota preflight of the write: what it will file and prune.
Filed == IF req.verb = "append" THEN AppendMissingBody(db, req.body) ELSE MissingBody(db, req.body)
Prunable ==
    IF req.verb = "append" THEN AppendPrunableAfterNext(db, req.body, retained)
    ELSE PrunableAfterNext(db, req.body, retained)

\* What the client meant, whatever is on disk.
IntendedBody ==
    IF req.verb = "append" /\ log # <<>> THEN log[Len(log)].body \o req.body ELSE req.body

\* The kind and the body of a row, and the rows with those a write is meant to add.
Told(row) == [kind |-> row.kind, body |-> row.body]
IntendedLog ==
    Append(IF IsGenesis(req.verb) THEN Append(log, [kind |-> "format", body |-> <<>>]) ELSE log,
           [kind |-> req.verb, body |-> IntendedBody])

\* write_with_audit_checked_retaining_on_conn and append_with_audit_retaining_
\* on_conn.  Only the former marks the connection as existing.
CommitTx ==
    /\ pc = "opened"
    /\ GatePasses(req.verb)
    /\ CommitAllowed(db, req.verb, NewBody, IsGenesis(req.verb))
    /\ Len(db.events) + (IF IsGenesis(req.verb) THEN 2 ELSE 1) <= scope.events
    /\ db' = CommitBody(db, req.verb, NewBody, retained, IsGenesis(req.verb))
    /\ log' = IntendedLog
    /\ verified' = TRUE
    /\ conn' = IF req.verb = "put" THEN "Existing" ELSE conn
    /\ pc' = "committed"
    /\ UNCHANGED <<scope, minted, up, retained, req, acked, damage>>

\* The gate or a check inside the transaction refuses the write.
RefuseTx ==
    /\ pc = "opened"
    /\ ~(GatePasses(req.verb) /\ CommitAllowed(db, req.verb, NewBody, IsGenesis(req.verb)))
    /\ pc' = "idle"
    /\ req' = NoReq
    /\ UNCHANGED <<scope, db, minted, up, retained, verified, conn, log, acked, damage>>

\* The transaction fails (disk full, I/O error) and rolls back.
TxFails ==
    /\ scope.faults
    /\ pc = "opened"
    /\ pc' = "idle"
    /\ req' = NoReq
    /\ UNCHANGED <<scope, db, minted, up, retained, verified, conn, log, acked, damage>>

\* The client is answered; the answer carries the new timeline address.
Ack ==
    /\ pc = "committed"
    /\ acked' = acked \cup {[gen |-> db.gen, seq |-> Len(db.events), body |-> log[Len(log)].body]}
    /\ pc' = "idle"
    /\ req' = NoReq
    /\ UNCHANGED <<scope, db, minted, up, retained, verified, conn, log, damage>>

-----------------------------------------------------------------------------
(* Delete and damage.                                                      *)

\* A delete of this world that succeeds: the subject is fully verified, the
\* cached writer dropped, the directory removed, the cache entry unmarked.
\* (The ledger rows and the failing paths belong to the delete protocol.)
DeleteWorld ==
    /\ up /\ pc = "idle"
    /\ db.file = "ready" /\ LatestBodyHead(db) # <<>>
    /\ db' = NoDb
    /\ log' = <<>>
    /\ conn' = "none"
    /\ verified' = FALSE
    /\ UNCHANGED <<scope, minted, up, retained, pc, req, acked, damage>>

\* The file changes under the engine: a row, the live body, a retained blob.
\* Damage between a commit and its answer equals damage after the answer.
Damaged ==
    \/ \E i \in DOMAIN db.events, b \in Puts : db' = [db EXCEPT !.events[i].body = b]
    \/ \E b \in Puts : db' = [db EXCEPT !.live = b]
    \/ \E k \in DOMAIN db.cas, b \in Puts : db' = [db EXCEPT !.cas[k] = b]
    \/ \E k \in DOMAIN db.cas : db' = [db EXCEPT !.cas = Without(@, {k})]

Damage ==
    /\ damage < scope.damage
    /\ pc # "committed"
    /\ db.events # <<>>
    /\ Damaged
    /\ damage' = damage + 1
    /\ UNCHANGED <<scope, minted, up, retained, verified, conn, pc, req, log, acked>>

Next ==
    \/ \E n \in scope.counts : Start(n)
    \/ StartRefused \/ Crash \/ EvictConn
    \/ \E body \in Puts : BeginPut(body)
    \/ \E body \in Appends : BeginAppend(body)
    \/ OpenWriter \/ CreateFile \/ CreateSchema \/ CreateFails
    \/ CommitTx \/ RefuseTx \/ TxFails \/ Ack
    \/ DeleteWorld \/ Damage

Spec == Init /\ [][Next]_vars

-----------------------------------------------------------------------------
(* Properties                                                              *)

\* Whatever crashes, evictions, failed transactions, retention changes and
\* re-creations happened, a world with a committed write verifies: the next
\* engine start (verify_all_worlds_with_names) will accept it.
CommittedVerifies ==
    damage = 0 /\ db.events # <<>> => VerifyWorld(db)

\* A chain that verifies tells the truth: its rows are exactly what the clients
\* wrote to this incarnation, in order, the live body is the last of them, and
\* so is the address a delete would anchor in the ledger, even if the file was
\* damaged and then written to.
ChainTellsHistory ==
    db.events # <<>> /\ VerifyWorld(db)
      => /\ [i \in DOMAIN db.events |-> Told(db.events[i])] = log
         /\ db.live = log[Len(log)].body
         /\ LatestBodyHead(db)[1].body = log[Len(log)].body
         /\ ReadTimelineBody(db, LatestBodyHead(db)[1]).body = log[Len(log)].body

\* Python's get_at on an event handed out for an acknowledged write returns
\* exactly the body of that write.  Without damage it raises only "expired" once
\* the row is below the floor, "gen_mismatch" after a re-creation and "unproven"
\* while the world is deleted, or a storage error while it is being re-created.
AddressesAreStable ==
    \A a \in acked :
      LET got == GetAt(db, EventDict(<<a>>))
      IN  /\ got.raised = "nothing" => got.body = a.body /\ a.gen = db.gen
          /\ damage = 0 =>
               \/ got.raised = "nothing"
               \/ got.kind = "EXPIRED" /\ a.gen = db.gen /\ a.seq < db.floor
               \/ got.kind = "GEN_MISMATCH" /\ a.gen < db.gen
               \/ got.kind = "UNPROVEN" /\ db.file = "absent"
               \/ got.raised = "StorageError" /\ a.gen < db.gen /\ db.events = <<>>

\* The two resolvers of history, of addresses and of wire coordinates, never
\* differ about an address the engine handed out.
ResolversAgree ==
    \A a \in acked :
      LET read  == EngineReadTimelineBody(db, a)
          deref == EngineDereference(db, Coordinate(EventDict(<<a>>)))
      IN  \/ read = deref
          \/ read.is = "Unproven" /\ deref.is = "UnprovenCoordinate"
          \/ read.is = "AddressMismatch" /\ deref.is = "BodyHashMismatch" /\ read.sha = deref.sha

\* The quota preflight foresees exactly what the transaction files and prunes.
PruneEstimateExact ==
    pc = "opened" /\ damage = 0 =>
      LET committed == CommitBody(db, req.verb, NewBody, retained, IsGenesis(req.verb))
      IN  /\ Filed = DOMAIN committed.cas \ DOMAIN db.cas
          /\ Prunable = DOMAIN db.cas \ DOMAIN committed.cas

=============================================================================
