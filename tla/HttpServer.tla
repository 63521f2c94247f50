----------------------------- MODULE HttpServer -----------------------------
(***************************************************************************)
(* HTTP requests on worlds, from the pipeline (bin/src/server/pipeline.rs) *)
(* through the verb handlers (handler.rs, handler/*.rs) and the engine's   *)
(* operations (core/src/engine_ops.rs, world_ops.rs, delete_ops.rs) to the *)
(* response and what the client concludes from it.                         *)
(*                                                                         *)
(* Clients run concurrently.  The phases before the first await are one    *)
(* step; a read is one step (ReadCache shows it is atomic); a write waits  *)
(* for the world lock, evaluates its preconditions, commits and answers in *)
(* separate steps.  Memory worlds take the steps of MemoryStore.  Of a     *)
(* durable world the model keeps its generation and rows (WorldStore has   *)
(* the transaction, DeleteProtocol the ledger of a delete).                *)
(***************************************************************************)
EXTENDS HttpRules, MemoryStore

CONSTANTS
    DurableWorlds,  \* the durable worlds, as paths
    Tokens,         \* the configured credentials
    MaxWorldBytes,  \* max_world_bytes
    Keep,           \* body rows whose bodies are retained
    Scopes          \* workloads: start, memory, asks, budget, faults, policies

ASSUME HttpServerAssumption ==
    /\ MaxWorldBytes \in Nat
    /\ Keep \in Nat \ {0}

VARIABLES
    scope,     \* the workload of this behaviour
    durable,   \* per durable world: NoWorld or [gen, rows]
    gens,      \* generations minted
    policy,    \* [allow, deny]: the header lists this process read at start
    life,      \* "up", "draining" (file-op gate closed), "down" (signalled)
    lock,      \* per world: the client that holds its lock
    stream,    \* the client that holds the delete-ledger stream lock
    pc, req,   \* per client: step, and the request as parsed
    did,       \* per client: the effects of its request
    ans,       \* per client: the last answer, or NoAnswer
    budget,    \* per client: requests it may still send
    faults,    \* storage failures and lost answers that may still happen
    known,     \* per client: the tag it last saw, and the body under it
    part,      \* per client: the first bytes of a body it is assembling
    whole,     \* per client: the body it assembled
    served,    \* history: per client, the version its last read saw
    written,   \* history: every version ever stored
    effects    \* history: every effect with its conditions and what it met

reqVars == <<pc, req, did, ans, known, part, whole, served>>
vars == <<scope, durable, gens, policy, life, lock, stream, budget, faults,
          written, effects, reqVars, memVars>>

Clients == Workers
Worlds == DurableWorlds \cup MemoryWorlds

NoWorld == [gen |-> 0, rows |-> <<>>]
Unknown == <<0>>    \* a body the client has not seen; bytes are positive
NoAnswer == [status |-> 0]
NoVersion == [tag |-> NoTag, body |-> Unknown, hdrs |-> {}]
NoPart == [tag |-> NoTag, body |-> <<>>]

FormatRow == [kind |-> "format", body |-> <<>>, hdrs |-> {}]

\* What a read returns of an entry, of a durable world, of a world: the tag,
\* body and headers.
MemoryVersion(e) ==
    IF e = NoEntry THEN NoVersion
    ELSE [tag |-> BodyEtag(e.body), body |-> e.body, hdrs |-> e.hdrs]

DurableVersion(st) ==
    LET n == Len(st.rows) IN
    IF n = 0 THEN NoVersion
    ELSE [tag |-> HmacEtag(st.gen, n, st.rows[n].body), body |-> st.rows[n].body,
          hdrs |-> st.rows[n].hdrs]

Current(w) ==
    IF w \in MemoryWorlds THEN MemoryVersion(entries[w]) ELSE DurableVersion(durable[w])

Plain(status) ==
    [status |-> status, tag |-> NoTag, body |-> <<>>, hdrs |-> {}, first |-> 0,
     text |-> "error"]

-----------------------------------------------------------------------------
(* The client: templates of requests, and what it makes of an answer.      *)

Matchers(m, seen) ==
    CASE m = "none" -> {}
      [] m = "any" -> {AnyTag}
      [] m = "seen" -> {Strong(seen)}
      [] m = "weak" -> {Weak(seen)}
      [] m = "invalid" -> {InvalidTag}

Asked(c, t) ==
    [t EXCEPT !.ifMatch = Matchers(@, known[c].tag),
              !.ifNoneMatch = Matchers(@, known[c].tag),
              !.ifRange = IF @ = "seen" THEN part[c].tag ELSE NoTag]

\* The body that the client takes to be the one under the answer's tag.
BodyUnder(c, r, a) ==
    CASE r.verb = "GET" /\ a.status = 200 -> a.body
      [] r.verb = "PUT" /\ a.status \in {200, 201} -> r.body
      [] OTHER -> IF a.tag = known[c].tag THEN known[c].body ELSE Unknown

Learn(c, r, a) ==
    /\ known' = IF a.tag = NoTag THEN known
                ELSE [known EXCEPT ![c] = [tag |-> a.tag, body |-> BodyUnder(c, r, a)]]
    /\ part' = IF a.status = 206 /\ r.verb = "GET" /\ a.first = 0
               THEN [part EXCEPT ![c] = [tag |-> a.tag, body |-> a.body]]
               ELSE part
    /\ whole' = IF /\ a.status = 206 /\ r.verb = "GET" /\ r.ifRange # NoTag
                   /\ a.first = Len(part[c].body)
                THEN [whole EXCEPT ![c] = [tag |-> part[c].tag,
                                           body |-> part[c].body \o a.body]]
                ELSE whole

\* The request of c ends: with answer a, or with an answer that gets lost.
Deliver(c, r, a) ==
    /\ pc' = [pc EXCEPT ![c] = "idle"]
    /\ ans' = [ans EXCEPT ![c] = a]
    /\ Learn(c, r, a)

Answer(c, r, a) ==
    \/ Deliver(c, r, a) /\ UNCHANGED faults
    \/ /\ faults > 0
       /\ faults' = faults - 1
       /\ pc' = [pc EXCEPT ![c] = "idle"]
       /\ ans' = [ans EXCEPT ![c] = NoAnswer]
       /\ UNCHANGED <<known, part, whole>>

-----------------------------------------------------------------------------
(* Arrival: route.rs, pipeline.rs and the engine up to its first await.    *)

IsWrite(r) == r.verb \in {"PUT", "POST", "DELETE"}
World(r) == CanonicalizePath(r.path)

Authorized(r) == AccessTier(Tokens, r.auth)

\* The error of replace, append and delete before the lock, or "none".
WriteRefusal(r, w) ==
    IF ~CanWrite(w, Authorized(r)) THEN "Auth"
    ELSE IF w = DeleteLedger THEN "AppendOnly"
    ELSE IF life = "down" THEN "ShuttingDown"
    ELSE IF r.verb = "PUT" /\ Len(r.body) > MaxWorldBytes THEN "PayloadTooLarge"
    ELSE "none"

DeleteRefusal(r, w) ==
    IF ~CanDelete(Authorized(r)) THEN "Auth"
    ELSE IF w = DeleteLedger THEN "AppendOnly"
    ELSE IF life = "down" THEN "ShuttingDown"
    ELSE "none"

Proceed == 0    \* no status yet

\* Phase Dispatched: the verb decides.
Dispatch(r, w) ==
    CASE r.verb \in {"GET", "HEAD"} -> Proceed
      [] r.verb \in {"PUT", "POST"} ->
           LET err == WriteRefusal(r, w)
           IN  IF err = "none" THEN Proceed ELSE WriteErrorPhase[err]
      [] r.verb = "DELETE" ->
           LET err == DeleteRefusal(r, w)
           IN  IF err = "none" THEN Proceed ELSE DeleteErrorPhase(err, "None").status
      [] OTHER -> 405

DispatchTimeline(r) == IF r.verb \in {"GET", "HEAD"} THEN Proceed ELSE 405

\* Phase PathValidated: the query selects one of the two.
ClassifyTimelineRequest(r, w) ==
    LET mode == ClassifyRawQuery(r.query, w) IN
    CASE mode = QueryTooLong -> 414
      [] mode = BadQuery -> 400
      [] mode = TimelineMode -> DispatchTimeline(r)
      [] mode = CurrentMode -> Dispatch(r, w)

\* Phase Authenticated.
ValidatePath(r) ==
    IF ValidWorldName(World(r)) THEN ClassifyTimelineRequest(r, World(r)) ELSE 400

WorldHandler(r) == IF r.verb = "OPTIONS" THEN 204 ELSE ValidatePath(r)

\* The status a request is answered with before it waits for anything: the
\* router's body limit comes first, whoever asks.
Route(r) == IF Len(r.body) > MaxWorldBytes THEN 413 ELSE WorldHandler(r)

Arrive(c) ==
    /\ pc[c] = "idle" /\ budget[c] > 0
    /\ budget' = [budget EXCEPT ![c] = @ - 1]
    /\ did' = [did EXCEPT ![c] = {}]
    /\ served' = [served EXCEPT ![c] = NoVersion]
    /\ \E t \in scope.asks[c] :
         LET r == Asked(c, t) IN
         /\ req' = [req EXCEPT ![c] = r]
         /\ IF Route(r) # Proceed
            THEN Answer(c, r, Plain(Route(r)))
            ELSE /\ pc' = [pc EXCEPT ![c] = IF IsWrite(r) THEN "lock" ELSE "read"]
                 /\ ans' = [ans EXCEPT ![c] = NoAnswer]
                 /\ UNCHANGED <<faults, known, part, whole>>
    /\ UNCHANGED <<scope, durable, gens, policy, life, lock, stream, written,
                   effects, memVars>>

-----------------------------------------------------------------------------
(* Reads: execute_get, execute_head, execute_timeline.                     *)

\* HEAD answers as GET does, with an empty body.
Content(r, bytes) == IF r.verb = "GET" THEN bytes ELSE <<>>

\* dereference_timeline_coordinate on a world whose chain verifies.
Dereference(w, at) ==
    LET st == durable[w] IN
    IF w \notin DurableWorlds \/ st = NoWorld THEN "UnprovenCoordinate"
    ELSE IF at.gen # st.gen THEN "GenMismatch"
    ELSE IF at.seq \notin DOMAIN st.rows THEN "MissingRow"
    ELSE IF st.rows[at.seq].kind = "format" THEN "NonBodyEvent"
    ELSE IF st.rows[at.seq].body # at.body THEN "BodyHashMismatch"
    ELSE IF \E i \in DOMAIN st.rows :
              i > Len(st.rows) - Keep /\ st.rows[i].body = at.body
    THEN "Body" ELSE "Expired"

TimelineAnswer(w, r) ==
    LET found == Dereference(w, r.query.coordinate) IN
    IF found = "Body"
    THEN [Plain(200) EXCEPT !.body = Content(r, r.query.coordinate.body)]
    ELSE Plain(TimelinePhase[found])

\* The answer to a GET or HEAD that finds version v.
Representation(r, v) ==
    LET base  == [Plain(200) EXCEPT !.tag = v.tag,
                    !.hdrs = ApplyMetaHeaders(v.hdrs, policy.allow, policy.deny)]
        range == EffectiveRange(r.range, r.ifRange, v.tag, Len(v.body))
    IN  IF ReadNotModified(r.ifNoneMatch, v.tag) THEN [base EXCEPT !.status = 304]
        ELSE CASE range = Unsatisfiable -> Plain(416)
               [] range = FullBody -> [base EXCEPT !.body = Content(r, v.body)]
               [] OTHER -> [base EXCEPT !.status = 206, !.first = range.first,
                              !.body = Content(r, SubSeq(v.body, range.first + 1, range.last + 1))]

ReadAnswer(w, r) ==
    IF ~CanRead(Tokens, Authorized(r)) THEN Plain(ReadErrorPhase.Auth)
    ELSE IF life # "up" THEN Plain(ReadErrorPhase.ShuttingDown)
    ELSE IF ClassifyRawQuery(r.query, w) = TimelineMode THEN TimelineAnswer(w, r)
    ELSE IF w \notin Worlds \/ Current(w) = NoVersion THEN Plain(404)
    ELSE Representation(r, Current(w))

Read(c) ==
    LET r == req[c]
        w == World(r)
    IN  /\ pc[c] = "read"
        /\ w \in MemoryWorlds => shardHolder[Shard[w]] = Nobody
        /\ Answer(c, r, ReadAnswer(w, r))
        /\ served' = [served EXCEPT ![c] = IF w \in Worlds THEN Current(w) ELSE NoVersion]
        /\ UNCHANGED <<scope, durable, gens, policy, life, lock, stream, req, did,
                       budget, written, effects, memVars>>

\* SQLite fails the read.
ReadFails(c) ==
    /\ pc[c] = "read" /\ faults > 0 /\ life = "up"
    /\ World(req[c]) \in DurableWorlds
    /\ faults' = faults - 1
    /\ \E f \in SqliteFailures :
         Deliver(c, req[c], Plain(ReadErrorPhase[ClassifyStorageFailure(f)]))
    /\ UNCHANGED <<scope, durable, gens, policy, life, lock, stream, req, did,
                   served, budget, written, effects, memVars>>

-----------------------------------------------------------------------------
(* Writes: execute_put, execute_post, execute_delete and the engine under  *)
(* the world lock.                                                         *)

Goto(c, step) ==
    /\ pc' = [pc EXCEPT ![c] = step]
    /\ UNCHANGED <<req, ans, known, part, whole, served>>

\* The operation returns: its guards drop and its request is answered.
Release(c) ==
    /\ lock' = [w \in Worlds |-> IF lock[w] = c THEN Nobody ELSE lock[w]]
    /\ stream' = IF stream = c THEN Nobody ELSE stream

Return(c, a) ==
    /\ Release(c)
    /\ Answer(c, req[c], a)
    /\ UNCHANGED <<req, served>>

\* The same when a storage failure is the reason.
Fail(c, a) ==
    /\ faults > 0
    /\ faults' = faults - 1
    /\ Release(c)
    /\ Deliver(c, req[c], a)
    /\ UNCHANGED <<req, served>>

\* The answer to an engine error of c's verb, at the delete step reached.
ErrorAnswer(c, err, step) ==
    IF req[c].verb = "DELETE"
    THEN LET phase == DeleteErrorPhase(err, step)
         IN  [Plain(phase.status) EXCEPT !.text = phase.text]
    ELSE Plain(WriteErrorPhase[err])

\* Mutant of AwaitWorldLock: the write does not wait for the lock.
AwaitWorldLockSkipped(c) ==
    /\ pc[c] = "lock"
    /\ Goto(c, IF req[c].verb = "DELETE" THEN "stream" ELSE "check")
    /\ UNCHANGED <<scope, durable, gens, policy, life, lock, stream, did, budget, faults,
                   written, effects, memVars>>

AwaitWorldLock(c) ==
    /\ pc[c] = "lock"
    /\ lock[World(req[c])] = Nobody
    /\ lock' = [lock EXCEPT ![World(req[c])] = c]
    /\ Goto(c, IF req[c].verb = "DELETE" THEN "stream" ELSE "check")
    /\ UNCHANGED <<scope, durable, gens, policy, life, stream, did, budget, faults,
                   written, effects, memVars>>

AwaitStreamLock(c) ==
    /\ pc[c] = "stream" /\ stream = Nobody
    /\ stream' = c
    /\ Goto(c, "check")
    /\ UNCHANGED <<scope, durable, gens, policy, life, lock, did, budget, faults,
                   written, effects, memVars>>

\* The client goes away while the request waits: the future is dropped.
Disconnect(c) ==
    /\ pc[c] \in {"lock", "stream"} /\ faults > 0
    /\ faults' = faults - 1
    /\ Release(c)
    /\ Goto(c, "idle")
    /\ UNCHANGED <<scope, durable, gens, policy, life, did, budget,
                   written, effects, memVars>>

\* check_write_preconditions and its namesake in delete_ops.rs: the world is read,
\* with its ETag, only when the request has a condition.
CheckWritePreconditions(r, v) ==
    \/ r.ifMatch \cup r.ifNoneMatch = {}
    \/ CheckPreconditions(r.ifMatch, r.ifNoneMatch, v.tag)

CheckDeletePreconditions(r, v) ==
    \/ r.ifMatch \cup r.ifNoneMatch = {}
    \/ CheckPreconditions(r.ifMatch, r.ifNoneMatch, v.tag)

\* What replace_write_blocking, append_write_blocking and delete_blocking find
\* wrong before they change anything, "none" when all is well.
Objection(r, v) ==
    IF life # "up" THEN "ShuttingDown"
    ELSE IF ~(IF r.verb = "DELETE" THEN CheckDeletePreconditions(r, v) ELSE CheckWritePreconditions(r, v))
    THEN "PreconditionFailed"
    ELSE IF r.verb # "PUT" /\ v = NoVersion THEN "NotFound"
    ELSE IF r.verb = "POST" /\ Len(v.body) + Len(r.body) > MaxWorldBytes
    THEN "PayloadTooLarge"
    ELSE "none"

Check(c) ==
    LET r   == req[c]
        w   == World(r)
        err == Objection(r, Current(w))
    IN  /\ pc[c] = "check"
        /\ w \in MemoryWorlds => shardHolder[Shard[w]] = Nobody
        /\ IF err # "none"
           THEN Return(c, ErrorAnswer(c, err, "None"))
           ELSE /\ Goto(c, IF r.verb = "DELETE" THEN "intent"
                           ELSE IF w \in MemoryWorlds THEN "entry" ELSE "commit")
                /\ UNCHANGED <<lock, stream, faults>>
        /\ UNCHANGED <<scope, durable, gens, policy, life, did, budget,
                       written, effects, memVars>>

\* SQLite fails one of the reads of Check.
CheckFails(c) ==
    /\ pc[c] = "check" /\ life = "up"
    /\ World(req[c]) \in DurableWorlds
    /\ \E f \in SqliteFailures :
         Fail(c, ErrorAnswer(c, ClassifyStorageFailure(f), "None"))
    /\ UNCHANGED <<scope, durable, gens, policy, life, did, budget,
                   written, effects, memVars>>

\* The representation that c's write leaves.
Replacement(r, v) ==
    IF r.verb = "PUT"
    THEN [body |-> r.body, hdrs |-> RequestMetaHeaders(r.hdrs, policy.allow, policy.deny)]
    ELSE [body |-> v.body \o r.body, hdrs |-> v.hdrs]

\* History: an effect of c on a world that it meets at version v.
Note(c, v, what) ==
    /\ did' = [did EXCEPT ![c] = @ \cup {what}]
    /\ effects' = effects \cup
         {[ifMatch |-> req[c].ifMatch, ifNoneMatch |-> req[c].ifNoneMatch,
           saw |-> known[c], met |-> v]}

\* The write transaction: a first row opens a new generation with its format
\* row.  The world is at the version that Check saw, by the world lock.
Commit(c) ==
    LET r    == req[c]
        w    == World(r)
        v    == Current(w)
        st   == IF durable[w] = NoWorld
                THEN [gen |-> gens + 1, rows |-> <<FormatRow>>]
                ELSE durable[w]
        next == Replacement(r, v)
        row  == [kind |-> r.verb, body |-> next.body, hdrs |-> next.hdrs]
        done == [st EXCEPT !.rows = Append(@, row)]
    IN  /\ pc[c] = "commit"
        /\ durable' = [durable EXCEPT ![w] = done]
        /\ gens' = IF durable[w] = NoWorld THEN gens + 1 ELSE gens
        /\ written' = written \cup {DurableVersion(done)}
        /\ Note(c, v, IF v = NoVersion THEN "created" ELSE "updated")
        /\ Goto(c, "notify")
        /\ UNCHANGED <<scope, policy, life, lock, stream, budget, faults, memVars>>

\* The transaction is rolled back, or the storage quota does not admit it.
CommitFails(c) ==
    /\ pc[c] = "commit"
    /\ \E err \in {ClassifyStorageFailure(f) : f \in SqliteFailures} \cup {"QuotaExceeded"} :
         Fail(c, ErrorAnswer(c, err, "None"))
    /\ UNCHANGED <<scope, durable, gens, policy, life, did, budget,
                   written, effects, memVars>>

\* write_with_quota, append_with_quota and MemoryStore::delete, step by step.
NextEntry(r, w) ==
    IF r.verb = "DELETE" THEN NoEntry ELSE Replacement(r, Current(w))

MemoryEntry(c) ==
    /\ pc[c] = "entry"
    /\ LockEntry(c, World(req[c]))
    /\ Goto(c, "quota")
    /\ UNCHANGED <<scope, durable, gens, policy, life, lock, stream, did, budget, faults,
                   written, effects>>

MemoryQuota(c) ==
    LET w    == World(req[c])
        next == NextEntry(req[c], w)
    IN  /\ pc[c] = "quota"
        /\ \/ /\ AdmitBytes(c, w, next)
              /\ Goto(c, "store")
              /\ UNCHANGED <<lock, stream, faults>>
           \/ /\ RefuseBytes(c, w, next)
              /\ Return(c, ErrorAnswer(c, "QuotaExceeded", "None"))
        /\ UNCHANGED <<scope, durable, gens, policy, life, did, budget, written, effects>>

MemoryStoreEntry(c) ==
    LET r == req[c]
        w == World(r)
        v == Current(w)
    IN  /\ pc[c] = "store"
        /\ IF r.verb = "POST" THEN AppendEntry(c, w, NextEntry(r, w))
           ELSE StoreEntry(c, w, NextEntry(r, w))
        /\ written' = written \cup ({MemoryVersion(NextEntry(r, w))} \ {NoVersion})
        /\ Note(c, v, IF r.verb = "DELETE" THEN "removed"
                         ELSE IF v = NoVersion THEN "created" ELSE "updated")
        /\ Goto(c, IF r.verb = "POST" THEN "notify" ELSE "settle")
        /\ UNCHANGED <<scope, durable, gens, policy, life, lock, stream, budget, faults>>

MemorySettle(c) ==
    /\ pc[c] = "settle"
    /\ SettleBytes(c)
    /\ Goto(c, IF req[c].verb = "DELETE" THEN "delete commit" ELSE "notify")
    /\ UNCHANGED <<scope, durable, gens, policy, life, lock, stream, did, budget, faults,
                   written, effects>>

\* Notify the subscribers and answer with the tag of the version written.
WriteReturns(c) ==
    /\ pc[c] = "notify"
    /\ Return(c, [Plain(IF "created" \in did[c] THEN 201 ELSE 200)
                    EXCEPT !.tag = Current(World(req[c])).tag])
    /\ UNCHANGED <<scope, durable, gens, policy, life, did, budget,
                   written, effects, memVars>>

\* The delete: intent row, removal, commit row (DeleteProtocol has the rest).
DeleteIntent(c) ==
    /\ pc[c] = "intent"
    /\ did' = [did EXCEPT ![c] = @ \cup {"intent"}]
    /\ Goto(c, IF World(req[c]) \in MemoryWorlds THEN "entry" ELSE "remove")
    /\ UNCHANGED <<scope, durable, gens, policy, life, lock, stream, budget, faults,
                   written, effects, memVars>>

DeleteIntentFails(c) ==
    /\ pc[c] = "intent"
    /\ \E f \in SqliteFailures :
         Fail(c, ErrorAnswer(c, ClassifyStorageFailure(f), "AuditIntentFailed"))
    /\ UNCHANGED <<scope, durable, gens, policy, life, did, budget,
                   written, effects, memVars>>

DeleteRemove(c) ==
    LET w == World(req[c]) IN
    /\ pc[c] = "remove"
    /\ durable' = [durable EXCEPT ![w] = NoWorld]
    /\ Note(c, Current(w), "removed")
    /\ Goto(c, "delete commit")
    /\ UNCHANGED <<scope, gens, policy, life, lock, stream, budget, faults,
                   written, memVars>>

\* DeleteFailedAfterIntent reaches the adapter as Storage.
DeleteRemoveFails(c) ==
    /\ pc[c] = "remove"
    /\ Fail(c, ErrorAnswer(c, "Storage", "Intent"))
    /\ UNCHANGED <<scope, durable, gens, policy, life, did, budget,
                   written, effects, memVars>>

DeleteReturns(c) ==
    /\ pc[c] = "delete commit"
    /\ Return(c, Plain(204))
    /\ UNCHANGED <<scope, durable, gens, policy, life, did, budget,
                   written, effects, memVars>>

\* AuditCommitFailed reaches the adapter as Storage.
DeleteCommitFails(c) ==
    /\ pc[c] = "delete commit"
    /\ Fail(c, ErrorAnswer(c, "Storage", "NotifySent"))
    /\ UNCHANGED <<scope, durable, gens, policy, life, did, budget,
                   written, effects, memVars>>

-----------------------------------------------------------------------------
(* The process: graceful shutdown, and a stop with a start on the same     *)
(* data root, perhaps with other header lists.                             *)

HoldsFileOp(c) ==
    pc[c] \in {"entry", "quota", "store", "settle", "commit", "intent", "remove",
               "delete commit"}

BeginShutdown ==
    /\ life = "up" /\ scope.stops
    /\ life' = "draining"
    /\ UNCHANGED <<scope, durable, gens, policy, lock, stream, budget, faults,
                   written, effects, reqVars, memVars>>

SignalShutdown ==
    /\ life = "draining"
    /\ \A c \in Clients : ~HoldsFileOp(c)
    /\ life' = "down"
    /\ UNCHANGED <<scope, durable, gens, policy, lock, stream, budget, faults,
                   written, effects, reqVars, memVars>>

\* Requests in flight are gone, and so are the memory worlds.
Restart ==
    /\ faults > 0
    /\ faults' = faults - 1
    /\ policy' \in scope.policies
    /\ life' = "up"
    /\ lock' = [w \in Worlds |-> Nobody]
    /\ stream' = Nobody
    /\ pc' = [c \in Clients |-> "idle"]
    /\ ans' = [c \in Clients |-> IF pc[c] = "idle" THEN ans[c] ELSE NoAnswer]
    /\ entries' = [w \in MemoryWorlds |-> NoEntry]
    /\ accounted' = 0
    /\ shardHolder' = [d \in Shards |-> Nobody]
    /\ quotaHolder' = Nobody
    /\ UNCHANGED <<scope, durable, gens, budget, written, effects, req, did, known,
                   part, whole, served, maxMemory, projected>>

\* Every client has sent what it had to send.  No other state is final: TLC's
\* deadlock check shows that no request waits for a lock for ever.
Rest ==
    /\ \A c \in Clients : pc[c] = "idle" /\ budget[c] = 0
    /\ UNCHANGED vars

Init ==
    /\ scope \in Scopes
    /\ durable = scope.start
    /\ gens = Cardinality({w \in DurableWorlds : scope.start[w] # NoWorld})
    /\ policy = [allow |-> {}, deny |-> {}]
    /\ life = "up"
    /\ lock = [w \in Worlds |-> Nobody]
    /\ stream = Nobody
    /\ pc = [c \in Clients |-> "idle"]
    /\ req = [c \in Clients |-> [verb |-> "none"]]
    /\ did = [c \in Clients |-> {}]
    /\ ans = [c \in Clients |-> NoAnswer]
    /\ budget = scope.budget
    /\ faults = scope.faults
    /\ known = [c \in Clients |-> [tag |-> NoTag, body |-> Unknown]]
    /\ part = [c \in Clients |-> NoPart]
    /\ whole = [c \in Clients |-> NoPart]
    /\ served = [c \in Clients |-> NoVersion]
    /\ written = {DurableVersion(scope.start[w]) : w \in DurableWorlds} \ {NoVersion}
    /\ effects = {}
    /\ maxMemory = scope.memory
    /\ MemoryInit

ReadStep(c) == Arrive(c) \/ Read(c) \/ ReadFails(c)

WriteStep(c) ==
    \/ AwaitWorldLock(c) \/ Check(c) \/ CheckFails(c)
    \/ Commit(c) \/ CommitFails(c)
    \/ MemoryEntry(c) \/ MemoryQuota(c) \/ MemoryStoreEntry(c) \/ MemorySettle(c)
    \/ WriteReturns(c)

DeleteStep(c) ==
    \/ AwaitStreamLock(c)
    \/ DeleteIntent(c) \/ DeleteIntentFails(c)
    \/ DeleteRemove(c) \/ DeleteRemoveFails(c)
    \/ DeleteReturns(c) \/ DeleteCommitFails(c)

Next ==
    \/ \E c \in Clients : ReadStep(c) \/ WriteStep(c) \/ DeleteStep(c) \/ Disconnect(c)
    \/ BeginShutdown \/ SignalShutdown \/ Restart \/ Rest

Spec == Init /\ [][Next]_vars

-----------------------------------------------------------------------------
\* A conditional write takes effect on exactly the version its conditions name:
\* the preconditions that check_write_preconditions evaluated still hold when
\* the write commits, and the body an If-Match tag stood for at the client is
\* the body that is replaced.  So no update is lost, and If-None-Match: *
\* creates at most once.
ConditionsHoldAtCommit ==
    \A e \in effects :
        /\ CheckPreconditions(e.ifMatch, e.ifNoneMatch, e.met.tag)
        /\ e.ifMatch = {Strong(e.saw.tag)} /\ e.saw.body # Unknown
              => e.met.body = e.saw.body

\* The status a client receives tells what its request did: 201, 200 and 204
\* only after the effect, the two 500 texts of execute_delete for a delete cut
\* short, and after every other status nothing has changed, so that a retry
\* after 503 cannot repeat anything.
AnswerTellsEffect ==
    \A c \in Clients : pc[c] = "idle" /\ ans[c] # NoAnswer /\ IsWrite(req[c]) =>
        did[c] = CASE ans[c].status = 201 -> {"created"}
                   [] ans[c].status = 200 -> {"updated"}
                   [] ans[c].status = 204 -> {"intent", "removed"}
                   [] ans[c].text = "delete failed after audit intent" -> {"intent"}
                   [] ans[c].text = "delete succeeded but audit commit failed" ->
                        {"intent", "removed"}
                   [] OTHER -> {}

\* A client that goes by its entity tag ends with no wrong body, whatever is
\* written, deleted or created again between its two reads: one put together
\* from a 206 and a second 206 requested with If-Range is a body the world had
\* under that tag, and when execute_get answers 304 the body the client holds
\* is the world's body at the read.
ValidatedBodyIsTrue ==
    \A c \in Clients :
        /\ whole[c] # NoPart => \E v \in written : v.tag = whole[c].tag /\ v.body = whole[c].body
        /\ ans[c].status = 304 /\ known[c].body # Unknown /\ req[c].ifNoneMatch # {AnyTag}
              => served[c].body = known[c].body

\* The headers of an answer are the ones that were stored with the version it
\* names, under the lists in force at that write: apply_meta_headers does not
\* filter by the lists of the process that reads.
HeadersRoundTrip ==
    \A c \in Clients : ans[c].status \in {200, 206, 304} /\ ~IsWrite(req[c])
                      /\ ans[c].tag # NoTag =>
        /\ ans[c].hdrs \cap NeverPersisted = {}
        /\ \E v \in written : v.tag = ans[c].tag /\ v.hdrs = ans[c].hdrs

=============================================================================
