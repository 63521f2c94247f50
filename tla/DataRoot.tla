------------------------------ MODULE DataRoot ------------------------------
(***************************************************************************)
(* The data root as a whole: the directories of the durable worlds and of  *)
(* the delete ledger, the operations that create, write and remove them    *)
(* (StorageQuota, WorldFiles), and the reports that look at them while     *)
(* that goes on: the listings, du and df (core/src/engine_introspection.rs *)
(* over core/src/world/files.rs), asked for through /proc                  *)
(* (bin/src/server/proc.rs), by Python, or by a Rust embedder.             *)
(*                                                                         *)
(* A report takes no world lock.  It walks the root with read_dir entry by *)
(* entry, opens each database it found, and asks it three queries; every   *)
(* one of these is a step here, and so is each counter that df loads.  The *)
(* settlement of an operation updates several counters in one step.        *)
(* `scope` picks a workload; it never changes.                             *)
(***************************************************************************)
EXTENDS StorageQuota, WorldFiles, FfiRules, FiniteSetsExt

CONSTANTS
    Ledger,       \* var/log/deletes
    Stray,        \* a directory that is no world's, with a universe.db in it
    MemoryWorld,  \* a world under tmp/
    Callers,      \* those who ask for reports
    Tokens,       \* the engine's tokens
    MaxListed,    \* `max` of the bounded listing
    Name,         \* per world: its name, as a sequence of segments
    Begins,       \* which texts begin which segments (HttpRules, StartsWith)
    Scopes        \* workloads

ASSUME DataRootAssumption ==
    \A s \in Scopes :
      /\ s.quotas \subseteq Quotas /\ s.lengths \subseteq Nat /\ s.fresh \subseteq BOOLEAN
      /\ s.kinds \subseteq {"put", "append", "delete"}
      /\ \A ask \in s.asks : ask.door \in {"http", "sdk", "rust"}

VARIABLES
    scope,
    file,     \* per directory: how far it is there (WorldFiles)
    making,   \* directories whose creation is running
    status,   \* the engine: "up" or "stopping"
    mem,      \* the body size of MemoryWorld, plus one; 0 when there is none
    call      \* per caller: its report under way, or its answer

rootVars == <<scope, file, making, status, mem>>
vars == <<quotaVars, rootVars, call>>

Durable == Worlds \cup {Ledger}
Dirs == Durable \cup {Stray}
Listed == Durable \cup {MemoryWorld}

NoFigures == [live |-> 0, cas |-> 0, rows |-> 0]
NoResult == [is |-> "none"]
NoAnswer == [status |-> 0, exc |-> "", got |-> NoResult]
NoAsk == [door |-> "none", method |-> "", tier |-> 0, what |-> "", prefix |-> <<"">>]
NoCall == [at |-> "idle", ask |-> NoAsk, todo |-> {}, seen |-> {}, names |-> {},
           entries |-> {}, cur |-> Stray, figures |-> NoFigures, pinned |-> {}, load |-> <<>>,
           always |-> {}, ever |-> {}, held |-> [d \in Listed |-> {}], met |-> {}, quiet |-> FALSE,
           answer |-> NoAnswer]

Init ==
    /\ QuotaInit
    /\ scope \in Scopes
    /\ quota \in scope.quotas
    /\ file = [d \in Dirs |-> Absent]
    /\ making = {}
    /\ status = "up"
    /\ mem = 0
    /\ call = [c \in Callers |-> NoCall]

-----------------------------------------------------------------------------
(* What a report could have seen while it was under way.                   *)

Running(k) == k.at \notin {"idle", "done", "gone"}

Present(f, m) == {d \in Durable : DbExists(f[d])} \cup (IF m > 0 THEN {MemoryWorld} ELSE {})

UsageIn(d, u, lr, m) ==
    CASE d = Ledger -> [NoFigures EXCEPT !.rows = lr]
      [] d = MemoryWorld -> [NoFigures EXCEPT !.live = Minus(m, 1)]
      [] d \in Worlds -> u[d]

Troubles(f) ==
    (IF \E d \in Durable : OpenExistingPath(f[d]) = "error" THEN {"incomplete"} ELSE {})
      \cup (IF DbExists(f[Stray]) THEN {"stray"} ELSE {})

\* A step of somebody else passes by a report: a removed directory drops out of
\* the walk, and a connection keeps the content of a removed file.  An answer is
\* taken away.
Watched(k) ==
    IF k.at = "done" THEN [NoCall EXCEPT !.at = "gone"]
    ELSE IF ~Running(k) THEN k
    ELSE LET here == Present(file', mem')
             removed == k.cur \in Durable /\ k.at \in {"du_live", "du_cas", "du_rows"}
                          /\ DbExists(file[k.cur]) /\ ~DbExists(file'[k.cur])
         IN  [k EXCEPT !.todo = IF k.at = "walk" THEN {d \in @ : file'[d] > Absent} ELSE @,
                       !.pinned = IF removed THEN {UsageIn(k.cur, usage, ledgerRows, mem)} ELSE @,
                       !.always = @ \cap here,
                       !.ever = @ \cup here,
                       !.held = [d \in Listed |->
                                   IF d \in here
                                   THEN @[d] \cup {UsageIn(d, usage', ledgerRows', mem')} ELSE @[d]],
                       !.met = @ \cup Troubles(file'),
                       !.quiet = FALSE]

Watch == call' = [c \in Callers |-> Watched(call[c])]

-----------------------------------------------------------------------------
(* Writers.                                                                *)

NextStop(n) == Min({s \in scope.stops : s > n})

\* The quota snapshot opens the world read-only before anything is reserved.
WriteBegins(w) ==
    /\ status = "up"
    /\ w \in scope.worlds
    /\ OpenExistingPath(file[w]) # "error"
    /\ usage[w].rows + 2 <= scope.rows
    /\ \E kind \in scope.kinds \ {"delete"}, body \in scope.lengths, fresh \in scope.fresh :
         \E pruned \in 0..(IF scope.prunes THEN usage[w].cas ELSE 0) :
           Reserve(w, kind, body, fresh, pruned)
    /\ UNCHANGED rootVars
    /\ Watch

DeleteBegins(w) ==
    /\ status = "up"
    /\ "delete" \in scope.kinds
    /\ OpenExistingPath(file[w]) = "open"
    /\ BeginDelete(w)
    /\ UNCHANGED rootVars
    /\ Watch

\* The directory whose database the operation on w opens for writing.
Opened(w) == IF op[w] = "ledger_armed" THEN Ledger ELSE w

\* open_world_paths: a file that was not there is created statement by
\* statement; one that was is checked, and gets its index.
OpenWorld(w) ==
    /\ op[w] \in {"armed", "ledger_armed"}
    /\ LET d == Opened(w) IN
       /\ file[d] < Complete
       /\ IF ~DbExists(file[d]) \/ d \in making
          THEN /\ file[d] = EmptyDb => NewWorld(file[d])
               /\ file' = [file EXCEPT ![d] = NextStop(@)]
          ELSE \E n \in OpenExistingWriterPath(file[d]) : file' = [file EXCEPT ![d] = n]
       /\ making' = IF file'[d] = Complete THEN making \ {d} ELSE making \cup {d}
    /\ UNCHANGED <<quotaVars, scope, status, mem>>
    /\ Watch

\* The transaction on the opened file.
Commits(w) ==
    /\ file[Opened(w)] = Complete
    /\ CommitTx(w) \/ LedgerAppend(w)
    /\ UNCHANGED rootVars
    /\ Watch

\* The open or the transaction fails; what was created stays.
OpenOrTxFails(w) ==
    /\ scope.fails \/ (file[Opened(w)] < Complete /\ Opened(w) \notin making /\ DbExists(file[Opened(w)]))
    /\ TxFails(w) \/ LedgerFails(w)
    /\ making' = making \ {Opened(w)}
    /\ UNCHANGED <<scope, file, status, mem>>
    /\ Watch

\* files::delete: the database file goes first, then its directory.
Removes(w) ==
    /\ \/ Remove(w) /\ file' = [file EXCEPT ![w] = Directory]
       \/ RemoveDone(w) /\ file' = [file EXCEPT ![w] = Absent]
       \/ scope.fails /\ RemoveFails(w) /\ UNCHANGED file
    /\ UNCHANGED <<scope, making, status, mem>>
    /\ Watch

OperationStep(w) == QuotaStep(w) /\ UNCHANGED rootVars /\ Watch

\* MemoryStore as a report sees it: a world comes, changes its size, or goes.
MemoryWrite ==
    /\ scope.memory /\ status = "up"
    /\ mem' \in 0..2 \ {mem}
    /\ UNCHANGED <<quotaVars, scope, file, making, status>>
    /\ Watch

\* Somebody copies a directory into the root.
StrayAppears ==
    /\ scope.stray /\ file[Stray] = Absent
    /\ file' = [file EXCEPT ![Stray] = Complete]
    /\ UNCHANGED <<quotaVars, scope, making, status, mem>>
    /\ Watch

\* Engine::shutdown closes the file gate; operations that hold a permit end.
Shutdown ==
    /\ scope.stops_engine /\ status = "up"
    /\ status' = "stopping"
    /\ UNCHANGED <<quotaVars, scope, file, making, mem>>
    /\ Watch

-----------------------------------------------------------------------------
(* Engine start.                                                           *)

\* decode_disk_world_name: a directory with a database is a world's, or the
\* walk fails.
DecodeDiskWorldName(d) == IF d = Stray THEN "corrupt" ELSE "world"

RowsOf(d) == IF d = Ledger THEN ledgerRows ELSE usage[d].rows

\* try_for_each: the walk ends at the first visit that fails; `passes` are the
\* worlds that visit accepts.
TryForEach(passes) ==
    \A d \in Dirs : DbExists(file[d]) => DecodeDiskWorldName(d) = "world" /\ d \in passes

\* verify_all_worlds_with_names and usages: every database has the right shape,
\* and a chain, which is never empty.
StartupAccepts == TryForEach({d \in Durable : OpenExistingPath(file[d]) = "open" /\ RowsOf(d) > 0})

CallsLost == call' = [c \in Callers |-> IF call[c].at # "idle" THEN [NoCall EXCEPT !.at = "gone"] ELSE call[c]]

\* The process ends anywhere and the next one starts.  A start that is refused
\* leaves no engine to ask.
EngineStart ==
    /\ starts < scope.starts
    /\ StartupAccepts
    /\ \E q \in scope.quotas : Restart(q)
    /\ making' = {} /\ status' = "up" /\ mem' = 0
    /\ CallsLost
    /\ UNCHANGED <<scope, file>>

-----------------------------------------------------------------------------
(* Answers.                                                                *)

Failure(err) == [is |-> "error", err |-> err]

\* proc_engine_error, and run_introspection for a worker that did not finish.
ProcEngineError ==
    [Auth |-> 401, NotFound |-> 404, TransientStorage |-> 503, ShuttingDown |-> 503,
     InsufficientStorage |-> 507, Storage |-> 500, InvalidWorldName |-> 400,
     InvalidMetadata |-> 400, InternalInvariant |-> 500]

\* The body of /proc/df has what is left of the quota besides what is used.
DfBody(df) ==
    [is |-> "df", used |-> df.used, available |-> Minus(df.quota, df.used), live |-> df.live,
     retained |-> df.retained, rows |-> df.rows, worlds |-> df.worlds]

\* du_body: a line for each world, the total first.  world_list_body is a line
\* for each name.
DuBody(report) ==
    [is |-> "du_lines", lines |-> {<<e.world, e.bytes, e.live, e.cas, e.rows>> : e \in report.entries}]
WorldListBody(listing) == [is |-> "lines", lines |-> {<<d>> : d \in listing.names}]

\* proc_text_response: HEAD has the length of the body and no body.
ProcTextResponse(ask, body) ==
    [NoAnswer EXCEPT !.status = 200, !.got = IF ask.method = "HEAD" THEN NoResult ELSE body]

\* proc_worlds builds the same response itself.
ProcWorlds(ask, listing) ==
    [NoAnswer EXCEPT !.status = 200, !.got = IF ask.method = "HEAD" THEN NoResult ELSE WorldListBody(listing)]

ProcAnswer(ask, result) ==
    CASE result.is = "error" -> [NoAnswer EXCEPT !.status = ProcEngineError[result.err]]
      [] result.is = "listing" -> ProcWorlds(ask, result)
      [] result.is = "usage" -> ProcTextResponse(ask, DuBody(result))
      [] result.is = "df" -> ProcTextResponse(ask, DfBody(result))

\* Engine.du of the SDK keeps the total of each world only.
SdkDu(report) ==
    [is |-> "totals", entries |-> {[world |-> e.world, bytes |-> e.bytes] : e \in report.entries}]
\* Engine.df says how large the quota is, and leaves the difference to its caller.
SdkDf(df) == [df EXCEPT !.is = "snapshot"]

SdkReport(result) ==
    CASE result.is = "error" -> [NoAnswer EXCEPT !.exc = SdkError(result.err)]
      [] result.is = "listing" -> [NoAnswer EXCEPT !.got = result]
      [] result.is = "usage" -> [NoAnswer EXCEPT !.got = SdkDu(result)]
      [] result.is = "df" -> [NoAnswer EXCEPT !.got = SdkDf(result)]

AnswerTo(ask, result) ==
    CASE ask.door = "http" -> ProcAnswer(ask, result)
      [] ask.door = "sdk" -> SdkReport(result)
      [] ask.door = "rust" -> [NoAnswer EXCEPT !.got = result]

Step(c, k) == call' = [call EXCEPT ![c] = k] /\ UNCHANGED <<quotaVars, rootVars>>
Finish(c, k, result) == Step(c, [k EXCEPT !.at = "done", !.answer = AnswerTo(k.ask, result)])
Fail(c, k, err, cause) == Finish(c, [k EXCEPT !.met = @ \cup {cause}], Failure(err))

-----------------------------------------------------------------------------
(* Reports.                                                                *)

DfLoads == <<"memory", "used", "live", "retained", "rows", "worlds", "ledger">>

\* Every report starts with what is there, and whether anything is going on.
NewCall(ask) ==
    LET here == Present(file, mem) IN
    [NoCall EXCEPT !.ask = ask,
        !.at = IF ask.what = "df" THEN "df" ELSE "walk",
        !.todo = IF ask.what = "df" THEN {} ELSE {d \in Dirs : file[d] > Absent},
        !.always = here, !.ever = here,
        !.held = [d \in Listed |-> IF d \in here THEN {UsageIn(d, usage, ledgerRows, mem)} ELSE {}],
        !.met = Troubles(file) \cup (IF status = "stopping" THEN {"stopping"} ELSE {}),
        !.quiet = \A w \in Worlds : op[w] = "idle"]

\* Engine::list_worlds_with_prefix, and bounded: the prefix is checked first.
ListWorldsWithPrefix(ask) == ask.what \in {"prefix", "bounded"} => ValidatedWorldPrefix(ask.prefix)

\* The handlers of /proc answer OPTIONS and other methods themselves; the engine
\* checks the tier, then the file gate.
Ask(c) ==
    /\ call[c].at = "idle"
    /\ \E ask \in scope.asks :
         LET k == NewCall(ask) IN
         CASE ask.door = "http" /\ ask.method = "OPTIONS" ->
                Step(c, [k EXCEPT !.at = "done", !.answer.status = 204])
           [] ask.door = "http" /\ ask.method \notin {"GET", "HEAD", "OPTIONS"} ->
                Step(c, [k EXCEPT !.at = "done", !.answer.status = 405])
           [] ~ListWorldsWithPrefix(ask) -> Fail(c, k, "InvalidWorldName", "prefix")
           [] ~CanRead(Tokens, ask.tier) -> Finish(c, k, Failure("Auth"))
           [] status = "stopping" -> Finish(c, k, Failure("ShuttingDown"))
           [] OTHER -> Step(c, k)

\* The blocking task of run_introspection is cancelled or panics.
WorkerLost(c) ==
    /\ scope.faults /\ Running(call[c]) /\ call[c].ask.door = "http"
    /\ \E err \in {"WorkerCancelled", "WorkerPanicked"} : Fail(c, call[c], BlockingJoinToEngine(err), err)

\* Which worlds a listing keeps.
Keeps(ask, d) == ask.what \in {"prefix", "bounded"} => StartsWith(Begins, Name[d], ask.prefix)
Full(ask, found) == ask.what = "bounded" /\ Cardinality(found) >= MaxListed + 1

\* Mutant of WalkEntry: a directory without a database ends the walk.
WalkEntryBreaks(c) ==
    LET k == call[c] IN
    /\ k.at = "walk"
    /\ \E d \in Dirs \ k.seen :
         /\ d \in k.todo \/ file[d] > Absent
         /\ LET next == [k EXCEPT !.seen = @ \cup {d}, !.todo = @ \ {d}] IN
            IF DecodeDiskWorldName(d) = "corrupt" /\ DbExists(file[d]) THEN Finish(c, k, Failure("Storage"))
            ELSE IF ~DbExists(file[d]) THEN Step(c, [next EXCEPT !.todo = {}])
            ELSE Step(c, IF Keeps(k.ask, d) THEN [next EXCEPT !.names = @ \cup {d}] ELSE next)

\* The next entry of read_dir, in any order.  An entry that appeared after the
\* walk began may or may not be returned.
WalkEntry(c) ==
    LET k == call[c] IN
    /\ k.at = "walk"
    /\ \E d \in Dirs \ k.seen :
         /\ d \in k.todo \/ file[d] > Absent
         /\ LET next == [k EXCEPT !.seen = @ \cup {d}, !.todo = @ \ {d}] IN
            CASE ~DbExists(file[d]) -> Step(c, next)
              [] DbExists(file[d]) /\ DecodeDiskWorldName(d) = "corrupt" -> Finish(c, k, Failure("Storage"))
              [] OTHER ->
                   IF ~Keeps(k.ask, d) THEN Step(c, next)
                   ELSE IF Full(k.ask, k.names) THEN Finish(c, k, [is |-> "too_many"])
                   ELSE Step(c, [next EXCEPT !.names = @ \cup {d}])

WalkEnd(c) ==
    LET k == call[c] IN
    /\ k.at = "walk" /\ k.todo = {}
    /\ Step(c, IF k.ask.what = "du" THEN [k EXCEPT !.at = "du", !.todo = k.names]
               ELSE [k EXCEPT !.at = "memory"])

\* read_dir, an open or a query fails.
ReportFault(c) ==
    /\ scope.faults
    /\ call[c].at \in {"walk", "du", "du_live", "du_cas", "du_rows"}
    /\ \E f \in SqliteFailures : Fail(c, call[c], ClassifyStorageFailure(f), f)

\* Mutant of DuOpen: a world that is gone by now is an error.
DuOpenStrict(c) ==
    LET k == call[c] IN
    /\ k.at = "du"
    /\ IF k.todo = {} THEN Step(c, [k EXCEPT !.at = "memory"])
       ELSE LET d == CHOOSE d \in k.todo : TRUE IN
            IF OpenExistingPath(file[d]) # "open" THEN Finish(c, k, Failure("Storage"))
            ELSE Step(c, [k EXCEPT !.todo = @ \ {d}, !.at = "du_live", !.cur = d, !.pinned = {}])

\* usages: the worlds found are opened one after the other.
DuOpen(c) ==
    LET k == call[c] IN
    /\ k.at = "du"
    /\ IF k.todo = {} THEN Step(c, [k EXCEPT !.at = "memory"])
       ELSE LET d == CHOOSE d \in k.todo : TRUE
                next == [k EXCEPT !.todo = @ \ {d}]
            IN  CASE OpenExistingPath(file[d]) = "none" -> Step(c, next)
                  [] OpenExistingPath(file[d]) = "error" -> Finish(c, k, Failure("Storage"))
                  [] OpenExistingPath(file[d]) = "open" ->
                       Step(c, [next EXCEPT !.at = "du_live", !.cur = d, !.pinned = {}])

\* What a query sees: the last commit, or the last content of a removed file.
SeenUsage(k) ==
    IF k.pinned = {} THEN UsageIn(k.cur, usage, ledgerRows, mem) ELSE CHOOSE u \in k.pinned : TRUE

Entry(d, u) == [world |-> d, bytes |-> u.live + u.cas, live |-> u.live, cas |-> u.cas, rows |-> u.rows]

\* Mutant of DuQuery: the connection is opened anew for each query.
DuQueryReopens(c) ==
    LET k == call[c]
        u == UsageIn(k.cur, usage, ledgerRows, mem)
    IN  \/ k.at = "du_live" /\ Step(c, [k EXCEPT !.at = "du_cas", !.figures.live = u.live])
        \/ k.at = "du_cas" /\ Step(c, [k EXCEPT !.at = "du_rows", !.figures.cas = u.cas])
        \/ /\ k.at = "du_rows"
           /\ Step(c, [k EXCEPT !.at = "du", !.figures = NoFigures, !.cur = Stray, !.pinned = {},
                                !.entries = @ \cup {Entry(k.cur, [k.figures EXCEPT !.rows = u.rows])}])

\* storage_usage_inner: three queries, each its own read transaction.
DuQuery(c) ==
    LET k == call[c]
        u == SeenUsage(k)
    IN  \/ k.at = "du_live" /\ Step(c, [k EXCEPT !.at = "du_cas", !.figures.live = u.live])
        \/ k.at = "du_cas" /\ Step(c, [k EXCEPT !.at = "du_rows", !.figures.cas = u.cas])
        \/ /\ k.at = "du_rows"
           /\ Step(c, [k EXCEPT !.at = "du", !.figures = NoFigures, !.cur = Stray, !.pinned = {},
                                !.entries = @ \cup {Entry(k.cur, [k.figures EXCEPT !.rows = u.rows])}])

\* MemoryStore::list, list_with_prefix, and bounded (no set: too many).
MemoryList == IF mem > 0 THEN {MemoryWorld} ELSE {}
MemoryListWithPrefix(p) == {d \in MemoryList : StartsWith(Begins, Name[d], p)}
MemoryListBounded(p, max) == {found \in {MemoryListWithPrefix(p)} : Cardinality(found) <= max}

\* The worlds of the memory store come last.  list_worlds, ...
ListEnds(c) ==
    LET k == call[c] IN
    /\ k.at = "memory" /\ k.ask.what = "list"
    /\ Finish(c, k, [is |-> "listing", names |-> k.names \cup MemoryList])

\* ... list_worlds_with_prefix, ...
PrefixListEnds(c) ==
    LET k == call[c] IN
    /\ k.at = "memory" /\ k.ask.what = "prefix"
    /\ Finish(c, k, [is |-> "listing", names |-> k.names \cup MemoryListWithPrefix(k.ask.prefix)])

\* ... list_worlds_with_prefix_bounded, ...
BoundedListEnds(c) ==
    LET k == call[c]
        all == {k.names \cup found : found \in MemoryListBounded(k.ask.prefix, MaxListed + 1)}
    IN  /\ k.at = "memory" /\ k.ask.what = "bounded"
        /\ \/ \E names \in all :
                Cardinality(names) <= MaxListed /\ Finish(c, k, [is |-> "listing", names |-> names])
           \/ /\ \A names \in all : Cardinality(names) > MaxListed
              /\ Finish(c, k, [is |-> "too_many"])

\* ... and du, for which a memory world is its body.
DuEnds(c) ==
    LET k == call[c] IN
    /\ k.at = "memory" /\ k.ask.what = "du"
    /\ Finish(c, k, [is |-> "usage",
                     entries |-> k.entries \cup {Entry(d, UsageIn(d, usage, ledgerRows, mem)) :
                                                   d \in MemoryList}])

\* df loads its counters one after the other; the ledger is not counted.
DfLoad(c) ==
    LET k == call[c]
        i == Len(k.load) + 1
        value == CASE DfLoads[i] = "memory" -> Cardinality(MemoryList)
                   [] DfLoads[i] = "used" -> used
                   [] DfLoads[i] = "live" -> live
                   [] DfLoads[i] = "retained" -> retained
                   [] DfLoads[i] = "rows" -> rows
                   [] DfLoads[i] = "worlds" -> worldCount
                   [] DfLoads[i] = "ledger" -> IF ledgerMade THEN 1 ELSE 0
        load == Append(k.load, value)
    IN  /\ k.at = "df"
        /\ IF i < Len(DfLoads) THEN Step(c, [k EXCEPT !.load = load])
           ELSE Finish(c, [k EXCEPT !.load = <<>>],
                  [is |-> "df", used |-> load[2], live |-> load[3], retained |-> load[4], rows |-> load[5],
                   quota |-> quota, worlds |-> Minus(load[6], load[7]) + load[1]])

-----------------------------------------------------------------------------

Next ==
    \/ \E w \in Worlds :
         \/ WriteBegins(w) \/ DeleteBegins(w) \/ OpenWorld(w) \/ Commits(w)
         \/ OpenOrTxFails(w) \/ Removes(w) \/ OperationStep(w)
    \/ MemoryWrite \/ StrayAppears \/ Shutdown \/ EngineStart
    \/ \E c \in Callers :
         \/ Ask(c) \/ WorkerLost(c) \/ WalkEntry(c) \/ WalkEnd(c) \/ ReportFault(c)
         \/ DuOpen(c) \/ DuQuery(c) \/ ListEnds(c) \/ PrefixListEnds(c)
         \/ BoundedListEnds(c) \/ DuEnds(c) \/ DfLoad(c)

Spec == Init /\ [][Next]_vars

-----------------------------------------------------------------------------
(* Properties                                                              *)

Answered(k, kind) == k.at = "done" /\ k.answer.got.is = kind

\* A listing (list_worlds, with a prefix or bounded) has every world that was
\* there from its beginning to its end, none that was not there in between, and
\* a bounded one gives up only if there could have been too many.
ListingTells ==
    \A c \in Callers : LET k == call[c] IN
      /\ Answered(k, "listing") \/ Answered(k, "lines") =>
           LET names == IF Answered(k, "listing") THEN k.answer.got.names ELSE {l[1] : l \in k.answer.got.lines} IN
           /\ {d \in k.always : Keeps(k.ask, d)} \subseteq names
           /\ names \subseteq {d \in k.ever : Keeps(k.ask, d)}
           /\ k.ask.what = "bounded" => Cardinality(names) <= MaxListed
      /\ Answered(k, "too_many") => Cardinality({d \in k.ever : Keeps(k.ask, d)}) > MaxListed

\* du has an entry for every world that was there throughout, each figure of an
\* entry is one that its world had while du ran, even when the world is being
\* written, removed or created anew, and a world that did not change is exact.
\* The totals that Python keeps are sums of two such figures.
DuTells ==
    \A c \in Callers : LET k == call[c] IN
      /\ Answered(k, "du_lines") =>
           /\ k.always \subseteq {l[1] : l \in k.answer.got.lines}
           /\ \A l \in k.answer.got.lines :
                /\ \E u \in k.held[l[1]] : u.live = l[3]
                /\ \E u \in k.held[l[1]] : u.cas = l[4]
                /\ \E u \in k.held[l[1]] : u.rows = l[5]
                /\ l[2] = l[3] + l[4]
           /\ \A l, m \in k.answer.got.lines : l[1] = m[1] => l = m
      /\ Answered(k, "totals") =>
           /\ k.always \subseteq {e.world : e \in k.answer.got.entries}
           /\ \A e \in k.answer.got.entries : \E u, v \in k.held[e.world] : e.bytes = u.live + v.cas

\* The figures of df, counted anew.
FiguresExact(df, door) ==
    LET bytes == Sum([w \in Worlds |-> Total(usage[w])]) + Total(lost) IN
    /\ df.used = bytes
    /\ df.live = Sum([w \in Worlds |-> usage[w].live]) + lost.live
    /\ df.retained = Sum([w \in Worlds |-> usage[w].cas]) + lost.cas
    /\ df.rows = Sum([w \in Worlds |-> usage[w].rows]) + ledgerRows + lost.rows
    /\ df.worlds = Cardinality({w \in Worlds : usage[w].rows > 0}) + lost.worlds + Cardinality(MemoryList)
    /\ IF door = "http" THEN df.available = (IF bytes <= quota THEN quota - bytes ELSE 0)
       ELSE df.quota = quota

\* A df during which nothing goes on tells what is on disk, to the byte, the row
\* and the world (plus what removals that failed took away uncounted); /proc/df
\* adds what a write could still take, the others say how large the quota is.
QuietDfExact ==
    [][\A c \in Callers :
         (/\ call[c].at = "df" /\ call[c].quiet
          /\ Answered(call'[c], "df") \/ Answered(call'[c], "snapshot")) =>
           FiguresExact(call'[c].answer.got, call[c].ask.door)]_vars

\* What a failure says, whichever door it left by.
Says(answer, statuses, errors) ==
    \/ answer.status \in statuses
    \/ answer.exc \in errors
    \/ answer.got.is = "error" /\ answer.got.err \in errors

\* A report fails for a reason it met on its way, and the status or exception
\* names it.  A world that is created, written or removed meanwhile is no reason,
\* with one exception: du fails over a database whose creation is not finished.
FailureHasCause ==
    \A c \in Callers : LET k == call[c] IN
      k.at = "done" =>
        /\ Says(k.answer, {401}, {"Auth", "AuthError"}) => ~CanRead(Tokens, k.ask.tier)
        /\ Says(k.answer, {503}, {"TransientStorage", "ShuttingDown"}) =>
             k.met \cap {"busy", "WorkerCancelled", "stopping"} # {}
        /\ Says(k.answer, {507}, {"InsufficientStorage"}) => "full" \in k.met
        /\ Says(k.answer, {}, {"InvalidWorldName"}) <=> ~ValidatedWorldPrefix(k.ask.prefix)
        /\ Says(k.answer, {500}, {"Storage", "StorageError", "InternalInvariant"}) =>
             \/ k.met \cap {"ioerr", "WorkerPanicked", "stray"} # {}
             \/ k.ask.what = "du" /\ "incomplete" \in k.met
=============================================================================
