---------------------------- MODULE DataRootProofs ----------------------------
(***************************************************************************)
(* The storage accounting and df for every set of worlds and callers and   *)
(* every workload: BytesAccounted, DiskWithinQuota and QuietDfExact.       *)
(*                                                                         *)
(* QuotaInv (StorageQuotaProofs) is the inductive invariant of the         *)
(* counters.  QuietInv says that a df which nothing has disturbed holds    *)
(* the counters it has loaded as they still are.                           *)
(***************************************************************************)
EXTENDS DataRoot, StorageQuotaProofs

\* The counters as df loads them, in the order of DfLoads.
Loaded ==
    <<Cardinality(MemoryList), used, live, retained, rows, worldCount, LedgerCount>>

\* A df during which nothing goes on has loaded what is still there.
Fields == DOMAIN NoCall

CallInv(k) ==
    /\ DOMAIN k = Fields
    /\ k.at = "df" =>
         /\ k.ask.door \in {"http", "sdk", "rust"}
         /\ k.quiet =>
              /\ \A w \in Worlds : op[w] = "idle"
              /\ k.load \in Seq(Nat) /\ Len(k.load) <= 6
              /\ \A i \in 1..Len(k.load) : k.load[i] = Loaded[i]

QuietInv == DOMAIN call = Callers /\ \A c \in Callers : CallInv(call[c])

\* An engine starts with nothing on disk and nothing counted.
LEMMA InitQuota ==
    ASSUME Init
    PROVE  QuotaInv
<1>1. /\ usage = [w \in Worlds |-> Empty] /\ op = [w \in Worlds |-> "idle"] /\ plan = [w \in Worlds |-> NoPlan]
      /\ ledgerRows = 0 /\ used = 0 /\ live = 0 /\ retained = 0 /\ rows = 0 /\ worldCount = 0
      /\ LedgerCount = 0 /\ quota \in Nat /\ base = 0 /\ lost = NothingLost
  BY StorageQuotaAssumption DEF Init, QuotaInit, LedgerCount
<1>2. Empty \in Usages /\ Empty.live = 0 /\ Empty.cas = 0 /\ Empty.rows = 0
  BY DEF Empty, Usages
<1>3. /\ lost \in [live : Nat, cas : Nat, rows : Nat, worlds : Nat] /\ Total(lost) = 0
      /\ lost.live = 0 /\ lost.cas = 0 /\ lost.rows = 0 /\ lost.worlds = 0
  BY <1>1 DEF NothingLost, Total
<1>4. QuotaTypes
  BY <1>1, <1>2, <1>3 DEF QuotaTypes, CounterTypes, Steps
<1>5. \A w \in Worlds : WorldInv(usage[w], op[w], plan[w])
  BY <1>1, <1>2 DEF WorldInv, Reserved, Committed, Gone, Ledgering, Writing, Removing, Steps
<1>6. \A w \in Worlds : /\ Bytes[w] = 0 /\ Lives[w] = 0 /\ Cases[w] = 0 /\ Events[w] = 0 /\ Counts[w] = 0
  BY <1>1, <1>2 DEF Bytes, Lives, Cases, Events, Counts, BytesOf, LiveOf, CasOf, EventsOf, CountOf, Total,
     Reserved, Committed, Gone
<1>7. /\ Sum(Bytes) = 0 /\ Sum(Lives) = 0 /\ Sum(Cases) = 0 /\ Sum(Events) = 0 /\ Sum(Counts) = 0
  <2>1. /\ Bytes \in [Worlds -> Nat] /\ Lives \in [Worlds -> Nat] /\ Cases \in [Worlds -> Nat]
        /\ Events \in [Worlds -> Nat] /\ Counts \in [Worlds -> Nat]
    BY <1>5, TallyTypes
  <2> QED BY <1>6, <2>1, SumZero
<1> QED BY <1>1, <1>3, <1>4, <1>5, <1>7 DEF QuotaInv, Ceiling

\* A report changes nothing but itself.
LEMMA ReportsOnlyLook ==
    ASSUME NEW c \in Callers,
           \/ Ask(c) \/ WorkerLost(c) \/ WalkEntry(c) \/ WalkEnd(c) \/ ReportFault(c)
           \/ DuOpen(c) \/ DuQuery(c) \/ ListEnds(c) \/ PrefixListEnds(c)
           \/ BoundedListEnds(c) \/ DuEnds(c) \/ DfLoad(c)
    PROVE  UNCHANGED <<quotaVars, rootVars>>
<1>1. ASSUME NEW k, Step(c, k) PROVE UNCHANGED <<quotaVars, rootVars>>
  BY <1>1 DEF Step
<1>2. ASSUME NEW k, NEW r, Finish(c, k, r) PROVE UNCHANGED <<quotaVars, rootVars>>
  BY <1>2 DEF Finish, Step
<1>3. ASSUME NEW k, NEW e, NEW m, Fail(c, k, e, m) PROVE UNCHANGED <<quotaVars, rootVars>>
  BY <1>3, Zenon DEF Fail, Finish, Step
<1>4. CASE Ask(c)
  BY <1>1, <1>2, <1>3, <1>4, Zenon DEF Ask
<1>5. CASE WorkerLost(c) \/ ReportFault(c)
  BY <1>3, <1>5, Zenon DEF WorkerLost, ReportFault
<1>6. CASE WalkEntry(c)
  BY <1>1, <1>2, <1>6, Zenon DEF WalkEntry
<1>7. CASE WalkEnd(c) \/ DuQuery(c)
  BY <1>1, <1>7 DEF WalkEnd, DuQuery
<1>8. CASE DuOpen(c)
  <2>1. \A n : OpenExistingPath(n) \in {"none", "open", "error"}
    BY DEF OpenExistingPath
  <2> QED BY <1>1, <1>2, <1>8, <2>1, Zenon DEF DuOpen
<1>9. CASE ListEnds(c) \/ PrefixListEnds(c) \/ BoundedListEnds(c) \/ DuEnds(c)
  BY <1>2, <1>9, Zenon DEF ListEnds, PrefixListEnds, BoundedListEnds, DuEnds
<1>10. CASE DfLoad(c)
  BY <1>1, <1>2, <1>10, Zenon DEF DfLoad
<1> QED BY <1>4, <1>5, <1>6, <1>7, <1>8, <1>9, <1>10

\* Every step keeps the counters true.
LEMMA NextQuota ==
    ASSUME QuotaInv, scope \in Scopes, [Next]_vars
    PROVE  QuotaInv' /\ scope' \in Scopes
<1>0. \A w \in Worlds : Fits(w)
  BY EachFits
<1>1. ASSUME UNCHANGED quotaVars PROVE QuotaInv'
  BY <1>1 DEF quotaVars, QuotaInv, QuotaTypes, CounterTypes, Bytes, Lives, Cases, Events, Counts, Ceiling,
     LedgerCount
<1>2. CASE UNCHANGED vars
  BY <1>1, <1>2 DEF vars, rootVars
<1>3. ASSUME NEW w \in Worlds, WriteBegins(w) PROVE QuotaInv' /\ scope' \in Scopes
  <2>1. PICK kind \in scope.kinds \ {"delete"}, body \in scope.lengths, fresh \in scope.fresh :
           \E pruned \in 0..(IF scope.prunes THEN usage[w].cas ELSE 0) :
             Reserve(w, kind, body, fresh, pruned)
    BY <1>3 DEF WriteBegins
  <2>2. PICK pruned \in 0..(IF scope.prunes THEN usage[w].cas ELSE 0) :
           Reserve(w, kind, body, fresh, pruned)
    BY <2>1
  <2>3. kind \in {"put", "append"} /\ body \in Nat /\ fresh \in BOOLEAN
    BY DataRootAssumption
  <2>4. pruned \in Nat
    <3>1. usage[w].cas \in Nat
      BY <1>0, Here DEF Known
    <3> QED BY <3>1
  <2>5. StepsTo(w)
    BY <1>0, <2>2, <2>3, <2>4, ReserveKeeps
  <2>6. QuotaInv'
    BY <2>5, MoveKeeps
  <2> QED BY <1>3, <2>6 DEF WriteBegins, rootVars
<1>4. ASSUME NEW w \in Worlds, DeleteBegins(w) PROVE QuotaInv' /\ scope' \in Scopes
  <2>1. StepsTo(w)
    BY <1>0, <1>4, BeginDeleteKeeps DEF DeleteBegins
  <2> QED BY <1>4, <2>1, MoveKeeps DEF DeleteBegins, rootVars
<1>5. ASSUME NEW w \in Worlds, OpenWorld(w) PROVE QuotaInv' /\ scope' \in Scopes
  BY <1>1, <1>5 DEF OpenWorld
<1>6. ASSUME NEW w \in Worlds, Commits(w) PROVE QuotaInv' /\ scope' \in Scopes
  <2>1. StepsTo(w)
    BY <1>0, <1>6, CommitTxKeeps, LedgerAppendKeeps DEF Commits
  <2> QED BY <1>6, <2>1, MoveKeeps DEF Commits, rootVars
<1>7. ASSUME NEW w \in Worlds, OpenOrTxFails(w) PROVE QuotaInv' /\ scope' \in Scopes
  <2>1. StepsTo(w)
    BY <1>0, <1>7, TxFailsKeeps, LedgerFailsKeeps DEF OpenOrTxFails
  <2> QED BY <1>7, <2>1, MoveKeeps DEF OpenOrTxFails
<1>8. ASSUME NEW w \in Worlds, Removes(w) PROVE QuotaInv' /\ scope' \in Scopes
  <2>1. StepsTo(w)
    BY <1>0, <1>8, RemoveKeeps, RemoveDoneKeeps, RemoveFailsKeeps DEF Removes
  <2> QED BY <1>8, <2>1, MoveKeeps DEF Removes
<1>9. ASSUME NEW w \in Worlds, OperationStep(w) PROVE QuotaInv' /\ scope' \in Scopes
  <2>1. StepsTo(w)
    BY <1>0, <1>9, ArmKeeps, NoSlotsKeeps, DropBytesKeeps, PublishCreditKeeps, SettleKeeps, LedgerReserveKeeps,
       LedgerFullKeeps, LedgerSettleKeeps, SubtractKeeps DEF OperationStep, QuotaStep
  <2> QED BY <1>9, <2>1, MoveKeeps DEF OperationStep, QuotaStep, rootVars
<1>10. CASE MemoryWrite \/ StrayAppears \/ Shutdown
  BY <1>1, <1>10 DEF MemoryWrite, StrayAppears, Shutdown
<1>11. CASE EngineStart
  <2>1. PICK q \in scope.quotas : Restart(q)
    BY <1>11 DEF EngineStart
  <2>2. q \in Nat
    BY DataRootAssumption, StorageQuotaAssumption, Zenon
  <2> QED BY <1>11, <2>1, <2>2, RestartKeeps DEF EngineStart
<1>12. ASSUME NEW c \in Callers,
              \/ Ask(c) \/ WorkerLost(c) \/ WalkEntry(c) \/ WalkEnd(c) \/ ReportFault(c)
              \/ DuOpen(c) \/ DuQuery(c) \/ ListEnds(c) \/ PrefixListEnds(c)
              \/ BoundedListEnds(c) \/ DuEnds(c) \/ DfLoad(c)
       PROVE QuotaInv' /\ scope' \in Scopes
  BY <1>1, <1>12, ReportsOnlyLook DEF rootVars
<1> QED BY <1>2, <1>3, <1>4, <1>5, <1>6, <1>7, <1>8, <1>9, <1>10, <1>11, <1>12, Zenon DEF Next

\* The counters are true in every state.
LEMMA QuotaInvAlways == Spec => [](QuotaInv /\ scope \in Scopes)
<1>1. Init => QuotaInv /\ scope \in Scopes
  BY InitQuota DEF Init
<1>2. QuotaInv /\ scope \in Scopes /\ [Next]_vars => QuotaInv' /\ (scope \in Scopes)'
  BY NextQuota
<1> QED BY <1>1, <1>2, PTL DEF Spec

\* storage_body_bytes is, in every state, what is on disk plus what running
\* operations owe: for every set of worlds, and whatever reservations, failed and
\* successful commits, deletes and restarts interleave.
THEOREM BytesAccountedAlways == Spec => []BytesAccounted
<1>1. QuotaInv => BytesAccounted
  <2> SUFFICES ASSUME QuotaInv PROVE BytesAccounted
    OBVIOUS
  <2>1. \A w \in Worlds : Total(usage[w]) + Owed(w) = BytesOf(usage[w], op[w], plan[w])
    BY DEF Owed, BytesOf, Reserved, Gone
  <2>2. [w \in Worlds |-> Total(usage[w]) + Owed(w)] = Bytes
    BY <2>1 DEF Bytes
  <2> QED BY <2>2 DEF BytesAccounted, QuotaInv
<1> QED BY <1>1, QuotaInvAlways, PTL

\* What is on disk never exceeds max_storage_bytes, unless it did when the engine
\* was started: the reservation that reserve_storage_after_prune takes before a
\* commit covers everything the commit can add, in every interleaving.
THEOREM DiskWithinQuotaAlways == Spec => []DiskWithinQuota
<1>1. QuotaInv => DiskWithinQuota
  <2> SUFFICES ASSUME QuotaInv PROVE DiskWithinQuota
    OBVIOUS
  <2> DEFINE t == [w \in Worlds |-> Total(usage[w])]
  <2>1. IsFiniteSet(Worlds)
    BY StorageQuotaAssumption
  <2>2. Bytes \in [Worlds -> Nat]
    BY TallyTypes DEF QuotaInv
  <2>3. t \in [Worlds -> Nat] /\ \A w \in Worlds : t[w] <= Bytes[w]
    BY HeldType DEF QuotaInv, Bytes
  <2> HIDE DEF t
  <2>4. Sum(t) <= Sum(Bytes) /\ Sum(t) \in Nat /\ Sum(Bytes) \in Nat
    BY <2>1, <2>2, <2>3, SumMonotone, SumType
  <2>5. /\ used = Sum(Bytes) + Total(lost) /\ used <= Ceiling /\ Total(lost) \in Nat
        /\ used \in Nat /\ quota \in Nat /\ base \in Nat
    BY DEF QuotaInv, QuotaTypes, CounterTypes, Total
  <2>6. Sum(t) <= Ceiling
    BY <2>4, <2>5 DEF Ceiling
  <2> QED BY <2>6 DEF DiskWithinQuota, Ceiling, t
<1> QED BY <1>1, QuotaInvAlways, PTL

-----------------------------------------------------------------------------
(* df.                                                                     *)

\* The fields of a report.
LEMMA FieldsAre ==
    /\ {"at", "ask", "todo", "seen", "names", "entries", "cur", "figures", "pinned", "load", "always",
        "ever", "held", "met", "quiet", "answer"} = Fields
    /\ NoCall.at = "idle" /\ NoCall.load = <<>>
BY DEF Fields, NoCall


\* A step of a writer passes by a df and ends its quiet.
LEMMA WatchKeeps ==
    ASSUME QuietInv, Watch
    PROVE  QuietInv' /\ \A c \in Callers : call[c].at = "df" => call'[c].at # "done"
<1>1. DOMAIN call' = Callers /\ \A c \in Callers : call'[c] = Watched(call[c])
  BY DEF Watch
<1>2. ASSUME NEW c \in Callers
      PROVE  CallInv(call[c])' /\ (call[c].at = "df" => call'[c].at # "done")
  <2> DEFINE k == call[c]
             z == call'[c]
  <2>1. DOMAIN k = Fields /\ (k.at = "df" => k.ask.door \in {"http", "sdk", "rust"}) /\ z = Watched(k)
    BY <1>1 DEF QuietInv, CallInv
  <2>2. CASE k.at = "done"
    <3>1. z = [NoCall EXCEPT !.at = "gone"]
      BY <2>1, <2>2 DEF Watched
    <3>2. DOMAIN z = Fields /\ z.at = "gone"
      BY <3>1, FieldsAre DEF Fields
    <3> QED BY <2>2, <3>2 DEF CallInv
  <2>3. CASE k.at \in {"idle", "gone"}
    <3>1. z = k
      BY <2>1, <2>3 DEF Watched, Running
    <3> QED BY <2>1, <2>3, <3>1 DEF CallInv
  <2>4. CASE k.at \notin {"idle", "done", "gone"}
    <3>1. DOMAIN z = DOMAIN k /\ (z.at = k.at /\ z.ask = k.ask /\ z.quiet = FALSE)
      BY <2>1, <2>4, FieldsAre DEF Watched, Running
    <3>2. DOMAIN z = Fields /\ z.at = k.at /\ z.ask = k.ask /\ z.quiet = FALSE
      BY <2>1, <3>1
    <3> QED BY <2>1, <2>4, <3>2 DEF CallInv
  <2> QED BY <2>2, <2>3, <2>4
<1> QED BY <1>1, <1>2 DEF QuietInv

\* A restart ends every report.
LEMMA CallsLostKeeps ==
    ASSUME QuietInv, CallsLost
    PROVE  QuietInv' /\ \A c \in Callers : call[c].at = "df" => call'[c].at # "done"
<1>1. DOMAIN call' = Callers
  BY DEF CallsLost
<1>2. ASSUME NEW c \in Callers
      PROVE  CallInv(call[c])' /\ (call[c].at = "df" => call'[c].at # "done")
  <2>1. DOMAIN call[c] = Fields
    BY DEF QuietInv, CallInv
  <2>2. CASE call[c].at = "idle"
    <3>1. call'[c] = call[c]
      BY <2>2 DEF CallsLost
    <3> QED BY <2>1, <2>2, <3>1 DEF CallInv
  <2>3. CASE call[c].at # "idle"
    <3>1. call'[c] = [NoCall EXCEPT !.at = "gone"]
      BY <2>3 DEF CallsLost
    <3>2. DOMAIN call'[c] = Fields /\ call'[c].at = "gone"
      BY <3>1, FieldsAre DEF Fields
    <3> QED BY <3>2 DEF CallInv
  <2> QED BY <2>2, <2>3
<1> QED BY <1>1, <1>2 DEF QuietInv

\* A step of the report of c leaves the others alone, ...
LEMMA StepKeeps ==
    ASSUME QuietInv, NEW c \in Callers, NEW k, Step(c, k), CallInv(k)
    PROVE  QuietInv' /\ call'[c] = k /\ \A d \in Callers \ {c} : call'[d] = call[d]
<1>1. /\ DOMAIN call' = Callers /\ call'[c] = k /\ \A d \in Callers \ {c} : call'[d] = call[d]
  BY DEF Step, QuietInv
<1>2. op' = op /\ Loaded' = Loaded
  BY DEF Step, Loaded, LedgerCount, MemoryList, quotaVars, rootVars
<1>3. ASSUME NEW d \in Callers PROVE CallInv(call[d])'
  <2>1. CallInv(call'[d])
    BY <1>1 DEF QuietInv
  <2> QED BY <1>2, <2>1 DEF CallInv
<1> QED BY <1>1, <1>3 DEF QuietInv

\* ... and so does its end.
LEMMA FinishKeeps ==
    ASSUME QuietInv, NEW c \in Callers, NEW k, NEW r, DOMAIN k = Fields, Finish(c, k, r)
    PROVE  /\ QuietInv' /\ \A d \in Callers \ {c} : call'[d] = call[d]
           /\ call'[c].answer = AnswerTo(k.ask, r)
<1> DEFINE z == [k EXCEPT !.at = "done", !.answer = AnswerTo(k.ask, r)]
<1>1. Step(c, z)
  BY DEF Finish
<1>2. DOMAIN z = Fields /\ z.at = "done" /\ z.answer = AnswerTo(k.ask, r)
  BY FieldsAre
<1> HIDE DEF z
<1>3. CallInv(z)
  BY <1>2 DEF CallInv
<1> QED BY <1>1, <1>2, <1>3, StepKeeps

\* A failure is answered with no figures.
LEMMA FailKeeps ==
    ASSUME QuietInv, NEW c \in Callers, NEW k, NEW err, NEW cause, DOMAIN k = Fields, Fail(c, k, err, cause)
    PROVE  /\ QuietInv' /\ \A d \in Callers \ {c} : call'[d] = call[d]
           /\ k.ask.door = "http" => call'[c].answer.got = NoResult
<1> DEFINE z == [k EXCEPT !.met = @ \cup {cause}]
           r == Failure(err)
<1>1. Finish(c, z, r)
  BY DEF Fail
<1>2. DOMAIN z = Fields /\ z.ask = k.ask
  BY FieldsAre
<1>3. r.is = "error"
  BY DEF Failure
<1> HIDE DEF z, r
<1>4. /\ QuietInv' /\ \A d \in Callers \ {c} : call'[d] = call[d]
      /\ call'[c].answer = AnswerTo(k.ask, r)
  BY <1>1, <1>2, FinishKeeps
<1>5. ASSUME k.ask.door = "http" PROVE AnswerTo(k.ask, r).got = NoResult
  <2>1. AnswerTo(k.ask, r) = [NoAnswer EXCEPT !.status = ProcEngineError[r.err]]
    BY <1>3, <1>5 DEF AnswerTo, ProcAnswer
  <2> QED BY <2>1, Zenon DEF NoAnswer
<1> QED BY <1>4, <1>5

\* What a df that has just begun knows.
LEMMA NewCallIs ==
    ASSUME NEW ask, ask.door \in {"http", "sdk", "rust"}
    PROVE  CallInv(NewCall(ask)) /\ DOMAIN NewCall(ask) = Fields
<1> DEFINE k == NewCall(ask)
<1>1. /\ DOMAIN k = Fields /\ k.ask = ask /\ k.load = <<>>
      /\ k.quiet = (\A w \in Worlds : op[w] = "idle")
  BY FieldsAre, Zenon DEF NewCall, Fields, NoCall
<1> HIDE DEF k
<1>2. CallInv(k)
  BY <1>1 DEF CallInv
<1> QED BY <1>1, <1>2 DEF k

\* Asking for a report.
LEMMA AskKeeps ==
    ASSUME QuietInv, scope \in Scopes, NEW c \in Callers, Ask(c)
    PROVE  QuietInv' /\ \A d \in Callers \ {c} : call'[d] = call[d]
<1>1. PICK ask \in scope.asks :
         LET k == NewCall(ask) IN
         CASE ask.door = "http" /\ ask.method = "OPTIONS" ->
                Step(c, [k EXCEPT !.at = "done", !.answer.status = 204])
           [] ask.door = "http" /\ ask.method \notin {"GET", "HEAD", "OPTIONS"} ->
                Step(c, [k EXCEPT !.at = "done", !.answer.status = 405])
           [] ~ListWorldsWithPrefix(ask) -> Fail(c, k, "InvalidWorldName", "prefix")
           [] ~CanRead(Tokens, ask.tier) -> Finish(c, k, Failure("Auth"))
           [] status = "stopping" -> Finish(c, k, Failure("ShuttingDown"))
           [] OTHER -> Step(c, k)
  BY Zenon DEF Ask
<1>2. ask.door \in {"http", "sdk", "rust"}
  BY DataRootAssumption
<1> DEFINE k == NewCall(ask)
           y == [k EXCEPT !.at = "done", !.answer.status = 204]
           z == [k EXCEPT !.at = "done", !.answer.status = 405]
<1>3. CallInv(k) /\ DOMAIN k = Fields
  BY <1>2, NewCallIs
<1>4. (CASE ask.door = "http" /\ ask.method = "OPTIONS" ->
                Step(c, y)
           [] ask.door = "http" /\ ask.method \notin {"GET", "HEAD", "OPTIONS"} ->
                Step(c, z)
           [] ~ListWorldsWithPrefix(ask) -> Fail(c, k, "InvalidWorldName", "prefix")
           [] ~CanRead(Tokens, ask.tier) -> Finish(c, k, Failure("Auth"))
           [] status = "stopping" -> Finish(c, k, Failure("ShuttingDown"))
           [] OTHER -> Step(c, k))
  BY <1>1
<1> HIDE DEF k
<1>5. DOMAIN y = Fields /\ y.at = "done" /\ DOMAIN z = Fields /\ z.at = "done"
  BY <1>3, FieldsAre
<1> HIDE DEF y, z
<1>6. CallInv(y) /\ CallInv(z)
  BY <1>5 DEF CallInv
<1>7. CASE Step(c, y) \/ Step(c, z) \/ Step(c, k)
  BY <1>3, <1>6, <1>7, StepKeeps
<1>8. CASE Finish(c, k, Failure("Auth")) \/ Finish(c, k, Failure("ShuttingDown"))
  BY <1>3, <1>8, FinishKeeps
<1>9. CASE Fail(c, k, "InvalidWorldName", "prefix")
  BY <1>3, <1>9, FailKeeps, Zenon
<1> HIDE DEF k
<1> QED BY <1>4, <1>7, <1>8, <1>9, Zenon

\* The steps of a listing and of du.
LEMMA WalkKeeps ==
    ASSUME QuietInv, NEW c \in Callers,
           \/ WalkEntry(c) \/ WalkEnd(c) \/ ReportFault(c) \/ DuOpen(c) \/ DuQuery(c)
           \/ ListEnds(c) \/ PrefixListEnds(c) \/ BoundedListEnds(c) \/ DuEnds(c)
    PROVE  QuietInv' /\ call[c].at # "df" /\ \A d \in Callers \ {c} : call'[d] = call[d]
<1> DEFINE Q == QuietInv' /\ \A d \in Callers \ {c} : call'[d] = call[d]
<1>1. DOMAIN call[c] = Fields
  BY DEF QuietInv, CallInv
<1>2. ASSUME NEW k, DOMAIN k = Fields, k.at # "df", Step(c, k) PROVE Q
  BY <1>2, StepKeeps DEF CallInv
<1>3. ASSUME NEW r, Finish(c, call[c], r) PROVE Q
  BY <1>1, <1>3, FinishKeeps
<1>4. ASSUME NEW e, NEW m, Fail(c, call[c], e, m) PROVE Q
  BY <1>1, <1>4, FailKeeps, Zenon
<1> HIDE DEF Q
<1>5. CASE WalkEntry(c)
  <2>1. PICK d : LET k == call[c]
                     next == [k EXCEPT !.seen = @ \cup {d}, !.todo = @ \ {d}] IN
          \/ Step(c, next) \/ Finish(c, k, Failure("Storage")) \/ Finish(c, k, [is |-> "too_many"])
          \/ Step(c, [next EXCEPT !.names = @ \cup {d}])
    BY <1>5, ZenonT(30) DEF WalkEntry
  <2> DEFINE k == call[c]
             y == [k EXCEPT !.seen = @ \cup {d}, !.todo = @ \ {d}]
             z == [y EXCEPT !.names = @ \cup {d}]
  <2>2. k.at = "walk"
    BY <1>5, Zenon DEF WalkEntry
  <2>3. DOMAIN y = Fields /\ y.at = "walk" /\ DOMAIN z = Fields /\ z.at = "walk"
    BY <1>1, <2>2, FieldsAre
  <2>4. Step(c, y) \/ Step(c, z) \/ \E r : Finish(c, k, r)
    BY <2>1
  <2> HIDE DEF y, z
  <2> QED BY <1>2, <1>3, <2>2, <2>3, <2>4, Zenon DEF Q
<1>6. CASE WalkEnd(c)
  <2> DEFINE k == call[c]
             y == [k EXCEPT !.at = "du", !.todo = k.names]
             z == [k EXCEPT !.at = "memory"]
  <2>1. k.at = "walk" /\ (Step(c, y) \/ Step(c, z))
    BY <1>6 DEF WalkEnd
  <2>2. DOMAIN y = Fields /\ y.at = "du" /\ DOMAIN z = Fields /\ z.at = "memory"
    BY <1>1, FieldsAre
  <2> HIDE DEF y, z
  <2> QED BY <1>2, <2>1, <2>2 DEF Q
<1>7. CASE ReportFault(c)
  BY <1>4, <1>7, Zenon DEF ReportFault, Q
<1>8. CASE DuOpen(c)
  <2>1. \A n : OpenExistingPath(n) \in {"none", "open", "error"}
    BY DEF OpenExistingPath
  <2> DEFINE k == call[c]
             d == CHOOSE d \in k.todo : TRUE
             x == [k EXCEPT !.at = "memory"]
             y == [k EXCEPT !.todo = @ \ {d}]
             z == [y EXCEPT !.at = "du_live", !.cur = d, !.pinned = {}]
  <2>2. k.at = "du" /\ (Step(c, x) \/ Step(c, y) \/ Step(c, z) \/ Finish(c, k, Failure("Storage")))
    BY <1>8, <2>1, Zenon DEF DuOpen
  <2> HIDE DEF d
  <2>3. DOMAIN x = Fields /\ x.at = "memory" /\ DOMAIN y = Fields /\ y.at = k.at
        /\ DOMAIN z = Fields /\ z.at = "du_live"
    BY <1>1, FieldsAre
  <2> HIDE DEF x, y, z
  <2> QED BY <1>2, <1>3, <2>2, <2>3 DEF Q
<1>9. CASE DuQuery(c)
  <2> DEFINE k == call[c]
             u == SeenUsage(k)
             x == [k EXCEPT !.at = "du_cas", !.figures.live = u.live]
             y == [k EXCEPT !.at = "du_rows", !.figures.cas = u.cas]
             z == [k EXCEPT !.at = "du", !.figures = NoFigures, !.cur = Stray, !.pinned = {},
                            !.entries = @ \cup {Entry(k.cur, [k.figures EXCEPT !.rows = u.rows])}]
  <2>1. k.at # "df" /\ (Step(c, x) \/ Step(c, y) \/ Step(c, z))
    BY <1>9 DEF DuQuery
  <2>2. DOMAIN x = Fields /\ x.at = "du_cas" /\ DOMAIN y = Fields /\ y.at = "du_rows"
        /\ DOMAIN z = Fields /\ z.at = "du"
    BY <1>1, FieldsAre
  <2> HIDE DEF x, y, z
  <2> QED BY <1>2, <2>1, <2>2 DEF Q
<1>10. CASE ListEnds(c) \/ PrefixListEnds(c) \/ BoundedListEnds(c) \/ DuEnds(c)
  <2>1. call[c].at = "memory" /\ \E r : Finish(c, call[c], r)
    BY <1>10, Zenon DEF ListEnds, PrefixListEnds, BoundedListEnds, DuEnds
  <2> QED BY <1>3, <2>1, Zenon DEF Q
<1> QED BY <1>5, <1>6, <1>7, <1>8, <1>9, <1>10, Zenon

\* What a df loads are natural numbers.
LEMMA LoadedType ==
    ASSUME QuotaInv
    PROVE  /\ \A i \in 1..7 : Loaded[i] \in Nat
           /\ Cardinality(MemoryList) \in Nat /\ LedgerCount \in Nat
<1>1. IsFiniteSet(MemoryList)
  BY FS_EmptySet, FS_Singleton, ZenonT(30) DEF MemoryList
<1>2. Cardinality(MemoryList) \in Nat
  BY <1>1, FS_CardinalityType
<1>3. LedgerCount \in Nat
  BY DEF LedgerCount
<1>4. used \in Nat /\ live \in Nat /\ retained \in Nat /\ rows \in Nat /\ worldCount \in Nat
  BY DEF QuotaInv, QuotaTypes, CounterTypes
<1> DEFINE m == Cardinality(MemoryList)
           g == LedgerCount
<1> HIDE DEF m, g
<1>5. \A i \in 1..7 : <<m, used, live, retained, rows, worldCount, g>>[i] \in Nat
  BY <1>2, <1>3, <1>4 DEF m, g
<1> QED BY <1>2, <1>3, <1>5 DEF Loaded, m, g

\* What a df that nothing disturbs makes of the counters.
Figures ==
    [is |-> "df", used |-> used, live |-> live, retained |-> retained, rows |-> rows, quota |-> quota,
     worlds |-> Minus(worldCount, LedgerCount) + Cardinality(MemoryList)]

\* A df that nothing disturbs loads the counters as they are until its end.
LEMMA QuietLoads ==
    ASSUME QuotaInv, NEW c \in Callers, CallInv(call[c]), DfLoad(c), call[c].quiet
    PROVE  \/ \E z : Step(c, z) /\ CallInv(z) /\ z.at = "df"
           \/ \E z : DOMAIN z = Fields /\ z.ask = call[c].ask /\ Finish(c, z, Figures)
<1> DEFINE k == call[c]
           i == Len(k.load) + 1
           value == CASE DfLoads[i] = "memory" -> Cardinality(MemoryList)
                      [] DfLoads[i] = "used" -> used
                      [] DfLoads[i] = "live" -> live
                      [] DfLoads[i] = "retained" -> retained
                      [] DfLoads[i] = "rows" -> rows
                      [] DfLoads[i] = "worlds" -> worldCount
                      [] DfLoads[i] = "ledger" -> IF ledgerMade THEN 1 ELSE 0
           load == Append(k.load, value)
           y == [k EXCEPT !.load = load]
           z == [k EXCEPT !.load = <<>>]
           r == [is |-> "df", used |-> load[2], live |-> load[3], retained |-> load[4], rows |-> load[5],
                 quota |-> quota, worlds |-> Minus(load[6], load[7]) + load[1]]
<1>1. k.at = "df" /\ IF i < Len(DfLoads) THEN Step(c, y) ELSE Finish(c, z, r)
  BY ZenonT(30) DEF DfLoad
<1>2. /\ DOMAIN k = Fields /\ k.ask.door \in {"http", "sdk", "rust"} /\ k.quiet
      /\ \A w \in Worlds : op[w] = "idle"
      /\ k.load \in Seq(Nat) /\ Len(k.load) <= 6
      /\ \A j \in 1..Len(k.load) : k.load[j] = Loaded[j]
  BY <1>1, Zenon DEF CallInv
<1>3. i \in 1..7 /\ Len(DfLoads) = 7
  <2> DEFINE n == Len(k.load)
  <2>1. n \in Nat /\ n <= 6
    BY <1>2
  <2>2. Len(DfLoads) = 7
    BY DEF DfLoads
  <2> HIDE DEF n
  <2>3. n + 1 \in 1..7
    BY <2>1
  <2> QED BY <2>2, <2>3 DEF n
<1> HIDE DEF i
<1>4. value = Loaded[i]
  <2>1. CASE i = 1
    BY <2>1 DEF DfLoads, Loaded
  <2>2. CASE i = 2
    BY <2>2 DEF DfLoads, Loaded
  <2>3. CASE i = 3
    BY <2>3 DEF DfLoads, Loaded
  <2>4. CASE i = 4
    BY <2>4 DEF DfLoads, Loaded
  <2>5. CASE i = 5
    BY <2>5 DEF DfLoads, Loaded
  <2>6. CASE i = 6
    BY <2>6 DEF DfLoads, Loaded
  <2>7. CASE i = 7
    BY <2>7 DEF DfLoads, Loaded, LedgerCount
  <2>8. i = 1 \/ i = 2 \/ i = 3 \/ i = 4 \/ i = 5 \/ i = 6 \/ i = 7
    BY <1>3
  <2> HIDE DEF value
  <2> QED BY <2>1, <2>2, <2>3, <2>4, <2>5, <2>6, <2>7, <2>8
<1>5. value \in Nat
  BY <1>3, <1>4, LoadedType, Zenon
<1> HIDE DEF value
<1>6. load \in Seq(Nat) /\ Len(load) = i /\ \A j \in 1..i : load[j] = Loaded[j]
  BY <1>2, <1>4, <1>5 DEF i
<1> HIDE DEF load
<1>7. CASE i < Len(DfLoads)
  <2>1. Step(c, y)
    BY <1>1, <1>7
  <2>2. DOMAIN y = Fields /\ y.at = "df" /\ y.ask = k.ask /\ y.load = load
    BY <1>1, <1>2, FieldsAre
  <2>3. Len(y.load) <= 6
    BY <1>3, <1>6, <1>7, <2>2
  <2> HIDE DEF y
  <2>4. CallInv(y)
    BY <1>2, <1>6, <2>2, <2>3 DEF CallInv
  <2> QED BY <2>1, <2>2, <2>4
<1>8. CASE ~(i < Len(DfLoads))
  <2>1. i = 7
    BY <1>3, <1>8
  <2>2. \A j \in 1..7 : load[j] = Loaded[j]
    BY <1>6, <2>1
  <2>3. /\ load[1] = Cardinality(MemoryList) /\ load[2] = used /\ load[3] = live /\ load[4] = retained
        /\ load[5] = rows /\ load[6] = worldCount /\ load[7] = LedgerCount
    BY <2>2 DEF Loaded
  <2>4. r = Figures
    BY <2>3 DEF Figures
  <2>5. DOMAIN z = Fields /\ z.ask = k.ask
    BY <1>2, FieldsAre
  <2> HIDE DEF z, r
  <2>6. Finish(c, z, Figures)
    BY <1>1, <1>8, <2>4
  <2> QED BY <2>5, <2>6
<1> QED BY <1>7, <1>8

\* A step of df.
LEMMA DfLoadKeeps ==
    ASSUME QuotaInv, QuietInv, NEW c \in Callers, DfLoad(c)
    PROVE  QuietInv' /\ \A d \in Callers \ {c} : call'[d] = call[d]
<1>1. CallInv(call[c])
  BY DEF QuietInv
<1>2. CASE call[c].quiet
  BY <1>1, <1>2, QuietLoads, StepKeeps, FinishKeeps, Zenon
<1>3. CASE ~call[c].quiet
  <2>1. PICK load, r :
          \/ Step(c, [call[c] EXCEPT !.load = load])
          \/ Finish(c, [call[c] EXCEPT !.load = <<>>], r)
    BY Zenon DEF DfLoad
  <2> DEFINE y == [call[c] EXCEPT !.load = load]
             z == [call[c] EXCEPT !.load = <<>>]
  <2>2. DOMAIN y = Fields /\ DOMAIN z = Fields /\ y.at = call[c].at /\ y.ask = call[c].ask
        /\ y.quiet = call[c].quiet
    BY <1>1, FieldsAre DEF CallInv
  <2>3. Step(c, y) \/ Finish(c, z, r)
    BY <2>1
  <2> HIDE DEF y, z
  <2>4. CallInv(y)
    BY <1>1, <1>3, <2>2 DEF CallInv
  <2> QED BY <2>2, <2>3, <2>4, StepKeeps, FinishKeeps, Zenon
<1> QED BY <1>2, <1>3

\* Every step keeps what a quiet df knows.
LEMMA NextQuiet ==
    ASSUME QuotaInv, scope \in Scopes, QuietInv, [Next]_vars
    PROVE  QuietInv'
<1>1. CASE UNCHANGED vars
  <2>1. call' = call /\ op' = op /\ Loaded' = Loaded
    BY <1>1 DEF vars, quotaVars, rootVars, Loaded, LedgerCount, MemoryList
  <2> QED BY <2>1 DEF QuietInv, CallInv
<1>2. CASE Watch
  BY <1>2, WatchKeeps
<1>3. CASE EngineStart
  BY <1>3, CallsLostKeeps, Zenon DEF EngineStart
<1>4. ASSUME NEW w \in Worlds,
             \/ WriteBegins(w) \/ DeleteBegins(w) \/ OpenWorld(w) \/ Commits(w)
             \/ OpenOrTxFails(w) \/ Removes(w) \/ OperationStep(w)
      PROVE  Watch
  BY <1>4, Zenon DEF WriteBegins, DeleteBegins, OpenWorld, Commits, OpenOrTxFails, Removes, OperationStep
<1>5. MemoryWrite \/ StrayAppears \/ Shutdown => Watch
  BY DEF MemoryWrite, StrayAppears, Shutdown
<1>6. ASSUME NEW c \in Callers,
             \/ WalkEntry(c) \/ WalkEnd(c) \/ ReportFault(c) \/ DuOpen(c) \/ DuQuery(c)
             \/ ListEnds(c) \/ PrefixListEnds(c) \/ BoundedListEnds(c) \/ DuEnds(c)
      PROVE  QuietInv'
  BY <1>6, WalkKeeps, Zenon
<1>7. ASSUME NEW c \in Callers, Ask(c) \/ DfLoad(c) PROVE QuietInv'
  BY <1>7, AskKeeps, DfLoadKeeps, Zenon
<1>8. ASSUME NEW c \in Callers, WorkerLost(c) PROVE QuietInv'
  BY <1>8, FailKeeps, Zenon DEF WorkerLost, QuietInv, CallInv
<1> QED BY <1>1, <1>2, <1>3, <1>4, <1>5, <1>6, <1>7, <1>8, Zenon DEF Next

\* A df that ends with figures and that nothing disturbed ends by its last load.
LEMMA OnlyLoadAnswers ==
    ASSUME QuotaInv, scope \in Scopes, QuietInv, [Next]_vars, NEW c \in Callers,
           call[c].at = "df", Answered(call'[c], "df") \/ Answered(call'[c], "snapshot")
    PROVE  DfLoad(c)
<1>0. call'[c].at = "done" /\ call'[c].answer.got # NoResult
  BY DEF Answered, NoResult
<1>1. ~UNCHANGED vars
  BY <1>0 DEF vars
<1>2. ~Watch
  BY <1>0, WatchKeeps, Zenon
<1>3. ~EngineStart
  BY <1>0, CallsLostKeeps, Zenon DEF EngineStart
<1>4. ASSUME NEW w \in Worlds,
             \/ WriteBegins(w) \/ DeleteBegins(w) \/ OpenWorld(w) \/ Commits(w)
             \/ OpenOrTxFails(w) \/ Removes(w) \/ OperationStep(w)
      PROVE  FALSE
  BY <1>2, <1>4, Zenon DEF WriteBegins, DeleteBegins, OpenWorld, Commits, OpenOrTxFails, Removes, OperationStep
<1>5. ~(MemoryWrite \/ StrayAppears \/ Shutdown)
  BY <1>2 DEF MemoryWrite, StrayAppears, Shutdown
<1>6. ASSUME NEW d \in Callers,
             \/ WalkEntry(d) \/ WalkEnd(d) \/ ReportFault(d) \/ DuOpen(d) \/ DuQuery(d)
             \/ ListEnds(d) \/ PrefixListEnds(d) \/ BoundedListEnds(d) \/ DuEnds(d)
      PROVE  FALSE
  <2>1. call[d].at # "df" /\ \A e \in Callers \ {d} : call'[e] = call[e]
    BY <1>6, WalkKeeps, Zenon
  <2> QED BY <1>0, <2>1, Zenon
<1>7. ASSUME NEW d \in Callers, Ask(d) PROVE FALSE
  <2>1. call[d].at = "idle" /\ \A e \in Callers \ {d} : call'[e] = call[e]
    BY <1>7, AskKeeps, Zenon DEF Ask
  <2> QED BY <1>0, <2>1, Zenon
<1>8. ASSUME NEW d \in Callers, WorkerLost(d) PROVE FALSE
  <2>1. /\ \A e \in Callers \ {d} : call'[e] = call[e]
        /\ call'[d].answer.got = NoResult
    BY <1>8, FailKeeps DEF WorkerLost, QuietInv, CallInv
  <2> QED BY <1>0, <2>1, Zenon
<1>9. ASSUME NEW d \in Callers, DfLoad(d) PROVE d = c
  <2>1. \A e \in Callers \ {d} : call'[e] = call[e]
    BY <1>9, DfLoadKeeps, Zenon
  <2> QED BY <1>0, <2>1, Zenon
<1> QED BY <1>1, <1>3, <1>4, <1>5, <1>6, <1>7, <1>8, <1>9, ZenonT(30) DEF Next

\* At rest, the figures are what is there.
LEMMA FiguresAtRest ==
    ASSUME QuotaInv, \A w \in Worlds : op[w] = "idle"
    PROVE  /\ Figures.used = Sum([w \in Worlds |-> Total(usage[w])]) + Total(lost)
           /\ Figures.used \in Nat /\ Figures.quota = quota /\ quota \in Nat /\ Figures.is = "df"
           /\ Figures.live = Sum([w \in Worlds |-> usage[w].live]) + lost.live
           /\ Figures.retained = Sum([w \in Worlds |-> usage[w].cas]) + lost.cas
           /\ Figures.rows = Sum([w \in Worlds |-> usage[w].rows]) + ledgerRows + lost.rows
           /\ Figures.worlds = Cardinality({w \in Worlds : usage[w].rows > 0}) + lost.worlds
                                 + Cardinality(MemoryList)
<1>1. usage \in [Worlds -> Usages]
  BY DEF QuotaInv, QuotaTypes
<1>2. \A w \in Worlds : plan[w] = NoPlan
  BY Zenon DEF QuotaInv, WorldInv
<1>3. /\ Bytes = [w \in Worlds |-> BytesOf(usage[w], "idle", NoPlan)]
      /\ Lives = [w \in Worlds |-> LiveOf(usage[w], "idle", NoPlan)]
      /\ Cases = [w \in Worlds |-> CasOf(usage[w], "idle", NoPlan)]
      /\ Events = [w \in Worlds |-> EventsOf(usage[w], "idle", NoPlan)]
      /\ Counts = [w \in Worlds |-> CountOf(usage[w], "idle", NoPlan)]
  BY <1>2, Zenon DEF Bytes, Lives, Cases, Events, Counts
<1> DEFINE n == Cardinality({w \in Worlds : usage[w].rows > 0})
           m == Cardinality(MemoryList)
           g == LedgerCount
<1>4. /\ Sum(Bytes) = Sum([w \in Worlds |-> Total(usage[w])])
      /\ Sum(Lives) = Sum([w \in Worlds |-> usage[w].live])
      /\ Sum(Cases) = Sum([w \in Worlds |-> usage[w].cas])
      /\ Sum(Events) = Sum([w \in Worlds |-> usage[w].rows])
      /\ Sum(Counts) = n /\ n \in Nat
  BY <1>1, <1>3, AtRest, Zenon
<1>5. m \in Nat /\ g \in Nat
  BY LoadedType
<1>6. worldCount = Sum(Counts) + g + lost.worlds /\ lost.worlds \in Nat
  BY DEF QuotaInv, QuotaTypes, CounterTypes
<1>7. /\ Figures.used = used /\ Figures.live = live /\ Figures.retained = retained
      /\ Figures.rows = rows /\ Figures.quota = quota /\ Figures.is = "df"
      /\ Figures.worlds = Minus(worldCount, g) + m
  BY DEF Figures
<1> HIDE DEF n, m, g
<1>8. Figures.worlds = n + lost.worlds + m
  <2>1. worldCount = n + g + lost.worlds
    BY <1>4, <1>6
  <2>2. Minus(worldCount, g) = n + lost.worlds
    BY <1>4, <1>5, <1>6, <2>1 DEF Minus
  <2> QED BY <1>7, <2>2
<1>9. used \in Nat /\ quota \in Nat
  BY DEF QuotaInv, QuotaTypes, CounterTypes
<1>10. /\ used = Sum(Bytes) + Total(lost) /\ live = Sum(Lives) + lost.live
       /\ retained = Sum(Cases) + lost.cas /\ rows = Sum(Events) + ledgerRows + lost.rows
  BY DEF QuotaInv
<1> QED BY <1>4, <1>7, <1>8, <1>9, <1>10 DEF n, m

\* Figures that are passed on as they are stay true, and so does what is left.
LEMMA FiguresPassedOn ==
    ASSUME QuotaInv, \A w \in Worlds : op[w] = "idle", NEW got, NEW door,
           got.used = Figures.used, got.live = Figures.live, got.retained = Figures.retained,
           got.rows = Figures.rows, got.worlds = Figures.worlds,
           IF door = "http" THEN got.available = Minus(quota, Figures.used) ELSE got.quota = quota
    PROVE  FiguresExact(got, door)
<1> DEFINE b == Sum([w \in Worlds |-> Total(usage[w])]) + Total(lost)
<1>1. /\ Figures.used = b /\ b \in Nat /\ quota \in Nat
      /\ Figures.live = Sum([w \in Worlds |-> usage[w].live]) + lost.live
      /\ Figures.retained = Sum([w \in Worlds |-> usage[w].cas]) + lost.cas
      /\ Figures.rows = Sum([w \in Worlds |-> usage[w].rows]) + ledgerRows + lost.rows
      /\ Figures.worlds = Cardinality({w \in Worlds : usage[w].rows > 0}) + lost.worlds
                             + Cardinality(MemoryList)
  BY FiguresAtRest, Zenon
<1> HIDE DEF b
<1>2. Minus(quota, b) = IF b <= quota THEN quota - b ELSE 0
  BY <1>1 DEF Minus
<1>3. IF door = "http" THEN got.available = (IF b <= quota THEN quota - b ELSE 0) ELSE got.quota = quota
  BY <1>1, <1>2
<1> QED BY <1>1, <1>3, ZenonT(30) DEF FiguresExact, b

\* df is exact at every door when nothing goes on while it loads the counters: for
\* every set of worlds, every history before it, and any number of other callers.
THEOREM QuietDfExactAlways == Spec => QuietDfExact
<1>1. ASSUME QuotaInv, scope \in Scopes, QuietInv, [Next]_vars, NEW c \in Callers,
             call[c].at = "df", call[c].quiet, Answered(call'[c], "df") \/ Answered(call'[c], "snapshot")
      PROVE  FiguresExact(call'[c].answer.got, call[c].ask.door)
  <2> DEFINE ask == call[c].ask
             got == call'[c].answer.got
  <2>1. DfLoad(c)
    BY <1>1, OnlyLoadAnswers, Zenon
  <2>2. /\ CallInv(call[c]) /\ ask.door \in {"http", "sdk", "rust"}
        /\ \A w \in Worlds : op[w] = "idle"
    BY <1>1 DEF QuietInv, CallInv
  <2>3. call'[c].at = "done" /\ got # NoResult
    BY <1>1 DEF Answered, NoResult
  <2>4. \A z : Step(c, z) /\ CallInv(z) /\ z.at = "df" => call'[c].at = "df"
    BY <1>1, StepKeeps, Zenon
  <2>5. PICK z : DOMAIN z = Fields /\ z.ask = ask /\ Finish(c, z, Figures)
    BY <1>1, <2>1, <2>2, <2>3, <2>4, QuietLoads, Zenon
  <2>6. call'[c].answer = AnswerTo(ask, Figures)
    BY <1>1, <2>5, FinishKeeps
  <2>7. Figures.is = "df" /\ Figures.quota = quota
    BY DEF Figures
  <2>8. CASE ask.door = "http"
    <3>1. AnswerTo(ask, Figures) = ProcTextResponse(ask, DfBody(Figures))
      BY <2>7, <2>8 DEF AnswerTo, ProcAnswer
    <3>2. got = DfBody(Figures)
      BY <2>3, <2>6, <3>1 DEF ProcTextResponse, NoAnswer
    <3>3. /\ got.used = Figures.used /\ got.live = Figures.live /\ got.retained = Figures.retained
          /\ got.rows = Figures.rows /\ got.worlds = Figures.worlds
          /\ got.available = Minus(quota, Figures.used)
      BY <2>7, <3>2 DEF DfBody
    <3> QED BY <1>1, <2>2, <2>8, <3>3, FiguresPassedOn, Zenon
  <2>9. CASE ask.door \in {"sdk", "rust"}
    <3>1. got = Figures \/ got = SdkDf(Figures)
      BY <2>6, <2>7, <2>9, Zenon DEF AnswerTo, SdkReport, NoAnswer
    <3>2. /\ got.used = Figures.used /\ got.live = Figures.live /\ got.retained = Figures.retained
          /\ got.rows = Figures.rows /\ got.worlds = Figures.worlds /\ got.quota = quota
      BY <3>1 DEF SdkDf, Figures
    <3>3. ask.door # "http"
      BY <2>9
    <3> QED BY <1>1, <2>2, <3>2, <3>3, FiguresPassedOn, Zenon
  <2> QED BY <2>2, <2>8, <2>9, Zenon
<1>2. Init => QuietInv
  <2>1. Init => call = [c \in Callers |-> NoCall]
    BY DEF Init
  <2> QED BY <2>1, FieldsAre DEF QuietInv, CallInv, Fields
<1>3. QuotaInv /\ scope \in Scopes /\ QuietInv /\ [Next]_vars => QuietInv'
  BY NextQuiet
<1>4. Spec => []QuietInv
  BY <1>2, <1>3, QuotaInvAlways, PTL DEF Spec
<1>5. (QuotaInv /\ scope \in Scopes) /\ QuietInv /\ [Next]_vars =>
        [\A c \in Callers :
           (/\ call[c].at = "df" /\ call[c].quiet
            /\ Answered(call'[c], "df") \/ Answered(call'[c], "snapshot")) =>
             FiguresExact(call'[c].answer.got, call[c].ask.door)]_vars
  BY <1>1
<1> QED BY <1>4, <1>5, QuotaInvAlways, PTL DEF Spec, QuietDfExact
=============================================================================
