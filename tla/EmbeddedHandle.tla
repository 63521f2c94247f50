---------------------------- MODULE EmbeddedHandle ----------------------------
(***************************************************************************)
(* The processes that use one data root (core/src/data_lock.rs,           *)
(* engine.rs).  A Python program opens it through ffi/src/lib.rs; its      *)
(* threads call the verbs of l5.Engine and l5.Subscription                 *)
(* (sdk/src/l5/__init__.py) while others close them, and the FFI's pump    *)
(* moves events from the engine to a bounded channel.  A server process    *)
(* (bin/src/server/mod.rs) opens the root from its environment, binds,     *)
(* serves requests and stops on a signal.                                  *)
(*                                                                         *)
(* What a verb does inside the engine is one step here: the file-operation *)
(* gate, the write path, deletion and the event log have modules of their  *)
(* own.  The data root holds one world; a body is the sequence of the      *)
(* chunks written to it.                                                   *)
(*                                                                         *)
(* scope is the workload: which handles, threads and subscriptions there   *)
(* are, what the threads call, and which faults happen.                    *)
(***************************************************************************)
EXTENDS StartRules, SequencesExt

CONSTANTS Handles, Threads, Subs,
          Scopes,    \* workloads, see MCEmbeddedHandle
          Buffer,    \* FFI_SUBSCRIPTION_BUFFER
          Ring       \* capacity of the engine's broadcast channel

Nobody == "nobody"
NoSub == "no subscription"

VARIABLES scope,
          db,     \* the lock file .auditedb-writer-lock.sqlite3
          hs,     \* per handle: the constructor's progress and the Engine object
          th,     \* per thread: the call it is in
          sb,     \* per subscription: FfiSubscription, its pump, its wrapper
          world,  \* the world on disk
          kept    \* chunks appended since the last put or delete a caller asked for

vars == <<scope, db, hs, th, sb, world, kept>>

HandleOf(t) == scope.of[t]
Mine(h) == {t \in DOMAIN scope.of : HandleOf(t) = h}

Missing == [exists |-> FALSE, body |-> <<>>, version |-> 0]
Etag(w) == IF w.exists THEN <<"hmac", <<w.version>> >> ELSE NoTag

Idle == [pc |-> "idle", call |-> [op |-> "none"], stage |-> "first", sub |-> NoSub,
         todo |-> {}, snap |-> {}, ref |-> FALSE, did |-> FALSE, result |-> "none",
         answer |-> "none", left |-> 0]
NewSub == [of |-> Nobody, cancel |-> FALSE, closed |-> FALSE, pump |-> "none",
           taken |-> FALSE, pumpLock |-> Nobody, item |-> ClosedItem, chan |-> <<>>,
           rxClosed |-> FALSE, eventsLock |-> Nobody, pending |-> <<>>, lagged |-> 0,
           got |-> <<>>, published |-> 0, tracked |-> FALSE]
NewHandle == [pc |-> "new", engine |-> FALSE, closed |-> FALSE, closing |-> FALSE,
              lock |-> Nobody, shut |-> FALSE, flip |-> FALSE, answer |-> "none",
              config |-> [kind |-> "python", given |-> SdkConfig("key")],
              settings |-> BuilderDefault]
OpenHandle == [NewHandle EXCEPT !.pc = "open", !.engine = TRUE]

Init ==
    /\ scope \in Scopes
    /\ db = [created |-> scope.opened # {}, holder |-> Nobody, shared |-> {},
             reserved |-> IF scope.opened = {} THEN Nobody ELSE CHOOSE h \in scope.opened : TRUE]
    /\ hs = [h \in scope.handles |-> IF h \in scope.opened THEN OpenHandle ELSE NewHandle]
    /\ th = [t \in DOMAIN scope.of |-> [Idle EXCEPT !.left = scope.calls]]
    /\ sb = [s \in scope.subs |-> NewSub]
    /\ world = scope.world
    /\ kept = {}

-------------------------------------------------------------------------------
(* The lock file, in rollback-journal mode with no busy timeout: one        *)
(* connection may hold the reserved lock; a commit that wrote something     *)
(* needs every reader gone.                                                 *)

\* Mutant of MayReserve: the lock keeps nobody out.
MayReserveAlways(h) == TRUE
MayReserve(h) == db.reserved = Nobody
MayCommit(h) == db.shared \ {h} = {}

\* The connection of h is dropped.
DropConnection(h) ==
    [db EXCEPT !.shared = @ \ {h}, !.reserved = IF @ = h THEN Nobody ELSE @]

IsServer(h) == hs[h].config.kind = "server"

\* Everything that was configured is checked before anything is touched.
OpenStart(h) ==
    /\ hs[h].pc = "new"
    /\ \E k \in scope.configs :
         LET parsed == IF k.kind = "server" THEN RunFromEnv(k.given) ELSE FfiOpen(k.given)
         IN  hs' = [hs EXCEPT ![h] =
               IF parsed # {}
               THEN [@ EXCEPT !.pc = "prepare", !.config = k, !.settings = CHOOSE x \in parsed : TRUE]
               ELSE [@ EXCEPT !.pc = "failed", !.config = k,
                              !.answer = IF k.kind = "server" THEN "exit"
                                         ELSE TranslateFfiError(FfiOpenError(k.given))]]
    /\ UNCHANGED <<scope, db, th, sb, world, kept>>

\* A statement or BEGIN IMMEDIATE that takes the reserved lock.  The third one
\* is never committed: it is the lock on the data root.
Reserved == [prepare |-> "preparing", holder |-> "holding", lock |-> "build"]
Reserve(h) ==
    /\ hs[h].pc \in DOMAIN Reserved
    /\ IF MayReserve(h)
       THEN /\ db' = [db EXCEPT !.reserved = h]
            /\ hs' = [hs EXCEPT ![h].pc = Reserved[@]]
       ELSE /\ hs' = [hs EXCEPT ![h].pc = "refused"]
            /\ UNCHANGED db
    /\ UNCHANGED <<scope, th, sb, world, kept>>

\* CREATE TABLE writes only into a fresh file; commit_holder always writes.
\* Either is rolled back when a reader is in the way.
CommitHolder(h) ==
    /\ hs[h].pc \in {"preparing", "holding"}
    /\ LET done == (hs[h].pc = "preparing" /\ db.created) \/ MayCommit(h)
       IN  /\ db' = [db EXCEPT !.reserved = Nobody,
                               !.created = @ \/ done,
                               !.holder = IF done /\ hs[h].pc = "holding" THEN h ELSE @]
           /\ hs' = [hs EXCEPT ![h].pc = IF ~done THEN "refused"
                                         ELSE IF @ = "preparing" THEN "holder" ELSE "lock"]
    /\ UNCHANGED <<scope, th, sb, world, kept>>

\* lock_attempt_error: query_holder reads the row, then the connection goes.
QueryHolder(h) ==
    /\ hs[h].pc = "refused"
    /\ db' = [db EXCEPT !.shared = @ \cup {h}]
    /\ hs' = [hs EXCEPT ![h].pc = "asking"]
    /\ UNCHANGED <<scope, th, sb, world, kept>>

\* A constructor that fails raises; a server that fails prints and exits.
OpenFails(h, exception) ==
    /\ db' = DropConnection(h)
    /\ hs' = [hs EXCEPT ![h].pc = "failed", ![h].engine = FALSE,
                        ![h].answer = IF IsServer(h) THEN "exit" ELSE exception]
    /\ UNCHANGED <<scope, th, sb, world, kept>>

OpenRefused(h) == hs[h].pc = "asking" /\ OpenFails(h, SdkBuildError("DataRootLockHeld"))

\* The directory cannot be created, or map_writer_lock_error on a failure that
\* is not contention.
OpenFault(h) ==
    /\ scope.faults
    /\ \/ hs[h].pc = "prepare" /\ OpenFails(h, SdkBuildError("DataRootIo"))
       \/ /\ hs[h].pc \in {"prepare", "preparing", "holder", "holding", "lock"}
          /\ OpenFails(h, SdkBuildError("Storage"))

\* Verification of the worlds, the startup sums and the runtime.  A world
\* database that is busy is reported as a held lock; the key was given, or the
\* call would have ended before the lock.
Build(h) ==
    /\ hs[h].pc = "build"
    /\ \/ /\ hs' = [hs EXCEPT ![h].pc = IF IsServer(h) THEN "bind" ELSE "open", ![h].engine = TRUE]
          /\ UNCHANGED <<scope, db, th, sb, world, kept>>
       \/ /\ scope.faults
          /\ \/ \E err \in EngineBuildErrors \ {"DataRootIo", "HmacKeyMissing"} :
                   OpenFails(h, SdkBuildError(err))
             \/ ~IsServer(h) /\ OpenFails(h, TranslateFfiError("RuntimeInitFailed"))

\* The server has the engine before it has its address.
Bind(h) ==
    /\ hs[h].pc = "bind"
    /\ \/ hs' = [hs EXCEPT ![h].pc = "open"] /\ UNCHANGED <<scope, db, th, sb, world, kept>>
       \/ scope.faults /\ OpenFails(h, "exit")

\* The process dies; its locks and threads go with it.
Crash(h) ==
    /\ scope.faults
    /\ hs[h].pc \notin {"new", "failed", "gone"}
    /\ db' = DropConnection(h)
    /\ hs' = [hs EXCEPT ![h] = [NewHandle EXCEPT !.pc = "gone"]]
    /\ th' = [t \in DOMAIN th |-> IF t \in Mine(h) THEN Idle ELSE th[t]]
    /\ sb' = [s \in DOMAIN sb |-> IF sb[s].of = h THEN [NewSub EXCEPT !.of = h, !.pump = "done"]
                                  ELSE sb[s]]
    /\ UNCHANGED <<scope, world, kept>>

-------------------------------------------------------------------------------
(* The FfiEngine lives as long as the Engine object or a call refers to it. *)
(* Dropping it shuts the engine down and then lets go of the lock file.     *)

Referenced(h, callers) == hs[h].engine \/ \E t \in Mine(h) \cap callers : th[t].ref

Release(h, alive) ==
    IF alive THEN UNCHANGED <<db, hs>>
    ELSE /\ db' = DropConnection(h)
         /\ hs' = [hs EXCEPT ![h].shut = TRUE, ![h].flip = TRUE]

Answered(t, answer) ==
    th' = [th EXCEPT ![t].pc = "idle", ![t].ref = FALSE, ![t].answer = answer, ![t].sub = NoSub]

\* The call ends and its reference to the FfiEngine with it.
EndCall(t, answer) ==
    LET h == HandleOf(t)
    IN  Answered(t, answer) /\ Release(h, Referenced(h, Threads \ {t}) \/ ~th[t].ref)

\* The Engine object is collected without having been closed.
ForgetEngine(h) ==
    /\ scope.forget
    /\ hs[h].pc = "open" /\ hs[h].engine /\ ~IsServer(h)
    /\ \A t \in Mine(h) : th[t].pc = "idle"
    /\ hs' = [hs EXCEPT ![h] = [NewHandle EXCEPT !.pc = "gone", !.shut = TRUE, !.flip = TRUE]]
    /\ db' = DropConnection(h)
    /\ UNCHANGED <<scope, th, sb, world, kept>>

\* _ensure_open
EnsureOpen(h) == ~hs[h].closed /\ ~hs[h].closing /\ hs[h].engine

Starting(t, op) ==
    th[t].pc = "idle" /\ th[t].left > 0 /\ op \in scope.ops
\* A server takes requests until the shutdown of its engine has returned.
StartingOnEngine(t, op) == Starting(t, op) /\ hs[HandleOf(t)].pc \in {"open", "draining"}
Started(t, call, pc) ==
    [Idle EXCEPT !.pc = pc, !.call = call, !.left = th[t].left - 1]
StartedWithRef(t, call, pc) == [Started(t, call, pc) EXCEPT !.ref = TRUE]
Refused(t, call, answer) == [Started(t, call, "idle") EXCEPT !.answer = answer]

-------------------------------------------------------------------------------
(* put, append, delete, get.                                                *)

\* What a condition argument may be: absent, the star, or a tag spelled well or
\* badly.
EtagInputs(t) ==
    {NoEtags, [given |-> TRUE, items |-> <<[form |-> "star"]>>]}
    \cup {[given |-> TRUE, items |-> <<[form |-> f, tag |-> <<"hmac", <<1>> >>]>>] :
             f \in {"quoted", "weak", "malformed"}}
Verbs == {"put", "append", "delete", "get"}
Calls(t) ==
    [op : scope.ops \cap Verbs, chunk : {t}, ifMatch : {NoEtags}, ifNoneMatch : {NoEtags}]
    \cup IF ~scope.conditions THEN {}
         ELSE [op : scope.ops \cap (Verbs \ {"get"}), chunk : {t},
               ifMatch : EtagInputs(t), ifNoneMatch : {NoEtags}]
              \cup [op : scope.ops \cap (Verbs \ {"get"}), chunk : {t},
                    ifMatch : {NoEtags}, ifNoneMatch : EtagInputs(t)]

\* _engine_handle, then the arguments are converted.  A request handler of the
\* server has the engine in its state.
Call(t, call) ==
    /\ StartingOnEngine(t, call.op)
    /\ hs[HandleOf(t)].lock = Nobody
    /\ th' = [th EXCEPT ![t] =
                IF IsServer(HandleOf(t)) THEN StartedWithRef(t, call, "handle")
                ELSE IF ~EnsureOpen(HandleOf(t)) THEN Refused(t, call, "RuntimeError")
                ELSE IF EtagInputInvalid(call.ifMatch) \/ EtagInputInvalid(call.ifNoneMatch)
                THEN Refused(t, call, "ValueError")
                ELSE StartedWithRef(t, call, "handle")]
    /\ UNCHANGED <<scope, db, hs, sb, world, kept>>

\* The engine's verb: ensure_not_shutdown and begin_file_op.
BeginVerb(t) ==
    /\ th[t].pc = "handle"
    /\ th' = [th EXCEPT ![t].pc = IF hs[HandleOf(t)].shut THEN "return" ELSE "op",
                        ![t].result = IF hs[HandleOf(t)].shut THEN "ShuttingDown" ELSE "none"]
    /\ UNCHANGED <<scope, db, hs, sb, world, kept>>

\* The verb a call makes at this point: an append that found no world first
\* replaces it by an empty body.
Verb(t) == IF th[t].stage = "create" THEN "put" ELSE th[t].call.op
Chunks(t) == IF th[t].stage = "create" THEN <<>> ELSE <<th[t].call.chunk>>

Conditions(t) ==
    IF th[t].stage = "create" THEN TRUE
    ELSE CheckPreconditions(EtagMatchers(th[t].call.ifMatch),
                            EtagMatchers(th[t].call.ifNoneMatch), Etag(world))

Publish(h, version) ==
    sb' = [s \in DOMAIN sb |->
              IF sb[s].of # h \/ sb[s].pump \notin {"recv", "hold"} THEN sb[s]
              ELSE LET full == Len(sb[s].pending) = Ring
                       rest == IF full THEN Tail(sb[s].pending) ELSE sb[s].pending
                   IN  [sb[s] EXCEPT !.pending = Append(rest, version),
                                     !.lagged = IF full THEN @ + 1 ELSE @,
                                     !.published = @ + 1]]

Finished(t, did, result) ==
    th' = [th EXCEPT ![t].pc = "return", ![t].did = @ \/ did, ![t].result = result]

\* The verb commits, or finds that it may not.  The permit ends with it.
ApplyVerb(t) ==
    /\ th[t].pc = "op"
    /\ LET verb == Verb(t)
           version == world.version + 1
           user == th[t].stage # "create"
       IN  IF verb = "get"
           THEN /\ Finished(t, FALSE, IF world.exists THEN "Body" ELSE "None")
                /\ UNCHANGED <<sb, world, kept>>
           ELSE IF ~Conditions(t)
           THEN Finished(t, FALSE, "PreconditionFailed") /\ UNCHANGED <<sb, world, kept>>
           ELSE IF ~world.exists /\ verb # "put"
           THEN Finished(t, FALSE, "NotFound") /\ UNCHANGED <<sb, world, kept>>
           ELSE /\ world' = CASE verb = "put" ->
                                   [exists |-> TRUE, body |-> Chunks(t), version |-> version]
                              [] verb = "append" ->
                                   [world EXCEPT !.body = @ \o Chunks(t), !.version = version]
                              [] verb = "delete" -> [Missing EXCEPT !.version = version]
                /\ kept' = IF verb = "append" THEN kept \cup {th[t].call.chunk}
                           ELSE IF user THEN {} ELSE kept
                /\ Publish(HandleOf(t), version)
                /\ Finished(t, TRUE, IF verb # "put" THEN "Ok"
                                     ELSE IF world.exists THEN "Updated" ELSE "Created")
    /\ UNCHANGED <<scope, db, hs>>

\* What the verb fails with when its storage or its worker does, having changed
\* nothing.  A read has no worker of its own.
VerbFailures(verb) ==
    CASE verb = "get" -> {ClassifyReadError(f) : f \in StorageFailures}
      [] verb = "delete" -> {ClassifyDeleteError(f) : f \in StorageFailures}
                            \cup {"DeleteFailedAfterIntent", "WorkerCancelled", "WorkerPanicked"}
      [] OTHER -> {ClassifyWriteError(f, op) : f \in StorageFailures, op \in {"Read", "WriteAudit"}}
                  \cup {"QuotaExceeded", "WorkerCancelled", "WorkerPanicked"}

FailVerb(t) ==
    /\ scope.failures
    /\ th[t].pc = "op"
    /\ \E err \in VerbFailures(Verb(t)) : Finished(t, FALSE, err)
    /\ UNCHANGED <<scope, db, hs, sb, world, kept>>

\* The world is removed and its removal announced, but the row that closes the
\* delete cannot be written.
DeleteUnrecorded(t) ==
    /\ scope.failures
    /\ th[t].pc = "op" /\ Verb(t) = "delete" /\ world.exists /\ Conditions(t)
    /\ world' = [Missing EXCEPT !.version = world.version + 1]
    /\ kept' = {}
    /\ Publish(HandleOf(t), world.version + 1)
    /\ Finished(t, TRUE, "AuditCommitFailed")
    /\ UNCHANGED <<scope, db, hs>>

Errors == ReadErrors \cup WriteErrors \cup DeleteErrors
EngineErrorOf(op, err) ==
    CASE op = "get" -> ReadErrorToEngine(err)
      [] op = "delete" -> DeleteErrorToEngine(err)
      [] OTHER -> WriteErrorToEngine(err)

\* Mutant of SdkAnswer: every error of a delete is answered with False.
SdkAnswerAnyErrorIsFalse(op, result) ==
    CASE op = "delete" -> IF result \in Errors THEN "False" ELSE "True"
      [] op = "get" /\ result = "None" -> "NotFound"
      [] result \in Errors -> SdkError(EngineErrorOf(op, result))
      [] OTHER -> result

\* What the method makes of the verb's result.
SdkAnswer(op, result) ==
    CASE op = "delete" /\ result = "NotFound" -> "False"
      [] op = "delete" /\ result \notin Errors -> "True"
      [] op = "get" /\ result = "None" -> "NotFound"
      [] result \in Errors -> SdkError(EngineErrorOf(op, result))
      [] OTHER -> result

\* Engine.append goes on after NotFound when it has no conditions.
AppendContinues(t) ==
    /\ th[t].call.op = "append" /\ ~IsServer(HandleOf(t))
    /\ \/ /\ th[t].stage = "first" /\ th[t].result = "NotFound"
          /\ ~HasPreconditions(EtagMatchers(th[t].call.ifMatch), EtagMatchers(th[t].call.ifNoneMatch))
       \/ th[t].stage = "create" /\ th[t].result \notin Errors
NextStage == [first |-> "create", create |-> "second"]

ReturnVerb(t) ==
    /\ th[t].pc = "return"
    /\ IF AppendContinues(t)
       THEN /\ th' = [th EXCEPT ![t].pc = "again", ![t].stage = NextStage[@]]
            /\ UNCHANGED <<db, hs>>
       ELSE EndCall(t, IF ~IsServer(HandleOf(t)) THEN SdkAnswer(th[t].call.op, th[t].result)
                       ELSE IF th[t].result \in Errors THEN EngineErrorOf(th[t].call.op, th[t].result)
                       ELSE th[t].result)
    /\ UNCHANGED <<scope, sb, world, kept>>

\* The second and third _engine_handle of an append.
CallAgain(t) ==
    /\ th[t].pc = "again"
    /\ hs[HandleOf(t)].lock = Nobody
    /\ IF EnsureOpen(HandleOf(t))
       THEN th' = [th EXCEPT ![t].pc = "handle"] /\ UNCHANGED <<db, hs>>
       ELSE EndCall(t, "RuntimeError")
    /\ UNCHANGED <<scope, sb, world, kept>>

-------------------------------------------------------------------------------
(* subscribe holds _close_lock from the check to the registration.          *)

Slots(h) == {s \in DOMAIN sb : sb[s].of = h /\ sb[s].pump \in {"recv", "hold"}}

Subscribe(t, s) ==
    /\ StartingOnEngine(t, "subscribe")
    /\ sb[s].of = Nobody /\ \A u \in DOMAIN th : th[u].sub # s
    /\ hs[HandleOf(t)].lock = Nobody
    /\ IF EnsureOpen(HandleOf(t))
       THEN /\ th' = [th EXCEPT ![t] = [StartedWithRef(t, [op |-> "subscribe"], "subscribe")
                                          EXCEPT !.sub = s]]
            /\ hs' = [hs EXCEPT ![HandleOf(t)].lock = t]
       ELSE /\ th' = [th EXCEPT ![t] = Refused(t, [op |-> "subscribe"], "RuntimeError")]
            /\ UNCHANGED hs
    /\ UNCHANGED <<scope, db, sb, world, kept>>

SubscribeResult(h) ==
    IF hs[h].flip THEN "ShuttingDown"
    ELSE IF Cardinality(Slots(h)) >= hs[h].settings.listen THEN "SubscriptionLimit"
    ELSE IF hs[h].shut THEN "ShuttingDown"
    ELSE "Ok"

\* The engine object stays referenced by the handle, which is open.
FfiSubscribe(t) ==
    /\ th[t].pc = "subscribe"
    /\ LET h == HandleOf(t)
           result == SubscribeResult(h)
       IN  /\ sb' = IF result # "Ok" THEN sb
                    ELSE [sb EXCEPT ![th[t].sub] = [NewSub EXCEPT !.of = h, !.pump = "recv",
                                                                  !.tracked = TRUE]]
           /\ Answered(t, IF result = "Ok" THEN "Ok" ELSE SdkError(result))
           /\ hs' = [hs EXCEPT ![h].lock = Nobody]
    /\ UNCHANGED <<scope, db, world, kept>>

-------------------------------------------------------------------------------
(* The pump: recv, then a send that waits for room, both given up when      *)
(* cancel changes.  Its end drops the engine's subscription and its slot.   *)

PumpEnds(s) == [sb EXCEPT ![s].pump = "done", ![s].pending = <<>>]

PumpRecv(s) ==
    /\ sb[s].pump = "recv"
    /\ \/ /\ hs[sb[s].of].flip
          /\ sb' = [sb EXCEPT ![s].pump = "hold", ![s].item = NextItem([is |-> "Closed"])]
       \/ /\ sb[s].lagged > 0
          /\ sb' = [sb EXCEPT ![s].pump = "hold", ![s].lagged = 0,
                              ![s].item = NextItem([is |-> "Lagged", value |-> sb[s].lagged])]
       \/ /\ sb[s].lagged = 0 /\ sb[s].pending # <<>>
          /\ sb' = [sb EXCEPT ![s].pump = "hold", ![s].pending = Tail(@),
                              ![s].item = NextItem([is |-> "Ok", value |-> Head(sb[s].pending)])]
    /\ UNCHANGED <<scope, db, hs, th, world, kept>>

\* Mutant of PumpSend: try_send, which drops the item when the channel is full.
PumpTrySend(s) ==
    /\ sb[s].pump = "hold"
    /\ sb' = IF Terminal(sb[s].item) THEN PumpEnds(s)
             ELSE IF Len(sb[s].chan) = Buffer THEN [sb EXCEPT ![s].pump = "recv"]
             ELSE [sb EXCEPT ![s].pump = "recv", ![s].chan = Append(@, sb[s].item)]
    /\ UNCHANGED <<scope, db, hs, th, world, kept>>

PumpSend(s) ==
    /\ sb[s].pump = "hold"
    /\ \/ sb[s].rxClosed /\ sb' = PumpEnds(s)
       \/ /\ ~sb[s].rxClosed /\ Len(sb[s].chan) < Buffer
          /\ LET sent == [sb EXCEPT ![s].chan = Append(@, sb[s].item)]
             IN  sb' = IF Terminal(sb[s].item)
                       THEN [sent EXCEPT ![s].pump = "done", ![s].pending = <<>>]
                       ELSE [sent EXCEPT ![s].pump = "recv"]
    /\ UNCHANGED <<scope, db, hs, th, world, kept>>

PumpCancelled(s) ==
    /\ sb[s].pump \in {"recv", "hold"} /\ sb[s].cancel
    /\ sb' = PumpEnds(s)
    /\ UNCHANGED <<scope, db, hs, th, world, kept>>

-------------------------------------------------------------------------------
(* Subscription.next: the wrapper's flag, the receiver's mutex (outside the *)
(* timeout), then the receiver.                                             *)

Using(t, s) == [Started(t, [op |-> "next"], "next lock") EXCEPT !.sub = s]

NextCall(t, s) ==
    /\ Starting(t, "next")
    /\ sb[s].of = HandleOf(t) /\ sb[s].tracked
    /\ th' = [th EXCEPT ![t] = IF sb[s].closed THEN Refused(t, [op |-> "next"], "closed")
                               ELSE Using(t, s)]
    /\ UNCHANGED <<scope, db, hs, sb, world, kept>>

NextLock(t) ==
    /\ th[t].pc = "next lock"
    /\ sb[th[t].sub].eventsLock = Nobody
    /\ sb' = [sb EXCEPT ![th[t].sub].eventsLock = t]
    /\ th' = [th EXCEPT ![t].pc = "next recv"]
    /\ UNCHANGED <<scope, db, hs, world, kept>>

SendersGone(s) == sb[s].rxClosed \/ sb[s].pump = "done"

NextRecv(t) ==
    /\ th[t].pc = "next recv"
    /\ LET s == th[t].sub
       IN  \/ /\ sb[s].chan # <<>>
              /\ sb' = [sb EXCEPT ![s].chan = Tail(@), ![s].eventsLock = Nobody,
                                  ![s].got = Append(@, Head(sb[s].chan))]
              /\ Answered(t, SdkItem(Head(sb[s].chan)).kind)
           \/ /\ sb[s].chan = <<>> /\ SendersGone(s)
              /\ sb' = [sb EXCEPT ![s].eventsLock = Nobody]
              /\ Answered(t, SdkItem(ClosedItem).kind)
    /\ UNCHANGED <<scope, db, hs, world, kept>>

NextTimeout(t) ==
    /\ th[t].pc = "next recv"
    /\ sb[th[t].sub].chan = <<>> /\ ~SendersGone(th[t].sub)
    /\ sb' = [sb EXCEPT ![th[t].sub].eventsLock = Nobody]
    /\ Answered(t, SdkItem(TimeoutItem).kind)
    /\ UNCHANGED <<scope, db, hs, world, kept>>

-------------------------------------------------------------------------------
(* Subscription.close, called by a thread or by Engine.close; a thread in   *)
(* Engine.close comes back to "close subs".                                 *)

CloseSubCall(t, s) ==
    /\ Starting(t, "closeSub")
    /\ sb[s].of = HandleOf(t) /\ sb[s].tracked
    /\ IF sb[s].closed
       THEN /\ th' = [th EXCEPT ![t] = Refused(t, [op |-> "closeSub"], "Ok")]
            /\ UNCHANGED sb
       ELSE /\ th' = [th EXCEPT ![t] = [Started(t, [op |-> "closeSub"], "cancel") EXCEPT !.sub = s]]
            /\ sb' = [sb EXCEPT ![s].closed = TRUE]
    /\ UNCHANGED <<scope, db, hs, world, kept>>

FfiCancel(t) ==
    /\ th[t].pc = "cancel"
    /\ sb' = [sb EXCEPT ![th[t].sub].cancel = TRUE]
    /\ th' = [th EXCEPT ![t].pc = "pump lock"]
    /\ UNCHANGED <<scope, db, hs, world, kept>>

\* The pump's handle is taken once; whoever took it waits for the task with the
\* mutex held.
TakePump(t) ==
    /\ th[t].pc = "pump lock"
    /\ LET s == th[t].sub
       IN  /\ sb[s].pumpLock = Nobody
           /\ th' = [th EXCEPT ![t].pc = IF sb[s].taken THEN "drain" ELSE "await pump"]
           /\ sb' = IF sb[s].taken THEN sb
                    ELSE [sb EXCEPT ![s].taken = TRUE, ![s].pumpLock = t]
    /\ UNCHANGED <<scope, db, hs, world, kept>>

AwaitPump(t) ==
    /\ th[t].pc = "await pump"
    /\ sb[th[t].sub].pump = "done"
    /\ sb' = [sb EXCEPT ![th[t].sub].pumpLock = Nobody]
    /\ th' = [th EXCEPT ![t].pc = "drain"]
    /\ UNCHANGED <<scope, db, hs, world, kept>>

InEngineClose(t) == th[t].call.op = "close"

\* The receiver is closed and emptied and the FFI call returns; or the return
\* is a KeyboardInterrupt, and the wrapper is open again.
DrainEvents(t) ==
    /\ th[t].pc = "drain"
    /\ LET s == th[t].sub
           drained == [sb EXCEPT ![s].rxClosed = TRUE, ![s].chan = <<>>]
       IN  /\ sb[s].eventsLock = Nobody
           /\ \/ /\ sb' = drained
                 /\ IF InEngineClose(t)
                    THEN th' = [th EXCEPT ![t].pc = "close subs", ![t].sub = NoSub]
                    ELSE Answered(t, "Ok")
              \/ /\ scope.interrupts
                 /\ sb' = [drained EXCEPT ![s].closed = FALSE]
                 /\ IF InEngineClose(t)
                    THEN th' = [th EXCEPT ![t].pc = "restore", ![t].sub = NoSub]
                    ELSE Answered(t, "KeyboardInterrupt")
    /\ UNCHANGED <<scope, db, hs, world, kept>>

\* The Python object is collected: cancel is sent and the task aborted.
ForgetSub(s) ==
    /\ scope.forget
    /\ sb[s].tracked
    /\ \A t \in DOMAIN th : th[t].sub # s /\ s \notin th[t].snap
    /\ sb' = [sb EXCEPT ![s].cancel = TRUE, ![s].tracked = FALSE]
    /\ UNCHANGED <<scope, db, hs, th, world, kept>>

-------------------------------------------------------------------------------
(* Engine.close.                                                            *)

\* Waits out another close; then marks the handle and takes the subscriptions.
CloseCall(t) ==
    /\ StartingOnEngine(t, "close")
    /\ LET h == HandleOf(t)
           subs == {s \in DOMAIN sb : sb[s].of = h /\ sb[s].tracked}
       IN  /\ hs[h].lock = Nobody /\ ~hs[h].closing
           /\ IF hs[h].closed
              THEN /\ th' = [th EXCEPT ![t] = Refused(t, [op |-> "close"], "Ok")]
                   /\ UNCHANGED hs
              ELSE /\ th' = [th EXCEPT ![t] = [StartedWithRef(t, [op |-> "close"], "close subs")
                                                 EXCEPT !.todo = subs, !.snap = subs]]
                   /\ hs' = [hs EXCEPT ![h].closing = TRUE]
    /\ UNCHANGED <<scope, db, sb, world, kept>>

CloseNextSub(t) ==
    /\ th[t].pc = "close subs"
    /\ \E s \in th[t].todo :
         IF sb[s].closed
         THEN th' = [th EXCEPT ![t].todo = @ \ {s}] /\ UNCHANGED sb
         ELSE /\ th' = [th EXCEPT ![t].todo = @ \ {s}, ![t].sub = s, ![t].pc = "cancel"]
              /\ sb' = [sb EXCEPT ![s].closed = TRUE]
    /\ UNCHANGED <<scope, db, hs, world, kept>>

\* Engine::shutdown: close the gate, wait for the operations in it, then flip
\* the watch that the subscriptions see.
ShutdownGate(t) ==
    /\ th[t].pc = "close subs" /\ th[t].todo = {}
    /\ hs' = [hs EXCEPT ![HandleOf(t)].shut = TRUE]
    /\ th' = [th EXCEPT ![t].pc = "drain ops"]
    /\ UNCHANGED <<scope, db, sb, world, kept>>

\* Mutant of ShutdownFlip: it polls until nobody holds the engine, which its own
\* caller does.
ShutdownFlipPolls(t) ==
    /\ th[t].pc = "drain ops"
    /\ IF \A u \in Mine(HandleOf(t)) : ~th[u].ref
       THEN /\ hs' = [hs EXCEPT ![HandleOf(t)].flip = TRUE]
            /\ th' = [th EXCEPT ![t].pc = "finish"]
       ELSE UNCHANGED <<hs, th>>
    /\ UNCHANGED <<scope, db, sb, world, kept>>

\* Mutant of ShutdownFlip: it does not wait for the operations.
ShutdownFlipUndrained(t) ==
    /\ th[t].pc = "drain ops"
    /\ hs' = [hs EXCEPT ![HandleOf(t)].flip = TRUE]
    /\ th' = [th EXCEPT ![t].pc = "finish"]
    /\ UNCHANGED <<scope, db, sb, world, kept>>

ShutdownFlip(t) ==
    /\ th[t].pc = "drain ops"
    /\ \A u \in Mine(HandleOf(t)) : th[u].pc # "op"
    /\ hs' = [hs EXCEPT ![HandleOf(t)].flip = TRUE]
    /\ \/ th' = [th EXCEPT ![t].pc = "finish"]
       \/ scope.interrupts /\ th' = [th EXCEPT ![t].pc = "restore"]
    /\ UNCHANGED <<scope, db, sb, world, kept>>

\* The error path: the handle may be closed again later.
CloseRestore(t) ==
    /\ th[t].pc = "restore"
    /\ hs[HandleOf(t)].lock = Nobody
    /\ hs' = [hs EXCEPT ![HandleOf(t)].closing = FALSE]
    /\ th' = [th EXCEPT ![t] = [Idle EXCEPT !.call = th[t].call, !.left = th[t].left,
                                            !.answer = "KeyboardInterrupt"]]
    /\ UNCHANGED <<scope, db, sb, world, kept>>

CloseFinish(t) ==
    /\ th[t].pc = "finish"
    /\ LET h == HandleOf(t)
           last == \A u \in Mine(h) \ {t} : ~th[u].ref
       IN  /\ hs[h].lock = Nobody
           /\ hs' = [hs EXCEPT ![h].engine = FALSE, ![h].closed = TRUE, ![h].closing = FALSE]
           /\ db' = IF last THEN DropConnection(h) ELSE db
    /\ th' = [th EXCEPT ![t] = [Idle EXCEPT !.call = th[t].call, !.left = th[t].left, !.answer = "Ok"]]
    /\ UNCHANGED <<scope, sb, world, kept>>

-------------------------------------------------------------------------------
(* The end of a server: SIGTERM or Ctrl-C, Engine::shutdown, no further     *)
(* connections, the requests under way, and the drop of the engine.         *)

ShutdownSignal(h) ==
    /\ scope.signals
    /\ IsServer(h) /\ hs[h].pc = "open"
    /\ hs' = [hs EXCEPT ![h].pc = "draining", ![h].shut = TRUE]
    /\ UNCHANGED <<scope, db, th, sb, world, kept>>

StopAccepting(h) ==
    /\ hs[h].pc = "draining"
    /\ \A t \in Mine(h) : th[t].pc # "op"
    /\ hs' = [hs EXCEPT ![h].pc = "stopping", ![h].flip = TRUE]
    /\ UNCHANGED <<scope, db, th, sb, world, kept>>

ServerExit(h) ==
    /\ hs[h].pc = "stopping"
    /\ \A t \in Mine(h) : th[t].pc = "idle"
    /\ hs' = [hs EXCEPT ![h].pc = "gone", ![h].engine = FALSE]
    /\ db' = DropConnection(h)
    /\ UNCHANGED <<scope, th, sb, world, kept>>

ServerStep(h) == StopAccepting(h) \/ ServerExit(h)

-------------------------------------------------------------------------------
\* What a thread does once it is in a call; its timeouts are not among it.
ThreadStep(t) ==
    \/ BeginVerb(t) \/ ApplyVerb(t) \/ ReturnVerb(t) \/ CallAgain(t)
    \/ FfiSubscribe(t) \/ NextLock(t) \/ NextRecv(t)
    \/ FfiCancel(t) \/ TakePump(t) \/ AwaitPump(t) \/ DrainEvents(t)
    \/ CloseNextSub(t) \/ ShutdownGate(t) \/ ShutdownFlip(t) \/ CloseRestore(t) \/ CloseFinish(t)

ThreadCalls(t) ==
    \/ \E call \in Calls(t) : Call(t, call)
    \/ \E s \in DOMAIN sb : Subscribe(t, s) \/ NextCall(t, s) \/ CloseSubCall(t, s)
    \/ CloseCall(t)

PumpStep(s) == PumpRecv(s) \/ PumpSend(s) \/ PumpCancelled(s)

OpenStep(h) ==
    OpenStart(h) \/ Reserve(h) \/ CommitHolder(h) \/ QueryHolder(h) \/ OpenRefused(h) \/ Build(h) \/ Bind(h)

\* A workload in which every call was made and answered is over.
Over ==
    /\ \A t \in DOMAIN th : th[t].pc = "idle"
    /\ UNCHANGED vars

Next ==
    \/ \E h \in DOMAIN hs : OpenStep(h) \/ OpenFault(h) \/ Crash(h) \/ ForgetEngine(h)
                            \/ ShutdownSignal(h) \/ ServerStep(h)
    \/ \E t \in DOMAIN th : ThreadCalls(t) \/ ThreadStep(t) \/ FailVerb(t) \/ DeleteUnrecorded(t)
                            \/ NextTimeout(t)
    \/ \E s \in DOMAIN sb : PumpStep(s) \/ ForgetSub(s)
    \/ Over

\* The operating system runs every thread and the runtime every task; nobody
\* promises that a timeout fires, that a caller calls or that a fault occurs.
Fairness ==
    /\ \A t \in Threads : WF_vars(t \in DOMAIN th /\ ThreadStep(t))
    /\ \A s \in Subs : WF_vars(s \in DOMAIN sb /\ PumpStep(s))
    /\ \A h \in Handles : WF_vars(h \in DOMAIN hs /\ ServerStep(h))

Spec == Init /\ [][Next]_vars /\ Fairness

-------------------------------------------------------------------------------
(* Properties.                                                              *)

\* engine.rs, Engine: "owns the startup writer lock for the data root".  While
\* a call may touch the worlds, its own handle holds the lock of the data root,
\* whoever else opens, closes, crashes or fails to open meanwhile.
OneWriter ==
    \A t \in DOMAIN th : th[t].pc = "op" => db.reserved = HandleOf(t)

\* Engine.close: when it has returned, no operation of the handle is running
\* and none can begin, and each of its subscriptions has given its listen slot
\* back, unless a thread is still inside that subscription's own close or its
\* object was dropped.
ClosedIsQuiet ==
    \A h \in DOMAIN hs : hs[h].closed =>
        /\ hs[h].shut /\ hs[h].flip
        /\ \A t \in Mine(h) : th[t].pc \notin {"op", "subscribe"}
        /\ \A s \in DOMAIN sb :
              sb[s].of = h /\ sb[s].tracked /\ (\A t \in DOMAIN th : th[t].sub # s)
                  => sb[s].pump = "done"

Sent(s) ==
    sb[s].got \o sb[s].chan \o IF sb[s].pump = "hold" THEN <<sb[s].item>> ELSE <<>>
Skipped(items) ==
    FoldSeq(LAMBDA i, n : n + (IF i.kind = "lagged" THEN i.value ELSE 1), 0, items)

\* ffi lib.rs, the pump and next: between the engine and the callers of next
\* no event is lost, doubled or reordered.  Until the subscription is closed or
\* the engine shuts down, what was received, is queued, held or pending, with
\* the skips that were announced, accounts for every event published.
EventsAccounted ==
    \A s \in DOMAIN sb :
        LET events == SelectSeq(Sent(s), LAMBDA i : i.kind = "event")
        IN  /\ \A i, j \in DOMAIN events : i < j => events[i].value < events[j].value
            /\ sb[s].pump \in {"recv", "hold"} /\ ~sb[s].cancel /\ (sb[s].of # Nobody => ~hs[sb[s].of].flip)
                 => Skipped(Sent(s)) + sb[s].lagged + Len(sb[s].pending) = sb[s].published

\* The answers that mean success.
Succeeded == {"True", "Ok", "Created", "Updated"}

\* Engine.put, append, delete, and the server's handlers: the value, exception
\* or error tells what happened.  A value means that this call wrote or removed,
\* and an error that it changed nothing, with two exceptions: an append that had
\* to create the world may fail after its empty replace, and Storage from a
\* delete may stand for a world that is gone.
AnswerTellsChange ==
    \A t \in DOMAIN th :
        th[t].pc = "idle" /\ th[t].call.op \in {"put", "append", "delete"} =>
            /\ th[t].answer \in Succeeded => th[t].did
            /\ th[t].answer \notin Succeeded /\ th[t].did =>
                  \/ th[t].stage \in {"create", "second"}
                  \/ th[t].call.op = "delete" /\ th[t].answer \in {"Storage", "StorageError"}
            /\ th[t].answer = "False" => th[t].result = "NotFound"

\* FfiSubscription::next: "Calling close() wakes a blocked next()"; close itself
\* returns, for a subscription and for the engine, with other threads inside
\* next, append or another close; and a server that was told to stop exits.
CloseReturns ==
    /\ \A t \in Threads :
         (t \in DOMAIN th /\ th[t].call.op \in {"close", "closeSub"}) ~> (t \in DOMAIN th /\ th[t].pc = "idle")
    /\ \A h \in Handles :
         (h \in DOMAIN hs /\ hs[h].pc \in {"draining", "stopping"}) ~> (h \in DOMAIN hs /\ hs[h].pc = "gone")

\* The environment of a server as the record an embedder would pass.
AsText(v) == IF v.is = "text" THEN {v.value} ELSE {}
AsNumber(v) == IF v.is = "number" THEN {v.n} ELSE {}
AsRecord(env) ==
    [key |-> "key", read |-> AsText(env.read), write |-> AsText(env.write),
     approve |-> AsText(env.approve), world |-> AsNumber(env.world),
     memory |-> AsNumber(env.memory), storage |-> AsNumber(env.storage),
     listen |-> AsNumber(env.listen), replay |-> AsNumber(env.replay), cache |-> AsNumber(env.cache)]

\* A process runs with the settings it reports.  config_summary names exactly
\* the overrides in force ("Zero values are normalized to None only for Engine
\* fields that treat zero as use the default"); the gates the server announces
\* are the ones the engine enforces; and a number means the same in the
\* environment as in the record.
SettingsAgree ==
    \A h \in DOMAIN hs : hs[h].engine =>
        LET s == hs[h].settings
            given == hs[h].config.given
            record == IF IsServer(h) THEN AsRecord(given) ELSE given
            told == ConfigSummary(record)
        IN  /\ FfiOpen(record) = {s}
            /\ s.listen > 0 /\ s.replay > 0 /\ s.cache > 0 /\ 0 \notin s.storage
            /\ s.storage = told.storage
            /\ \A f \in DOMAIN Defaults : s[f] = OrDefault(told[f], Defaults[f])
            /\ told.hasRead = ~CanRead(s.tokens, Tier.Anon)
            /\ told.hasWrite = (s.tokens.write # NoToken) /\ told.hasApprove = (s.tokens.approve # NoToken)
            /\ IsServer(h) =>
                 LET says == AuthSummary(ServerTokens(given)) IN
                 /\ says.read = "public" <=> CanRead(s.tokens, Tier.Anon)
                 /\ \A gate \in {"write", "approve"} :
                       says[gate] = "disabled" <=> s.tokens[gate] = NoToken

\* README.md, "Five verbs": append "Extend the body", and test_l5.py appends
\* twice to a world that does not exist and reads both lines.  A chunk that was
\* appended stays until a caller replaces or deletes the world.
AppendedBytesKept == world.exists => \A c \in kept : \E i \in DOMAIN world.body : world.body[i] = c
===============================================================================
