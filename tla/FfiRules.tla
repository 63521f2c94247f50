------------------------------- MODULE FfiRules -------------------------------
(***************************************************************************)
(* What crosses the two adapter boundaries of the embedded engine: an      *)
(* engine error becomes an FfiError (ffi/src/types.rs) and that becomes a  *)
(* Python exception (sdk/src/l5/__init__.py); an entity-tag argument goes  *)
(* the other way; a received item becomes the dict of Subscription.next.   *)
(* No state; EmbeddedHandle drives them.                                   *)
(*                                                                         *)
(* Errors, exceptions and kinds are named by their variant or class.       *)
(***************************************************************************)
EXTENDS HttpRules

(* ---- errors, outwards -------------------------------------------------- *)
\* The variants each layer can fail with; one that carries the error of a call
\* below it is named by that error.
EngineErrors == {"Auth", "InvalidWorldName", "InvalidMetadata", "NotFound",
    "AppendOnly", "PayloadTooLarge", "PreconditionFailed", "QuotaExceeded",
    "TransientStorage", "InsufficientStorage", "Storage", "SubscriptionLimit",
    "ShuttingDown", "InternalInvariant"}
EngineBuildErrors == {"DataRootIo", "DataRootLockHeld", "HmacKeyMissing", "ListenEpochEntropy",
    "AuditChainCorrupted", "Storage"}
ReadErrors == {"Auth", "TransientStorage", "InsufficientStorage", "StorageRead",
    "AuditChainBroken", "PermitWorldMismatch"}
WriteErrors == {"Auth", "AppendOnly", "PayloadTooLarge", "PreconditionFailed", "NotFound",
    "QuotaExceeded", "TransientStorage", "InsufficientStorage", "StorageRead",
    "StorageWriteAudit", "StorageInvariant", "AuditChainBroken", "ShuttingDown",
    "WorkerCancelled", "WorkerPanicked", "Internal"}
DeleteErrors == {"Auth", "AppendOnlyLedger", "ReservedMetadataHeader", "InvalidMetadata",
    "PreconditionFailed", "NotFound", "AuditChainBroken", "SubjectMissingHead",
    "TransientStorage", "InsufficientStorage", "StorageRead", "InternalInvariant",
    "WorkerCancelled", "WorkerPanicked", "ShuttingDown", "DeleteFailedAfterIntent",
    "AuditCommitFailed"}

\* A failed SQLite call by its class, or a chain that does not verify.
StorageFailures == SqliteFailures \cup {"chain"}

ClassifyReadError(failure) ==
    IF failure = "chain" THEN "AuditChainBroken"
    ELSE IF ClassifyStorageFailure(failure) = "Storage" THEN "StorageRead"
    ELSE ClassifyStorageFailure(failure)

\* op says whether the write had got as far as its transaction.
ClassifyWriteError(failure, op) ==
    IF op = "WriteAudit" /\ ClassifyReadError(failure) = "StorageRead" THEN "StorageWriteAudit"
    ELSE ClassifyReadError(failure)

\* The steps of a delete up to its intent.
ClassifyDeleteError(failure) ==
    CASE failure = "chain" -> "AuditChainBroken"
      [] failure = "ioerr" -> "StorageRead"
      [] OTHER -> ClassifyStorageFailure(failure)

\* A blocking worker that never ran may be tried again; one that panicked not.
BlockingJoinToEngine(err) ==
    IF err = "WorkerCancelled" THEN "TransientStorage" ELSE "InternalInvariant"

ReadErrorToEngine(err) ==
    CASE err \in {"StorageRead", "AuditChainBroken"} -> "Storage"
      [] err = "PermitWorldMismatch" -> "InternalInvariant"
      [] OTHER -> err

WriteErrorToEngine(err) ==
    CASE err \in {"StorageRead", "StorageWriteAudit", "StorageInvariant", "AuditChainBroken"} ->
           "Storage"
      [] err \in {"WorkerCancelled", "WorkerPanicked"} -> BlockingJoinToEngine(err)
      [] err = "Internal" -> "InternalInvariant"
      [] OTHER -> err

\* A delete that stopped half-way has the same error as one that could not read.
DeleteErrorToEngine(err) ==
    CASE err = "AppendOnlyLedger" -> "AppendOnly"
      [] err = "ReservedMetadataHeader" -> "InvalidMetadata"
      [] err \in {"AuditChainBroken", "SubjectMissingHead", "StorageRead",
                  "DeleteFailedAfterIntent", "AuditCommitFailed"} -> "Storage"
      [] err \in {"WorkerCancelled", "WorkerPanicked"} -> BlockingJoinToEngine(err)
      [] OTHER -> err

FfiErrorOf(err) == IF err \in EngineErrors THEN err ELSE "UnknownEngineError"

FfiBuildErrorOf(err) ==
    CASE err = "DataRootIo" -> "BuildDataRootIo"
      [] err = "DataRootLockHeld" -> "BuildDataRootLockHeld"
      [] err = "HmacKeyMissing" -> "BuildHmacKeyMissing"
      [] err = "AuditChainCorrupted" -> "BuildAuditChainCorrupted"
      [] err = "Storage" -> "BuildStorage"
      [] OTHER -> "UnknownBuildError"

\* _translate_ffi_error: one isinstance test per variant.  Several build
\* errors share a class.
TranslateFfiError(err) ==
    CASE err \in {"BuildDataRootIo", "BuildAuditChainCorrupted", "UnknownBuildError",
                  "RuntimeInitFailed"} -> "BuildError"
      [] err = "BuildDataRootLockHeld" -> "DataRootLockHeld"
      [] err \in {"BuildHmacKeyMissing", "InvalidSecret"} -> "InvalidSecret"
      [] err \in {"BuildStorage", "Storage"} -> "StorageError"
      [] err = "Auth" -> "AuthError"
      [] OTHER -> err

\* _call_ffi around an operation of the engine that failed with err.
SdkError(err) == TranslateFfiError(FfiErrorOf(err))
SdkBuildError(err) == TranslateFfiError(FfiBuildErrorOf(err))

(* ---- arguments, inwards ------------------------------------------------ *)
\* An EtagInput is [given, items]; an item is the star, or a tag with its
\* spelling: bare, quoted, weak (W/ in either case), or malformed (empty or with
\* a quote inside).
NoEtags == [given |-> FALSE, items |-> <<>>]
EtagMatcherOf(item) ==
    CASE item.form = "star" -> AnyTag
      [] item.form \in {"bare", "quoted"} -> Strong(item.tag)
      [] item.form = "weak" -> Weak(item.tag)

\* _etag_matchers: None is no condition; an empty or malformed list is refused
\* (ValueError), so a condition the caller wrote is never dropped.
EtagInputInvalid(input) ==
    /\ input.given
    /\ input.items = <<>> \/ \E i \in DOMAIN input.items : input.items[i].form = "malformed"
EtagMatchers(input) == {EtagMatcherOf(input.items[i]) : i \in DOMAIN input.items}

HasPreconditions(ifMatch, ifNoneMatch) == ifMatch \cup ifNoneMatch # {}

(* ---- received items, outwards ------------------------------------------ *)
\* subscription_next_from_recv: what the pump makes of the result of recv ...
NextItem(recv) ==
    CASE recv.is = "Ok" -> [kind |-> "event", value |-> recv.value]
      [] recv.is = "Lagged" -> [kind |-> "lagged", value |-> recv.value]
      [] recv.is = "Reset" -> [kind |-> "reset", value |-> recv.value]
      [] recv.is = "Closed" -> [kind |-> "closed", value |-> 0]
      [] OTHER -> [kind |-> "unknown", value |-> 0]
\* ... and whether it sends another after it.
Terminal(item) == item.kind \in {"closed", "unknown"}

TimeoutItem == [kind |-> "timeout", value |-> 0]
ClosedItem == [kind |-> "closed", value |-> 0]

\* Subscription.next: None on a timeout, otherwise a dict of this kind.
SdkItem(item) == IF item = TimeoutItem THEN [kind |-> "None", value |-> 0] ELSE item
===============================================================================
