------------------------------ MODULE HttpRules ------------------------------
(***************************************************************************)
(* The decisions the HTTP adapter and the engine's admission code take    *)
(* from a request alone: who is asking, which world a path names, whether *)
(* a query names a timeline coordinate, which headers are kept, what      *)
(* entity-tag conditions and byte ranges select, and which status an      *)
(* engine error is answered with.  No state; HttpServer drives them.      *)
(*                                                                         *)
(* A path is the sequence of its segments, a body the sequence of its      *)
(* bytes, an entity tag a pair <<kind, value>>.                            *)
(***************************************************************************)
EXTENDS Naturals, Sequences, FiniteSets

(* ---- who is asking (auth.rs, server/state.rs) ------------------------- *)
\* Tiers in rising order, so that "at least" is a comparison.
Tier == [Anon |-> 0, Read |-> 1, Write |-> 2, Approve |-> 3]

NoToken == "no token"

\* tokens gives each tier its configured credential or NoToken.  The widest
\* tier that matches wins.
CheckToken(tokens, candidate) ==
  IF candidate = NoToken THEN Tier.Anon
  ELSE IF candidate = tokens.approve THEN Tier.Approve
  ELSE IF candidate = tokens.write THEN Tier.Write
  ELSE IF candidate = tokens.read THEN Tier.Read
  ELSE Tier.Anon

\* An Authorization header is its scheme and the credential that decodes from
\* it (NoToken when it is oversized, has no credential or does not decode).
AccessTier(tokens, auth) ==
  IF auth.scheme \in {"Bearer", "Basic"}
  THEN CheckToken(tokens, auth.credential)
  ELSE Tier.Anon

CanRead(tokens, tier) == tokens.read = NoToken \/ tier >= Tier.Read

(* ---- which world (path.rs, store.rs, world_ops.rs) -------------------- *)
Namespaces == {"home", "tmp", "dev", "sys", "etc", "lib", "boot", "usr", "var"}

DeleteLedger == <<"var", "log", "deletes">>

\* A first segment that is no namespace is shorthand for a world in home/.
CanonicalizePath(p) ==
  IF Head(p) \in Namespaces \cup {"proc"} THEN p ELSE <<"home">> \o p

IsReservedWorldName(w) ==
  \/ Len(w) = 1 /\ w[1] \in Namespaces
  \/ w = <<"var", "log">>
  \/ w[1] = "proc"

\* Dot stands for every spelling of "." and "..", encoded ones included, Raw
\* for a segment with a backslash or control byte, Long for one that makes the
\* directory name too long; "" is the empty segment.
ValidWorldName(w) ==
  /\ ~IsReservedWorldName(w)
  /\ \A i \in DOMAIN w : w[i] \notin {"", "Dot", "Raw", "Long"}

\* A prefix of names is a path whose last segment may be cut short: "" after a
\* slash, or a beginning of a segment.  Hidden stands for a segment that begins
\* with a dot and is not Dot.
IsPrefixDotLike(segment) == segment \in {"Dot", "Hidden"}

ValidateWorldPrefix(p) ==
  \/ p = <<"">>
  \/ /\ p[1] \in Namespaces
     /\ \A i \in DOMAIN p : p[i] # "Raw" /\ ~IsPrefixDotLike(p[i]) /\ (p[i] = "" => i = Len(p))

\* The shortest name that the prefix begins.
PrefixCandidate(p) ==
  CASE p = <<"">> -> <<"home", "_">>
    [] Len(p) = 1 -> Append(p, "_")
    [] p[Len(p)] = "" -> [p EXCEPT ![Len(p)] = "_"]
    [] OTHER -> p

\* ValidatedWorldPrefix::new.
ValidatedWorldPrefix(p) == ValidateWorldPrefix(p) /\ ValidWorldName(PrefixCandidate(p))

\* str::starts_with on the texts of the paths; begins gives the pairs of a
\* beginning and a segment.
StartsWith(begins, w, p) ==
  /\ Len(p) <= Len(w)
  /\ SubSeq(p, 1, Len(p) - 1) = SubSeq(w, 1, Len(p) - 1)
  /\ p[Len(p)] \in {"", w[Len(p)]} \/ <<p[Len(p)], w[Len(p)]>> \in begins

IsMemoryWorld(w) == w[1] \in {"tmp", "dev", "sys"}

NeedsWriteApprove(w) ==
  \/ w[1] \in {"lib", "etc", "boot", "usr"}
  \/ Len(w) > 1 /\ SubSeq(w, 1, 2) = <<"var", "log">>

CanWrite(w, tier) ==
  tier >= IF NeedsWriteApprove(w) THEN Tier.Approve ELSE Tier.Write

CanDelete(tier) == tier = Tier.Approve

(* ---- which time (pipeline/query.rs) ----------------------------------- *)
\* A query is [long, keys, mode, coordinate]: whether it exceeds the byte
\* limit, the decoded keys in order ("%bad" for a component that does not
\* decode), the value of "timeline", and the coordinate the three coordinate
\* values parse to, or NoCoordinate.
CoordinateKeys == {"timeline-generation", "timeline-seq", "timeline-body-sha256"}
TimelineKeys == {"timeline", "timeline-world", "timeline-x"} \cup CoordinateKeys

NoCoordinate == [gen |-> 0, seq |-> 0, body |-> <<>>]
CurrentMode == "current"
TimelineMode == "timeline"
BadQuery == "bad query"
QueryTooLong == "query too long"

\* A query with a timeline field names one complete coordinate of a durable
\* world or is refused: the duplicate, limit, mode and field checks all answer
\* 400, so their order does not show.
ClassifyRawQuery(q, w) ==
  LET keys == {q.keys[i] : i \in DOMAIN q.keys} IN
  IF q.long THEN QueryTooLong
  ELSE IF "%bad" \in keys THEN BadQuery
  ELSE IF keys \cap TimelineKeys = {} THEN CurrentMode
  ELSE IF /\ keys = {"timeline"} \cup CoordinateKeys
          /\ Len(q.keys) = Cardinality(keys)
          /\ q.mode = "1"
          /\ q.coordinate # NoCoordinate
          /\ ~IsMemoryWorld(w)
  THEN TimelineMode
  ELSE BadQuery

(* ---- which version (etag.rs) ------------------------------------------ *)
NoTag == <<"none", <<>> >>

\* The tag of a durable row is its HMAC, which covers the generation, the rows
\* before it and its body; the tag of a memory entry is the hash of its body.
HmacEtag(gen, seq, body) == <<"hmac", <<gen, seq>> \o body>>
BodyEtag(body) == <<"sha256", body>>

AnyTag == [kind |-> "Any"]
Strong(t) == [kind |-> "Strong", tag |-> t]
Weak(t) == [kind |-> "Weak", tag |-> t]
InvalidTag == [kind |-> "Invalid"]

StrongMatches(m, current) ==
  \/ m.kind = "Any"
  \/ m.kind = "Strong" /\ m.tag = current

WeakMatches(m, current) ==
  \/ m.kind = "Any"
  \/ m.kind \in {"Strong", "Weak"} /\ m.tag = current

\* ifMatch and ifNoneMatch are sets of matchers; an absent header, and one
\* with no entry, is the empty set.
CheckPreconditions(ifMatch, ifNoneMatch, current) ==
  /\ ifMatch # {} => /\ current # NoTag
                     /\ \E m \in ifMatch : StrongMatches(m, current)
  /\ current # NoTag => ~ \E m \in ifNoneMatch : WeakMatches(m, current)

ReadNotModified(ifNoneMatch, current) ==
  \E m \in ifNoneMatch : WeakMatches(m, current)

(* ---- which bytes (http/range.rs) -------------------------------------- *)
NoRange == [form |-> "absent"]
FullBody == [kind |-> "full"]
Unsatisfiable == [kind |-> "unsatisfiable"]

\* Positions are counted from 0, as on the wire.
ParseRange(r, len) ==
  CASE r.form \in {"absent", "multi"} -> FullBody
    [] r.form \in {"unit", "syntax"} \/ len = 0 -> Unsatisfiable
    [] r.form = "suffix" /\ len > 0 ->
         IF r.count = 0 THEN Unsatisfiable
         ELSE [kind |-> "part",
               first |-> IF r.count < len THEN len - r.count ELSE 0,
               last |-> len - 1]
    [] r.form = "from" /\ len > 0 ->
         IF r.first >= len THEN Unsatisfiable
         ELSE [kind |-> "part", first |-> r.first, last |-> len - 1]
    [] r.form = "span" /\ len > 0 ->
         IF r.first >= len \/ r.last < r.first THEN Unsatisfiable
         ELSE [kind |-> "part", first |-> r.first,
               last |-> IF r.last < len THEN r.last ELSE len - 1]

\* Mutant of EffectiveRange: If-Range is ignored.
EffectiveRangeUnconditional(r, ifRange, current, len) == ParseRange(r, len)

\* ifRange is NoTag when the header is absent, else the one tag it quotes.
EffectiveRange(r, ifRange, current, len) ==
  IF ifRange # NoTag /\ ifRange # current THEN FullBody ELSE ParseRange(r, len)

(* ---- which headers (http/semantics.rs) -------------------------------- *)
\* Members of the two hard-coded lists that stand for the rest of them.
NeverPersisted == {"authorization", "etag"}
DefaultPersisted == {"cache-control"}

ShouldPersistForStorage(name, userAllow, userDeny) ==
  /\ name \notin NeverPersisted
  /\ name \notin userDeny
  /\ name \in DefaultPersisted \cup userAllow

RequestMetaHeaders(names, userAllow, userDeny) ==
  {h \in names : ShouldPersistForStorage(h, userAllow, userDeny)}

\* Mutant of ApplyMetaHeaders: the deny list in force at the read also filters.
ApplyMetaHeadersFiltered(stored, userAllow, userDeny) ==
  {h \in stored : h \notin NeverPersisted \cup userDeny}

ApplyMetaHeaders(stored, userAllow, userDeny) ==
  {h \in stored : h \notin NeverPersisted}

(* ---- which status (storage_class.rs, engine_error.rs, handler*.rs) ---- *)
SqliteFailures == {"busy", "full", "ioerr"}

ClassifyStorageFailure(failure) ==
  CASE failure = "full" -> "InsufficientStorage"
    [] failure = "busy" -> "TransientStorage"
    [] failure = "ioerr" -> "Storage"

ReadErrorPhase ==
  [Auth |-> 401, TransientStorage |-> 503, ShuttingDown |-> 503,
   InsufficientStorage |-> 507, Storage |-> 500]

WriteErrorPhase ==
  [Auth |-> 401, AppendOnly |-> 403, PayloadTooLarge |-> 413,
   PreconditionFailed |-> 412, NotFound |-> 404, QuotaExceeded |-> 507,
   TransientStorage |-> 503, ShuttingDown |-> 503,
   InsufficientStorage |-> 507, Storage |-> 500]

\* The phase of a dereference that found no body to return.
TimelinePhase ==
  [GenMismatch |-> 409, BodyHashMismatch |-> 409, NonBodyEvent |-> 404,
   Expired |-> 410, MissingRow |-> 404, UnprovenCoordinate |-> 404,
   Corrupt |-> 500]

\* Mutant of DeleteErrorPhase: the step the delete had reached is ignored.
DeleteErrorPhaseByErrorOnly(err, step) ==
  [status |-> CASE err \in {"TransientStorage", "ShuttingDown"} -> 503
                [] err = "InsufficientStorage" -> 507
                [] err = "Storage" -> 500
                [] err = "Auth" -> 401
                [] err = "AppendOnly" -> 403
                [] err = "PreconditionFailed" -> 412
                [] err = "NotFound" -> 404,
   text |-> "error"]

\* A delete error is read together with the last step its trace recorded:
\* once the intent row is in the ledger the answer says so.
DeleteErrorPhase(err, step) ==
  LET storage(status) ==
        CASE step \in {"None", "AuditIntentFailed"} ->
               [status |-> status, text |-> "error"]
          [] step = "Intent" ->
               [status |-> 500, text |-> "delete failed after audit intent"]
          [] step \in {"PhysicalDeleted", "NotifySent"} ->
               [status |-> 500,
                text |-> "delete succeeded but audit commit failed"]
      refused(status) == [status |-> status, text |-> "error"]
  IN  CASE err \in {"TransientStorage", "ShuttingDown"} -> storage(503)
        [] err = "InsufficientStorage" -> storage(507)
        [] err = "Storage" -> storage(500)
        [] err = "Auth" -> refused(401)
        [] err = "AppendOnly" -> refused(403)
        [] err = "PreconditionFailed" -> refused(412)
        [] err = "NotFound" -> refused(404)

=============================================================================
