----------------------------- MODULE EventStream ----------------------------
(***************************************************************************)
(* Change events: their publication (core/src/state.rs, notify_with_aux),  *)
(* the in-memory ring and the broadcast channel, subscriptions that replay *)
(* from a durable cursor before they go live (core/src/engine_ops.rs,      *)
(* core/src/engine_subscription.rs), the /listen route on top of them      *)
(* (bin/src/server/listen.rs), shutdown, crash and restart.                *)
(*                                                                         *)
(* A write keeps its world's lock until its events are sent, so events are *)
(* published by one process per world; a delete keeps the lock of its      *)
(* world and that of the ledger's stream.  The steps of different worlds   *)
(* interleave.  A client listens to a pattern; it may disconnect at any    *)
(* time and come back with the id of the last durable event it received.   *)
(***************************************************************************)
EXTENDS EventRules, FiniteSets

CONSTANTS
    Subs,         \* clients of the /listen route and of the Python SDK
    SdkSubs,      \* those of the SDK (its pump and buffer are in EmbeddedHandle)
    Patterns,     \* per client: the patterns it asks for
    MaxListen,    \* max_listen_connections
    RingMax,      \* listen_replay_max: ring, channel and replay limit (a power of
                  \* two: the broadcast channel rounds its capacity up to one)
    Scopes        \* the workloads a run considers (see scope)

ASSUME EventStreamAssumption ==
    /\ RingMax \in Nat \ {0} /\ MaxListen \in Nat \ {0}
    /\ SdkSubs \subseteq Subs
    /\ \A s \in Subs : Patterns[s] # {}
    /\ \A sc \in Scopes :
          /\ sc.worlds \subseteq Durable \cup Memory /\ sc.subs \subseteq Subs
          /\ {sc.rows, sc.gens, sc.sessions, sc.memory, sc.stops} \subseteq Nat

VARIABLES
    scope,     \* the workload, fixed: the worlds written (.worlds), the kinds of rows
               \* (.kinds), the clients that connect (.subs), and bounds on the rows of a world (.rows),
               \* its incarnations (.gens; above 1, worlds are deleted), events of
               \* memory writes (.memory), connections of a client (.sessions) and
               \* stops of the process (.stops); .restore: an earlier copy of a
               \* world may be put back while the process is down
    chain,     \* per world: its incarnation and its rows, on disk; for a memory
               \* world one row that stands for its content
    deleting,  \* the running delete, which holds the ledger's stream lock
    nextEvent, \* Core::next_event
    ring,      \* Core::event_log
    queue,     \* per world: events of the running operation not yet published
    step,      \* per world: where notify_with_aux is
    gate,      \* the file-operation gate and the process: "open", "closed" (new
               \* operations are refused), "signal" (shutdown is signalled), "down"
    stops,     \* stops of the process so far
    late,      \* receivers that were waiting when the signal came
    pattern,   \* per client: the pattern of its session
    state,     \* per client: "off", "opening", "replaying" or "live"
    rx, missed,\* per client: its broadcast receiver and what it lagged
    replay,    \* per client: the replayed items it has not received yet
    fence,     \* per client: its ReplayFence
    got,       \* per client: the rows received since it was told of a loss
    cursor,    \* per client: the Last-Event-ID it would send, and the row it got
    resume,    \* per client: the cursor its session was opened with
    sessions

publisher == <<scope, chain, deleting, nextEvent, ring, queue, step, gate, stops>>
client == <<pattern, state, rx, missed, replay, fence, got, cursor, resume, sessions, late>>
vars == <<publisher, client>>

NoFence == [kind |-> "None"]
NoCursor == [wire |-> <<>>, row |-> None]
NoDelete == [world |-> <<>>, at |-> "none", subject |-> None, intent |-> None]
IsRow(e) == e.ident.kind = "id"

Init ==
    /\ scope \in Scopes
    /\ chain = [w \in Names |-> [gen |-> 0, rows |-> <<>>]]
    /\ deleting = NoDelete
    /\ nextEvent = 0
    /\ ring = <<>>
    /\ queue = [w \in Names |-> <<>>]
    /\ step = [w \in Names |-> "id"]
    /\ gate = "open"
    /\ stops = 0
    /\ late = {}
    /\ pattern = [s \in Subs |-> <<"*">>]
    /\ state = [s \in Subs |-> "off"]
    /\ rx = [s \in Subs |-> <<>>]
    /\ missed = [s \in Subs |-> FALSE]
    /\ replay = [s \in Subs |-> <<>>]
    /\ fence = [s \in Subs |-> NoFence]
    /\ got = [s \in Subs |-> <<>>]
    /\ cursor = [s \in Subs |-> NoCursor]
    /\ resume = [s \in Subs |-> None]
    /\ sessions = [s \in Subs |-> 0]

-----------------------------------------------------------------------------
(* Writes and deletes.                                                     *)

Free(w) == queue[w] = <<>> /\ deleting.world # w
LastId(w) == EventId(w, chain[w].gen, Len(chain[w].rows))

\* replace_write_blocking and append_write_blocking on a durable world: the
\* rows are committed and the permit of the gate is given back; the events of
\* the format row and the body row wait to be published.
Write(w, kind, verb) ==
    /\ w \in Durable /\ gate = "open" /\ Free(w)
    /\ Len(chain[w].rows) < scope.rows /\ kind \in scope.kinds
    /\ LET fresh == chain[w].rows = <<>>
           gen == IF fresh THEN chain[w].gen + 1 ELSE chain[w].gen
           format == Row("format", w, None)
           body == Row(kind, w, None)
           rows == IF fresh THEN <<format, body>> ELSE Append(chain[w].rows, body)
           event == AppendedBody(verb, EventId(w, gen, Len(rows)), body)
       IN  /\ gen <= scope.gens
           /\ ~fresh \/ kind = "put"
           /\ chain' = [chain EXCEPT ![w] = [gen |-> gen, rows |-> rows]]
           /\ queue' = [queue EXCEPT ![w] =
                          IF fresh THEN <<AppendedFormat(EventId(w, gen, 1), format), event>>
                          ELSE <<event>>]
    /\ UNCHANGED <<scope, deleting, nextEvent, ring, step, gate, stops, client>>

\* A write of a memory world is announced by an ephemeral event.
WriteMemory(w, verb) ==
    /\ w \in Memory /\ gate = "open" /\ Free(w)
    /\ nextEvent < scope.memory
    /\ verb = "Append" => chain[w].rows # <<>>
    /\ chain' = [chain EXCEPT ![w].rows = <<Row("memory", w, None)>>]
    /\ queue' = [queue EXCEPT ![w] = <<EphemeralChange(verb, w, [kind |-> "body"])>>]
    /\ UNCHANGED <<scope, deleting, nextEvent, ring, step, gate, stops, client>>

\* append_to_ledger_blocking and notify_ledger_event: the ledger's first row
\* comes with its format row.
AppendToLedger(kind, target, subject) ==
    LET fresh == chain[Ledger].rows = <<>>
        gen == IF fresh THEN chain[Ledger].gen + 1 ELSE chain[Ledger].gen
        format == Row("format", Ledger, None)
        row == Row(kind, target, subject)
        rows == IF fresh THEN <<format, row>> ELSE Append(chain[Ledger].rows, row)
        event == AppendedLedger(AppendedLedgerEvent(EventId(Ledger, gen, Len(rows)), row, subject))
    IN  /\ chain' = [chain EXCEPT ![Ledger] = [gen |-> gen, rows |-> rows]]
        /\ queue' = [queue EXCEPT ![Ledger] =
                       IF fresh THEN <<AppendedFormat(EventId(Ledger, gen, 1), format), event>>
                       ELSE <<event>>]

\* delete_blocking: the subject is read and the intent appended, ...
DeleteIntent(w) ==
    /\ scope.gens > 1 /\ gate = "open"
    /\ deleting = NoDelete /\ Free(w)
    /\ chain[w].rows # <<>>
    /\ LET subject == IF w \in Durable THEN LastId(w) ELSE None
       IN  /\ AppendToLedger("delete_intent", w, subject)
           /\ LET rows == chain'[Ledger].rows
              IN  deleting' = [world |-> w, at |-> "intent", subject |-> subject,
                               intent |-> AppendedLedgerEvent(EventId(Ledger, chain'[Ledger].gen, Len(rows)),
                                                              Last(rows), subject)]
    /\ UNCHANGED <<scope, nextEvent, ring, step, gate, stops, client>>

\* ... the world is removed and pinged, with the intent's cursor, ...
DeleteRemove ==
    /\ deleting.at = "intent" /\ queue[Ledger] = <<>>
    /\ chain' = [chain EXCEPT ![deleting.world].rows = <<>>]
    /\ queue' = [queue EXCEPT ![deleting.world] =
                   <<DeletePing(deleting.world, deleting.intent)>>]
    /\ deleting' = [deleting EXCEPT !.at = "removed"]
    /\ UNCHANGED <<scope, nextEvent, ring, step, gate, stops, client>>

\* ... and the outcome appended.
DeleteCommit(kind) ==
    /\ deleting.at = "removed" /\ queue[deleting.world] = <<>>
    /\ AppendToLedger(kind, deleting.world, deleting.subject)
    /\ deleting' = [deleting EXCEPT !.at = "closing"]
    /\ UNCHANGED <<scope, nextEvent, ring, step, gate, stops, client>>

DeleteReturn ==
    /\ deleting.at = "closing" /\ queue[Ledger] = <<>>
    /\ deleting' = NoDelete
    /\ UNCHANGED <<scope, chain, nextEvent, ring, queue, step, gate, stops, client>>

-----------------------------------------------------------------------------
(* notify_with_aux.                                                        *)

\* An id from the atomic counter, ...
TakeId(w) ==
    /\ queue[w] # <<>> /\ step[w] = "id"
    /\ nextEvent' = nextEvent + 1
    /\ queue' = [queue EXCEPT ![w][1].id = nextEvent']
    /\ step' = [step EXCEPT ![w] = "push"]
    /\ UNCHANGED <<scope, chain, deleting, ring, gate, stops, client>>

\* ... then, under the ring's mutex, a push that evicts the oldest, ...
PushRing(w) ==
    /\ step[w] = "push"
    /\ LET longer == Append(ring, queue[w][1])
       IN  ring' = IF Len(longer) > RingMax THEN Tail(longer) ELSE longer
    /\ step' = [step EXCEPT ![w] = "send"]
    /\ UNCHANGED <<scope, chain, deleting, nextEvent, queue, gate, stops, client>>

\* open_subscription subscribes its receiver before anything else.
Connected == {s \in Subs : state[s] # "off"}

\* ... then the broadcast: a full receiver loses its oldest event.
Send(w) ==
    /\ step[w] = "send"
    /\ rx' = [s \in Subs |->
                IF s \notin Connected THEN rx[s]
                ELSE IF Len(rx[s]) < RingMax THEN Append(rx[s], queue[w][1])
                ELSE Append(Tail(rx[s]), queue[w][1])]
    /\ missed' = [s \in Subs |-> missed[s] \/ (s \in Connected /\ Len(rx[s]) = RingMax)]
    /\ queue' = [queue EXCEPT ![w] = Tail(@)]
    /\ step' = [step EXCEPT ![w] = "id"]
    /\ UNCHANGED <<scope, chain, deleting, nextEvent, ring, gate, stops,
                   pattern, state, replay, fence, got, cursor, resume, sessions, late>>

-----------------------------------------------------------------------------
(* Opening a subscription: listen.rs, handler, and Engine::subscribe.      *)

\* The cursor a client resumes from, as its adapter reads it.
ResumeOf(s, headers) == IF s \in SdkSubs THEN FfiResume(headers) ELSE ParseLastEventId(headers)

\* The request is refused: a malformed cursor, no free slot, shutdown, or a
\* cursor with a pattern that names no world.
Refused(s, p, headers) ==
    \/ ResumeOf(s, headers) = Invalid
    \/ gate # "open"
    \/ Cardinality(Connected) >= MaxListen
    \/ headers # <<>> /\ ExactWorld(Pattern(p)) = Invalid

OpenRefused(s, p, headers) ==
    /\ state[s] = "off" /\ gate # "down" /\ sessions[s] < scope.sessions
    /\ Refused(s, p, headers)
    /\ sessions' = [sessions EXCEPT ![s] = @ + 1]
    /\ UNCHANGED <<publisher, pattern, state, rx, missed, replay, fence, got, cursor, resume, late>>

\* open_subscription takes a slot, subscribes the receiver and gets a permit of
\* the gate.  The client asks for a fresh stream or for replay after its cursor.
Open(s, p, headers) ==
    /\ state[s] = "off" /\ gate # "down" /\ sessions[s] < scope.sessions
    /\ ~Refused(s, p, headers)
    /\ sessions' = [sessions EXCEPT ![s] = @ + 1]
    /\ pattern' = [pattern EXCEPT ![s] = Pattern(p)]
    /\ resume' = [resume EXCEPT ![s] = ResumeOf(s, headers)]
    /\ got' = [got EXCEPT ![s] = IF headers = <<>> \/ Pattern(p) # pattern[s] THEN <<>> ELSE @]
    /\ state' = [state EXCEPT ![s] = "opening"]
    /\ UNCHANGED <<publisher, rx, missed, replay, fence, cursor, late>>

\* EngineSubscription::new, from the outcome of replay_after: the items to
\* replay and the fence for live events.
Replayed(s, items, f) ==
    /\ state[s] = "opening"
    /\ replay' = [replay EXCEPT ![s] = items]
    /\ fence' = [fence EXCEPT ![s] = f]
    /\ state' = [state EXCEPT ![s] = IF items = <<>> THEN "live" ELSE "replaying"]
    /\ UNCHANGED <<publisher, pattern, rx, missed, got, cursor, resume, sessions, late>>

\* The session ends: its receiver and its slot are dropped.
Dropped(s) ==
    /\ state' = [state EXCEPT ![s] = "off"]
    /\ rx' = [rx EXCEPT ![s] = <<>>]
    /\ missed' = [missed EXCEPT ![s] = FALSE]
    /\ replay' = [replay EXCEPT ![s] = <<>>]
    /\ fence' = [fence EXCEPT ![s] = NoFence]
    /\ resume' = [resume EXCEPT ![s] = None]
    /\ late' = late \ {s}
    /\ UNCHANGED <<publisher, pattern, got, cursor, sessions>>

ReplayNone(s) == resume[s] = None /\ Replayed(s, <<>>, NoFence)

Exact(s) == ExactWorld(pattern[s]) # None

\* The world that an exact pattern names and whose row the client resumes from.
ResumeWorld(s) == ExactWorld(pattern[s]).world

\* replay_after_durable_event_id: a cursor of another world than the pattern's.
ReplayOtherWorld(s) ==
    /\ resume[s] # None /\ Exact(s)
    /\ resume[s].world # ResumeWorld(s)
    /\ Replayed(s, <<Reset("RingMiss")>>, NoFence)

\* The events of rows n+1 .. of world w, as verified_replay_events_after reads
\* them back.
RowsAfter(w, n) ==
    [i \in 1..(Len(chain[w].rows) - n) |->
        [ReplayedChange(EventId(w, chain[w].gen, n + i), chain[w].rows[n + i]) EXCEPT !.id = n + i]]

\* verified_replay_events_after_via_conn: the generation, the marker and the
\* rows after it, in one read transaction.
VerifiedReplayAfter(id) ==
    LET now == chain[id.world]
    IN  CASE now.gen # id.gen -> [is |-> "GenerationMismatch"]
          [] id.seq > Len(now.rows) -> [is |-> "MissingMarker"]
          [] Len(now.rows) - id.seq > RingMax -> [is |-> "ReplayLimitExceeded"]
          [] OTHER -> [is |-> "Events", events |-> RowsAfter(id.world, id.seq)]

\* cached_replay_chain_events_after: there is no connection to a world that is gone.
CachedReplay(id) == IF chain[id.world].rows = <<>> THEN {} ELSE {VerifiedReplayAfter(id)}

\* Core::replay_chain_events_after, and the reset its caller makes of no answer.
ReplayChainEventsAfter(id) ==
    LET found == CachedReplay(id)
    IN  IF found = {} THEN [is |-> "Gone"] ELSE CHOOSE read \in found : TRUE

\* What the reader is told when there is nothing to splice.
ResetFor == [Gone |-> "RingMiss", GenerationMismatch |-> "Incarnation", MissingMarker |-> "Truncation",
             ReplayLimitExceeded |-> "RingMiss"]

\* Mutant of ChainFence: the fence stays at the cursor.
ChainFenceAtCursor(id, events) == [kind |-> "Durable", floor |-> id]

\* The fence is the last row replayed, or else the cursor.
ChainFence(id, events) == [kind |-> "Durable", floor |-> IF events = <<>> THEN id ELSE Last(events).ident]

ResumesChain(s) == state[s] = "opening" /\ resume[s] # None /\ Exact(s) /\ resume[s].world = ResumeWorld(s)

\* replay_after_durable_chain_event_id: the rows after the cursor, or a reset.
ReplayChain(s) ==
    /\ ResumesChain(s) /\ gate = "open"
    /\ LET read == ReplayChainEventsAfter(resume[s])
       IN  IF read.is = "Events" THEN Replayed(s, read.events, ChainFence(resume[s], read.events))
           ELSE Replayed(s, <<Reset(ResetFor[read.is])>>, NoFence)

\* It gets no permit of its own once the gate is closed, ...
ReplayRefused(s) == ResumesChain(s) /\ gate # "open" /\ Dropped(s)

\* ... and the read may fail (audit_replay_error_to_engine): no stream is opened.
ReplayFails(s) == ResumesChain(s) /\ gate = "open" /\ Dropped(s)

\* replay_after_durable_ring_event_id: what the ring holds after the cursor's
\* entry for the pattern; the fence is the id of the last of it.
ReplayRing(s) ==
    /\ resume[s] # None /\ ~Exact(s)
    /\ LET mark == SelectInSeq(ring, LAMBDA e : e.ident = resume[s])
           after == SelectSeq(SubSeq(ring, mark + 1, Len(ring)), LAMBDA e : MatchesWorld(pattern[s], e.world))
       IN  IF mark = 0 THEN Replayed(s, <<Reset("RingMiss")>>, NoFence)
           ELSE Replayed(s, after, [kind |-> "ProcessLocal",
                                    floor |-> (IF after = <<>> THEN ring[mark] ELSE Last(after)).id])

-----------------------------------------------------------------------------
(* EngineSubscription::recv and the stream of listen.rs.                   *)

\* The cursor that comes with an item.
CursorOf(s, item) == IF s \in SdkSubs THEN SdkNext(item).cursor ELSE SseItem(item).id

\* The client's side.  Its Last-Event-ID, or after_cursor, is the last one it
\* was sent; told of a reset, it discards it.
Receive(s, item) ==
    LET id == CursorOf(s, item)
    IN  /\ got' = [got EXCEPT ![s] = IF id # <<>> THEN Append(@, item.ident)
                                     ELSE IF IsChange(item) THEN @ ELSE <<>>]
        /\ cursor' = [cursor EXCEPT ![s] = IF id # <<>> THEN [wire |-> id, row |-> item.ident]
                                           ELSE IF item.verb = "reset" THEN NoCursor ELSE @]

\* Replayed items come first, whatever the shutdown signal says.
RecvReplay(s) ==
    /\ state[s] = "replaying"
    /\ Receive(s, Head(replay[s]))
    /\ replay' = [replay EXCEPT ![s] = Tail(@)]
    /\ state' = [state EXCEPT ![s] = IF Len(replay[s]) = 1 THEN "live" ELSE @]
    /\ UNCHANGED <<publisher, pattern, rx, missed, fence, resume, sessions, late>>

\* live_change_action.
Action(s, e) ==
    CASE ~MatchesWorld(pattern[s], e.world) -> "Drop"
      [] ~IsRow(e) \/ fence[s] = NoFence -> "Accept"
      [] fence[s].kind = "ProcessLocal" ->
           IF e.id > fence[s].floor THEN "Accept" ELSE "Drop"
      [] OTHER ->
           IF e.ident.world # fence[s].floor.world THEN "Accept"
           ELSE IF e.ident.gen # fence[s].floor.gen THEN "Reset"
           ELSE IF SameChainAtOrBefore(e.ident, fence[s].floor) THEN "Drop" ELSE "Accept"

\* A receiver may take an item while shutdown is not signalled, and once more
\* when it was already waiting for one.
MayReceive(s) == state[s] = "live" /\ (gate = "signal" => s \in late)

RecvLive(s) ==
    /\ MayReceive(s) /\ ~missed[s] /\ rx[s] # <<>>
    /\ LET e == rx[s][1]
       IN  CASE Action(s, e) = "Accept" -> Receive(s, e)
             [] Action(s, e) = "Reset" -> Receive(s, Reset("Incarnation"))
             [] Action(s, e) = "Drop" -> UNCHANGED <<got, cursor>>
    /\ rx' = [rx EXCEPT ![s] = Tail(@)]
    /\ late' = late \ {s}
    /\ UNCHANGED <<publisher, pattern, state, missed, replay, fence, resume, sessions>>

\* RecvError::Lagged: the client is told that it missed events.
RecvLagged(s) ==
    /\ MayReceive(s) /\ missed[s]
    /\ Receive(s, Lagged)
    /\ missed' = [missed EXCEPT ![s] = FALSE]
    /\ late' = late \ {s}
    /\ UNCHANGED <<publisher, pattern, state, rx, replay, fence, resume, sessions>>

\* SubscriptionRecvError::Closed ends the stream.
RecvClosed(s) == state[s] = "live" /\ gate = "signal" /\ Dropped(s)

\* The client goes away, with whatever it has not received yet.
Disconnect(s) == state[s] # "off" /\ Dropped(s)

-----------------------------------------------------------------------------
(* The process.                                                            *)

\* Engine::shutdown closes the gate, waits for the operations that hold a
\* permit, and only then flips the watch channel.
CloseGate ==
    /\ gate = "open" /\ stops < scope.stops
    /\ gate' = "closed"
    /\ UNCHANGED <<scope, chain, deleting, nextEvent, ring, queue, step, stops, client>>

SignalShutdown ==
    /\ gate = "closed" /\ deleting = NoDelete
    /\ \A s \in Subs : state[s] # "opening"
    /\ gate' = "signal"
    /\ late' \in SUBSET {s \in Subs : state[s] = "live"}
    /\ UNCHANGED <<scope, chain, deleting, nextEvent, ring, queue, step, stops,
                   pattern, state, rx, missed, replay, fence, got, cursor, resume, sessions>>

\* The process ends, orderly or not: what is not on disk is gone.
Stop ==
    /\ gate # "down" /\ stops < scope.stops
    /\ gate' = "down"
    /\ stops' = stops + 1
    /\ deleting' = NoDelete
    /\ nextEvent' = 0
    /\ ring' = <<>>
    /\ queue' = [w \in Names |-> <<>>]
    /\ step' = [w \in Names |-> "id"]
    /\ state' = [s \in Subs |-> "off"]
    /\ rx' = [s \in Subs |-> <<>>]
    /\ missed' = [s \in Subs |-> FALSE]
    /\ replay' = [s \in Subs |-> <<>>]
    /\ fence' = [s \in Subs |-> NoFence]
    /\ resume' = [s \in Subs |-> None]
    /\ late' = {}
    /\ chain' = [w \in Names |-> IF w \in Memory THEN [gen |-> 0, rows |-> <<>>] ELSE chain[w]]
    /\ UNCHANGED <<scope, pattern, got, cursor, sessions>>

\* The operator puts back a copy of a world with fewer rows.
Restore(w) ==
    /\ gate = "down" /\ scope.restore
    /\ Len(chain[w].rows) > 2
    /\ chain' = [chain EXCEPT ![w].rows = Front(@)]
    /\ UNCHANGED <<scope, deleting, nextEvent, ring, queue, step, gate, stops, client>>

\* EngineBuilder::build: an empty ring, a new counter, a new channel.
Start ==
    /\ gate = "down"
    /\ gate' = "open"
    /\ UNCHANGED <<scope, chain, deleting, nextEvent, ring, queue, step, stops, client>>

Publish(w) == TakeId(w) \/ PushRing(w) \/ Send(w)

LastEventIds(s) == {<<>>} \cup (IF cursor[s] = NoCursor THEN {} ELSE {<<cursor[s].wire>>})

Next ==
    \/ \E w \in scope.worlds :
         \/ Write(w, "put", "Replace") \/ Write(w, "append", "Append")
         \/ WriteMemory(w, "Replace") \/ WriteMemory(w, "Append")
         \/ DeleteIntent(w) \/ Restore(w)
    \/ DeleteRemove \/ DeleteReturn
    \/ \E kind \in scope.kinds \ BodyKinds : DeleteCommit(kind)
    \/ \E w \in scope.worlds \cup {Ledger} : Publish(w)
    \/ \E s \in scope.subs :
         \/ \E p \in Patterns[s], h \in LastEventIds(s) : Open(s, p, h) \/ OpenRefused(s, p, h)
         \/ ReplayNone(s) \/ ReplayOtherWorld(s) \/ ReplayRing(s)
         \/ ReplayChain(s) \/ ReplayRefused(s) \/ ReplayFails(s)
         \/ RecvReplay(s) \/ RecvLive(s) \/ RecvLagged(s) \/ RecvClosed(s)
         \/ Disconnect(s)
    \/ CloseGate \/ SignalShutdown \/ Stop \/ Start

Spec == Init /\ [][Next]_vars

-----------------------------------------------------------------------------
(* Properties                                                              *)

RowsOf(s, w) == SelectSeq(got[s], LAMBDA r : r.world = w)

\* d and then e, with nothing between: the next row, or a new incarnation.
Follows(d, e) ==
    \/ e.gen = d.gen /\ e.seq = d.seq + 1
    \/ e.gen > d.gen /\ e.seq = 1

InOrder(s) ==
    \A w \in Names :
      LET r == RowsOf(s, w) IN \A i \in 1..(Len(r) - 1) : Follows(r[i], r[i + 1])

UpToDate(s) ==
    \A w \in Names : state[s] = "live" /\ rx[s] = <<>> /\ ~missed[s] /\ queue[w] = <<>> =>
      LET r == RowsOf(s, w) IN r # <<>> /\ chain[w].rows # <<>> => Last(r) = LastId(w)

\* A client that is told of no loss gets each world's rows in order, none twice
\* and none left out, across disconnections, resumptions, shutdowns, and crashes
\* that lose events committed but not yet published: the splice of replay and
\* live events (ReplayFence::Durable, ReplayFence::ProcessLocal) is exact.  And a
\* live client of one world with nothing more to receive has the world's last
\* row: nothing is lost between the receiver's subscription, the replay and the
\* fence.
DeliveredInOrder == \A s \in Subs : InOrder(s) /\ (Exact(s) => UpToDate(s))

\* A row read back from the chain is told to the listener in the same words as
\* when it was published: the same path, method, ETag, timeline address, type,
\* target, target generation and id, although the two events are built by
\* different code from different sources.  So is it to the SDK's caller, but for
\* the delivery id; and both interfaces give the row the same cursor, so that
\* a reader may stop on one and resume on the other.
ReplayTellsTheSame ==
    \A s \in Subs : \A i \in DOMAIN replay[s], j \in DOMAIN ring :
      LET read == replay[s][i] IN
      IsChange(read) /\ IsRow(read) /\ read.ident = ring[j].ident =>
        /\ SseItem(read) = SseItem(ring[j])
        /\ [SdkNext(read) EXCEPT !.id = ring[j].id] = SdkNext(ring[j])
        /\ SdkNext(read).cursor = SseItem(read).id

Told(items) == IF items # <<>> /\ ~IsChange(items[1]) THEN items[1].reason ELSE "None"

\* The answer to a Last-Event-ID is true of the row the client last received:
\* its world re-created, its row lost, or the stream goes on right after it.
\* Only the wire form of the row reaches the server.
Answered(s) ==
    LET r == cursor[s].row
        now == chain[r.world]
        told == Told(replay'[s])
    IN  CASE told = "Incarnation" -> now.gen > r.gen
          [] told = "Truncation" -> now.gen = r.gen /\ r.seq > Len(now.rows)
          [] told = "RingMiss" ->
               IF Exact(s) THEN \/ ResumeWorld(s) # r.world \/ now.rows = <<>>
                                \/ now.gen = r.gen /\ Len(now.rows) - r.seq > RingMax
               ELSE \A i \in DOMAIN ring : ring[i].ident # r
          [] OTHER -> Exact(s) => now.gen = r.gen /\ Len(replay'[s]) = Len(now.rows) - r.seq

\* Every answered Last-Event-ID is answered truthfully (Core::replay_plan): the
\* reset a resuming client is told of did happen, and without a reset its stream
\* goes on with the row after the one it has.
ResumeAnswered ==
    [][\A s \in Subs : state[s] = "opening" /\ resume[s] # None /\ state'[s] \in {"replaying", "live"}
                         => Answered(s)]_vars
=============================================================================
