--------------------------- MODULE DeleteProtocol ---------------------------
(***************************************************************************)
(* The two-phase delete (core/src/delete_ops.rs) and the delete ledger     *)
(* var/log/deletes (core/src/ledger.rs), with concurrent deletes and       *)
(* writes on several worlds, faults in the ledger and in the removal of a  *)
(* directory, cancelled requests, and crashes between any two steps.       *)
(*                                                                         *)
(* A world's content is abstracted to its incarnation and the number of    *)
(* its last body row.  A write holds the world lock throughout and is one  *)
(* step (WorldStore details it); draining the readers is ReadCache.        *)
(***************************************************************************)
EXTENDS Integers, Sequences, FiniteSets

CONSTANTS
    Procs,      \* delete requests
    Durable,    \* durable worlds
    Memory,     \* memory worlds (tmp/, dev/, sys/)
    Nobody,
    MaxGen,     \* bound on incarnations, over all worlds
    MaxSeq,     \* bound on the body rows of an incarnation
    MaxFaults   \* bound on crashes, failing ledger appends and failing removals

Worlds == Durable \cup Memory

ASSUME DeleteProtocolAssumption ==
    /\ Durable \cap Memory = {}
    /\ Nobody \notin Procs
    /\ MaxGen \in Nat /\ MaxSeq \in Nat /\ MaxFaults \in Nat

VARIABLES
    store,      \* per world: incarnation (0: none) and last body row
    minted,     \* incarnations so far
    ledger,     \* the rows of var/log/deletes
    ledgerFile, \* "absent", "empty" (schema, no row) or "rows"
    up,         \* an engine runs
    worldCount, \* Core::durable_world_count
    created,    \* Core::delete_ledger_created
    published,  \* ledger rows announced to subscribers by this engine, in order
    lock,       \* per world: who holds its write lock
    stream,     \* who holds delete_ledger_stream_lock
    pc, subject,\* per delete: where it is, and what it is about to delete
    mine,       \* per delete: its ledger rows not announced yet
    removed,    \* history: incarnations physically removed, with their last row
    answer,     \* history: the last answer, subject and outcome
    faults, half\* history: faults so far; a removal failed half-way

vars == <<store, minted, ledger, ledgerFile, up, worldCount, created, published,
          lock, stream, pc, subject, mine, removed, answer, faults, half>>

disk == <<store, minted, ledger, ledgerFile, removed>>
engine == <<up, worldCount, created>>
locks == <<lock, stream>>
history == <<answer, faults, half>>

None == [world |-> Nobody, gen |-> 0, seq |-> 0]
Absent == [gen |-> 0, seq |-> 0]
Exists(w) == store[w].gen # 0
LedgerWorlds == IF ledgerFile = "absent" THEN 0 ELSE 1

Init ==
    /\ store = [w \in Worlds |-> Absent]
    /\ minted = 0
    /\ ledger = <<>>
    /\ ledgerFile = "absent"
    /\ up = TRUE
    /\ worldCount = 0
    /\ created = FALSE
    /\ published = <<>>
    /\ lock = [w \in Worlds |-> Nobody]
    /\ stream = Nobody
    /\ pc = [d \in Procs |-> "idle"]
    /\ subject = [d \in Procs |-> None]
    /\ mine = [d \in Procs |-> <<>>]
    /\ removed = {}
    /\ answer = [subject |-> None, outcome |-> "none"]
    /\ faults = 0
    /\ half = FALSE

-----------------------------------------------------------------------------
(* Engine lifecycle.                                                       *)

\* The process stops: locks, counters, announced events and memory worlds go.
Crash ==
    /\ up
    /\ faults < MaxFaults
    /\ faults' = faults + 1
    /\ up' = FALSE
    /\ store' = [w \in Worlds |-> IF w \in Durable THEN store[w] ELSE Absent]
    /\ worldCount' = 0
    /\ created' = FALSE
    /\ published' = <<>>
    /\ lock' = [w \in Worlds |-> Nobody]
    /\ stream' = Nobody
    /\ pc' = [d \in Procs |-> "idle"]
    /\ subject' = [d \in Procs |-> None]
    /\ mine' = [d \in Procs |-> <<>>]
    /\ UNCHANGED <<minted, ledger, ledgerFile, removed, answer, half>>

\* EngineBuilder::build; it refuses a ledger file without rows, as any world.
Start ==
    /\ ~up
    /\ ledgerFile # "empty"
    /\ up' = TRUE
    /\ worldCount' = Cardinality({w \in Durable : Exists(w)}) + LedgerWorlds
    /\ created' = (ledgerFile # "absent")
    /\ half' = FALSE
    /\ UNCHANGED <<disk, published, locks, pc, subject, mine, answer, faults>>

\* Mutant of Write: the world lock is not taken.
WriteUnlocked(w) ==
    /\ up
    /\ IF Exists(w)
       THEN /\ store[w].seq < MaxSeq
            /\ store' = [store EXCEPT ![w].seq = @ + 1]
            /\ UNCHANGED <<minted, worldCount>>
       ELSE /\ minted < MaxGen
            /\ minted' = minted + 1
            /\ store' = [store EXCEPT ![w] = [gen |-> minted', seq |-> 1]]
            /\ worldCount' = IF w \in Durable THEN worldCount + 1 ELSE worldCount
    /\ UNCHANGED <<ledger, ledgerFile, up, created, published, locks, pc, subject,
                   mine, removed, history>>

\* replace_write: a new body row, or a new incarnation.
Write(w) ==
    /\ up
    /\ lock[w] = Nobody
    /\ IF Exists(w)
       THEN /\ store[w].seq < MaxSeq
            /\ store' = [store EXCEPT ![w].seq = @ + 1]
            /\ UNCHANGED <<minted, worldCount>>
       ELSE /\ minted < MaxGen
            /\ minted' = minted + 1
            /\ store' = [store EXCEPT ![w] = [gen |-> minted', seq |-> 1]]
            /\ worldCount' = IF w \in Durable THEN worldCount + 1 ELSE worldCount
    /\ UNCHANGED <<ledger, ledgerFile, up, created, published, locks, pc, subject,
                   mine, removed, history>>

-----------------------------------------------------------------------------
(* A delete.                                                               *)

\* delete: the world lock first, ...
TakeWorldLock(d, w) ==
    /\ up
    /\ pc[d] = "idle"
    /\ lock[w] = Nobody
    /\ lock' = [lock EXCEPT ![w] = d]
    /\ subject' = [subject EXCEPT ![d] = [None EXCEPT !.world = w]]
    /\ pc' = [pc EXCEPT ![d] = "stream"]
    /\ UNCHANGED <<disk, engine, published, stream, mine, history>>

\* Mutant of TakeStreamLock: deletes of different worlds run side by side.
TakeStreamLockShared(d) ==
    /\ pc[d] = "stream"
    /\ stream' = d
    /\ pc' = [pc EXCEPT ![d] = "capture"]
    /\ UNCHANGED <<disk, engine, published, lock, subject, mine, history>>

\* ... then the ledger stream lock; the blocking closure owns both guards.
TakeStreamLock(d) ==
    /\ pc[d] = "stream"
    /\ stream = Nobody
    /\ stream' = d
    /\ pc' = [pc EXCEPT ![d] = "capture"]
    /\ UNCHANGED <<disk, engine, published, lock, subject, mine, history>>

\* The locks of a delete that ends.
Release(d) ==
    /\ lock' = [w \in Worlds |-> IF lock[w] = d THEN Nobody ELSE lock[w]]
    /\ stream' = IF stream = d THEN Nobody ELSE stream
    /\ pc' = [pc EXCEPT ![d] = "idle"]
    /\ subject' = [subject EXCEPT ![d] = None]

Answer(d, outcome) == answer' = [subject |-> subject[d], outcome |-> outcome]

\* The request's future is dropped while it waits for the stream lock.
Cancel(d) ==
    /\ pc[d] = "stream"
    /\ Release(d)
    /\ UNCHANGED <<disk, engine, published, mine, history>>

\* An early return: shutting down, a failed precondition, bad metadata, a world
\* that does not verify.
Refuse(d) ==
    /\ pc[d] = "capture"
    /\ Release(d)
    /\ UNCHANGED <<disk, engine, published, mine, history>>

\* read_world, accounted_storage_usage and capture_delete_subject_proof.
Capture(d) ==
    /\ pc[d] = "capture"
    /\ LET w == subject[d].world IN
       IF Exists(w)
       THEN /\ subject' = [subject EXCEPT ![d] =
                             [world |-> w, gen |-> store[w].gen, seq |-> store[w].seq]]
            /\ pc' = [pc EXCEPT ![d] = "intent"]
            /\ UNCHANGED locks
       ELSE Release(d)
    /\ UNCHANGED <<disk, engine, published, mine, history>>

\* LedgerWriter::append in one transaction; the first one adds a format row.
AppendRow(d, kind) ==
    LET row == [kind |-> kind, subject |-> subject[d]]
        rows == IF ledger = <<>> THEN <<[kind |-> "format", subject |-> None], row>> ELSE <<row>>
    IN  /\ ledger' = ledger \o rows
        /\ ledgerFile' = "rows"
        /\ mine' = [mine EXCEPT ![d] = [i \in DOMAIN rows |-> Len(ledger) + i]]

\* The append fails.  The lazy open may have created the file by then.
AppendFails ==
    /\ faults < MaxFaults
    /\ faults' = faults + 1
    /\ \/ UNCHANGED ledgerFile
       \/ ledgerFile = "absent" /\ ledgerFile' = "empty"

\* notify_ledger_event, after the append: the format row first if there is one.
Publish(d) ==
    /\ published' = published \o mine[d]
    /\ mine' = [mine EXCEPT ![d] = <<>>]

AppendIntent(d) ==
    /\ pc[d] = "intent"
    /\ AppendRow(d, "delete_intent")
    /\ pc' = [pc EXCEPT ![d] = "announce intent"]
    /\ UNCHANGED <<store, minted, engine, published, locks, subject, removed, history>>

\* Mutant of IntentFails: the early return leaks the stream lock.
IntentFailsLeaksStream(d) ==
    /\ pc[d] = "intent"
    /\ AppendFails
    /\ lock' = [lock EXCEPT ![subject[d].world] = Nobody]
    /\ pc' = [pc EXCEPT ![d] = "idle"]
    /\ subject' = [subject EXCEPT ![d] = None]
    /\ Answer(d, "AuditIntent")
    /\ UNCHANGED <<store, minted, ledger, engine, published, stream, mine, removed, half>>

\* DeleteError::AuditIntent: nothing was deleted.
IntentFails(d) ==
    /\ pc[d] = "intent"
    /\ AppendFails
    /\ Release(d)
    /\ Answer(d, "AuditIntent")
    /\ UNCHANGED <<store, minted, ledger, engine, published, mine, removed, half>>

\* notify_ledger_event, then delete_ledger_created.swap.
AnnounceIntent(d) ==
    /\ pc[d] = "announce intent"
    /\ Publish(d)
    /\ worldCount' = IF created THEN worldCount ELSE worldCount + 1
    /\ created' = TRUE
    /\ pc' = [pc EXCEPT ![d] = "remove"]
    /\ UNCHANGED <<disk, up, locks, subject, history>>

\* delete_world_now succeeds.
Remove(d) ==
    /\ pc[d] = "remove"
    /\ LET w == subject[d].world IN
       /\ removed' = removed \cup {[world |-> w, gen |-> store[w].gen, seq |-> store[w].seq]}
       /\ store' = [store EXCEPT ![w] = Absent]
    /\ pc' = [pc EXCEPT ![d] = "settle"]
    /\ UNCHANGED <<minted, ledger, ledgerFile, engine, published, locks, subject, mine, history>>

\* remove_dir_all keeps failing, before or after it removed the database:
\* DeleteFailedAfterIntent, with no further row and the counters untouched.
RemoveFails(d) ==
    /\ pc[d] = "remove"
    /\ subject[d].world \in Durable
    /\ faults < MaxFaults
    /\ faults' = faults + 1
    /\ LET w == subject[d].world IN
       \/ UNCHANGED <<store, removed, half>>
       \/ /\ removed' = removed \cup {[world |-> w, gen |-> store[w].gen, seq |-> store[w].seq]}
          /\ store' = [store EXCEPT ![w] = Absent]
          /\ half' = TRUE
    /\ Release(d)
    /\ Answer(d, "DeleteFailedAfterIntent")
    /\ UNCHANGED <<minted, ledger, ledgerFile, engine, published, mine>>

\* durable_world_count is lowered (saturating), the subject's Delete announced.
Settle(d) ==
    /\ pc[d] = "settle"
    /\ worldCount' = IF subject[d].world \in Durable /\ worldCount > 0
                     THEN worldCount - 1 ELSE worldCount
    /\ pc' = [pc EXCEPT ![d] = "commit"]
    /\ UNCHANGED <<disk, up, created, published, locks, subject, mine, history>>

AppendCommit(d) ==
    /\ pc[d] = "commit"
    /\ AppendRow(d, "delete_commit")
    /\ pc' = [pc EXCEPT ![d] = "announce commit"]
    /\ UNCHANGED <<store, minted, engine, published, locks, subject, removed, history>>

CommitFails(d) ==
    /\ pc[d] = "commit"
    /\ AppendFails
    /\ pc' = [pc EXCEPT ![d] = "failed"]
    /\ UNCHANGED <<store, minted, ledger, engine, published, locks, subject, mine, removed, answer, half>>

\* The delete succeeds.
AnnounceCommit(d) ==
    /\ pc[d] = "announce commit"
    /\ Publish(d)
    /\ Release(d)
    /\ Answer(d, "ok")
    /\ UNCHANGED <<disk, engine, faults, half>>

AppendCommitFailed(d) ==
    /\ pc[d] = "failed"
    /\ AppendRow(d, "delete_commit_failed")
    /\ pc' = [pc EXCEPT ![d] = "announce failed"]
    /\ UNCHANGED <<store, minted, engine, published, locks, subject, removed, history>>

\* Even that row cannot be appended: it is logged, and the answer is the same.
CommitFailedFails(d) ==
    /\ pc[d] = "failed"
    /\ AppendFails
    /\ Release(d)
    /\ Answer(d, "AuditCommitFailed")
    /\ UNCHANGED <<store, minted, ledger, engine, published, mine, removed, half>>

AnnounceCommitFailed(d) ==
    /\ pc[d] = "announce failed"
    /\ Publish(d)
    /\ Release(d)
    /\ Answer(d, "AuditCommitFailed")
    /\ UNCHANGED <<disk, engine, faults, half>>

Body(d) ==
    \/ Refuse(d) \/ Capture(d) \/ AppendIntent(d) \/ IntentFails(d) \/ AnnounceIntent(d)
    \/ Remove(d) \/ RemoveFails(d) \/ Settle(d)
    \/ AppendCommit(d) \/ CommitFails(d) \/ AnnounceCommit(d)
    \/ AppendCommitFailed(d) \/ CommitFailedFails(d) \/ AnnounceCommitFailed(d)

Next ==
    \/ Crash \/ Start
    \/ \E w \in Worlds : Write(w)
    \/ \E d \in Procs :
         \/ \E w \in Worlds : TakeWorldLock(d, w)
         \/ TakeStreamLock(d) \/ Cancel(d) \/ Body(d)

Spec == Init /\ [][Next]_vars

\* The blocking closure runs to its end; the stream lock is first-in first-out.
Fairness == \A d \in Procs : WF_vars(Body(d)) /\ SF_vars(TakeStreamLock(d))
FairSpec == Spec /\ Fairness

-----------------------------------------------------------------------------
(* Properties                                                              *)

Closing == {"delete_commit", "delete_commit_failed"}

Recorded(kind, s) == \E i \in DOMAIN ledger : ledger[i] = [kind |-> kind, subject |-> s]

\* Whatever crashes, an incarnation is only ever gone after a delete_intent row
\* that names it and its very last body row: no write slips in between the
\* proof of what is deleted and its removal.  And the caller is told no less
\* than that: success means the commit row is there too, and a failed commit
\* that the world is gone.
RemovalHasIntent ==
    /\ \A s \in removed : Recorded("delete_intent", s)
    /\ answer.outcome = "ok" => Recorded("delete_commit", answer.subject)
    /\ answer.outcome \in {"ok", "AuditCommitFailed"} => answer.subject \in removed

\* What delete_ledger_stream_lock is for.  A delete_commit or delete_commit_failed
\* row follows its own delete_intent row directly, its subject is gone, and
\* nothing is closed twice; and the subscribers of the ledger see its rows in
\* order and without a gap from the first one this engine announced.
LedgerIsCoherent ==
    /\ \A i \in DOMAIN ledger :
         ledger[i].kind \in Closing =>
           /\ i > 1 /\ ledger[i - 1] = [kind |-> "delete_intent", subject |-> ledger[i].subject]
           /\ ledger[i].subject \in removed
           /\ \A j \in DOMAIN ledger :
                 ledger[j].kind \in Closing /\ ledger[j].subject = ledger[i].subject => j = i
    /\ \A i \in 1..(Len(published) - 1) : published[i + 1] = published[i] + 1
    /\ published # <<>> /\ (\A d \in Procs : mine[d] = <<>>)
         => published[Len(published)] = Len(ledger)

\* A delete that has its world lock ends: the two locks are always taken in
\* the same order, and every path releases both.
DeleteEnds == \A d \in Procs : pc[d] # "idle" ~> pc[d] = "idle"

=============================================================================
