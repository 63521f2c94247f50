------------------------ MODULE DeleteProtocolProofs ------------------------
(***************************************************************************)
(* RemovalHasIntent and LedgerIsCoherent for every set of requests and     *)
(* worlds and every bound.                                                 *)
(*                                                                         *)
(* The first is not inductive: Remove takes the last row of the store for  *)
(* removed while the intent was written from what Capture had read.        *)
(* DeleteInv adds that a delete in progress holds its world's lock, so     *)
(* that what it captured is still what the store has, and what the ledger  *)
(* holds of it at each of its steps.  LedgerInv, for the second, rests on  *)
(* the stream lock: one delete at a time is past its capture, so the end   *)
(* of the ledger is its own, and what it still has to announce are the     *)
(* rows after the last one the subscribers got.                            *)
(***************************************************************************)
EXTENDS DeleteProtocol, TLAPS

Versions == [gen : Nat, seq : Nat]
Subjects == [world : Worlds \cup {Nobody}, gen : Nat, seq : Nat]
Rows == [kind : {"format", "delete_intent"} \cup Closing, subject : Subjects]

Intended == {"announce intent", "remove", "settle", "commit", "announce commit",
             "failed", "announce failed"}
Gone == {"settle", "commit", "announce commit", "failed", "announce failed"}
Steps == {"idle", "stream", "capture", "intent"} \cup Intended

\* The types the proof needs.
Types ==
    /\ store \in [Worlds -> Versions]
    /\ minted \in Nat
    /\ ledger \in Seq(Rows)
    /\ lock \in [Worlds -> Procs \cup {Nobody}]
    /\ pc \in [Procs -> Steps]
    /\ subject \in [Procs -> Subjects]

\* A delete in progress holds the lock of its world.
HoldsLock ==
    \A d \in Procs : pc[d] # "idle" => subject[d].world \in Worlds /\ lock[subject[d].world] = d

\* From the capture to the removal the store has the version that was captured.
CaptureIsCurrent ==
    \A d \in Procs : pc[d] \in {"intent", "announce intent", "remove"} =>
        /\ subject[d].gen = store[subject[d].world].gen
        /\ subject[d].seq = store[subject[d].world].seq

\* What the ledger and the disk hold of a delete, step by step.
Progress(d) ==
    /\ pc[d] \in Intended => Recorded("delete_intent", subject[d])
    /\ pc[d] \in Gone => subject[d] \in removed
    /\ pc[d] = "announce commit" => Recorded("delete_commit", subject[d])

DeleteInv ==
    /\ Types
    /\ HoldsLock
    /\ CaptureIsCurrent
    /\ \A d \in Procs : Progress(d)
    /\ RemovalHasIntent

\* A server that starts over no worlds and an empty ledger has nothing to explain.
LEMMA InitInv == Init => DeleteInv
BY DeleteProtocolAssumption
   DEF Init, DeleteInv, Types, HoldsLock, CaptureIsCurrent, Progress, RemovalHasIntent, Recorded,
       Versions, Subjects, Steps, Intended, Gone, Absent, None, Worlds

\* Recorded for a ledger given as a value.
Has(rows, kind, s) == \E i \in DOMAIN rows : rows[i] = [kind |-> kind, subject |-> s]

\* An append leaves every row where it was and adds its own.
LEMMA AppendRowAdds ==
    ASSUME Types, NEW d \in Procs, NEW kind \in {"delete_intent"} \cup Closing, AppendRow(d, kind)
    PROVE  /\ ledger' \in Seq(Rows)
           /\ Has(ledger', kind, subject[d])
           /\ \A k, s : Has(ledger, k, s) => Has(ledger', k, s)
<1> DEFINE row == [kind |-> kind, subject |-> subject[d]]
           rows == IF ledger = <<>> THEN <<[kind |-> "format", subject |-> None], row>> ELSE <<row>>
<1>1. row \in Rows /\ [kind |-> "format", subject |-> None] \in Rows
  BY DeleteProtocolAssumption DEF Types, Rows, Subjects, None
<1>2. rows \in Seq(Rows) /\ Len(rows) > 0 /\ rows[Len(rows)] = row
  BY <1>1
<1>3. ledger' = ledger \o rows
  BY DEF AppendRow
<1> HIDE DEF rows
<1>4. ledger' \in Seq(Rows) /\ Len(ledger') = Len(ledger) + Len(rows)
  BY <1>2, <1>3 DEF Types
<1>5. ledger'[Len(ledger')] = row /\ Len(ledger') \in DOMAIN ledger'
  BY <1>2, <1>3, <1>4 DEF Types
<1>6. \A i \in DOMAIN ledger : i \in DOMAIN ledger' /\ ledger'[i] = ledger[i]
  BY <1>2, <1>3, <1>4 DEF Types
<1> QED
  BY <1>4, <1>5, <1>6 DEF Has

\* The part of DeleteInv that is about the deletes in progress.
Running == HoldsLock /\ CaptureIsCurrent /\ \A d \in Procs : Progress(d)

\* A delete that ends disturbs no other one.
LEMMA ReleaseKeeps ==
    ASSUME Types, Running, NEW d \in Procs, Release(d),
           UNCHANGED <<store, minted, ledger, removed>>
    PROVE  Types' /\ Running'
<1>1. Types'
  BY DeleteProtocolAssumption DEF Types, Release, None, Subjects, Steps
<1>2. \A e \in Procs \ {d} : pc'[e] = pc[e] /\ subject'[e] = subject[e]
  BY DEF Types, Release
<1>3. pc'[d] = "idle"
  BY DEF Types, Release
<1>4. HoldsLock'
  BY <1>2, <1>3, DeleteProtocolAssumption DEF Running, Types, HoldsLock, Release
<1>5. CaptureIsCurrent'
  BY <1>2, <1>3, Zenon DEF Running, CaptureIsCurrent
<1>6. ASSUME NEW e \in Procs PROVE Progress(e)'
  BY <1>2, <1>3, Zenon DEF Running, Progress, Recorded, Intended, Gone
<1> QED
  BY <1>1, <1>4, <1>5, <1>6 DEF Running

\* What has been removed and answered stays true when nothing of it changes and
\* the ledger only grows.
LEMMA RecordKeeps ==
    ASSUME RemovalHasIntent, UNCHANGED <<removed, answer>>,
           \A k, s : Has(ledger, k, s) => Has(ledger', k, s)
    PROVE  RemovalHasIntent'
BY DEF RemovalHasIntent, Recorded, Has

\* A write has its world's lock to itself, so no delete has captured that world.
LEMMA WriteKeeps ==
    ASSUME DeleteInv, NEW w \in Worlds, Write(w)
    PROVE  DeleteInv'
<1> USE DEF disk, engine, locks, history
<1>1. Types'
  <2>1. CASE Exists(w)
    <3>1. store[w] \in Versions
      BY DEF DeleteInv, Types
    <3>2. [store[w] EXCEPT !.seq = @ + 1] \in Versions
      BY <3>1 DEF Versions
    <3>3. store' = [store EXCEPT ![w] = [store[w] EXCEPT !.seq = @ + 1]]
      BY <2>1 DEF Write
    <3>4. store' \in [Worlds -> Versions]
      BY <3>2, <3>3 DEF DeleteInv, Types
    <3>5. UNCHANGED <<minted, ledger, lock, pc, subject>>
      BY <2>1 DEF Write
    <3> QED
      BY <3>4, <3>5 DEF DeleteInv, Types
  <2>2. CASE ~Exists(w)
    <3>1. minted' \in Nat /\ [gen |-> minted', seq |-> 1] \in Versions
      BY <2>2 DEF DeleteInv, Types, Write, Versions
    <3>2. store' \in [Worlds -> Versions]
      BY <2>2, <3>1 DEF DeleteInv, Types, Write
    <3> QED
      BY <2>2, <3>1, <3>2 DEF DeleteInv, Types, Write
  <2> QED BY <2>1, <2>2
<1>2. \A v \in Worlds \ {w} : store'[v] = store[v]
  BY DEF Write, DeleteInv, Types
<1>3. HoldsLock'
  BY DEF Write, DeleteInv, HoldsLock
<1>4. \A d \in Procs : pc[d] # "idle" => subject[d].world \in Worlds \ {w}
  BY DeleteProtocolAssumption DEF Write, DeleteInv, HoldsLock
<1>5. CaptureIsCurrent'
  BY <1>2, <1>4, Zenon DEF Write, DeleteInv, CaptureIsCurrent
<1>6. ASSUME NEW d \in Procs PROVE Progress(d)'
  BY Zenon DEF Write, DeleteInv, Progress, Recorded
<1>7. RemovalHasIntent'
  BY DEF Write, DeleteInv, RemovalHasIntent, Recorded
<1> QED
  BY <1>1, <1>3, <1>5, <1>6, <1>7 DEF DeleteInv

\* A crash drops every delete in progress, and a start finds the disk as it was.
LEMMA LifecycleKeeps ==
    ASSUME DeleteInv, Crash \/ Start
    PROVE  DeleteInv'
<1> USE DEF disk, engine, locks, history
<1>1. CASE Crash
  <2>1. Types'
    BY <1>1, DeleteProtocolAssumption
       DEF Crash, DeleteInv, Types, Absent, Versions, None, Subjects, Steps
  <2>2. \A d \in Procs : pc'[d] = "idle"
    BY <1>1 DEF Crash
  <2>3. Running'
    BY <2>2, Zenon DEF Running, HoldsLock, CaptureIsCurrent, Progress, Intended, Gone
  <2>4. RemovalHasIntent'
    BY <1>1 DEF Crash, DeleteInv, RemovalHasIntent, Recorded
  <2> QED BY <2>1, <2>3, <2>4 DEF DeleteInv, Running
<1>2. CASE Start
  BY <1>2, Zenon DEF Start, DeleteInv, Types, HoldsLock, CaptureIsCurrent, Progress, RemovalHasIntent,
              Recorded
<1> QED BY <1>1, <1>2

\* A delete that does not move keeps its part of the invariant.
LEMMA ProgressKeeps ==
    ASSUME NEW e \in Procs, Progress(e), pc'[e] = pc[e], subject'[e] = subject[e],
           \A k, s : Has(ledger, k, s) => Has(ledger', k, s), removed \subseteq removed'
    PROVE  Progress(e)'
<1>1. \A k : Recorded(k, subject[e]) => Has(ledger', k, subject'[e])
  BY DEF Recorded, Has
<1>2. \A k : Has(ledger', k, subject'[e]) => Recorded(k, subject[e])'
  BY DEF Recorded, Has
<1> QED
  BY <1>1, <1>2, Zenon DEF Progress

\* A delete goes on to its next step, under the locks it has, and the ledger and
\* the set of removed incarnations only grow.
LEMMA MoveKeeps ==
    ASSUME Types, Running, NEW d \in Procs, NEW to \in Steps,
           pc[d] # "idle", pc' = [pc EXCEPT ![d] = to],
           UNCHANGED <<store, minted, lock, subject>>,
           ledger' \in Seq(Rows), \A k, s : Has(ledger, k, s) => Has(ledger', k, s),
           removed \subseteq removed',
           to \in {"intent", "announce intent", "remove"}
             => pc[d] \in {"intent", "announce intent", "remove"},
           Progress(d)'
    PROVE  Types' /\ Running'
<1>1. Types'
  BY Zenon DEF Types
<1>2. \A e \in Procs \ {d} : pc'[e] = pc[e]
  BY Zenon DEF Types
<1>3. pc'[d] = to
  BY Zenon DEF Types
<1>4. HoldsLock'
  BY <1>2, Zenon DEF Running, HoldsLock
<1>5. CaptureIsCurrent'
  BY <1>2, <1>3, Zenon DEF Running, CaptureIsCurrent
<1>6. ASSUME NEW e \in Procs \ {d} PROVE Progress(e)'
  BY <1>2, ProgressKeeps, Zenon DEF Running
<1> QED
  BY <1>1, <1>4, <1>5, <1>6, Zenon DEF Running

\* The steps up to the capture, and a cancelled delete: the world's lock is
\* taken by one delete at a time and nothing durable changes.
LEMMA LockStepsKeep ==
    ASSUME DeleteInv, NEW d \in Procs,
           (\E w \in Worlds : TakeWorldLock(d, w)) \/ TakeStreamLock(d) \/ Cancel(d) \/ Refuse(d)
             \/ Capture(d)
    PROVE  DeleteInv'
<1> USE DEF disk, engine, locks, history
<1>1. ASSUME UNCHANGED <<ledger, removed, answer>> PROVE RemovalHasIntent'
  BY <1>1 DEF DeleteInv, RemovalHasIntent, Recorded
<1>2. Types /\ Running
  BY DEF DeleteInv, Running
<1>3. ASSUME NEW w \in Worlds, TakeWorldLock(d, w) PROVE DeleteInv'
  <2>1. Types'
    BY <1>2, <1>3, DeleteProtocolAssumption DEF TakeWorldLock, Types, None, Subjects, Steps
  <2>2. /\ pc'[d] = "stream" /\ subject'[d].world = w /\ lock'[w] = d /\ lock[w] = Nobody
        /\ \A e \in Procs \ {d} : pc'[e] = pc[e] /\ subject'[e] = subject[e]
        /\ \A v \in Worlds \ {w} : lock'[v] = lock[v]
    BY <1>2, <1>3 DEF TakeWorldLock, Types, None
  <2>3. \A e \in Procs \ {d} : pc[e] # "idle" => subject[e].world \in Worlds \ {w}
    BY <1>2, <2>2, DeleteProtocolAssumption DEF Running, HoldsLock
  <2>4. HoldsLock'
    BY <1>2, <2>2, <2>3 DEF Running, HoldsLock
  <2>5. CaptureIsCurrent'
    BY <1>2, <1>3, <2>2, Zenon DEF TakeWorldLock, Running, CaptureIsCurrent
  <2>6. Progress(d)'
    BY <2>2 DEF Progress, Intended, Gone
  <2>7. UNCHANGED <<ledger, removed, answer>>
    BY <1>3 DEF TakeWorldLock
  <2>8. \A e \in Procs \ {d} : Progress(e)'
    BY <1>2, <2>2, <2>7, ProgressKeeps DEF Running
  <2> QED
    BY <1>1, <2>1, <2>4, <2>5, <2>6, <2>7, <2>8 DEF DeleteInv
<1>4. CASE TakeStreamLock(d)
  <2>1. "capture" \in Steps /\ pc'[d] = "capture" /\ pc[d] = "stream"
    BY <1>2, <1>4 DEF TakeStreamLock, Types, Steps
  <2>2. Progress(d)'
    BY <2>1 DEF Progress, Intended, Gone
  <2>3. Types' /\ Running'
    BY <1>2, <1>4, <2>1, <2>2, MoveKeeps, Zenon DEF TakeStreamLock, Types
  <2> QED BY <1>1, <1>4, <2>3 DEF TakeStreamLock, DeleteInv, Running
<1>5. CASE Release(d) /\ UNCHANGED <<disk, answer>>
  BY <1>1, <1>2, <1>5, ReleaseKeeps DEF DeleteInv, Running
<1>6. CASE Capture(d) /\ Exists(subject[d].world)
  <2> DEFINE w == subject[d].world
             s == [world |-> w, gen |-> store[w].gen, seq |-> store[w].seq]
  <2>1. pc[d] = "capture" /\ w \in Worlds /\ store[w] \in Versions
    BY <1>2, <1>6 DEF Capture, Types, Running, HoldsLock
  <2>2. s \in Subjects
    BY <2>1 DEF Versions, Subjects
  <2>3. /\ pc' = [pc EXCEPT ![d] = "intent"] /\ subject' = [subject EXCEPT ![d] = s]
        /\ UNCHANGED <<store, minted, ledger, removed, lock, answer>>
    BY <1>6 DEF Capture
  <2> HIDE DEF s
  <2>4. Types'
    BY <1>2, <2>2, <2>3 DEF Types, Steps
  <2>5. /\ pc'[d] = "intent" /\ subject'[d] = s
        /\ \A e \in Procs \ {d} : pc'[e] = pc[e] /\ subject'[e] = subject[e]
    BY <1>2, <2>3 DEF Types
  <2>6. s.world = w /\ s.gen = store[w].gen /\ s.seq = store[w].seq
    BY DEF s
  <2> HIDE DEF w
  <2>7. lock[w] = d
    BY <1>2, <2>1 DEF Running, HoldsLock, w
  <2>8. HoldsLock'
    BY <1>2, <2>1, <2>3, <2>5, <2>6, <2>7 DEF Running, HoldsLock
  <2>9. CaptureIsCurrent'
    BY <1>2, <2>3, <2>5, <2>6, ZenonT(30) DEF Running, CaptureIsCurrent
  <2>10. Progress(d)'
    BY <2>5 DEF Progress, Intended, Gone
  <2>11. \A e \in Procs \ {d} : Progress(e)'
    BY <1>2, <2>3, <2>5, ProgressKeeps DEF Running
  <2> QED
    BY <1>1, <2>3, <2>4, <2>8, <2>9, <2>10, <2>11 DEF DeleteInv
<1> QED
  BY <1>3, <1>4, <1>5, <1>6 DEF Cancel, Refuse, Capture

\* The steps that append a row: the delete's own row is there afterwards.
LEMMA AppendStepsKeep ==
    ASSUME DeleteInv, NEW d \in Procs,
           AppendIntent(d) \/ AppendCommit(d) \/ AppendCommitFailed(d)
    PROVE  DeleteInv'
<1> USE DEF engine, locks, history
<1>1. Types /\ Running /\ Progress(d)
  BY DEF DeleteInv, Running
<1>2. ASSUME NEW kind \in {"delete_intent"} \cup Closing, NEW to \in Intended,
             AppendRow(d, kind), pc[d] # "idle", pc' = [pc EXCEPT ![d] = to],
             UNCHANGED <<store, minted, lock, subject, removed, answer>>,
             to \in {"announce intent", "remove"} => pc[d] = "intent",
             kind = "delete_intent" \/ pc[d] \in Intended,
             to \in Gone => pc[d] \in Gone,
             to = "announce commit" => kind = "delete_commit"
      PROVE  DeleteInv'
  <2>1. /\ ledger' \in Seq(Rows)
        /\ Has(ledger', kind, subject[d])
        /\ \A k, s : Has(ledger, k, s) => Has(ledger', k, s)
    BY <1>1, <1>2, AppendRowAdds, Zenon
  <2>2. pc'[d] = to /\ subject'[d] = subject[d]
    BY <1>1, <1>2, Zenon DEF Types
  <2>3. \A k : Has(ledger', k, subject[d]) => Recorded(k, subject[d])'
    BY <2>2 DEF Recorded, Has
  <2>4. Recorded("delete_intent", subject[d])'
    <3>1. CASE kind = "delete_intent"
      BY <2>1, <2>3, <3>1, Zenon
    <3>2. CASE pc[d] \in Intended
      <4>1. Has(ledger, "delete_intent", subject[d])
        BY <1>1, <3>2, Zenon DEF Progress, Recorded, Has
      <4> QED BY <2>1, <2>3, <4>1, Zenon
    <3> QED BY <1>2, <3>1, <3>2, Zenon
  <2>5. Progress(d)'
    BY <1>1, <1>2, <2>1, <2>2, <2>3, <2>4, Zenon DEF Progress
  <2>6. Types' /\ Running'
    BY <1>1, <1>2, <2>1, <2>5, MoveKeeps, Zenon DEF Steps, Intended
  <2>7. RemovalHasIntent'
    BY <1>2, <2>1, RecordKeeps, Zenon DEF DeleteInv
  <2> QED
    BY <2>6, <2>7 DEF DeleteInv, Running
<1>3. CASE AppendIntent(d)
  BY <1>2, <1>3, Zenon DEF AppendIntent, Intended, Gone
<1>4. CASE AppendCommit(d)
  BY <1>2, <1>4, Zenon DEF AppendCommit, Intended, Gone, Closing
<1>5. CASE AppendCommitFailed(d)
  BY <1>2, <1>5, Zenon DEF AppendCommitFailed, Intended, Gone, Closing
<1> QED BY <1>3, <1>4, <1>5

\* The steps that change neither the ledger nor the disk and keep the locks.
LEMMA QuietStepsKeep ==
    ASSUME DeleteInv, NEW d \in Procs, AnnounceIntent(d) \/ Settle(d) \/ CommitFails(d)
    PROVE  DeleteInv'
<1> USE DEF disk, engine, locks, history
<1>1. Types /\ Running /\ Progress(d)
  BY DEF DeleteInv, Running
<1>2. ASSUME NEW to \in Intended, pc[d] # "idle", pc' = [pc EXCEPT ![d] = to],
             UNCHANGED <<store, minted, ledger, removed, lock, subject, answer>>,
             pc[d] \in Intended, to # "announce commit",
             to \in {"announce intent", "remove"} => pc[d] = "announce intent",
             to \in Gone => pc[d] \in Gone
      PROVE  DeleteInv'
  <2>1. pc'[d] = to /\ subject'[d] = subject[d]
    BY <1>1, <1>2, Zenon DEF Types
  <2>2. Progress(d)'
    BY <1>1, <1>2, <2>1, ZenonT(30) DEF Progress, Recorded
  <2>3. Types' /\ Running'
    BY <1>1, <1>2, <2>2, MoveKeeps, Zenon DEF Steps, Intended, Types
  <2>4. RemovalHasIntent'
    BY <1>2, RecordKeeps, Zenon DEF DeleteInv
  <2> QED
    BY <2>3, <2>4 DEF DeleteInv, Running
<1>3. CASE AnnounceIntent(d)
  BY <1>2, <1>3, Zenon DEF AnnounceIntent, Intended, Gone
<1>4. CASE Settle(d)
  BY <1>2, <1>4 DEF Settle, Intended, Gone
<1>5. CASE CommitFails(d)
  BY <1>2, <1>5 DEF CommitFails, Intended, Gone
<1> QED BY <1>3, <1>4, <1>5

\* The steps that end a delete with an answer and leave the disk alone.
LEMMA EndStepsKeep ==
    ASSUME DeleteInv, NEW d \in Procs,
           IntentFails(d) \/ AnnounceCommit(d) \/ CommitFailedFails(d) \/ AnnounceCommitFailed(d)
    PROVE  DeleteInv'
<1> USE DEF disk, engine, locks, history
<1>1. Types /\ Running /\ Progress(d)
  BY DEF DeleteInv, Running
<1>2. Release(d) /\ UNCHANGED <<store, minted, ledger, removed>>
  BY Zenon DEF IntentFails, AnnounceCommit, CommitFailedFails, AnnounceCommitFailed
<1>3. Types' /\ Running'
  BY <1>1, <1>2, ReleaseKeeps
<1>4. /\ answer'.subject = subject[d]
      /\ answer'.outcome = "ok" => pc[d] = "announce commit"
      /\ answer'.outcome = "AuditCommitFailed" => pc[d] \in Gone
  <2>1. CASE IntentFails(d)
    BY <2>1 DEF IntentFails, Answer
  <2>2. CASE AnnounceCommit(d)
    BY <2>2, Zenon DEF AnnounceCommit, Answer
  <2>3. CASE CommitFailedFails(d)
    BY <2>3 DEF CommitFailedFails, Answer, Gone
  <2>4. CASE AnnounceCommitFailed(d)
    BY <2>4, Zenon DEF AnnounceCommitFailed, Answer, Gone
  <2> QED BY <2>1, <2>2, <2>3, <2>4, Zenon
<1>5. answer'.outcome = "ok" => Recorded("delete_commit", answer'.subject)
  BY <1>1, <1>4, Zenon DEF Progress
<1>6. answer'.outcome \in {"ok", "AuditCommitFailed"} => answer'.subject \in removed
  BY <1>1, <1>4, Zenon DEF Progress, Gone
<1>7. RemovalHasIntent'
  BY <1>2, <1>5, <1>6 DEF DeleteInv, RemovalHasIntent, Recorded
<1> QED
  BY <1>3, <1>7 DEF DeleteInv, Running

\* The removal takes away what the intent names: the lock has kept it current.
LEMMA RemoveStepsKeep ==
    ASSUME DeleteInv, NEW d \in Procs, Remove(d) \/ RemoveFails(d)
    PROVE  DeleteInv'
<1> USE DEF engine, locks, history
<1> DEFINE w == subject[d].world
           r == [world |-> w, gen |-> store[w].gen, seq |-> store[w].seq]
<1>1. Types /\ Running /\ Progress(d) /\ pc[d] = "remove"
  BY DEF DeleteInv, Running, Remove, RemoveFails
<1>2. w \in Worlds /\ lock[w] = d
  BY <1>1 DEF Running, HoldsLock
<1>3. r = subject[d]
  BY <1>1, Zenon DEF Types, Subjects, Running, CaptureIsCurrent
<1>4. Recorded("delete_intent", subject[d])
  BY <1>1 DEF Progress, Intended
<1>5. \A e \in Procs \ {d} : pc[e] # "idle" => subject[e].world \in Worlds \ {w}
  BY <1>1, <1>2 DEF Running, HoldsLock
<1> HIDE DEF r
<1>6. ASSUME store' = [store EXCEPT ![w] = Absent], removed' = removed \cup {r}, UNCHANGED ledger,
             answer' = answer \/ (answer'.outcome \notin {"ok", "AuditCommitFailed"})
      PROVE  /\ store' \in [Worlds -> Versions]
             /\ \A v \in Worlds \ {w} : store'[v] = store[v]
             /\ RemovalHasIntent'
  <2>1. store' \in [Worlds -> Versions] /\ \A v \in Worlds \ {w} : store'[v] = store[v]
    BY <1>1, <1>6, Zenon DEF Types, Absent, Versions
  <2>2. RemovalHasIntent'
    BY <1>3, <1>4, <1>6 DEF DeleteInv, RemovalHasIntent, Recorded
  <2> QED BY <2>1, <2>2
<1>7. CASE Remove(d)
  <2>1. /\ store' = [store EXCEPT ![w] = Absent] /\ removed' = removed \cup {r}
        /\ pc' = [pc EXCEPT ![d] = "settle"]
        /\ UNCHANGED <<minted, ledger, lock, subject, answer>>
    BY <1>7 DEF Remove, r
  <2>2. /\ pc'[d] = "settle" /\ subject'[d] = subject[d]
        /\ \A e \in Procs \ {d} : pc'[e] = pc[e] /\ subject'[e] = subject[e]
    BY <1>1, <2>1 DEF Types
  <2>3. Types'
    BY <1>1, <1>6, <2>1, Zenon DEF Types, Steps, Intended
  <2>4. HoldsLock'
    BY <1>1, <2>1, <2>2 DEF Running, HoldsLock
  <2>5. CaptureIsCurrent'
    BY <1>1, <1>5, <1>6, <2>1, <2>2, ZenonT(30) DEF Running, CaptureIsCurrent
  <2>6. Progress(d)'
    BY <1>3, <1>4, <2>1, <2>2, Zenon DEF Progress, Recorded, Gone
  <2>7. \A e \in Procs \ {d} : Progress(e)'
    BY <1>1, <2>1, <2>2, ProgressKeeps DEF Running
  <2> QED
    BY <1>6, <2>1, <2>3, <2>4, <2>5, <2>6, <2>7 DEF DeleteInv
<1>8. CASE RemoveFails(d)
  <2>1. /\ Release(d) /\ UNCHANGED <<minted, ledger>>
        /\ answer' = [subject |-> subject[d], outcome |-> "DeleteFailedAfterIntent"]
    BY <1>8 DEF RemoveFails, Answer
  <2>2. answer'.outcome \notin {"ok", "AuditCommitFailed"}
    BY <2>1
  <2>3. CASE UNCHANGED <<store, removed>>
    <3>1. Types' /\ Running'
      BY <1>1, <2>1, <2>3, ReleaseKeeps, Zenon
    <3>2. RemovalHasIntent'
      BY <2>1, <2>2, <2>3 DEF DeleteInv, RemovalHasIntent, Recorded
    <3> QED BY <3>1, <3>2 DEF DeleteInv, Running
  <2>4. CASE store' = [store EXCEPT ![w] = Absent] /\ removed' = removed \cup {r}
    <3>1. Types'
      BY <1>1, <1>6, <2>1, <2>2, <2>4, DeleteProtocolAssumption, Zenon
         DEF Types, Release, None, Subjects, Steps
    <3>2. /\ pc'[d] = "idle"
          /\ \A e \in Procs \ {d} : pc'[e] = pc[e] /\ subject'[e] = subject[e]
      BY <1>1, <2>1 DEF Types, Release
    <3>3. HoldsLock'
      BY <1>1, <2>1, <3>2, DeleteProtocolAssumption DEF Running, Types, HoldsLock, Release
    <3>4. CaptureIsCurrent'
      <4>1. \A v \in Worlds \ {w} : store'[v] = store[v]
        BY <1>6, <2>1, <2>2, <2>4
      <4>2. SUFFICES ASSUME NEW e \in Procs, pc'[e] \in {"intent", "announce intent", "remove"}
                     PROVE  /\ subject'[e].gen = store'[subject'[e].world].gen
                            /\ subject'[e].seq = store'[subject'[e].world].seq
        BY Zenon DEF CaptureIsCurrent
      <4>3. e # d /\ pc'[e] = pc[e] /\ subject'[e] = subject[e]
        BY <3>2, <4>2, Zenon
      <4>4. store'[subject[e].world] = store[subject[e].world]
        BY <1>5, <4>1, <4>2, <4>3, Zenon
      <4> QED
        BY <1>1, <4>2, <4>3, <4>4, Zenon DEF Running, CaptureIsCurrent
    <3>5. Progress(d)'
      BY <3>2 DEF Progress, Intended, Gone
    <3>6. \A e \in Procs \ {d} : Progress(e)'
      BY <1>1, <2>1, <2>4, <3>2, ProgressKeeps DEF Running
    <3> QED
      BY <1>6, <2>1, <2>2, <2>4, <3>1, <3>3, <3>4, <3>5, <3>6, Zenon DEF DeleteInv
  <2> QED
    BY <1>8, <2>3, <2>4 DEF RemoveFails, r
<1> QED BY <1>7, <1>8

\* Every step of the protocol (Next, one lemma for each group of its actions)
\* preserves the invariant.
LEMMA NextInv == DeleteInv /\ [Next]_vars => DeleteInv'
<1> SUFFICES ASSUME DeleteInv, [Next]_vars PROVE DeleteInv'
  OBVIOUS
<1>1. CASE UNCHANGED vars
  BY <1>1, Zenon DEF vars, DeleteInv, Types, HoldsLock, CaptureIsCurrent, Progress, RemovalHasIntent, Recorded
<1>2. CASE Crash \/ Start
  BY <1>2, LifecycleKeeps
<1>3. CASE \E w \in Worlds : Write(w)
  BY <1>3, WriteKeeps
<1>4. ASSUME NEW d \in Procs,
             (\E w \in Worlds : TakeWorldLock(d, w)) \/ TakeStreamLock(d) \/ Cancel(d) \/ Body(d)
      PROVE  DeleteInv'
  BY <1>4, LockStepsKeep, AppendStepsKeep, QuietStepsKeep, EndStepsKeep, RemoveStepsKeep DEF Body
<1> QED
  BY <1>1, <1>2, <1>3, <1>4 DEF Next

\* Whatever crashes, fails or is cancelled (delete_blocking, delete_ops.rs), an
\* incarnation is gone only after a delete_intent row that names it and its last
\* body row, and the answer of a delete says no more than what the ledger and
\* the disk hold: for any number of concurrent deletes, writes and worlds.
THEOREM IntentPrecedesRemoval == Spec => []RemovalHasIntent
<1>1. DeleteInv => RemovalHasIntent
  BY DEF DeleteInv
<1> QED
  BY InitInv, NextInv, <1>1, PTL DEF Spec

-----------------------------------------------------------------------------
(* The ledger and its subscribers.                                         *)

Announcing == {"announce intent", "announce commit", "announce failed"}
Open == {"announce intent", "remove", "settle", "commit", "failed"}

LedgerTypes ==
    /\ stream \in Procs \cup {Nobody}
    /\ published \in Seq(Nat)
    /\ mine \in [Procs -> Seq(Nat)]
    /\ removed \subseteq Subjects

\* From the capture on, a delete holds the stream lock.
StreamHeld == \A d \in Procs : pc[d] \notin {"idle", "stream"} => stream = d

\* No two worlds share an incarnation, and what was removed never comes back.
GensUnique ==
    /\ \A w \in Worlds : store[w].gen <= minted
    /\ \A v, w \in Worlds : store[v].gen = store[w].gen /\ store[w].gen # 0 => v = w
    /\ \A s \in removed : s.gen # 0 /\ s.gen <= minted /\ \A w \in Worlds : store[w].gen # s.gen

\* A closing row follows its own intent, and is the only one of its subject.
ClosedOnce(rows) ==
    \A i \in DOMAIN rows : rows[i].kind \in Closing =>
        /\ i > 1 /\ rows[i - 1] = [kind |-> "delete_intent", subject |-> rows[i].subject]
        /\ \A j \in DOMAIN rows : rows[j].kind \in Closing /\ rows[j].subject = rows[i].subject => j = i

\* What is closed is gone.
ClosedIsGone == \A i \in DOMAIN ledger : ledger[i].kind \in Closing => ledger[i].subject \in removed

Unclosed(s) == \A i \in DOMAIN ledger : ledger[i].kind \in Closing => ledger[i].subject # s

\* What the ledger holds of a delete in progress, and what it has to announce:
\* the rows at the end of the ledger, from where the subscribers are.
Phase(d) ==
    /\ pc[d] \in Open \cup {"intent"} => subject[d].gen # 0 /\ Unclosed(subject[d])
    /\ pc[d] \in Open =>
         /\ ledger # <<>>
         /\ ledger[Len(ledger)] = [kind |-> "delete_intent", subject |-> subject[d]]
    /\ pc[d] \notin Announcing => mine[d] = <<>>
    /\ pc[d] \in Announcing =>
         /\ mine[d] # <<>> /\ mine[d][Len(mine[d])] = Len(ledger)
         /\ \A i \in 1..(Len(mine[d]) - 1) : mine[d][i + 1] = mine[d][i] + 1
         /\ published # <<>> => mine[d][1] = published[Len(published)] + 1

InOrder == \A i \in 1..(Len(published) - 1) : published[i + 1] = published[i] + 1

CaughtUp ==
    published # <<>> /\ (\A d \in Procs : pc[d] \notin Announcing)
        => published[Len(published)] = Len(ledger)

LedgerInv ==
    /\ LedgerTypes
    /\ StreamHeld
    /\ GensUnique
    /\ ClosedOnce(ledger)
    /\ ClosedIsGone
    /\ \A d \in Procs : Phase(d)
    /\ InOrder
    /\ CaughtUp

\* An empty ledger, and nobody to announce anything.
LEMMA InitLedger == Init => LedgerInv
<1> SUFFICES ASSUME Init PROVE LedgerInv
  OBVIOUS
<1>1. LedgerTypes /\ StreamHeld /\ GensUnique
  BY DEF Init, LedgerTypes, StreamHeld, GensUnique, Absent
<1>2. ClosedOnce(ledger) /\ ClosedIsGone
  BY DEF Init, ClosedOnce, ClosedIsGone
<1>3. \A d \in Procs : Phase(d)
  BY DEF Init, Phase, Open, Announcing
<1>4. InOrder /\ CaughtUp
  BY DEF Init, InOrder, CaughtUp
<1> QED BY <1>1, <1>2, <1>3, <1>4 DEF LedgerInv

\* A crash of the server, or a start of it.
LEMMA LifecycleKeepsLedger ==
    ASSUME DeleteInv, LedgerInv, Crash \/ Start
    PROVE  LedgerInv'
<1> USE DEF disk, locks
<1>1. CASE Crash
  <2>1. ledger' = ledger /\ removed' = removed /\ minted' = minted /\ published' = <<>>
    BY <1>1 DEF Crash
  <2>2. /\ \A d \in Procs : pc'[d] = "idle" /\ mine'[d] = <<>>
        /\ mine' \in [Procs -> Seq(Nat)] /\ stream' = Nobody
    BY <1>1 DEF Crash
  <2>3. \A w \in Worlds : store'[w] = store[w] \/ store'[w].gen = 0
    BY <1>1 DEF Crash, Absent
  <2>4. LedgerTypes' /\ StreamHeld'
    BY <2>1, <2>2 DEF LedgerInv, LedgerTypes, StreamHeld
  <2>5. GensUnique'
    BY <2>1, <2>3 DEF LedgerInv, GensUnique, DeleteInv, Types
  <2>6. ClosedOnce(ledger)' /\ ClosedIsGone'
    BY <2>1 DEF LedgerInv, ClosedOnce, ClosedIsGone
  <2>7. \A d \in Procs : Phase(d)'
    BY <2>2, Zenon DEF Phase, Open, Announcing
  <2>8. InOrder' /\ CaughtUp'
    BY <2>1 DEF InOrder, CaughtUp
  <2> QED BY <2>4, <2>5, <2>6, <2>7, <2>8 DEF LedgerInv
<1>2. CASE Start
  <2>1. UNCHANGED <<store, minted, ledger, removed, published, stream, pc, subject, mine>>
    BY <1>2, Zenon DEF Start
  <2> QED
    BY <2>1 DEF LedgerInv, LedgerTypes, StreamHeld, GensUnique, ClosedOnce, ClosedIsGone, Phase,
                Unclosed, InOrder, CaughtUp
<1> QED BY <1>1, <1>2

\* A write adds a row to an incarnation, or starts one nobody has had.
LEMMA WriteKeepsLedger ==
    ASSUME DeleteInv, LedgerInv, NEW w \in Worlds, Write(w)
    PROVE  LedgerInv'
<1> USE DEF locks
<1>1. UNCHANGED <<ledger, removed, published, stream, pc, subject, mine>>
  BY DEF Write
<1>2. /\ minted \in Nat /\ minted' \in Nat /\ minted <= minted'
      /\ \A v \in Worlds : store[v].gen \in Nat
      /\ \A v \in Worlds \ {w} : store'[v].gen = store[v].gen
      /\ \/ store'[w].gen = store[w].gen
         \/ store'[w].gen = minted + 1 /\ minted' = minted + 1
  BY DEF DeleteInv, Types, Versions, Write
<1>3. \A s \in removed : s.gen \in Nat
  BY Zenon DEF LedgerInv, LedgerTypes, Subjects
<1>4. GensUnique'
  <2>1. GensUnique
    BY Zenon DEF LedgerInv
  <2>2. \A v \in Worlds : store'[v].gen <= minted'
    BY <1>2, <2>1 DEF GensUnique
  <2>3. \A v, x \in Worlds : store'[v].gen = store'[x].gen /\ store'[x].gen # 0 => v = x
    BY <1>2, <2>1 DEF GensUnique
  <2>4. \A s \in removed : s.gen # 0 /\ s.gen <= minted' /\ \A v \in Worlds : store'[v].gen # s.gen
    BY <1>2, <1>3, <2>1 DEF GensUnique
  <2> QED BY <1>1, <2>2, <2>3, <2>4 DEF GensUnique
<1> QED
  BY <1>1, <1>4 DEF LedgerInv, LedgerTypes, StreamHeld, ClosedOnce, ClosedIsGone, Phase, Unclosed,
                    InOrder, CaughtUp

\* While one delete is past the stream lock, no other is, and none announces.
LEMMA Alone ==
    ASSUME DeleteInv, LedgerInv, NEW d \in Procs, pc[d] \notin {"idle", "stream"}
    PROVE  \A e \in Procs \ {d} : pc[e] \in {"idle", "stream"} /\ mine[e] = <<>>
BY Zenon DEF LedgerInv, StreamHeld, Phase, Announcing

\* A step of one delete that appends and announces nothing: what it has to show.
LEMMA QuietKeepsLedger ==
    ASSUME DeleteInv, LedgerInv, NEW d \in Procs, UNCHANGED <<ledger, published, mine>>,
           \A e \in Procs \ {d} : pc'[e] = pc[e] /\ subject'[e] = subject[e],
           pc[d] \notin Announcing, Phase(d)', LedgerTypes', StreamHeld', GensUnique',
           removed \subseteq removed'
    PROVE  LedgerInv'
<1>1. ClosedOnce(ledger)' /\ ClosedIsGone'
  BY DEF LedgerInv, ClosedOnce, ClosedIsGone
<1>2. \A e \in Procs : Phase(e)'
  <2>1. ASSUME NEW e \in Procs \ {d} PROVE Phase(e)'
    <3>1. Phase(e)
      BY DEF LedgerInv
    <3> QED BY <3>1 DEF Phase, Unclosed
  <2> QED BY <2>1, Zenon
<1>3. InOrder'
  BY Zenon DEF LedgerInv, InOrder
<1>4. pc'[d] \notin Announcing
  BY Zenon DEF LedgerInv, Phase
<1>5. CaughtUp'
  BY <1>4 DEF LedgerInv, CaughtUp
<1> QED BY <1>1, <1>2, <1>3, <1>5, Zenon DEF LedgerInv

\* What a release leaves: the others where they are, the stream lock free.
LEMMA ReleaseFreesStream ==
    ASSUME DeleteInv, LedgerInv, NEW d \in Procs, Release(d)
    PROVE  /\ pc'[d] = "idle"
           /\ \A e \in Procs \ {d} : pc'[e] = pc[e] /\ subject'[e] = subject[e]
           /\ stream' \in Procs \cup {Nobody}
           /\ StreamHeld'
<1>1. /\ pc'[d] = "idle"
      /\ \A e \in Procs \ {d} : pc'[e] = pc[e] /\ subject'[e] = subject[e]
      /\ stream' \in Procs \cup {Nobody}
  BY DEF Release, DeleteInv, Types, LedgerInv, LedgerTypes
<1>2. StreamHeld'
  BY <1>1 DEF LedgerInv, StreamHeld, Release
<1> QED BY <1>1, <1>2

\* The steps that give up: nothing was appended, or nothing more will be.
LEMMA GiveUpKeepsLedger ==
    ASSUME DeleteInv, LedgerInv, NEW d \in Procs, Release(d), pc[d] \notin Announcing,
           UNCHANGED <<store, minted, ledger, removed, published, mine>>
    PROVE  LedgerInv'
<1>1. Phase(d)'
  BY ReleaseFreesStream, ZenonT(30) DEF LedgerInv, Phase, Open, Announcing
<1>2. LedgerTypes' /\ GensUnique'
  BY ReleaseFreesStream DEF LedgerInv, LedgerTypes, GensUnique
<1> QED
  BY <1>1, <1>2, ReleaseFreesStream, QuietKeepsLedger, Zenon

\* Locks, the capture, and the steps between the rows.
LEMMA LockStepsKeepLedger ==
    ASSUME DeleteInv, LedgerInv, NEW d \in Procs,
           \/ \E w \in Worlds : TakeWorldLock(d, w)
           \/ TakeStreamLock(d) \/ Cancel(d) \/ Refuse(d) \/ Capture(d)
           \/ IntentFails(d) \/ Settle(d) \/ CommitFails(d) \/ CommitFailedFails(d)
    PROVE  LedgerInv'
<1> USE DEF disk, locks
<1>1. Types /\ Phase(d) /\ LedgerTypes /\ StreamHeld /\ GensUnique
  BY DEF DeleteInv, LedgerInv
<1>2. CASE Cancel(d) \/ Refuse(d) \/ IntentFails(d) \/ CommitFailedFails(d)
  BY <1>2, GiveUpKeepsLedger, ZenonT(30) DEF Cancel, Refuse, IntentFails, CommitFailedFails, Announcing
<1>3. CASE \E w \in Worlds : TakeWorldLock(d, w)
  <2>1. /\ pc[d] = "idle" /\ pc'[d] = "stream"
        /\ \A e \in Procs \ {d} : pc'[e] = pc[e] /\ subject'[e] = subject[e]
        /\ UNCHANGED <<store, minted, ledger, removed, published, mine, stream>>
    BY <1>1, <1>3, Zenon DEF TakeWorldLock, Types
  <2>2. Phase(d)'
    BY <1>1, <2>1, ZenonT(30) DEF Phase, Open, Announcing
  <2>3. LedgerTypes' /\ StreamHeld' /\ GensUnique'
    BY <1>1, <2>1, ZenonT(30) DEF LedgerTypes, StreamHeld, GensUnique
  <2> QED BY <2>1, <2>2, <2>3, QuietKeepsLedger, Zenon DEF Announcing
<1>4. CASE TakeStreamLock(d)
  <2>1. /\ pc[d] = "stream" /\ pc'[d] = "capture" /\ stream = Nobody /\ stream' = d
        /\ \A e \in Procs \ {d} : pc'[e] = pc[e] /\ subject'[e] = subject[e]
        /\ UNCHANGED <<store, minted, ledger, removed, published, mine>>
    BY <1>1, <1>4, Zenon DEF TakeStreamLock, Types
  <2>2. Phase(d)'
    BY <1>1, <2>1, ZenonT(30) DEF Phase, Open, Announcing
  <2>3. LedgerTypes' /\ GensUnique'
    BY <1>1, <2>1, Zenon DEF LedgerTypes, GensUnique
  <2>4. StreamHeld'
    BY <1>1, <2>1, DeleteProtocolAssumption, Zenon DEF StreamHeld
  <2> QED BY <2>1, <2>2, <2>3, <2>4, QuietKeepsLedger, Zenon DEF Announcing
<1>5. CASE Capture(d)
  <2> DEFINE w == subject[d].world
  <2>1. CASE ~Exists(w)
    BY <1>5, <2>1, GiveUpKeepsLedger, ZenonT(30) DEF Capture, Announcing
  <2>2. CASE Exists(w)
    <3>1. w \in Worlds
      BY <1>5 DEF Capture, DeleteInv, HoldsLock
    <3>2. /\ pc[d] = "capture" /\ pc'[d] = "intent" /\ stream' = stream
          /\ \A e \in Procs \ {d} : pc'[e] = pc[e] /\ subject'[e] = subject[e]
          /\ UNCHANGED <<store, minted, ledger, removed, published, mine>>
          /\ subject'[d].gen = store[w].gen /\ store[w].gen # 0
      BY <1>1, <1>5, <2>2 DEF Capture, Types, Exists
    <3>3. Unclosed(subject[d])'
      BY <1>1, <3>1, <3>2, Zenon DEF Unclosed, GensUnique, LedgerInv, ClosedIsGone
    <3>4. Phase(d)'
      BY <1>1, <3>2, <3>3, Zenon DEF Phase, Open, Announcing
    <3>5. LedgerTypes' /\ StreamHeld' /\ GensUnique'
      BY <1>1, <3>2, Zenon DEF LedgerTypes, StreamHeld, GensUnique
    <3> QED BY <3>2, <3>4, <3>5, QuietKeepsLedger, Zenon DEF Announcing
  <2> QED BY <2>1, <2>2
<1>6. CASE Settle(d) \/ CommitFails(d)
  <2>1. /\ pc[d] \in {"settle", "commit"} /\ pc'[d] \in {"commit", "failed"} /\ stream' = stream
        /\ \A e \in Procs : subject'[e] = subject[e]
        /\ \A e \in Procs \ {d} : pc'[e] = pc[e]
        /\ UNCHANGED <<store, minted, ledger, removed, published, mine>>
    BY <1>1, <1>6, Zenon DEF Settle, CommitFails, Types
  <2>2. Phase(d)'
    BY <1>1, <2>1, ZenonT(30) DEF Phase, Open, Announcing, Unclosed
  <2>3. LedgerTypes' /\ StreamHeld' /\ GensUnique'
    BY <1>1, <2>1, ZenonT(30) DEF LedgerTypes, StreamHeld, GensUnique
  <2> QED BY <2>1, <2>2, <2>3, QuietKeepsLedger, Zenon DEF Announcing
<1> QED BY <1>2, <1>3, <1>4, <1>5, <1>6

\* The removal: the incarnation the intent names is nowhere else, and gone for good.
LEMMA RemoveKeepsLedger ==
    ASSUME DeleteInv, LedgerInv, NEW d \in Procs, Remove(d) \/ RemoveFails(d)
    PROVE  LedgerInv'
<1> USE DEF locks
<1> DEFINE w == subject[d].world
           r == [world |-> w, gen |-> store[w].gen, seq |-> store[w].seq]
<1>1. Types /\ Phase(d) /\ LedgerTypes /\ StreamHeld /\ GensUnique /\ pc[d] = "remove"
  BY Zenon DEF DeleteInv, LedgerInv, Remove, RemoveFails
<1>2. w \in Worlds /\ store[w].gen = subject[d].gen /\ subject[d].gen # 0
  BY <1>1, Zenon DEF DeleteInv, HoldsLock, CaptureIsCurrent, Phase, Open
<1>3. r \in Subjects /\ r.gen = store[w].gen
  BY <1>1, <1>2 DEF Types, Versions, Subjects
<1> HIDE DEF r
<1>4. ASSUME store' = [store EXCEPT ![w] = Absent], removed' = removed \cup {r}, UNCHANGED minted
      PROVE  GensUnique' /\ removed' \subseteq Subjects
  <2>1. \A v \in Worlds : store'[v] = IF v = w THEN Absent ELSE store[v]
    BY <1>1, <1>4 DEF Types
  <2>2. \A v \in Worlds : store[v].gen \in Nat
    BY <1>1 DEF Types, Versions
  <2>3. \A v \in Worlds : store'[v].gen = IF v = w THEN 0 ELSE store[v].gen
    BY <2>1 DEF Absent
  <2>4. \A v \in Worlds : store'[v].gen <= minted'
    BY <1>1, <1>4, <2>2, <2>3 DEF GensUnique, Types
  <2>5. \A v, x \in Worlds : store'[v].gen = store'[x].gen /\ store'[x].gen # 0 => v = x
    BY <1>1, <2>3 DEF GensUnique
  <2>6. \A s \in removed : s.gen # 0 /\ s.gen <= minted' /\ \A v \in Worlds : store'[v].gen # s.gen
    BY <1>1, <1>4, <2>3 DEF GensUnique
  <2>7. r.gen # 0 /\ r.gen <= minted' /\ \A v \in Worlds : store'[v].gen # r.gen
    BY <1>1, <1>2, <1>3, <1>4, <2>3 DEF GensUnique
  <2>8. GensUnique'
    BY <1>4, <2>4, <2>5, <2>6, <2>7, Zenon DEF GensUnique
  <2> QED BY <1>1, <1>3, <1>4, <2>8 DEF LedgerTypes
<1>5. CASE Remove(d)
  <2>1. /\ pc'[d] = "settle"
        /\ \A e \in Procs \ {d} : pc'[e] = pc[e]
        /\ store' = [store EXCEPT ![w] = Absent] /\ removed' = removed \cup {r}
        /\ UNCHANGED <<minted, ledger, published, mine, stream, subject>>
    BY <1>1, <1>5, Zenon DEF Remove, Types, r
  <2>2. Phase(d)'
    BY <1>1, <2>1, Zenon DEF Phase, Open, Announcing, Unclosed
  <2>3. LedgerTypes' /\ StreamHeld' /\ GensUnique'
    BY <1>1, <1>4, <2>1, ZenonT(30) DEF LedgerTypes, StreamHeld
  <2> QED BY <1>1, <2>1, <2>2, <2>3, QuietKeepsLedger, Zenon DEF Announcing
<1>6. CASE RemoveFails(d)
  <2>1. /\ Release(d) /\ UNCHANGED <<minted, ledger, published, mine>>
        /\ \/ UNCHANGED <<store, removed>>
           \/ store' = [store EXCEPT ![w] = Absent] /\ removed' = removed \cup {r}
    BY <1>6, Zenon DEF RemoveFails, r
  <2>2. GensUnique' /\ removed' \subseteq Subjects /\ removed \subseteq removed'
    BY <1>1, <1>4, <2>1, Zenon DEF GensUnique, LedgerTypes
  <2>3. Phase(d)'
    BY <1>1, <2>1, ReleaseFreesStream, ZenonT(30) DEF Phase, Open, Announcing
  <2>4. LedgerTypes'
    BY <1>1, <2>1, <2>2, ReleaseFreesStream DEF LedgerTypes
  <2> QED BY <1>1, <2>1, <2>2, <2>3, <2>4, ReleaseFreesStream, QuietKeepsLedger, Zenon DEF Announcing
<1> QED BY <1>5, <1>6

\* Numbers one after the other.
Contiguous(s) == \A i \in 1..(Len(s) - 1) : s[i + 1] = s[i] + 1

\* What goes on where another sequence ended is one run with it.
LEMMA JoinContiguous ==
    ASSUME NEW p \in Seq(Nat), NEW q \in Seq(Nat), q # <<>>, Contiguous(p), Contiguous(q),
           p # <<>> => q[1] = p[Len(p)] + 1
    PROVE  /\ p \o q \in Seq(Nat) /\ p \o q # <<>>
           /\ Contiguous(p \o q)
           /\ (p \o q)[Len(p \o q)] = q[Len(q)]
<1> DEFINE c == p \o q
           m == Len(p)
           n == Len(q)
<1>1. m \in Nat /\ n \in Nat /\ n > 0
  OBVIOUS
<1>2. c \in Seq(Nat) /\ Len(c) = m + n
  OBVIOUS
<1>3. \A i \in 1..(m + n) : c[i] = IF i <= m THEN p[i] ELSE q[i - m]
  BY <1>1, <1>2
<1>4. /\ \A i \in 1..(m - 1) : p[i + 1] = p[i] + 1
      /\ \A i \in 1..(n - 1) : q[i + 1] = q[i] + 1
      /\ m > 0 => q[1] = p[m] + 1
  BY DEF Contiguous
<1> HIDE DEF c, m, n
<1>5. ASSUME NEW i \in 1..(m + n - 1) PROVE c[i + 1] = c[i] + 1
  <2>1. i \in Nat /\ i >= 1 /\ i \in 1..(m + n) /\ i + 1 \in 1..(m + n)
    BY <1>1
  <2>2. CASE i < m
    <3>1. i \in 1..(m - 1) /\ i <= m /\ i + 1 <= m
      BY <1>1, <2>1, <2>2
    <3>2. c[i] = p[i] /\ c[i + 1] = p[i + 1]
      BY <1>3, <2>1, <3>1
    <3> QED BY <1>4, <3>1, <3>2
  <2>3. CASE i = m
    <3>1. c[i] = p[m] /\ c[i + 1] = q[1]
      BY <1>1, <1>3, <2>1, <2>3
    <3> QED BY <1>1, <1>4, <2>1, <2>3, <3>1
  <2>4. CASE i > m
    <3>1. i - m \in 1..(n - 1) /\ (i + 1) - m = (i - m) + 1
      BY <1>1, <2>1, <2>4
    <3>2. c[i] = q[i - m] /\ c[i + 1] = q[(i - m) + 1]
      BY <1>1, <1>3, <2>1, <2>4, <3>1
    <3> QED BY <1>4, <3>1, <3>2
  <2> QED BY <1>1, <2>1, <2>2, <2>3, <2>4
<1>6. c[m + n] = q[n]
  <2>1. m + n \in 1..(m + n) /\ ~(m + n <= m) /\ (m + n) - m = n
    BY <1>1
  <2> QED BY <1>3, <2>1
<1>7. c # <<>>
  BY <1>1, <1>2
<1>8. Contiguous(c)
  BY <1>1, <1>2, <1>5 DEF Contiguous
<1> QED BY <1>2, <1>6, <1>7, <1>8 DEF c, n

\* A delete announces every row it appended, where the subscribers are.
LEMMA AnnounceKeepsLedger ==
    ASSUME DeleteInv, LedgerInv, NEW d \in Procs,
           AnnounceIntent(d) \/ AnnounceCommit(d) \/ AnnounceCommitFailed(d)
    PROVE  LedgerInv'
<1> USE DEF disk, locks
<1> DEFINE q == mine[d]
<1>1. Types /\ Phase(d) /\ LedgerTypes /\ StreamHeld /\ GensUnique
  BY DEF DeleteInv, LedgerInv
<1>2. /\ pc[d] \in Announcing
      /\ published' = published \o q /\ mine' = [mine EXCEPT ![d] = <<>>]
      /\ UNCHANGED <<store, minted, ledger, removed>>
      /\ \/ pc[d] = "announce intent" /\ pc' = [pc EXCEPT ![d] = "remove"] /\ UNCHANGED <<stream, subject>>
         \/ Release(d)
  BY Zenon DEF AnnounceIntent, AnnounceCommit, AnnounceCommitFailed, Publish, Announcing
<1>3. /\ \A e \in Procs \ {d} : pc'[e] = pc[e] /\ subject'[e] = subject[e] /\ mine'[e] = mine[e]
      /\ mine'[d] = <<>> /\ pc'[d] \in {"idle", "remove"}
      /\ pc'[d] = "remove" => pc[d] = "announce intent" /\ subject'[d] = subject[d]
      /\ stream' \in Procs \cup {Nobody} /\ StreamHeld'
  <2>1. CASE Release(d)
    BY <1>1, <1>2, <2>1, ReleaseFreesStream, Zenon DEF LedgerTypes
  <2>2. CASE pc[d] = "announce intent" /\ pc' = [pc EXCEPT ![d] = "remove"] /\ UNCHANGED <<stream, subject>>
    BY <1>1, <1>2, <2>2, ZenonT(30) DEF Types, LedgerTypes, StreamHeld
  <2> QED BY <1>2, <2>1, <2>2, Zenon
<1>4. /\ q \in Seq(Nat) /\ q # <<>> /\ q[Len(q)] = Len(ledger)
      /\ \A i \in 1..(Len(q) - 1) : q[i + 1] = q[i] + 1
      /\ published # <<>> => q[1] = published[Len(published)] + 1
      /\ published \in Seq(Nat)
      /\ \A i \in 1..(Len(published) - 1) : published[i + 1] = published[i] + 1
  BY <1>1, <1>2, Zenon DEF Phase, LedgerTypes, LedgerInv, InOrder
<1> HIDE DEF q
<1>5. /\ published' \in Seq(Nat) /\ published' # <<>>
      /\ Contiguous(published')
      /\ published'[Len(published')] = q[Len(q)]
  BY <1>2, <1>4, JoinContiguous, Zenon DEF Contiguous
<1>6. mine' \in [Procs -> Seq(Nat)]
  <2>1. <<>> \in Seq(Nat)
    OBVIOUS
  <2> QED BY <1>1, <1>2, <2>1, Zenon DEF LedgerTypes
<1>7. published'[Len(published')] = Len(ledger')
  BY <1>2, <1>4, <1>5, Zenon
<1>8. LedgerTypes'
  BY <1>1, <1>2, <1>3, <1>5, <1>6, ZenonT(30) DEF LedgerTypes
<1>9. GensUnique' /\ ClosedOnce(ledger)' /\ ClosedIsGone'
  BY <1>2, ZenonT(30) DEF LedgerInv, GensUnique, ClosedOnce, ClosedIsGone
<1>10. Phase(d)'
  BY <1>1, <1>2, <1>3, Zenon DEF Phase, Unclosed, Open, Announcing
<1>11. \A e \in Procs \ {d} : Phase(e)'
  <2>1. \A e \in Procs \ {d} : pc'[e] \in {"idle", "stream"} /\ mine'[e] = <<>>
    BY <1>2, <1>3, Alone, Zenon DEF Announcing
  <2> QED BY <2>1, Zenon DEF Phase, Open, Announcing
<1>12. InOrder' /\ CaughtUp'
  BY <1>5, <1>7, Zenon DEF InOrder, CaughtUp, Contiguous
<1> QED BY <1>3, <1>8, <1>9, <1>10, <1>11, <1>12, Zenon DEF LedgerInv

\* What an append does to the ledger and to what its delete has to announce.
LEMMA AppendRowEnds ==
    ASSUME Types, mine \in [Procs -> Seq(Nat)], NEW d \in Procs,
           NEW kind \in {"delete_intent"} \cup Closing, AppendRow(d, kind)
    PROVE  /\ Len(ledger') > Len(ledger) /\ ledger' # <<>>
           /\ ledger # <<>> => Len(ledger') = Len(ledger) + 1
           /\ ledger'[Len(ledger')] = [kind |-> kind, subject |-> subject[d]]
           /\ \A i \in DOMAIN ledger : i \in DOMAIN ledger' /\ ledger'[i] = ledger[i]
           /\ \A i \in DOMAIN ledger' :
                 i \in DOMAIN ledger \/ i = Len(ledger') \/ ledger'[i].kind = "format"
           /\ mine'[d] # <<>> /\ mine'[d][1] = Len(ledger) + 1
           /\ mine'[d][Len(mine'[d])] = Len(ledger')
           /\ Contiguous(mine'[d])
           /\ mine' \in [Procs -> Seq(Nat)]
           /\ \A e \in Procs \ {d} : mine'[e] = mine[e]
<1> DEFINE row == [kind |-> kind, subject |-> subject[d]]
           head == [kind |-> "format", subject |-> None]
           rows == IF ledger = <<>> THEN <<head, row>> ELSE <<row>>
           n == Len(ledger)
           new == [i \in DOMAIN rows |-> n + i]
<1>1. row \in Rows /\ head \in Rows /\ n \in Nat
  BY DeleteProtocolAssumption DEF Types, Rows, Subjects, None
<1>2. head.kind = "format"
  OBVIOUS
<1>3. ledger' = ledger \o rows /\ mine' = [mine EXCEPT ![d] = new]
  BY DEF AppendRow
<1> HIDE DEF row, head
<1>4. /\ rows \in Seq(Rows) /\ Len(rows) \in Nat /\ Len(rows) >= 1
      /\ Len(rows) = 1 \/ Len(rows) = 2
      /\ rows[Len(rows)] = row
      /\ Len(rows) = 2 => rows[1] = head
      /\ ledger # <<>> => Len(rows) = 1
  BY <1>1
<1> HIDE DEF rows
<1>5. /\ new \in Seq(Nat) /\ Len(new) = Len(rows)
      /\ \A i \in 1..Len(rows) : new[i] = n + i
  <2>1. DOMAIN rows = 1..Len(rows) /\ \A i \in 1..Len(rows) : n + i \in Nat
    BY <1>1, <1>4
  <2> QED BY <1>4, <2>1
<1> HIDE DEF new, n
<1>6. new # <<>> /\ new[1] = n + 1 /\ new[Len(new)] = n + Len(rows) /\ Contiguous(new)
  <2> DEFINE k == Len(rows)
  <2>1. k \in Nat /\ k >= 1
    BY <1>4
  <2>2. Len(new) = k /\ \A i \in 1..k : new[i] = n + i
    BY <1>5
  <2> HIDE DEF k
  <2>3. new[1] = n + 1 /\ new[k] = n + k
    BY <1>1, <2>1, <2>2
  <2>4. ASSUME NEW i \in 1..(k - 1) PROVE new[i + 1] = new[i] + 1
    <3>1. i \in 1..k /\ i + 1 \in 1..k /\ n + (i + 1) = (n + i) + 1
      BY <1>1, <2>1
    <3> QED BY <2>2, <3>1
  <2>5. new # <<>>
    BY <2>1, <2>2
  <2> QED BY <2>2, <2>3, <2>4, <2>5 DEF Contiguous, k
<1>7. /\ mine' \in [Procs -> Seq(Nat)] /\ mine'[d] = new
      /\ \A e \in Procs \ {d} : mine'[e] = mine[e]
  BY <1>3, <1>5
<1>8. ledger' \in Seq(Rows) /\ Len(ledger') = n + Len(rows)
  BY <1>3, <1>4 DEF Types, n
<1>9. \A i \in DOMAIN ledger : i \in DOMAIN ledger' /\ ledger'[i] = ledger[i]
  BY <1>3, <1>4, <1>8 DEF Types
<1>10. ledger'[Len(ledger')] = row
  <2>1. CASE Len(rows) = 1
    BY <1>1, <1>3, <1>4, <1>8, <2>1 DEF Types, n
  <2>2. CASE Len(rows) = 2
    BY <1>1, <1>3, <1>4, <1>8, <2>2 DEF Types, n
  <2> QED BY <1>4, <2>1, <2>2, Zenon
<1>11. ASSUME NEW i \in DOMAIN ledger', i \notin DOMAIN ledger, i # Len(ledger')
       PROVE  ledger'[i].kind = "format"
  <2>1. i = n + 1 /\ Len(rows) = 2
    BY <1>1, <1>4, <1>8, <1>11 DEF Types, n
  <2>2. ledger'[i] = rows[1]
    BY <1>1, <1>3, <1>4, <2>1 DEF Types, n
  <2> QED BY <1>2, <1>4, <2>1, <2>2
<1>12. Len(ledger') > Len(ledger) /\ ledger' # <<>> /\ (ledger # <<>> => Len(ledger') = Len(ledger) + 1)
  <2>1. Len(ledger') > n
    <3>1. Len(rows) \in Nat /\ Len(rows) > 0
      BY <1>4
    <3> QED BY <1>1, <1>8, <3>1
  <2>2. ledger' # <<>>
    BY <1>1, <2>1
  <2> QED BY <1>4, <1>8, <2>1, <2>2 DEF n
<1> QED
  BY <1>6, <1>7, <1>8, <1>9, <1>10, <1>11, <1>12 DEF row, n

\* An append: an intent opens, a closing row follows the intent of its delete.
LEMMA AppendKeepsLedger ==
    ASSUME DeleteInv, LedgerInv, NEW d \in Procs,
           AppendIntent(d) \/ AppendCommit(d) \/ AppendCommitFailed(d)
    PROVE  LedgerInv'
<1> USE DEF locks
<1>1. Types /\ Phase(d) /\ LedgerTypes /\ StreamHeld /\ GensUnique /\ ClosedOnce(ledger) /\ ClosedIsGone
  BY DEF DeleteInv, LedgerInv
<1>2. PICK kind \in {"delete_intent"} \cup Closing :
         /\ AppendRow(d, kind)
         /\ pc[d] \in {"intent", "commit", "failed"}
         /\ kind \in Closing <=> pc[d] # "intent"
         /\ \E to \in Announcing : pc' = [pc EXCEPT ![d] = to] /\ (to = "announce intent" <=> kind \notin Closing)
         /\ UNCHANGED <<store, minted, published, stream, subject, removed>>
  BY Zenon DEF AppendIntent, AppendCommit, AppendCommitFailed, Announcing, Closing
<1>3. /\ pc'[d] \in Announcing /\ (pc'[d] = "announce intent" <=> kind \notin Closing)
      /\ \A e \in Procs \ {d} : pc'[e] = pc[e]
  BY <1>1, <1>2, ZenonT(30) DEF Types
<1>4. \A e \in Procs \ {d} : pc[e] \in {"idle", "stream"} /\ mine[e] = <<>>
  BY <1>2, Alone, Zenon
<1>5. mine \in [Procs -> Seq(Nat)] /\ Len(ledger) \in Nat
  BY <1>1 DEF LedgerTypes, Types
<1> DEFINE n == Len(ledger)
           m == Len(ledger')
           row == [kind |-> kind, subject |-> subject[d]]
<1>6. /\ m > n /\ ledger' # <<>>
      /\ ledger # <<>> => m = n + 1
      /\ ledger'[m] = row
      /\ \A i \in DOMAIN ledger : i \in DOMAIN ledger' /\ ledger'[i] = ledger[i]
      /\ \A i \in DOMAIN ledger' : i \in DOMAIN ledger \/ i = m \/ ledger'[i].kind = "format"
      /\ mine'[d] # <<>> /\ mine'[d][1] = n + 1
      /\ mine'[d][Len(mine'[d])] = m
      /\ Contiguous(mine'[d])
      /\ mine' \in [Procs -> Seq(Nat)]
      /\ \A e \in Procs \ {d} : mine'[e] = mine[e]
  BY <1>1, <1>2, <1>5, AppendRowEnds, Zenon
<1>7. row.kind = kind /\ row.subject = subject[d]
  OBVIOUS
<1> HIDE DEF m, row
<1>8. subject[d].gen # 0 /\ Unclosed(subject[d])
  BY <1>1, <1>2, ZenonT(30) DEF Phase, Open
<1>9. kind \in Closing => ledger # <<>> /\ ledger[n] = [kind |-> "delete_intent", subject |-> subject[d]]
                          /\ subject[d] \in removed
  BY <1>1, <1>2, Zenon DEF Phase, Open, DeleteInv, Progress, Gone
<1>10. \A i \in DOMAIN ledger' : ledger'[i].kind \in Closing =>
            \/ i \in DOMAIN ledger /\ ledger'[i] = ledger[i]
            \/ i = m /\ kind \in Closing /\ ledger'[i] = row
  BY <1>6, <1>7, Zenon DEF Closing
<1>11. ClosedIsGone'
  BY <1>1, <1>2, <1>7, <1>9, <1>10, ZenonT(30) DEF ClosedIsGone
<1>12. ClosedOnce(ledger)'
  <2>1. SUFFICES ASSUME NEW i \in DOMAIN ledger', ledger'[i].kind \in Closing
                 PROVE  /\ i > 1
                        /\ ledger'[i - 1] = [kind |-> "delete_intent", subject |-> ledger'[i].subject]
                        /\ \A j \in DOMAIN ledger' : ledger'[j].kind \in Closing
                              /\ ledger'[j].subject = ledger'[i].subject => j = i
    BY Zenon DEF ClosedOnce
  <2>2. CASE i \in DOMAIN ledger /\ ledger'[i] = ledger[i]
    <3>1. i > 1 /\ ledger[i - 1] = [kind |-> "delete_intent", subject |-> ledger[i].subject]
      BY <1>1, <2>1, <2>2, Zenon DEF ClosedOnce
    <3>2. i - 1 \in DOMAIN ledger
      BY <1>1, <2>2, <3>1 DEF Types
    <3>3. ledger[i].subject # subject[d]
      BY <1>8, <2>1, <2>2, Zenon DEF Unclosed
    <3>4. ASSUME NEW j \in DOMAIN ledger', ledger'[j].kind \in Closing, ledger'[j].subject = ledger'[i].subject
          PROVE  j = i
      <4>1. j \in DOMAIN ledger /\ ledger'[j] = ledger[j]
        BY <1>7, <1>10, <2>2, <3>3, <3>4, Zenon
      <4> QED BY <1>1, <2>1, <2>2, <3>4, <4>1, ZenonT(30) DEF ClosedOnce
    <3> QED BY <1>6, <2>2, <3>1, <3>2, <3>4, Zenon
  <2>3. CASE i = m /\ kind \in Closing /\ ledger'[i] = row
    <3>1. m = n + 1 /\ n > 0 /\ n \in DOMAIN ledger
      BY <1>1, <1>5, <1>6, <1>9, <2>3 DEF Types
    <3>2. i > 1 /\ i - 1 = n /\ ledger'[n] = ledger[n]
      BY <1>5, <1>6, <2>3, <3>1
    <3>3. ASSUME NEW j \in DOMAIN ledger', ledger'[j].kind \in Closing, ledger'[j].subject = ledger'[i].subject
          PROVE  j = i
      BY <1>7, <1>8, <1>10, <2>3, <3>3 DEF Unclosed
    <3> QED BY <1>7, <1>9, <2>3, <3>2, <3>3, Zenon
  <2> QED BY <1>10, <2>1, <2>2, <2>3, Zenon
<1>13. InOrder' /\ LedgerTypes' /\ StreamHeld' /\ GensUnique'
  <2>1. InOrder'
    BY <1>2, ZenonT(30) DEF LedgerInv, InOrder
  <2>2. LedgerTypes' /\ GensUnique'
    BY <1>1, <1>2, <1>6, ZenonT(30) DEF LedgerTypes, GensUnique
  <2>3. StreamHeld'
    BY <1>1, <1>2, <1>3, <1>4, Zenon DEF StreamHeld
  <2> QED BY <2>1, <2>2, <2>3
<1>14. CaughtUp'
  BY <1>3, ZenonT(30) DEF CaughtUp
<1>15. Phase(d)'
  <2>1. pc'[d] \in Open \cup {"intent"} => pc'[d] = "announce intent" /\ kind \notin Closing
    BY <1>3, ZenonT(30) DEF Open, Announcing
  <2>2. kind \notin Closing => Unclosed(subject[d])'
    BY <1>2, <1>8, <1>10, ZenonT(30) DEF Unclosed
  <2>3. kind \notin Closing => ledger'[m] = [kind |-> "delete_intent", subject |-> subject[d]]
    BY <1>6 DEF row
  <2>4. published # <<>> => published[Len(published)] = n
    <3>1. \A e \in Procs : pc[e] \notin Announcing
      BY <1>2, <1>4, ZenonT(30) DEF Announcing
    <3> QED BY <3>1 DEF LedgerInv, CaughtUp
  <2>5. /\ pc'[d] \in Open \cup {"intent"} => subject'[d].gen # 0 /\ Unclosed(subject[d])'
        /\ pc'[d] \in Open => ledger' # <<>>
             /\ ledger'[Len(ledger')] = [kind |-> "delete_intent", subject |-> subject'[d]]
    BY <1>2, <1>6, <1>8, <2>1, <2>2, <2>3, ZenonT(30) DEF m
  <2>6. /\ mine'[d] # <<>> /\ mine'[d][Len(mine'[d])] = Len(ledger')
        /\ \A i \in 1..(Len(mine'[d]) - 1) : mine'[d][i + 1] = mine'[d][i] + 1
        /\ published' # <<>> => mine'[d][1] = published'[Len(published')] + 1
    BY <1>2, <1>6, <2>4, ZenonT(30) DEF m, Contiguous
  <2> QED BY <1>3, <2>5, <2>6, Zenon DEF Phase
<1>16. \A e \in Procs \ {d} : Phase(e)'
  BY <1>3, <1>4, <1>6, Zenon DEF Phase, Open, Announcing
<1> QED BY <1>11, <1>12, <1>13, <1>14, <1>15, <1>16 DEF LedgerInv

\* Every step of the protocol keeps the ledger and its subscribers together.
LEMMA NextLedger == DeleteInv /\ LedgerInv /\ [Next]_vars => LedgerInv'
<1> SUFFICES ASSUME DeleteInv, LedgerInv, [Next]_vars PROVE LedgerInv'
  OBVIOUS
<1>1. CASE UNCHANGED vars
  BY <1>1, Zenon DEF vars, LedgerInv, LedgerTypes, StreamHeld, GensUnique, ClosedOnce, ClosedIsGone, Phase,
              Unclosed, InOrder, CaughtUp
<1>2. CASE Crash \/ Start
  BY <1>2, LifecycleKeepsLedger
<1>3. CASE \E w \in Worlds : Write(w)
  BY <1>3, WriteKeepsLedger
<1>4. ASSUME NEW d \in Procs,
             (\E w \in Worlds : TakeWorldLock(d, w)) \/ TakeStreamLock(d) \/ Cancel(d) \/ Body(d)
      PROVE  LedgerInv'
  BY <1>4, LockStepsKeepLedger, AppendKeepsLedger, AnnounceKeepsLedger, RemoveKeepsLedger DEF Body
<1> QED
  BY <1>1, <1>2, <1>3, <1>4 DEF Next

\* What delete_ledger_stream_lock is for (delete_ops.rs, ledger.rs): however
\* deletes, writes, faults and crashes interleave, a closing row follows its own
\* intent directly, closes something that is gone, and closes it once; and the
\* subscribers see the ledger's rows in order, without a gap, up to its end.
THEOREM LedgerIsCoherentAlways == Spec => []LedgerIsCoherent
<1>1. ASSUME LedgerInv PROVE LedgerIsCoherent
  <2>1. (\A d \in Procs : mine[d] = <<>>) => \A d \in Procs : pc[d] \notin Announcing
    BY <1>1, Zenon DEF LedgerInv, Phase
  <2>2. published # <<>> /\ (\A d \in Procs : mine[d] = <<>>) => published[Len(published)] = Len(ledger)
    BY <1>1, <2>1 DEF LedgerInv, CaughtUp
  <2> QED
    BY <1>1, <2>2, Zenon DEF LedgerInv, ClosedOnce, ClosedIsGone, InOrder, LedgerIsCoherent
<1>2. Init => DeleteInv /\ LedgerInv
  BY InitInv, InitLedger
<1>3. DeleteInv /\ LedgerInv /\ [Next]_vars => DeleteInv' /\ LedgerInv'
  BY NextInv, NextLedger
<1> QED
  BY <1>1, <1>2, <1>3, PTL DEF Spec
=============================================================================
