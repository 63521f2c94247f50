-------------------------- MODULE FileOpGateProofs --------------------------
(***************************************************************************)
(* Proofs about FileOpGate for any finite set of workers and any set of    *)
(* closers and handles.  GateClosed and HandlesClosed are not inductive:   *)
(* they need the counter to be exact (so that active = 0 means no permit), *)
(* the mutex to be exclusive (so that nobody is between the second look at *)
(* the flag and the increment while a closer tests the counter), and the   *)
(* flag to be up from the moment a closer starts.                          *)
(***************************************************************************)
EXTENDS FileOpGate, FiniteSetTheorems, TLAPS

\* A closer that has started has raised the flag.
FlagUp == \A c \in Closers : cpc[c] # "idle" => shuttingDown

\* What a draining closer has still to close includes everything open.
DrainCovers == \A c \in Closers : cpc[c] = "drain" => open \subseteq todo[c]

\* The watch channel is set by a closer that is past the gate.
SignalledByCloser == signal => \E c \in Closers : cpc[c] = "done"

GateInv ==
    /\ TypeOK /\ ActiveCountsPermits /\ MutexHolder /\ FlagUp
    /\ GateClosed /\ DrainCovers /\ SignalledByCloser /\ HandlesClosed

\* A new permit raises the number of permits by one, a dropped one lowers it.
LEMMA PermitCounted ==
    ASSUME NEW S \in SUBSET Workers, NEW w \in Workers
    PROVE  /\ IsFiniteSet(S) /\ Cardinality(S) \in Nat
           /\ Cardinality(S) = 0 <=> S = {}
           /\ w \notin S => Cardinality(S \cup {w}) = Cardinality(S) + 1
           /\ w \in S => Cardinality(S \ {w}) = Cardinality(S) - 1
  <1>1. IsFiniteSet(S)
    BY FileOpGateAssumption, FS_Subset
  <1> QED
    BY <1>1, FS_CardinalityType, FS_EmptySet, FS_AddElement, FS_RemoveElement, Zenon

\* A fresh gate (FileOpGate::new) satisfies the inductive invariant: nothing
\* counted, nobody holding the mutex, no handle open.
LEMMA InitInv == Init => GateInv
  <1> SUFFICES ASSUME Init PROVE GateInv
    OBVIOUS
  <1>1. TypeOK
    <2>1. shuttingDown \in BOOLEAN /\ signal \in BOOLEAN
      BY Zenon DEF Init
    <2>2. wpc \in [Workers -> WorkerStates] /\ cpc \in [Closers -> CloserStates]
      BY DEF Init, WorkerStates, CloserStates
    <2>3. active \in Nat /\ spurious \in 0..MaxSpurious
      BY FileOpGateAssumption DEF Init
    <2>4. /\ mutex \in Workers \cup Closers \cup {Nobody}
          /\ waiting \in SUBSET Closers /\ open \in SUBSET Handles
          /\ todo \in [Closers -> SUBSET Handles]
      BY DEF Init
    <2> QED
      BY <2>1, <2>2, <2>3, <2>4 DEF TypeOK
  <1>2. Permits = {}
    BY DEF Init, Permits
  <1>3. ActiveCountsPermits
    BY <1>2, FS_EmptySet DEF Init, ActiveCountsPermits
  <1>4. MutexHolder /\ FlagUp /\ GateClosed /\ DrainCovers /\ SignalledByCloser /\ HandlesClosed
    BY FileOpGateAssumption DEF Init, MutexHolder, FlagUp, GateClosed, Past, DrainCovers,
       SignalledByCloser, HandlesClosed
  <1> QED
    BY <1>1, <1>3, <1>4 DEF GateInv

\* The types are preserved by every step.
LEMMA TypeStep == TypeOK /\ [Next]_vars => TypeOK'
  <1> SUFFICES ASSUME TypeOK, [Next]_vars PROVE TypeOK'
    OBVIOUS
  <1> USE FileOpGateAssumption DEF TypeOK, WorkerStates, CloserStates
  <1>1. ASSUME NEW w \in Workers, WorkerStep(w) PROVE TypeOK'
    <2>1. CASE BeginCheck(w) BY <2>1 DEF BeginCheck
    <2>2. CASE BeginLock(w) BY <2>2 DEF BeginLock
    <2>3. CASE BeginRecheck(w) BY <2>3 DEF BeginRecheck
    <2>4. CASE BeginCount(w) BY <2>4 DEF BeginCount
    <2>5. CASE DropLock(w) BY <2>5 DEF DropLock
    <2>6. CASE DropPermit(w) BY <2>6 DEF DropPermit
    <2>7. CASE \E h \in Handles : OpenHandle(w, h) BY <2>7 DEF OpenHandle
    <2>8. CASE \E h \in Handles : EvictHandle(w, h) BY <2>8 DEF EvictHandle
    <2> QED BY <1>1, <2>1, <2>2, <2>3, <2>4, <2>5, <2>6, <2>7, <2>8 DEF WorkerStep
  <1>2. ASSUME NEW c \in Closers, CloserStep(c) PROVE TypeOK'
    <2>1. CASE CloseStore(c) BY <2>1 DEF CloseStore
    <2>2. CASE CloseLock(c) BY <2>2 DEF CloseLock
    <2>3. CASE CloseTest(c) BY <2>3 DEF CloseTest
    <2>4. CASE SpuriousWake(c) BY <2>4 DEF SpuriousWake
    <2>5. CASE CollectHandles(c) BY <2>5 DEF CollectHandles
    <2>6. CASE CloseHandle(c) BY <2>6 DEF CloseHandle
    <2>7. CASE SignalShutdown(c) BY <2>7 DEF SignalShutdown
    <2> QED BY <1>2, <2>1, <2>2, <2>3, <2>4, <2>5, <2>6, <2>7 DEF CloserStep
  <1>3. CASE UNCHANGED vars BY <1>3 DEF vars
  <1> QED BY <1>1, <1>2, <1>3 DEF Next

\* A worker's step keeps the invariant: only BeginCount adds a permit, and it
\* holds the mutex, so no closer can be past the gate.
LEMMA WorkerStepInv ==
    ASSUME GateInv, TypeOK', NEW w \in Workers, WorkerStep(w)
    PROVE  GateInv'
  <1> USE FileOpGateAssumption DEF GateInv, TypeOK
  <1>p. Permits \in SUBSET Workers BY DEF Permits
  <1>1. CASE BeginCheck(w)
    <2>1. Permits' = Permits BY <1>1 DEF BeginCheck, Permits
    <2> QED BY <1>1, <2>1 DEF BeginCheck, ActiveCountsPermits, MutexHolder, FlagUp, GateClosed,
        Past, DrainCovers, SignalledByCloser, HandlesClosed
  <1>2. CASE BeginLock(w)
    <2>1. Permits' = Permits BY <1>2 DEF BeginLock, Permits
    <2> QED BY <1>2, <2>1 DEF BeginLock, ActiveCountsPermits, MutexHolder, FlagUp, GateClosed,
        Past, DrainCovers, SignalledByCloser, HandlesClosed
  <1>3. CASE BeginRecheck(w)
    <2>1. Permits' = Permits BY <1>3 DEF BeginRecheck, Permits
    <2>2. MutexHolder' BY <1>3 DEF BeginRecheck, MutexHolder
    <2>3. GateClosed' BY <1>3, <2>1 DEF BeginRecheck, GateClosed, Past, FlagUp
    <2> QED BY <1>3, <2>1, <2>2, <2>3 DEF BeginRecheck, ActiveCountsPermits, FlagUp,
        DrainCovers, SignalledByCloser, HandlesClosed
  <1>4. CASE BeginCount(w)
    <2>1. Permits' = Permits \cup {w} /\ w \notin Permits BY <1>4 DEF BeginCount, Permits
    <2>2. ActiveCountsPermits' BY <1>4, <1>p, <2>1, PermitCounted DEF BeginCount, ActiveCountsPermits
    <2>3. MutexHolder' BY <1>4 DEF BeginCount, MutexHolder
    <2>4. \A c \in Closers : ~Past(c) BY <1>4 DEF BeginCount, GateClosed
    <2>5. GateClosed' BY <1>4, <2>4 DEF BeginCount, GateClosed, Past
    <2> QED BY <1>4, <2>2, <2>3, <2>5 DEF BeginCount, FlagUp, DrainCovers, SignalledByCloser,
        HandlesClosed
  <1>5. CASE DropLock(w)
    <2>1. Permits' = Permits BY <1>5 DEF DropLock, Permits
    <2> QED BY <1>5, <2>1 DEF DropLock, ActiveCountsPermits, MutexHolder, FlagUp, GateClosed,
        Past, DrainCovers, SignalledByCloser, HandlesClosed
  <1>6. CASE DropPermit(w)
    <2>1. Permits' = Permits \ {w} /\ w \in Permits BY <1>6 DEF DropPermit, Permits
    <2>2. ActiveCountsPermits'
      <3>1. active # 0 /\ active' = active - 1
        BY <1>6, <1>p, <2>1, PermitCounted, Zenon DEF DropPermit, ActiveCountsPermits
      <3> QED BY <3>1, <1>p, <2>1, PermitCounted DEF ActiveCountsPermits
    <2>3. MutexHolder' BY <1>6 DEF DropPermit, MutexHolder
    <2>4. GateClosed' BY <1>6, <2>1 DEF DropPermit, GateClosed, Past
    <2> QED BY <1>6, <2>2, <2>3, <2>4 DEF DropPermit, FlagUp, DrainCovers, SignalledByCloser,
        HandlesClosed
  <1>7. CASE \E h \in Handles : OpenHandle(w, h) \/ EvictHandle(w, h)
    <2>1. PICK h \in Handles : OpenHandle(w, h) \/ EvictHandle(w, h) BY <1>7
    <2>2. w \in Permits BY <2>1 DEF OpenHandle, EvictHandle, Permits
    <2>3. \A c \in Closers : ~Past(c) BY <2>2 DEF GateClosed
    <2>4. UNCHANGED <<shuttingDown, active, mutex, signal, wpc, cpc>>
      BY <2>1 DEF OpenHandle, EvictHandle
    <2>5. Permits' = Permits BY <2>4 DEF Permits
    <2> QED BY <2>3, <2>4, <2>5 DEF ActiveCountsPermits, MutexHolder, FlagUp, GateClosed, Past,
        DrainCovers, SignalledByCloser, HandlesClosed
  <1> QED BY <1>1, <1>2, <1>3, <1>4, <1>5, <1>6, <1>7 DEF WorkerStep

\* A closer's step keeps the invariant: it passes the gate holding the mutex,
\* with the counter at zero and therefore no permit anywhere.
LEMMA CloserStepInv ==
    ASSUME GateInv, TypeOK', NEW c \in Closers, CloserStep(c)
    PROVE  GateInv'
  <1> USE FileOpGateAssumption DEF GateInv, TypeOK
  <1>p. Permits \in SUBSET Workers BY DEF Permits
  <1>w. wpc' = wpc /\ active' = active /\ Permits' = Permits
    BY DEF CloserStep, CloseStore, CloseLock, CloseTest, SpuriousWake, CollectHandles, CloseHandle,
       SignalShutdown, Permits
  <1>a. ActiveCountsPermits' BY <1>w DEF ActiveCountsPermits
  <1>1. CASE CloseStore(c)
    BY <1>1, <1>w, <1>a DEF CloseStore, MutexHolder, FlagUp, GateClosed, Past, DrainCovers,
       SignalledByCloser, HandlesClosed
  <1>2. CASE CloseLock(c)
    BY <1>2, <1>w, <1>a DEF CloseLock, MutexHolder, FlagUp, GateClosed, Past, DrainCovers,
       SignalledByCloser, HandlesClosed
  <1>3. CASE CloseTest(c)
    <2>1. \A w \in Workers : wpc[w] # "count" BY <1>3 DEF CloseTest, MutexHolder
    <2>2. MutexHolder' BY <1>3, <1>w DEF CloseTest, MutexHolder
    <2>3. GateClosed'
      <3>1. CASE active = 0
        <4>1. Permits = {}
          <5>1. CASE Workers = {} BY <5>1, <1>p
          <5>2. CASE Workers # {}
            <6>1. PICK w \in Workers : TRUE BY <5>2
            <6> QED BY <6>1, <3>1, <1>p, PermitCounted, Zenon DEF ActiveCountsPermits
          <5> QED BY <5>1, <5>2
        <4> QED BY <4>1, <2>1, <1>w DEF GateClosed
      <3>2. CASE active # 0 BY <3>2, <1>3, <1>w DEF CloseTest, GateClosed, Past
      <3> QED BY <3>1, <3>2
    <2> QED BY <1>3, <1>w, <1>a, <2>2, <2>3 DEF CloseTest, FlagUp, DrainCovers, SignalledByCloser,
        HandlesClosed
  <1>4. CASE SpuriousWake(c)
    BY <1>4, <1>w, <1>a DEF SpuriousWake, MutexHolder, FlagUp, GateClosed, Past, DrainCovers,
       SignalledByCloser, HandlesClosed
  <1>5. CASE CollectHandles(c)
    BY <1>5, <1>w, <1>a DEF CollectHandles, MutexHolder, FlagUp, GateClosed, Past, DrainCovers,
       SignalledByCloser, HandlesClosed
  <1>6. CASE CloseHandle(c)
    <2>1. PICK h \in todo[c] : open' = open \ {h} /\ todo' = [todo EXCEPT ![c] = @ \ {h}]
      BY <1>6, Zenon DEF CloseHandle
    <2>2. DrainCovers' BY <1>6, <2>1 DEF CloseHandle, DrainCovers
    <2> QED BY <1>6, <1>w, <1>a, <2>1, <2>2 DEF CloseHandle, MutexHolder, FlagUp, GateClosed, Past,
        SignalledByCloser, HandlesClosed
  <1>7. CASE SignalShutdown(c)
    BY <1>7, <1>w, <1>a DEF SignalShutdown, MutexHolder, FlagUp, GateClosed, Past, DrainCovers,
       SignalledByCloser, HandlesClosed
  <1> QED BY <1>1, <1>2, <1>3, <1>4, <1>5, <1>6, <1>7 DEF CloserStep

\* Every step of the system keeps the invariant.
LEMMA NextInv == GateInv /\ [Next]_vars => GateInv'
  <1> SUFFICES ASSUME GateInv, [Next]_vars PROVE GateInv'
    OBVIOUS
  <1>1. TypeOK' BY TypeStep DEF GateInv
  <1>2. CASE UNCHANGED vars
    BY <1>1, <1>2 DEF vars, GateInv, ActiveCountsPermits, Permits, MutexHolder, FlagUp, GateClosed,
       Past, DrainCovers, SignalledByCloser, HandlesClosed
  <1> QED BY <1>1, <1>2, WorkerStepInv, CloserStepInv DEF Next

\* The variables of the gate keep their types; `active` never goes below zero.
THEOREM TypeCorrect == Spec => []TypeOK
  <1>1. Init => TypeOK BY InitInv DEF GateInv
  <1> QED BY <1>1, TypeStep, PTL DEF Spec

\* The whole inductive invariant holds.
THEOREM GateInvariant == Spec => []GateInv
  BY InitInv, NextInv, PTL DEF Spec

\* `active` counts the permits exactly, for any number of threads.
THEOREM CounterExact == Spec => []ActiveCountsPermits
  <1>1. GateInv => ActiveCountsPermits BY DEF GateInv
  <1> QED BY <1>1, GateInvariant, PTL

\* shutdown_and_wait returns only when no permit is left, and no permit is
\* handed out afterwards, whatever begin() calls raced it.
THEOREM NoPermitPastGate == Spec => []GateClosed
  <1>1. GateInv => GateClosed BY DEF GateInv
  <1> QED BY <1>1, GateInvariant, PTL

\* Subscribers told of the shutdown, and callers it has returned to, find
\* every cached SQLite handle closed, for good.
THEOREM ShutdownClosesHandles == Spec => []HandlesClosed
  <1>1. GateInv => HandlesClosed BY DEF GateInv
  <1> QED BY <1>1, GateInvariant, PTL
=============================================================================
