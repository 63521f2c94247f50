-------------------------- MODULE WorldLocksProofs --------------------------
(***************************************************************************)
(* Proofs about WorldLocks for any sets of requests, worlds and mutexes    *)
(* and any sweep interval.  Exclusion is not inductive: it needs that all  *)
(* strong handles for a world are handles of the one mutex the table names *)
(* (OneMutexPerWorld), which in turn needs that a request owns a handle    *)
(* exactly from world_lock_handle to the drop of its guard (HandleHeld),   *)
(* and that the mutex admits its owner only (OwnerInside).                 *)
(***************************************************************************)
EXTENDS WorldLocks, TLAPS

\* A request owns a handle, and has a world, exactly while its pc says so.
HandleHeld ==
    \A p \in Procs :
      /\ handle[p] # NoLock <=> pc[p] \in {"wait", "held", "drop"}
      /\ want[p] = NoWorld <=> pc[p] = "idle"

\* The request inside a mutex is the one the mutex is locked by.
OwnerInside ==
    /\ \A p \in Procs : pc[p] = "held" => owner[handle[p]] = p
    /\ \A l \in Locks : owner[l] # Nobody => pc[owner[l]] = "held" /\ handle[owner[l]] = l

LockInv == TypeOK /\ HandleHeld /\ OneMutexPerWorld /\ OwnerInside

\* Initially nobody owns or waits for anything.
LEMMA InitInv == Init => LockInv
  <1> SUFFICES ASSUME Init PROVE LockInv
    OBVIOUS
  <1>1. TypeOK
    BY WorldLocksAssumption DEF Init, TypeOK, States
  <1>2. HandleHeld
    BY Zenon DEF Init, HandleHeld
  <1>3. OneMutexPerWorld
    BY DEF Init, OneMutexPerWorld
  <1>4. OwnerInside
    BY DEF Init, OwnerInside
  <1> QED
    BY <1>1, <1>2, <1>3, <1>4 DEF LockInv

\* The sweep counter stays below the interval.
LEMMA TickType ==
    ASSUME tick \in 0..(SweepInterval - 1)
    PROVE  (tick + 1) % SweepInterval \in 0..(SweepInterval - 1)
  BY WorldLocksAssumption

\* Each step of a request keeps the types.
LEMMA StepType == ASSUME LockInv, NEW p \in Procs, Step(p) PROVE TypeOK'
  <1> USE DEF LockInv
  <1>1. CASE \E w \in Worlds : Request(p, w)
    BY <1>1, TickType DEF Request, TypeOK, States
  <1>2. CASE \E w \in Worlds : SweepEntry(p, w)
    BY <1>2 DEF SweepEntry, TypeOK, States
  <1>3. CASE \E l \in Locks : Insert(p, l)
    <2> PICK l \in Locks : Insert(p, l)
      BY <1>3
    <2>1. /\ table' \in [Worlds -> Locks \cup {NoLock}]
          /\ owner' \in [Locks -> Procs \cup {Nobody}]
          /\ handle' \in [Procs -> Locks \cup {NoLock}]
      BY Zenon DEF Insert, TypeOK
    <2> QED
      BY <2>1 DEF Insert, TypeOK, States
  <1>4. CASE SweepDone(p)
    BY <1>4 DEF SweepDone, TypeOK, States
  <1>5. CASE Upgrade(p)
    <2>1. want[p] \in Worlds
      BY <1>5 DEF Upgrade, TypeOK, HandleHeld
    <2> QED
      BY <1>5, <2>1 DEF Upgrade, TypeOK, States
  <1>6. CASE Lock(p)
    BY <1>6, Zenon DEF Lock, TypeOK, States
  <1>7. CASE Cancel(p)
    BY <1>7 DEF Cancel, TypeOK, States
  <1>8. CASE Unlock(p)
    BY <1>8, Zenon DEF Unlock, TypeOK, States
  <1>9. CASE DropHandle(p)
    BY <1>9 DEF DropHandle, TypeOK, States
  <1> QED
    BY <1>1, <1>2, <1>3, <1>4, <1>5, <1>6, <1>7, <1>8, <1>9 DEF Step

\* Each step of a request keeps the rest of the invariant.
LEMMA StepInv == ASSUME LockInv, NEW p \in Procs, Step(p) PROVE LockInv'
  <1>0. TypeOK'
    BY StepType
  <1> USE DEF LockInv, TypeOK, States
  <1>1. CASE \E w \in Worlds : Request(p, w)
    <2> PICK w \in Worlds : Request(p, w)
      BY <1>1
    <2>1. HandleHeld'
      BY WorldLocksAssumption DEF Request, HandleHeld
    <2>2. OneMutexPerWorld'
      BY DEF Request, HandleHeld, OneMutexPerWorld
    <2>3. OwnerInside'
      BY WorldLocksAssumption DEF Request, HandleHeld, OwnerInside
    <2> QED
      BY <1>0, <2>1, <2>2, <2>3
  <1>2. CASE \E w \in Worlds : SweepEntry(p, w)
    <2> PICK w \in Worlds : SweepEntry(p, w)
      BY <1>2
    <2>1. HandleHeld' /\ OwnerInside'
      BY DEF SweepEntry, HandleHeld, OwnerInside
    <2>2. OneMutexPerWorld'
      BY DEF SweepEntry, Strong, HandleHeld, OneMutexPerWorld
    <2> QED
      BY <1>0, <2>1, <2>2
  <1>3. CASE \E l \in Locks : Insert(p, l)
    <2> PICK l \in Locks : Insert(p, l)
      BY <1>3
    <2>1. want[p] \in Worlds /\ handle[p] = NoLock
      BY DEF Insert, HandleHeld
    <2>2. \A q \in Procs : handle[q] # NoLock => want[q] # want[p] /\ handle[q] # l
      BY <2>1 DEF Insert, Fresh, Strong, OneMutexPerWorld
    <2>3. HandleHeld'
      BY <2>1, WorldLocksAssumption DEF Insert, HandleHeld
    <2>4. OneMutexPerWorld'
      BY <2>1, <2>2, WorldLocksAssumption DEF Insert, Fresh, OneMutexPerWorld
    <2>5. OwnerInside'
      BY <2>1, <2>2, WorldLocksAssumption DEF Insert, HandleHeld, OwnerInside
    <2> QED
      BY <1>0, <2>3, <2>4, <2>5
  <1>4. CASE SweepDone(p)
    BY <1>0, <1>4 DEF SweepDone, HandleHeld, OneMutexPerWorld, OwnerInside
  <1>5. CASE Upgrade(p)
    <2>1. want[p] \in Worlds /\ handle[p] = NoLock /\ table[want[p]] \in Locks
      BY <1>5 DEF Upgrade, HandleHeld
    <2>2. HandleHeld'
      BY <1>5, <2>1, WorldLocksAssumption DEF Upgrade, HandleHeld
    <2>3. OneMutexPerWorld'
      BY <1>5, <2>1 DEF Upgrade, OneMutexPerWorld
    <2>4. OwnerInside'
      BY <1>5, <2>1, WorldLocksAssumption DEF Upgrade, HandleHeld, OwnerInside
    <2> QED
      BY <1>0, <2>2, <2>3, <2>4
  <1>6. CASE Lock(p)
    <2>1. handle[p] \in Locks
      BY <1>6 DEF Lock, HandleHeld
    <2>2. HandleHeld' /\ OneMutexPerWorld'
      BY <1>6 DEF Lock, HandleHeld, OneMutexPerWorld
    <2>3. OwnerInside'
      BY <1>6, <2>1, WorldLocksAssumption DEF Lock, HandleHeld, OwnerInside
    <2> QED
      BY <1>0, <2>2, <2>3
  <1>7. CASE Cancel(p)
    <2>1. HandleHeld' /\ OneMutexPerWorld'
      BY <1>7, WorldLocksAssumption DEF Cancel, HandleHeld, OneMutexPerWorld
    <2>2. OwnerInside'
      BY <1>7, WorldLocksAssumption DEF Cancel, HandleHeld, OwnerInside
    <2> QED
      BY <1>0, <2>1, <2>2
  <1>8. CASE Unlock(p)
    <2>1. handle[p] \in Locks /\ owner[handle[p]] = p
      BY <1>8 DEF Unlock, HandleHeld, OwnerInside
    <2>2. HandleHeld' /\ OneMutexPerWorld'
      BY <1>8 DEF Unlock, HandleHeld, OneMutexPerWorld
    <2>3. OwnerInside'
      BY <1>8, <2>1, WorldLocksAssumption DEF Unlock, HandleHeld, OwnerInside
    <2> QED
      BY <1>0, <2>2, <2>3
  <1>9. CASE DropHandle(p)
    <2>1. HandleHeld' /\ OneMutexPerWorld'
      BY <1>9, WorldLocksAssumption DEF DropHandle, HandleHeld, OneMutexPerWorld
    <2>2. OwnerInside'
      BY <1>9, WorldLocksAssumption DEF DropHandle, HandleHeld, OwnerInside
    <2> QED
      BY <1>0, <2>1, <2>2
  <1> QED
    BY <1>1, <1>2, <1>3, <1>4, <1>5, <1>6, <1>7, <1>8, <1>9 DEF Step

\* The invariant is inductive.
LEMMA NextInv == LockInv /\ [Next]_vars => LockInv'
  <1>1. CASE LockInv /\ Next
    BY <1>1, StepInv DEF Next
  <1>2. CASE LockInv /\ UNCHANGED vars
    BY <1>2 DEF LockInv, vars, TypeOK, HandleHeld, OneMutexPerWorld, OwnerInside
  <1> QED
    BY <1>1, <1>2

\* The invariant implies exclusion: two requests inside for one world would
\* own the same mutex.
LEMMA InvExclusion == LockInv => Exclusion
  BY DEF LockInv, TypeOK, HandleHeld, OneMutexPerWorld, OwnerInside, Exclusion

\* Every variable keeps its type (the table and requests of acquire_world_lock).
THEOREM TypeCorrect == Spec => []TypeOK
  <1>1. LockInv => TypeOK
    BY DEF LockInv
  <1> QED
    BY InitInv, NextInv, <1>1, PTL DEF Spec

\* Pruning expired Weak entries never splits a world across two mutexes.
THEOREM SweepNeverSplits == Spec => []OneMutexPerWorld
  <1>1. LockInv => OneMutexPerWorld
    BY DEF LockInv
  <1> QED
    BY InitInv, NextInv, <1>1, PTL DEF Spec

\* acquire_world_lock serialises the writes and deletes of a world.
THEOREM WorldExclusion == Spec => []Exclusion
  BY InitInv, NextInv, InvExclusion, PTL DEF Spec
-----------------------------------------------------------------------------
(* Refinement                                                              *)

Inside == {p \in Procs : pc[p] = "held"}

\* A step of the lock table is a step of the promised mutex, or invisible.
LEMMA StepRefines ==
    ASSUME LockInv, NEW p \in Procs, Step(p)
    PROVE  Mutex!Next \/ UNCHANGED Mutex!vars
  <1> USE DEF LockInv, TypeOK, States
  <1>1. CASE \E w \in Worlds : Request(p, w)
    <2> PICK w \in Worlds : Request(p, w)
      BY <1>1
    <2>1. Inside' = Inside
      BY DEF Request, Inside
    <2>2. Mutex!Request(p, w)
      BY <2>1 DEF Request, Inside, HandleHeld, Mutex!Request
    <2> QED
      BY <2>2 DEF Mutex!Next
  <1>2. CASE Lock(p)
    <2>1. Inside' = Inside \cup {p}
      BY <1>2 DEF Lock, Inside
    <2>2. \A q \in Inside : want[q] # want[p]
      BY <1>2, WorldLocksAssumption DEF Lock, Inside, HandleHeld, OneMutexPerWorld, OwnerInside
    <2>3. Mutex!Enter(p)
      BY <1>2, <2>1, <2>2 DEF Lock, Inside, HandleHeld, Mutex!Enter
    <2> QED
      BY <2>3 DEF Mutex!Next
  <1>3. CASE Unlock(p)
    <2>1. Inside' = Inside \ {p} /\ p \in Inside
      BY <1>3 DEF Unlock, Inside
    <2>2. Mutex!Leave(p)
      BY <1>3, <2>1 DEF Unlock, Inside, Mutex!Leave
    <2> QED
      BY <2>2 DEF Mutex!Next
  <1>4. CASE Cancel(p) \/ DropHandle(p)
    <2>1. Inside' = Inside /\ p \notin Inside
      BY <1>4 DEF Cancel, DropHandle, Inside
    <2>2. Mutex!Forget(p)
      BY <1>4, <2>1 DEF Cancel, DropHandle, Inside, HandleHeld, Mutex!Forget
    <2> QED
      BY <2>2 DEF Mutex!Next
  <1>5. CASE \/ \E w \in Worlds : SweepEntry(p, w)
             \/ \E l \in Locks : Insert(p, l)
             \/ SweepDone(p) \/ Upgrade(p)
    <2>1. Inside' = Inside /\ want' = want
      BY <1>5 DEF SweepEntry, Insert, SweepDone, Upgrade, Inside
    <2> QED
      BY <2>1 DEF Inside, Mutex!vars
  <1> QED
    BY <1>1, <1>2, <1>3, <1>4, <1>5 DEF Step

\* The lock table implements one mutex per world.
THEOREM TableImplementsMutex == Spec => Implements
  <1>1. Init => Mutex!Init
    BY DEF Init, Mutex!Init
  <1>2. LockInv /\ [Next]_vars => [Mutex!Next]_(Mutex!vars)
    <2>1. CASE LockInv /\ Next
      BY <2>1, StepRefines DEF Next
    <2>2. CASE UNCHANGED vars
      BY <2>2 DEF vars, Mutex!vars
    <2> QED
      BY <2>1, <2>2
  <1> QED
    BY InitInv, NextInv, <1>1, <1>2, PTL DEF Spec, Implements, Mutex!Spec
=============================================================================
