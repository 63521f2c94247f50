----------------------------- MODULE WorldMutex -----------------------------
(***************************************************************************)
(* What acquire_world_lock promises its callers: a request names a world,  *)
(* and at most one request per world is inside at any time.  A request     *)
(* that still waits may be cancelled.  WorldLocks implements this.         *)
(***************************************************************************)
CONSTANTS Procs, Worlds, NoWorld

VARIABLES
    want,    \* the world each request is for
    inside   \* the requests that hold their world

vars == <<want, inside>>

Init ==
    /\ want = [p \in Procs |-> NoWorld]
    /\ inside = {}

Request(p, w) ==
    /\ want[p] = NoWorld
    /\ want' = [want EXCEPT ![p] = w]
    /\ UNCHANGED inside

Enter(p) ==
    /\ want[p] # NoWorld
    /\ \A q \in inside : want[q] # want[p]
    /\ inside' = inside \cup {p}
    /\ UNCHANGED want

Leave(p) ==
    /\ p \in inside
    /\ inside' = inside \ {p}
    /\ UNCHANGED want

Forget(p) ==
    /\ want[p] # NoWorld
    /\ p \notin inside
    /\ want' = [want EXCEPT ![p] = NoWorld]
    /\ UNCHANGED inside

Next ==
    \E p \in Procs :
      \/ \E w \in Worlds : Request(p, w)
      \/ Enter(p) \/ Leave(p) \/ Forget(p)

Spec == Init /\ [][Next]_vars
=============================================================================
