---------------------------- MODULE ReadCacheProofs ----------------------------
(***************************************************************************)
(* ReadLinearizes, NoFdUnlessWritten and the count of tombstones for any   *)
(* number of readers, worlds, slots and incarnations, and any cap and      *)
(* retry budget.                                                           *)
(*                                                                         *)
(* Neither is inductive.  CacheInv says what a slot in the map is to its   *)
(* world (WorldInv): it belongs to that world, an open connection is to    *)
(* the file that is there, and it is a tombstone exactly while the world   *)
(* is being deleted.  It says what the slot a reader holds is to the       *)
(* reader, in the map or no longer in it (ReaderInv): a tombstone or an    *)
(* open connection tells what was true during this read.  Slots that leave *)
(* the map are closed first, unless a write takes them out (Tracked).      *)
(***************************************************************************)
EXTENDS ReadCache, TLAPS

\* The fields of a reader.
Fields == {"pc", "world", "arc", "own", "mode", "tries", "cand", "victim", "outcome", "got"}

\* The steps of a delete during which its tombstone is up.
Busy == {"drain", "remove", "clear"}

\* The states of a slot that somebody holds.
Live == {"Opening", "Ready", "Evicted", "Tombstone"}

\* A reader at one of these steps holds a slot, ...
Holding == {"probe", "opening", "openFailed", "reading", "stale", "drain", "undrain"}

\* ... and at one of these it takes its slot out of the map next.
Unmapping == {"openFailed", "stale", "undrain"}

\* A reader that holds the slot it published itself holds no tombstone that is in
\* the map: only a slot which a delete has displaced is turned into one.
OwnerInv(me, sl, cs) ==
    /\ me.pc \in {"lookup", "capacity", "exists", "publish"} => ~me.own
    /\ me.pc \in {"sample", "evict", "unmap"} /\ me.outcome = "pending" => ~me.own
    /\ me.pc = "drain" => me.own
    /\ me.pc \in {"drain", "undrain", "trim"} => me.outcome # "pending"
    /\ me.pc \in {"probe", "drain"} /\ me.own =>
         \A w \in Worlds : cs[w] = me.arc => sl[me.arc].st # "Tombstone"

\* What a reader me that may report what is in o knows of the slots sl and of the
\* map cs.
ReaderInv(me, o, sl, cs) ==
    /\ DOMAIN me = Fields /\ (me.pc = "idle" => me = IdleReader)
    /\ me.arc \in Slots \cup {NoSlot} /\ me.victim \in Slots \cup {NoSlot} /\ me.cand \subseteq Slots
    /\ me.outcome = "absent" => 0 \in o
    /\ me.outcome = "found" => me.got \in o
    /\ me.arc # NoSlot =>
         /\ sl[me.arc].world = me.world /\ sl[me.arc].st \in Live
         /\ sl[me.arc].st = "Tombstone" => 0 \in o
         /\ sl[me.arc].st = "Ready" => sl[me.arc].conn \in o
    /\ me.pc \in Holding => me.arc # NoSlot
    /\ me.pc = "opening" => sl[me.arc].st = "Opening"
    /\ me.pc = "reading" => sl[me.arc].st = "Ready"
    /\ me.pc \in Unmapping => \A w \in Worlds : cs[w] = me.arc => sl[me.arc].st = "Evicted"
    /\ me.victim # NoSlot => \A w \in Worlds : cs[w] = me.victim => sl[me.victim].st = "Evicted"
    /\ OwnerInv(me, sl, cs)

\* What the entry c of world w, the operation p on it and its file d are to each
\* other.
WorldInv(w, c, p, d, sl) ==
    /\ c \in Slots \cup {NoSlot} /\ p.prev \in Slots \cup {NoSlot} /\ DOMAIN p = {"pc", "prev"}
    /\ c # NoSlot =>
         /\ sl[c].world = w /\ sl[c].st \in Live
         /\ sl[c].st = "Tombstone" => p.pc \in Busy
         /\ sl[c].st = "Ready" => sl[c].conn = d /\ d # 0
    /\ p.pc \in Busy => c # NoSlot /\ sl[c].st = "Tombstone"
    /\ p.prev # NoSlot => p.pc = "drain" /\ sl[p.prev].world = w /\ c # p.prev

\* Every connection that is open, or about to be, can be found by a delete.
Tracked(sl, cs, ps) ==
    \A s \in Slots : sl[s].st \in {"Ready", "Opening"} =>
        /\ sl[s].world \in Worlds
        /\ cs[sl[s].world] = s \/ ps[sl[s].world].prev = s

\* The domains of the variables.
Domains ==
    /\ DOMAIN rd = Readers /\ DOMAIN obs = Readers
    /\ DOMAIN conns = Worlds /\ DOMAIN op = Worlds /\ DOMAIN disk = Worlds
    /\ DOMAIN slot = Slots /\ \A s \in Slots : DOMAIN slot[s] = {"st", "world", "conn"}

\* A slot's write guard has one holder.
OneOpener ==
    \A q, r \in Readers : rd[q].pc = "opening" /\ rd[r].pc = "opening" /\ rd[q].arc = rd[r].arc => q = r

\* A read may report what is there now.
ObsCurrent ==
    \A r \in Readers : rd[r].pc # "idle" => rd[r].world \in Worlds /\ Visible(rd[r].world) \subseteq obs[r]

\* Where nothing is written, a delete finds every connection.
Unwritten ==
    scope.writes = {} =>
        wconns = {} /\ (\A w \in Worlds : op[w].pc # "write") /\ Tracked(slot, conns, op)

\* The inductive invariant.
CacheInv ==
    /\ Domains
    /\ \A r \in Readers : ReaderInv(rd[r], obs[r], slot, conns)
    /\ \A w \in Worlds : WorldInv(w, conns[w], op[w], disk[w], slot)
    /\ OneOpener
    /\ ObsCurrent
    /\ Unwritten

-----------------------------------------------------------------------------
(* Who holds a slot.                                                        *)

\* Held, of a map, readers and operations that are given.
HeldBy(cs, rs, ps) ==
    (Range(cs) \cup {ps[w].prev : w \in Worlds}
               \cup UNION {{rs[r].arc, rs[r].victim} \cup rs[r].cand : r \in Readers}) \ {NoSlot}

\* The map, the readers and the operations hold their slots.
LEMMA HeldHas ==
    ASSUME NEW cs, NEW rs, NEW ps, DOMAIN cs = Worlds
    PROVE  /\ \A w \in Worlds : cs[w] # NoSlot => cs[w] \in HeldBy(cs, rs, ps)
           /\ \A w \in Worlds : ps[w].prev # NoSlot => ps[w].prev \in HeldBy(cs, rs, ps)
           /\ \A r \in Readers : rs[r].arc # NoSlot => rs[r].arc \in HeldBy(cs, rs, ps)
           /\ \A r \in Readers : rs[r].victim # NoSlot => rs[r].victim \in HeldBy(cs, rs, ps)
           /\ \A r \in Readers : \A s \in rs[r].cand : s # NoSlot => s \in HeldBy(cs, rs, ps)
BY DEF HeldBy, Range

\* Held, of the state before and after a step.
LEMMA HeldIs == Held = HeldBy(conns, rd, op) /\ Held' = HeldBy(conns', rd', op')
BY Zenon DEF Held, HeldBy

\* A new slot is nobody's.
LEMMA FreshFacts ==
    ASSUME CanAllocate
    PROVE  FreshSlot \in Slots /\ FreshSlot \notin Held /\ FreshSlot # NoSlot
BY ReadCacheAssumption, Zenon DEF CanAllocate, FreshSlot

-----------------------------------------------------------------------------
(* What a reader knows outlasts the steps of others.                        *)

\* Its slots stay as they are, and what is entered in the map is not its own.
LEMMA ReaderKeeps ==
    ASSUME NEW me, NEW o, NEW o2, NEW sl, NEW sl2, NEW cs, NEW cs2, NEW H,
           ReaderInv(me, o, sl, cs), me.pc # "idle" => o \subseteq o2,
           me.arc # NoSlot => me.arc \in H /\ sl2[me.arc] = sl[me.arc],
           me.victim # NoSlot => me.victim \in H /\ sl2[me.victim] = sl[me.victim],
           \A w \in Worlds : cs2[w] = cs[w] \/ cs2[w] = NoSlot \/ cs2[w] \notin H
    PROVE  ReaderInv(me, o2, sl2, cs2)
<1>1. CASE me.pc = "idle"
  <2>1. me = IdleReader
    BY <1>1, Zenon DEF ReaderInv
  <2> QED BY <2>1 DEF ReaderInv, OwnerInv, IdleReader, Fields, Holding, Unmapping
<1>2. CASE me.pc # "idle"
  <2>1. o \subseteq o2
    BY <1>2
  <2>2. me.pc \in Unmapping => \A w \in Worlds : cs2[w] = me.arc => sl2[me.arc].st = "Evicted"
    <3>1. me.pc \in Unmapping => me.arc # NoSlot
      BY DEF ReaderInv, Holding, Unmapping
    <3> QED BY <3>1 DEF ReaderInv
  <2>3. me.victim # NoSlot => \A w \in Worlds : cs2[w] = me.victim => sl2[me.victim].st = "Evicted"
    BY Zenon DEF ReaderInv
  <2>4. me.pc \in Holding => me.arc # NoSlot
    BY DEF ReaderInv
  <2>5. /\ me.pc = "opening" => sl2[me.arc].st = "Opening"
        /\ me.pc = "reading" => sl2[me.arc].st = "Ready"
    BY <2>4 DEF ReaderInv, Holding
  <2>6. me.arc # NoSlot =>
          /\ sl2[me.arc].world = me.world /\ sl2[me.arc].st \in Live
          /\ sl2[me.arc].st = "Tombstone" => 0 \in o2
          /\ sl2[me.arc].st = "Ready" => sl2[me.arc].conn \in o2
    BY <2>1 DEF ReaderInv
  <2>7. OwnerInv(me, sl2, cs2)
    <3>1. OwnerInv(me, sl, cs)
      BY DEF ReaderInv
    <3>2. me.pc \in {"probe", "drain"} => me.arc # NoSlot
      BY <2>4, Zenon DEF Holding
    <3> QED BY <3>1, <3>2 DEF OwnerInv
  <2> QED BY <1>2, <2>1, <2>2, <2>3, <2>4, <2>5, <2>6, <2>7 DEF ReaderInv
<1> QED BY <1>1, <1>2

\* One slot a changes, in a way the reader may have to do with.
LEMMA ReaderSees ==
    ASSUME NEW me, NEW o, NEW sl, NEW sl2, NEW cs, NEW H, NEW a \in Slots,
           ReaderInv(me, o, sl, cs),
           me.arc # NoSlot => me.arc \in H, me.victim # NoSlot => me.victim \in H,
           \A y \in H \ {a} : sl2[y] = sl[y],
           sl2[a].world = sl[a].world, sl2[a].st \in Live,
           me.arc = a => /\ me.pc # "opening" /\ (me.pc = "reading" => sl2[a].st = "Ready")
                         /\ sl2[a].st = "Tombstone" => 0 \in o
                         /\ sl2[a].st = "Ready" => sl2[a].conn \in o,
           \/ sl2[a].st = "Evicted" \/ sl[a].st # "Evicted"
           \/ \A w \in Worlds : cs[w] # a,
           sl2[a].st = "Tombstone" => \A w \in Worlds : cs[w] # a
    PROVE  ReaderInv(me, o, sl2, cs)
<1>1. me.pc \in Holding => me.arc # NoSlot
  BY Zenon DEF ReaderInv
<1>2. me.arc # NoSlot =>
        /\ sl2[me.arc].world = me.world /\ sl2[me.arc].st \in Live
        /\ sl2[me.arc].st = "Tombstone" => 0 \in o
        /\ sl2[me.arc].st = "Ready" => sl2[me.arc].conn \in o
  <2>1. CASE me.arc = a
    BY <2>1, Zenon DEF ReaderInv
  <2>2. CASE me.arc # a
    BY <2>2 DEF ReaderInv
  <2> QED BY <2>1, <2>2, Zenon
<1>3. /\ me.pc = "opening" => sl2[me.arc].st = "Opening"
      /\ me.pc = "reading" => sl2[me.arc].st = "Ready"
  BY <1>1, Zenon DEF ReaderInv, Holding
<1>4. me.pc \in Unmapping => \A w \in Worlds : cs[w] = me.arc => sl2[me.arc].st = "Evicted"
  <2>1. CASE me.arc = a
    BY <2>1, Zenon DEF ReaderInv
  <2>2. CASE me.arc # a
    BY <1>1, <2>2, Zenon DEF ReaderInv, Holding, Unmapping
  <2> QED BY <2>1, <2>2
<1>5. me.victim # NoSlot => \A w \in Worlds : cs[w] = me.victim => sl2[me.victim].st = "Evicted"
  <2>1. CASE me.victim = a
    BY <2>1, Zenon DEF ReaderInv
  <2>2. CASE me.victim # a
    BY <2>2, Zenon DEF ReaderInv
  <2> QED BY <2>1, <2>2
<1>6. OwnerInv(me, sl2, cs)
  <2>1. OwnerInv(me, sl, cs)
    BY DEF ReaderInv
  <2>2. me.pc \in {"probe", "drain"} => me.arc # NoSlot
    BY <1>1 DEF Holding
  <2> QED BY <2>1, <2>2, Zenon DEF OwnerInv
<1> QED BY <1>1, <1>2, <1>3, <1>4, <1>5, <1>6, Zenon DEF ReaderInv

\* A world whose slots stay as they are, and whose entry stays or, unless it is
\* a tombstone, goes.
LEMMA WorldKeeps ==
    ASSUME NEW w, NEW c, NEW c2, NEW p, NEW d, NEW sl, NEW sl2,
           WorldInv(w, c, p, d, sl),
           c2 = c \/ (c2 = NoSlot /\ sl[c].st # "Tombstone"),
           c2 # NoSlot => sl2[c2] = sl[c2],
           p.prev # NoSlot => sl2[p.prev] = sl[p.prev]
    PROVE  WorldInv(w, c2, p, d, sl2)
<1>1. CASE c2 = c
  BY <1>1 DEF WorldInv
<1>2. CASE c2 = NoSlot /\ sl[c].st # "Tombstone"
  BY <1>2, Zenon DEF WorldInv, Busy
<1> QED BY <1>1, <1>2

\* An open or opening connection that nothing is done to stays tracked.
LEMMA TrackedKeeps ==
    ASSUME NEW sl, NEW sl2, NEW cs, NEW cs2, NEW ps, Tracked(sl, cs, ps),
           \A s \in Slots : sl2[s].st \in {"Ready", "Opening"} =>
               sl[s].st \in {"Ready", "Opening"} /\ sl2[s].world = sl[s].world,
           \A w \in Worlds : cs2[w] = cs[w] \/ (cs[w] \in Slots => sl[cs[w]].st \notin {"Ready", "Opening"})
    PROVE  Tracked(sl2, cs2, ps)
<1> SUFFICES ASSUME NEW s \in Slots, sl2[s].st \in {"Ready", "Opening"}
             PROVE  /\ sl2[s].world \in Worlds
                    /\ cs2[sl2[s].world] = s \/ ps[sl2[s].world].prev = s
  BY DEF Tracked
<1> DEFINE w == sl[s].world
<1>1. sl[s].st \in {"Ready", "Opening"} /\ sl2[s].world = w
  OBVIOUS
<1>2. w \in Worlds /\ (cs[w] = s \/ ps[w].prev = s)
  BY <1>1 DEF Tracked
<1>3. cs[w] = s => cs2[w] = s
  BY <1>1, <1>2
<1> QED BY <1>1, <1>2, <1>3, Zenon

-----------------------------------------------------------------------------
(* Steps of a reader.                                                       *)

\* The slots that are still held stay as they are.
Kept ==
    /\ DOMAIN slot' = Slots
    /\ \A s \in Slots : DOMAIN slot'[s] = {"st", "world", "conn"}
    /\ \A s \in Slots : slot'[s] = slot[s] \/ (s \notin Held' /\ slot'[s] = FreeSlot)

\* Dropping slots nobody holds is no change for anyone.
LEMMA ReclaimKeeps ==
    ASSUME Domains, slot' = slot \/ slot' = Reclaim(slot)
    PROVE  Kept
<1>1. CASE slot' = slot
  BY <1>1 DEF Kept, Domains
<1>2. CASE slot' = Reclaim(slot)
  <2>1. DOMAIN FreeSlot = {"st", "world", "conn"}
    BY DEF FreeSlot
  <2> QED BY <1>2, <2>1, Zenon DEF Kept, Domains, Reclaim
<1> QED BY <1>1, <1>2

\* The reader r moves on to me.
Moves(r, me) ==
    /\ rd' = [rd EXCEPT ![r] = me] /\ obs' = obs /\ UNCHANGED Worldly
    /\ me.world = rd[r].world /\ rd[r].pc # "idle"

\* A reader moves on, and may take closed slots out of the map.
LEMMA MoveKeeps ==
    ASSUME CacheInv, NEW r \in Readers, NEW me, Moves(r, me), Kept, me.pc # "opening",
           DOMAIN conns' = Worlds,
           \A w \in Worlds : conns'[w] = conns[w] \/ (conns'[w] = NoSlot /\ slot[conns[w]].st = "Evicted"),
           ReaderInv(me, obs[r], slot, conns)
    PROVE  CacheInv'
<1>1. /\ rd'[r] = me /\ DOMAIN rd' = Readers /\ \A q \in Readers \ {r} : rd'[q] = rd[q]
      /\ obs' = obs /\ op' = op /\ disk' = disk /\ wconns' = wconns /\ scope' = scope
  BY Zenon DEF CacheInv, Domains, Moves, Worldly
<1>2. Domains'
  BY <1>1, Zenon DEF CacheInv, Domains, Kept
<1>3. \A q \in Readers : ReaderInv(rd'[q], obs[q], slot, conns)
  BY <1>1 DEF CacheInv
<1>4. \A s \in Slots \cap Held' : slot'[s] = slot[s]
  BY Zenon DEF Kept
<1>5. /\ \A w \in Worlds : conns'[w] # NoSlot => conns'[w] \in Held'
      /\ \A w \in Worlds : op[w].prev # NoSlot => op[w].prev \in Held'
      /\ \A q \in Readers : rd'[q].arc # NoSlot => rd'[q].arc \in Held'
      /\ \A q \in Readers : rd'[q].victim # NoSlot => rd'[q].victim \in Held'
  BY <1>1, HeldIs, HeldHas, Zenon
<1>6. ASSUME NEW q \in Readers PROVE ReaderInv(rd'[q], obs'[q], slot', conns')
  <2> DEFINE m == rd'[q]
             o == obs[q]
             H == Held'
  <2>1. ReaderInv(m, o, slot, conns)
    BY <1>3, Zenon
  <2>2. m.arc \in Slots \cup {NoSlot} /\ m.victim \in Slots \cup {NoSlot}
    BY <2>1, Zenon DEF ReaderInv
  <2>3. /\ m.arc # NoSlot => m.arc \in H /\ slot'[m.arc] = slot[m.arc]
        /\ m.victim # NoSlot => m.victim \in H /\ slot'[m.victim] = slot[m.victim]
    BY <1>4, <1>5, <2>2, Zenon
  <2>4. \A w \in Worlds : conns'[w] = conns[w] \/ conns'[w] = NoSlot \/ conns'[w] \notin H
    OBVIOUS
  <2>5. o \subseteq o /\ obs'[q] = o
    BY <1>1
  <2> HIDE DEF m, o, H
  <2>6. ReaderInv(m, o, slot', conns')
    BY <2>1, <2>3, <2>4, <2>5, ReaderKeeps, Zenon
  <2> QED BY <2>5, <2>6, Zenon DEF m
<1>7. ASSUME NEW w \in Worlds PROVE WorldInv(w, conns'[w], op'[w], disk'[w], slot')
  <2>1. WorldInv(w, conns[w], op[w], disk[w], slot)
    BY DEF CacheInv
  <2>2. conns[w] \in Slots \cup {NoSlot} /\ op[w].prev \in Slots \cup {NoSlot}
    BY <2>1 DEF WorldInv
  <2>3. conns'[w] = conns[w] \/ (conns'[w] = NoSlot /\ slot[conns[w]].st # "Tombstone")
    OBVIOUS
  <2>4. conns'[w] # NoSlot => slot'[conns'[w]] = slot[conns'[w]]
    BY <1>4, <1>5, <2>2, <2>3, Zenon
  <2>5. op[w].prev # NoSlot => slot'[op[w].prev] = slot[op[w].prev]
    BY <1>4, <1>5, <2>2, Zenon
  <2>6. WorldInv(w, conns'[w], op[w], disk[w], slot')
    BY <2>1, <2>3, <2>4, <2>5, WorldKeeps, Zenon
  <2> QED BY <1>1, <2>6
<1>8. OneOpener'
  <2>1. OneOpener
    BY Zenon DEF CacheInv
  <2> QED BY <1>1, <2>1, ZenonT(30) DEF OneOpener
<1>9. ObsCurrent'
  <2>1. ObsCurrent /\ \A w : Visible(w)' = Visible(w)
    BY <1>1, Zenon DEF CacheInv, Visible, Deleting
  <2>2. rd[r].pc # "idle" /\ me.world = rd[r].world
    BY Zenon DEF Moves
  <2> QED BY <1>1, <2>1, <2>2, Zenon DEF ObsCurrent
<1>10. Unwritten'
  <2>1. CASE scope.writes = {}
    <3>1. wconns = {} /\ (\A w \in Worlds : op[w].pc # "write") /\ Tracked(slot, conns, op)
      BY <2>1, Zenon DEF CacheInv, Unwritten
    <3>2. \A s \in Slots : slot'[s].st \in {"Ready", "Opening"} =>
              slot[s].st \in {"Ready", "Opening"} /\ slot'[s].world = slot[s].world
      BY DEF Kept, FreeSlot
    <3>3. \A w \in Worlds : conns'[w] = conns[w] \/ (conns[w] \in Slots => slot[conns[w]].st \notin {"Ready", "Opening"})
      OBVIOUS
    <3>4. Tracked(slot', conns', op)
      BY <3>1, <3>2, <3>3, TrackedKeeps, Zenon
    <3> QED BY <1>1, <3>1, <3>4, Zenon DEF Unwritten
  <2>2. CASE scope.writes # {}
    BY <1>1, <2>2 DEF Unwritten
  <2> QED BY <2>1, <2>2, Zenon
<1> QED BY <1>2, <1>6, <1>7, <1>8, <1>9, <1>10, Zenon DEF CacheInv

\* A world of which one slot is closed, or opened on its file, without being a
\* tombstone in the map.
LEMMA WorldTouched ==
    ASSUME NEW w, NEW c, NEW p, NEW d, NEW sl, NEW sl2, NEW a \in Slots,
           WorldInv(w, c, p, d, sl), sl2[a].world = sl[a].world, sl2[a].st \in Live,
           \A y \in Slots \ {a} : sl2[y] = sl[y],
           c = a => /\ sl[a].st # "Tombstone" /\ sl2[a].st # "Tombstone"
                    /\ sl2[a].st = "Ready" => sl2[a].conn = d /\ d # 0
    PROVE  WorldInv(w, c, p, d, sl2)
<1>1. c \in Slots \cup {NoSlot} /\ p.prev \in Slots \cup {NoSlot} /\ DOMAIN p = {"pc", "prev"}
  BY Zenon DEF WorldInv
<1>2. c # NoSlot =>
         /\ sl2[c].world = w /\ sl2[c].st \in Live
         /\ sl2[c].st = "Tombstone" => p.pc \in Busy
         /\ sl2[c].st = "Ready" => sl2[c].conn = d /\ d # 0
  <2>1. CASE c = a
    BY <2>1, Zenon DEF WorldInv
  <2>2. CASE c # a
    BY <1>1, <2>2 DEF WorldInv
  <2> QED BY <2>1, <2>2, Zenon
<1>3. p.pc \in Busy => c # NoSlot /\ sl2[c].st = "Tombstone"
  BY <1>1, Zenon DEF WorldInv
<1>4. p.prev # NoSlot => p.pc = "drain" /\ sl2[p.prev].world = w /\ c # p.prev
  <2>1. CASE p.prev = a
    BY <2>1, Zenon DEF WorldInv
  <2>2. CASE p.prev # a
    BY <1>1, <2>2 DEF WorldInv
  <2> QED BY <2>1, <2>2, Zenon
<1> QED BY <1>1, <1>2, <1>3, <1>4, Zenon DEF WorldInv

\* The reader r closes the slot a, or opens it on its world's file, while no other
\* holds a guard of it.
Touch(r, a, x) ==
    /\ a \in Slots /\ DOMAIN x = {"st", "world", "conn"} /\ x.world = slot[a].world
    /\ slot' = [slot EXCEPT ![a] = x] /\ conns' = conns
    /\ x.st = "Evicted" \/ (x.st = "Ready" /\ slot[a].st = "Opening")
    /\ \A w \in Worlds : conns[w] = a =>
          slot[a].st # "Tombstone" /\ (x.st = "Ready" => x.conn = disk[w] /\ disk[w] # 0)
    /\ \A q \in Readers \ {r} : rd[q].arc = a =>
          rd[q].pc \notin {"opening", "reading"} /\ (x.st = "Ready" => x.conn \in obs[q])

\* A reader moves on, and closes or opens the connection of one slot.
LEMMA TouchKeeps ==
    ASSUME CacheInv, NEW r \in Readers, NEW me, Moves(r, me), me.pc # "opening",
           NEW a, NEW x, Touch(r, a, x), ReaderInv(me, obs[r], slot', conns)
    PROVE  CacheInv'
<1>1. /\ rd'[r] = me /\ DOMAIN rd' = Readers /\ \A q \in Readers \ {r} : rd'[q] = rd[q]
      /\ obs' = obs /\ op' = op /\ disk' = disk /\ wconns' = wconns /\ scope' = scope
  BY Zenon DEF CacheInv, Domains, Moves, Worldly
<1> USE DEF Touch
<1>2. slot'[a] = x /\ DOMAIN slot' = Slots /\ \A y \in Slots \ {a} : slot'[y] = slot[y]
  BY Zenon DEF CacheInv, Domains
<1>3. Domains' /\ x.st \in Live
  BY <1>1, <1>2, Zenon DEF CacheInv, Domains, Live
<1>4. ASSUME NEW q \in Readers PROVE ReaderInv(rd'[q], obs'[q], slot', conns')
  <2>1. CASE q = r
    BY <1>1, <2>1, Zenon
  <2>2. CASE q # r
    <3> DEFINE m == rd[q]
               o == obs[q]
    <3>1. ReaderInv(m, o, slot, conns)
      BY Zenon DEF CacheInv
    <3>2. m.arc \in Slots \cup {NoSlot} /\ m.victim \in Slots \cup {NoSlot}
      BY <3>1, Zenon DEF ReaderInv
    <3>3. m.arc = a => m.pc \notin {"opening", "reading"} /\ (x.st = "Ready" => x.conn \in o)
      BY <2>2, Zenon
    <3>4. obs'[q] = o /\ rd'[q] = m
      BY <1>1, <2>2
    <3> HIDE DEF m, o
    <3>5. ReaderInv(m, o, slot', conns)
      BY <1>2, <1>3, <3>1, <3>2, <3>3, ReaderSees, Zenon
    <3> QED BY <3>4, <3>5, Zenon
  <2> QED BY <2>1, <2>2, Zenon
<1>5. ASSUME NEW w \in Worlds PROVE WorldInv(w, conns'[w], op'[w], disk'[w], slot')
  <2> DEFINE c == conns[w]
             p == op[w]
             d == disk[w]
  <2>1. WorldInv(w, c, p, d, slot)
    BY Zenon DEF CacheInv
  <2>2. /\ a \in Slots /\ slot'[a].world = slot[a].world /\ slot'[a].st \in Live
        /\ c = a => /\ slot[a].st # "Tombstone" /\ slot'[a].st # "Tombstone"
                    /\ slot'[a].st = "Ready" => slot'[a].conn = d /\ d # 0
    BY <1>2, <1>3, Zenon
  <2>3. conns'[w] = c /\ op'[w] = p /\ disk'[w] = d
    BY <1>1
  <2> HIDE DEF c, p, d, Touch
  <2>4. WorldInv(w, c, p, d, slot')
    BY <1>2, <2>1, <2>2, WorldTouched, Zenon
  <2> QED BY <2>3, <2>4, Zenon
<1>6. OneOpener'
  <2>1. OneOpener
    BY Zenon DEF CacheInv
  <2> QED BY <1>1, <2>1 DEF OneOpener
<1>7. ObsCurrent'
  <2>1. ObsCurrent /\ \A w : Visible(w)' = Visible(w)
    BY <1>1, Zenon DEF CacheInv, Visible, Deleting
  <2>2. rd[r].pc # "idle" /\ me.world = rd[r].world
    BY Zenon DEF Moves
  <2> QED BY <1>1, <2>1, <2>2, Zenon DEF ObsCurrent
<1>8. Unwritten'
  <2>1. CASE scope.writes = {}
    <3>1. wconns = {} /\ (\A w \in Worlds : op[w].pc # "write") /\ Tracked(slot, conns, op)
      BY <2>1, Zenon DEF CacheInv, Unwritten
    <3>2. \A s \in Slots : slot'[s].st \in {"Ready", "Opening"} =>
              slot[s].st \in {"Ready", "Opening"} /\ slot'[s].world = slot[s].world
      BY <1>2
    <3>3. Tracked(slot', conns', op)
      BY <3>1, <3>2, TrackedKeeps, ZenonT(30)
    <3> QED BY <1>1, <3>1, <3>3, Zenon DEF Unwritten
  <2>2. CASE scope.writes # {}
    BY <1>1, <2>2 DEF Unwritten
  <2> QED BY <2>1, <2>2, Zenon
<1> QED BY <1>3, <1>4, <1>5, <1>6, <1>7, <1>8, Zenon DEF CacheInv

\* What holds of the reader r and of the world it reads.
LEMMA AtReader ==
    ASSUME CacheInv, NEW r \in Readers, rd[r].pc # "idle"
    PROVE  /\ ReaderInv(rd[r], obs[r], slot, conns) /\ rd[r].world \in Worlds
           /\ Visible(rd[r].world) \subseteq obs[r]
           /\ LET w == rd[r].world IN WorldInv(w, conns[w], op[w], disk[w], slot)
BY Zenon DEF CacheInv, ObsCurrent

\* A step that only moves the reader on.
LEMMA OnlyMoves ==
    ASSUME CacheInv, NEW r \in Readers, NEW me, Moves(r, me), me.pc # "opening",
           conns' = conns, slot' = slot \/ slot' = Reclaim(slot),
           ReaderInv(me, obs[r], slot, conns)
    PROVE  CacheInv'
<1>1. Kept
  BY ReclaimKeeps, Zenon DEF CacheInv
<1>2. DOMAIN conns' = Worlds
  BY DEF CacheInv, Domains
<1> QED BY <1>1, <1>2, MoveKeeps, Zenon

\* Lookup: a hit takes the slot of the map, a miss goes on without one.
LEMMA LookupKeeps ==
    ASSUME CacheInv, NEW r \in Readers, Lookup(r)
    PROVE  CacheInv'
<1> DEFINE me == rd[r]
           o == obs[r]
           s == conns[me.world]
           you == [me EXCEPT !.arc = s, !.pc = IF s # NoSlot THEN "probe"
                                               ELSE IF me.mode = "tracked" THEN "capacity"
                                               ELSE "publish"]
<1>1. me.pc = "lookup" /\ ReaderInv(me, o, slot, conns) /\ me.world \in Worlds
  BY AtReader, Zenon DEF Lookup
<1>2. WorldInv(me.world, s, op[me.world], disk[me.world], slot) /\ Visible(me.world) \subseteq o
  BY <1>1, AtReader, Zenon
<1>3. DOMAIN me = Fields
  BY <1>1 DEF ReaderInv
<1>4. /\ DOMAIN you = Fields /\ you.arc = s /\ you.world = me.world /\ you.victim = me.victim
      /\ you.cand = me.cand /\ you.outcome = me.outcome /\ you.got = me.got /\ you.own = me.own
      /\ you.pc \in {"probe", "capacity", "publish"} /\ (you.pc = "probe" <=> s # NoSlot)
  BY <1>3, Zenon DEF Fields
<1>5. s # NoSlot =>
        /\ slot[s].world = me.world /\ slot[s].st \in Live
        /\ slot[s].st = "Tombstone" => 0 \in o
        /\ slot[s].st = "Ready" => slot[s].conn \in o
  BY <1>2, Zenon DEF WorldInv, Visible, Deleting, Busy
<1>6. s \in Slots \cup {NoSlot}
  BY <1>2, Zenon DEF WorldInv
<1>7. OwnerInv(you, slot, conns)
  <2>1. ~me.own
    BY <1>1 DEF ReaderInv, OwnerInv
  <2> QED BY <1>4, <2>1, Zenon DEF OwnerInv
<1>8. rd' = [rd EXCEPT ![r] = you]
  BY Zenon DEF Lookup
<1>9. conns' = conns /\ slot' = slot /\ obs' = obs /\ UNCHANGED Worldly
  BY Zenon DEF Lookup
<1>10. ReaderInv(me, o, slot, conns)
  BY <1>1, Zenon
<1> HIDE DEF you, s, me, o
<1>11. ReaderInv(you, o, slot, conns)
  BY <1>4, <1>5, <1>6, <1>7, <1>10, Zenon DEF ReaderInv, Holding, Unmapping
<1>12. Moves(r, you)
  BY <1>1, <1>4, <1>8, <1>9, Zenon DEF Moves, me
<1> QED BY <1>4, <1>9, <1>11, <1>12, OnlyMoves DEF o

\* The reader me goes on as you and uses no slot next.
Rest(me, you, o) ==
    /\ DOMAIN you = Fields /\ you.pc \notin Holding /\ you.pc # "idle" /\ you.world = me.world
    /\ you.arc \in {me.arc, NoSlot} /\ you.victim \in {me.victim, NoSlot} /\ you.cand \subseteq Slots
    /\ you.outcome = "absent" => 0 \in o
    /\ you.outcome = "found" => you.got \in o
    /\ you.pc \in {"lookup", "capacity", "exists", "publish"} => ~you.own
    /\ you.pc \in {"sample", "evict", "unmap"} /\ you.outcome = "pending" => ~you.own
    /\ you.pc = "trim" => you.outcome # "pending"

\* It then knows no less.
LEMMA Rests ==
    ASSUME NEW me, NEW you, NEW o, NEW sl, NEW cs, ReaderInv(me, o, sl, cs), Rest(me, you, o)
    PROVE  ReaderInv(you, o, sl, cs)
<1>1. /\ DOMAIN you = Fields /\ you.pc # "idle" /\ you.pc \notin Holding /\ you.pc \notin Unmapping
      /\ you.pc \notin {"opening", "reading", "probe", "drain", "undrain"} /\ you.cand \subseteq Slots
  BY Zenon DEF Rest, Holding, Unmapping
<1>2. you.arc \in Slots \cup {NoSlot} /\ you.victim \in Slots \cup {NoSlot}
  BY Zenon DEF Rest, ReaderInv
<1>3. you.arc # NoSlot =>
         /\ sl[you.arc].world = you.world /\ sl[you.arc].st \in Live
         /\ sl[you.arc].st = "Tombstone" => 0 \in o
         /\ sl[you.arc].st = "Ready" => sl[you.arc].conn \in o
  BY DEF Rest, ReaderInv
<1>4. you.victim # NoSlot => \A w \in Worlds : cs[w] = you.victim => sl[you.victim].st = "Evicted"
  BY Zenon DEF Rest, ReaderInv
<1>5. OwnerInv(you, sl, cs)
  BY <1>1 DEF OwnerInv, Rest
<1> QED BY <1>1, <1>2, <1>3, <1>4, <1>5, Zenon DEF Rest, ReaderInv

\* Retrying, ...
LEMMA RetryRests ==
    ASSUME NEW me, NEW o, NEW sl, NEW cs, ReaderInv(me, o, sl, cs)
    PROVE  Rest(me, Retry(me), o)
<1> DEFINE again == [me EXCEPT !.pc = "lookup", !.arc = NoSlot, !.own = FALSE, !.tries = @ + 1]
           t == [again EXCEPT !.mode = "transient", !.tries = 0]
           e == [again EXCEPT !.pc = "done", !.outcome = "error"]
<1>1. Retry(me) = again \/ Retry(me) = t \/ Retry(me) = e
  BY Zenon DEF Retry
<1>2. /\ DOMAIN me = Fields /\ me.victim \in Slots \cup {NoSlot} /\ me.cand \subseteq Slots
      /\ me.outcome = "absent" => 0 \in o
      /\ me.outcome = "found" => me.got \in o
  BY DEF ReaderInv
<1>3. Rest(me, again, o)
  BY <1>2 DEF Rest, Fields, Holding
<1>4. Rest(me, t, o)
  BY <1>2 DEF Rest, Fields, Holding
<1>5. Rest(me, e, o)
  BY <1>2 DEF Rest, Fields, Holding
<1> QED BY <1>1, <1>3, <1>4, <1>5

\* ... and returning with an outcome there is a reason for.
LEMMA FinishRests ==
    ASSUME NEW me, NEW o, NEW sl, NEW cs, NEW out, ReaderInv(me, o, sl, cs),
           out = "absent" => 0 \in o, out = "found" => me.got \in o
    PROVE  Rest(me, Finish(me, out), o)
<1>1. DOMAIN me = Fields
  BY DEF ReaderInv
<1> QED BY <1>1, Zenon DEF Rest, Fields, Holding, Finish

\* A step after which the reader uses no slot next.
LEMMA RestKeeps ==
    ASSUME CacheInv, NEW r \in Readers, NEW you, rd[r].pc # "idle", Rest(rd[r], you, obs[r]),
           rd' = [rd EXCEPT ![r] = you], obs' = obs, UNCHANGED Worldly,
           slot' = slot \/ slot' = Reclaim(slot), DOMAIN conns' = Worlds,
           \A w \in Worlds : conns'[w] = conns[w] \/ (conns'[w] = NoSlot /\ slot[conns[w]].st = "Evicted")
    PROVE  CacheInv'
<1>1. ReaderInv(you, obs[r], slot, conns)
  BY AtReader, Rests, Zenon
<1>2. Moves(r, you) /\ you.pc # "opening"
  BY DEF Moves, Rest, Holding
<1>3. Kept
  BY ReclaimKeeps, Zenon DEF CacheInv
<1> QED BY <1>1, <1>2, <1>3, MoveKeeps, Zenon

\* The same, with the map as it is.
LEMMA RestOnly ==
    ASSUME CacheInv, NEW r \in Readers, NEW you, rd[r].pc # "idle", Rest(rd[r], you, obs[r]),
           rd' = [rd EXCEPT ![r] = you], obs' = obs, UNCHANGED Worldly, conns' = conns,
           slot' = slot \/ slot' = Reclaim(slot)
    PROVE  CacheInv'
<1>1. DOMAIN conns' = Worlds
  BY DEF CacheInv, Domains
<1> QED BY <1>1, RestKeeps, Zenon

\* CheckCapacity changes only where the reader goes next.
LEMMA CheckCapacityKeeps ==
    ASSUME CacheInv, NEW r \in Readers, CheckCapacity(r)
    PROVE  CacheInv'
<1> DEFINE me == rd[r]
           you == [me EXCEPT !.pc = IF Entries >= MaxEntries THEN "sample" ELSE "exists"]
<1>1. me.pc = "capacity" /\ ReaderInv(me, obs[r], slot, conns)
  BY AtReader DEF CheckCapacity
<1>2. rd' = [rd EXCEPT ![r] = you]
  BY Zenon DEF CheckCapacity
<1>3. Rest(me, you, obs[r])
  BY <1>1 DEF Rest, Fields, Holding, ReaderInv, OwnerInv
<1> QED BY <1>1, <1>2, <1>3, RestOnly, Zenon DEF CheckCapacity

\* SampleVictims: the candidates are slots of the map.
LEMMA SampleVictimsKeeps ==
    ASSUME CacheInv, NEW r \in Readers, SampleVictims(r)
    PROVE  CacheInv'
<1> DEFINE me == rd[r]
           cs == {conns[w] : w \in Worlds \ {me.world}} \ {NoSlot}
           you == [me EXCEPT !.pc = "evict", !.cand = cs]
<1>1. me.pc = "sample" /\ ReaderInv(me, obs[r], slot, conns)
  BY AtReader DEF SampleVictims
<1>2. rd' = [rd EXCEPT ![r] = you]
  BY Zenon DEF SampleVictims
<1>3. cs \subseteq Slots
  BY DEF CacheInv, WorldInv
<1> HIDE DEF cs
<1>4. Rest(me, you, obs[r])
  BY <1>1, <1>3, Zenon DEF Rest, Fields, Holding, ReaderInv, OwnerInv
<1> QED BY <1>1, <1>2, <1>4, RestOnly, Zenon DEF SampleVictims

\* What is known of another reader of a slot whose write guard is free.
LEMMA NoGuards ==
    ASSUME NEW s, CanWriteLock(s)
    PROVE  \A q \in Readers : rd[q].arc = s => rd[q].pc \notin {"opening", "reading"}
BY DEF CanWriteLock, ReadGuards, WriteGuards

\* TryEvict: the victim is closed before it leaves the map, and no tombstone is one.
LEMMA TryEvictKeeps ==
    ASSUME CacheInv, NEW r \in Readers, TryEvict(r)
    PROVE  CacheInv'
<1> DEFINE me == rd[r]
           o == obs[r]
<1>1. me.pc = "evict" /\ ReaderInv(me, o, slot, conns)
  BY AtReader, Zenon DEF TryEvict
<1>2. me.cand \subseteq Slots /\ DOMAIN me = Fields
  BY <1>1 DEF ReaderInv
<1>3. UNCHANGED <<Worldly, conns, obs>>
  BY DEF TryEvict
<1>4. PICK s \in me.cand :
         IF CanWriteLock(s) /\ slot[s].st = "Ready"
         THEN /\ rd' = [rd EXCEPT ![r].pc = "unmap", ![r].victim = s, ![r].cand = @ \ {s}]
              /\ slot' = [slot EXCEPT ![s].st = "Evicted", ![s].conn = 0]
         ELSE /\ rd' = [rd EXCEPT ![r].cand = @ \ {s}]
              /\ slot' = Reclaim(slot)
  BY Zenon DEF TryEvict
<1>5. CASE CanWriteLock(s) /\ slot[s].st = "Ready"
  <2> DEFINE x == [slot[s] EXCEPT !.st = "Evicted", !.conn = 0]
             rest == [me EXCEPT !.pc = "unmap", !.cand = me.cand \ {s}, !.victim = NoSlot]
             you == [me EXCEPT !.pc = "unmap", !.victim = s, !.cand = me.cand \ {s}]
  <2>1. s \in Slots /\ DOMAIN slot = Slots /\ DOMAIN slot[s] = {"st", "world", "conn"}
    BY <1>2 DEF CacheInv, Domains
  <2>2. slot' = [slot EXCEPT ![s] = x] /\ rd' = [rd EXCEPT ![r] = you]
    BY <1>4, <1>5, Zenon
  <2>3. x.st = "Evicted" /\ x.world = slot[s].world /\ DOMAIN x = {"st", "world", "conn"}
    BY <2>1
  <2>4. slot'[s] = x /\ \A y \in Slots \ {s} : slot'[y] = slot[y]
    BY <2>1, <2>2, Zenon
  <2>5. Rest(me, rest, o)
    BY <1>1, <1>2 DEF Rest, Fields, Holding, ReaderInv, OwnerInv
  <2>6. /\ DOMAIN you = Fields /\ you.victim = s /\ you.pc = "unmap" /\ rest.pc = "unmap"
        /\ \A f \in Fields \ {"victim"} : you[f] = rest[f]
    BY <1>2, Zenon DEF Fields
  <2>7. you.world = me.world
    BY <1>2, Zenon DEF Fields
  <2> HIDE DEF x, rest, you
  <2>8. ReaderInv(rest, o, slot, conns)
    BY <1>1, <2>5, Rests, Zenon
  <2>9. ReaderInv(rest, o, slot', conns)
    <3>1. rest.arc \in Slots \cup {NoSlot} /\ rest.victim \in Slots \cup {NoSlot}
      BY <2>8, Zenon DEF ReaderInv
    <3>2. /\ slot'[s].world = slot[s].world /\ slot'[s].st = "Evicted" /\ slot'[s].st \in Live
          /\ slot'[s].st # "Tombstone" /\ slot'[s].st # "Ready"
          /\ rest.pc # "opening" /\ rest.pc # "reading"
      BY <2>3, <2>4, <2>6, Zenon DEF Live
    <3> QED BY <2>1, <2>4, <2>8, <3>1, <3>2, ReaderSees, Zenon
  <2>10. ReaderInv(you, o, slot', conns)
    <3>1. OwnerInv(you, slot', conns)
      BY <2>6, <2>9, Zenon DEF ReaderInv, OwnerInv, Fields
    <3> QED BY <2>1, <2>3, <2>4, <2>6, <2>9, <3>1, ZenonT(30) DEF ReaderInv, Fields, Holding, Unmapping
  <2>11. Moves(r, you)
    BY <1>1, <1>3, <2>2, <2>7, Zenon DEF Moves
  <2>12. \A q \in Readers : rd[q].arc = s => rd[q].pc \notin {"opening", "reading"}
    BY <1>5, NoGuards, Zenon
  <2>13. you.pc # "opening" /\ conns' = conns /\ slot[s].st # "Tombstone" /\ x.st # "Ready"
    BY <1>3, <1>5, <2>3, <2>6, Zenon
  <2>14. Touch(r, s, x)
    BY <2>1, <2>2, <2>3, <2>12, <2>13, Zenon DEF Touch
  <2> QED BY <2>10, <2>11, <2>13, <2>14, TouchKeeps, Zenon
<1>6. CASE ~(CanWriteLock(s) /\ slot[s].st = "Ready")
  <2> DEFINE you == [me EXCEPT !.cand = me.cand \ {s}]
  <2>1. rd' = [rd EXCEPT ![r] = you] /\ slot' = Reclaim(slot)
    BY <1>4, <1>6, Zenon
  <2>2. Rest(me, you, o)
    BY <1>1, <1>2 DEF Rest, Fields, Holding, ReaderInv, OwnerInv
  <2> QED BY <1>1, <1>3, <2>1, <2>2, RestOnly, Zenon
<1> QED BY <1>5, <1>6, Zenon

\* A victim, and a slot the reader takes out of the map, is closed.
LEMMA UnmapVictimKeeps ==
    ASSUME CacheInv, NEW r \in Readers, UnmapVictim(r)
    PROVE  CacheInv'
<1> DEFINE me == rd[r]
           o == obs[r]
           mine == {w \in Worlds : conns[w] = me.victim}
           free == [me EXCEPT !.victim = NoSlot]
           none == [free EXCEPT !.cand = {}]
           you == IF mine = {} THEN [free EXCEPT !.pc = "evict"]
                  ELSE IF free.outcome # "pending"
                  THEN [free EXCEPT !.pc = "trim", !.cand = {}, !.tries = @ + 1]
                  ELSE Retry(none)
<1>1. me.pc = "unmap" /\ ReaderInv(me, o, slot, conns)
  BY AtReader DEF UnmapVictim
<1>2. rd' = [rd EXCEPT ![r] = you] /\ obs' = obs /\ UNCHANGED Worldly /\ slot' = Reclaim(slot)
  BY Zenon DEF UnmapVictim
<1>3. conns' = [w \in Worlds |-> IF w \in mine THEN NoSlot ELSE conns[w]]
  BY Zenon DEF UnmapVictim
<1>4. \A w \in Worlds : conns'[w] = conns[w] \/ (conns'[w] = NoSlot /\ slot[conns[w]].st = "Evicted")
  <2>1. \A w \in Worlds : conns[w] = me.victim /\ me.victim # NoSlot => slot[me.victim].st = "Evicted"
    BY <1>1, Zenon DEF ReaderInv
  <2> QED BY <1>3, <2>1, Zenon
<1>5. Rest(me, none, o)
  BY <1>1, Zenon DEF Rest, Fields, Holding, ReaderInv, OwnerInv
<1>6. Rest(me, [free EXCEPT !.pc = "evict"], o)
  BY <1>1, Zenon DEF Rest, Fields, Holding, ReaderInv, OwnerInv
<1>7. free.outcome # "pending" => Rest(me, [free EXCEPT !.pc = "trim", !.cand = {}, !.tries = @ + 1], o)
  BY <1>1 DEF Rest, Fields, Holding, ReaderInv, OwnerInv
<1>8. Rest(me, Retry(none), o)
  <2>1. Rest(none, Retry(none), o)
    BY <1>1, <1>5, Rests, RetryRests, Zenon
  <2> QED BY <1>5, <2>1, Zenon DEF Rest
<1>9. Rest(me, you, o)
  BY <1>6, <1>7, <1>8, Zenon
<1>10. DOMAIN conns' = Worlds
  BY <1>3
<1> HIDE DEF you
<1> QED BY <1>1, <1>2, <1>4, <1>9, <1>10, RestKeeps, Zenon

\* NoVictim: without a victim the reader goes on over the cap.
LEMMA NoVictimKeeps ==
    ASSUME CacheInv, NEW r \in Readers, NoVictim(r)
    PROVE  CacheInv'
<1> DEFINE me == rd[r]
           on == [me EXCEPT !.mode = "transient", !.pc = "lookup", !.tries = 0]
           you == IF me.outcome # "pending" THEN Finish(me, me.outcome) ELSE on
<1>1. me.pc = "evict" /\ ReaderInv(me, obs[r], slot, conns)
  BY AtReader DEF NoVictim
<1>2. rd' = [rd EXCEPT ![r] = you]
  BY Zenon DEF NoVictim
<1>3. me.outcome = "pending" => Rest(me, on, obs[r])
  BY <1>1, Zenon DEF Rest, Fields, Holding, ReaderInv, OwnerInv
<1>4. Rest(me, Finish(me, me.outcome), obs[r])
  BY <1>1, FinishRests DEF ReaderInv
<1>5. Rest(me, you, obs[r])
  BY <1>3, <1>4, Zenon
<1> HIDE DEF you
<1> QED BY <1>1, <1>2, <1>5, RestOnly, Zenon DEF NoVictim

\* CheckExists: "absent" is answered of a world that is absent now.
LEMMA CheckExistsKeeps ==
    ASSUME CacheInv, NEW r \in Readers, CheckExists(r)
    PROVE  CacheInv'
<1> DEFINE me == rd[r]
           on == [me EXCEPT !.pc = "publish"]
           you == IF disk[me.world] = 0 THEN Finish(me, "absent") ELSE on
<1>1. me.pc = "exists" /\ ReaderInv(me, obs[r], slot, conns) /\ disk[me.world] \in obs[r]
  BY AtReader DEF CheckExists, Visible
<1>2. rd' = [rd EXCEPT ![r] = you]
  BY Zenon DEF CheckExists
<1>3. Rest(me, on, obs[r])
  BY <1>1, Zenon DEF Rest, Fields, Holding, ReaderInv, OwnerInv
<1>4. disk[me.world] = 0 => Rest(me, Finish(me, "absent"), obs[r])
  BY <1>1, FinishRests
<1>5. Rest(me, you, obs[r])
  BY <1>3, <1>4, Zenon
<1> HIDE DEF you
<1> QED BY <1>1, <1>2, <1>5, RestOnly, Zenon DEF CheckExists

\* remove_if takes a closed slot out of the map.
LEMMA RemoveIfFacts ==
    ASSUME CacheInv, NEW r \in Readers, RemoveIf(r), rd[r].pc \in Unmapping
    PROVE  /\ DOMAIN conns' = Worlds
           /\ \A w \in Worlds : conns'[w] = conns[w] \/ (conns'[w] = NoSlot /\ slot[conns[w]].st = "Evicted")
<1>1. ReaderInv(rd[r], obs[r], slot, conns)
  BY Zenon DEF CacheInv
<1>2. \A w \in Worlds : conns[w] = rd[r].arc => slot[conns[w]].st = "Evicted"
  BY <1>1 DEF ReaderInv
<1> QED BY <1>2, Zenon DEF RemoveIf

\* RemoveFailed takes an evicted slot out of the map.
LEMMA RemoveFailedKeeps ==
    ASSUME CacheInv, NEW r \in Readers, RemoveFailed(r)
    PROVE  CacheInv'
<1> DEFINE me == rd[r]
           you == [me EXCEPT !.pc = "recheck"]
<1>1. me.pc = "openFailed" /\ ReaderInv(me, obs[r], slot, conns)
  BY AtReader DEF RemoveFailed
<1>2. rd' = [rd EXCEPT ![r] = you]
  BY Zenon DEF RemoveFailed
<1>3. Rest(me, you, obs[r])
  BY <1>1, Zenon DEF Rest, Fields, Holding, ReaderInv, OwnerInv
<1>4. me.pc \in Unmapping /\ me.pc # "idle"
  BY <1>1 DEF Unmapping
<1> HIDE DEF you
<1> QED BY <1>2, <1>3, <1>4, RestKeeps, RemoveIfFacts, Zenon DEF RemoveFailed

\* RemoveTransient takes an evicted slot out of the map.
LEMMA RemoveTransientKeeps ==
    ASSUME CacheInv, NEW r \in Readers, RemoveTransient(r)
    PROVE  CacheInv'
<1> DEFINE me == rd[r]
           you == [me EXCEPT !.pc = "trim"]
<1>1. me.pc = "undrain" /\ ReaderInv(me, obs[r], slot, conns)
  BY AtReader DEF RemoveTransient
<1>2. rd' = [rd EXCEPT ![r] = you]
  BY Zenon DEF RemoveTransient
<1>3. Rest(me, you, obs[r])
  BY <1>1, Zenon DEF Rest, Fields, Holding, ReaderInv, OwnerInv
<1>4. me.pc \in Unmapping /\ me.pc # "idle"
  BY <1>1 DEF Unmapping
<1> HIDE DEF you
<1> QED BY <1>2, <1>3, <1>4, RestKeeps, RemoveIfFacts, Zenon DEF RemoveTransient

\* DropStale takes an evicted slot out of the map and tries again.
LEMMA DropStaleKeeps ==
    ASSUME CacheInv, NEW r \in Readers, DropStale(r)
    PROVE  CacheInv'
<1> DEFINE me == rd[r]
<1>1. me.pc = "stale" /\ ReaderInv(me, obs[r], slot, conns)
  BY AtReader DEF DropStale
<1>2. rd' = [rd EXCEPT ![r] = Retry(me)]
  BY Zenon DEF DropStale
<1>3. Rest(me, Retry(me), obs[r])
  BY <1>1, RetryRests, Zenon
<1>4. me.pc \in Unmapping /\ me.pc # "idle"
  BY <1>1 DEF Unmapping
<1> QED BY <1>2, <1>3, <1>4, RestKeeps, RemoveIfFacts, Zenon DEF DropStale

\* RecheckExists: "absent" is answered of a world that is absent now.
LEMMA RecheckExistsKeeps ==
    ASSUME CacheInv, NEW r \in Readers, RecheckExists(r)
    PROVE  CacheInv'
<1> DEFINE me == rd[r]
<1>1. me.pc = "recheck" /\ ReaderInv(me, obs[r], slot, conns) /\ disk[me.world] \in obs[r]
  BY AtReader, Zenon DEF RecheckExists, Visible
<1>2. /\ disk[me.world] = 0 => Rest(me, Finish(me, "absent"), obs[r])
      /\ Rest(me, Finish(me, "error"), obs[r])
  BY <1>1, FinishRests
<1>3. PICK you : rd' = [rd EXCEPT ![r] = you] /\ Rest(me, you, obs[r])
  BY <1>2, Zenon DEF RecheckExists
<1> QED BY <1>1, <1>3, RestOnly, Zenon DEF RecheckExists

\* Trim: the reader looks for a victim or returns.
LEMMA TrimKeeps ==
    ASSUME CacheInv, NEW r \in Readers, Trim(r)
    PROVE  CacheInv'
<1> DEFINE me == rd[r]
           on == [me EXCEPT !.pc = "sample"]
           you == IF Entries <= MaxEntries \/ me.tries >= RetryBudget THEN Finish(me, me.outcome) ELSE on
<1>1. me.pc = "trim" /\ ReaderInv(me, obs[r], slot, conns)
  BY AtReader DEF Trim
<1>2. rd' = [rd EXCEPT ![r] = you]
  BY Zenon DEF Trim
<1>3. Rest(me, on, obs[r])
  BY <1>1, Zenon DEF Rest, Fields, Holding, ReaderInv, OwnerInv
<1>4. Rest(me, Finish(me, me.outcome), obs[r])
  BY <1>1, FinishRests DEF ReaderInv
<1>5. Rest(me, you, obs[r])
  BY <1>3, <1>4, Zenon
<1> HIDE DEF you
<1> QED BY <1>1, <1>2, <1>5, RestOnly, Zenon DEF Trim

\* The closure ran on a connection to what the read may report.
LEMMA RunClosureKeeps ==
    ASSUME CacheInv, NEW r \in Readers, RunClosure(r)
    PROVE  CacheInv'
<1> DEFINE me == rd[r]
           o == obs[r]
           inc == slot[me.arc].conn
           got == Answer(me, "found", inc)
<1>1. me.pc = "reading" /\ ReaderInv(me, o, slot, conns)
  BY AtReader, Zenon DEF RunClosure
<1>2. me.arc # NoSlot /\ slot[me.arc].st = "Ready" /\ inc \in o /\ DOMAIN me = Fields
  BY <1>1 DEF ReaderInv, Holding
<1>3. /\ obs' = obs /\ UNCHANGED Worldly /\ conns' = conns /\ slot' = Reclaim(slot)
      /\ rd' = [rd EXCEPT ![r] = got] \/ rd' = [rd EXCEPT ![r] = Finish(me, "error")]
  BY Zenon DEF RunClosure
<1>4. CASE rd' = [rd EXCEPT ![r] = Finish(me, "error")]
  <2>1. Rest(me, Finish(me, "error"), o)
    BY <1>1, FinishRests, Zenon
  <2> QED BY <1>1, <1>3, <1>4, <2>1, RestOnly, Zenon
<1>5. CASE rd' = [rd EXCEPT ![r] = got]
  <2>1. /\ DOMAIN got = Fields /\ got.world = me.world /\ got.arc = me.arc /\ got.victim = me.victim
        /\ got.cand = me.cand /\ got.own = me.own /\ got.outcome = "found" /\ got.got = inc
        /\ got.pc \in {"drain", "trim"} /\ (got.pc = "drain" => got.own)
    BY <1>2, Zenon DEF Fields, Answer
  <2> HIDE DEF got
  <2>2. OwnerInv(got, slot, conns)
    BY <1>2, <2>1, Zenon DEF OwnerInv
  <2> HIDE DEF inc
  <2>3. ReaderInv(got, o, slot, conns)
    BY <1>1, <1>2, <2>1, <2>2, Zenon DEF ReaderInv, Holding, Unmapping
  <2>4. Moves(r, got) /\ got.pc # "opening"
    BY <1>1, <1>3, <1>5, <2>1, Zenon DEF Moves
  <2> QED BY <1>3, <2>3, <2>4, OnlyMoves, Zenon
<1> QED BY <1>3, <1>4, <1>5, Zenon

\* A probe of a slot that is Ready, of a tombstone, of a dead slot and of one that
\* is being opened.
LEMMA ProbeKeeps ==
    ASSUME CacheInv, NEW r \in Readers, Probe(r)
    PROVE  CacheInv'
<1> DEFINE me == rd[r]
           o == obs[r]
           st == slot[me.arc].st
           ready == [me EXCEPT !.pc = "reading"]
           gone == Answer(me, "absent", 0)
           stale == [me EXCEPT !.pc = "stale"]
<1>1. me.pc = "probe" /\ ReaderInv(me, o, slot, conns)
  BY AtReader, Zenon DEF Probe
<1>2. me.arc # NoSlot /\ DOMAIN me = Fields /\ OwnerInv(me, slot, conns)
  BY <1>1 DEF ReaderInv, Holding
<1>3. /\ obs' = obs /\ UNCHANGED Worldly /\ conns' = conns /\ slot' = Reclaim(slot)
  BY Zenon DEF Probe
<1>4. (rd' = [rd EXCEPT ![r] = CASE st = "Ready"     -> ready
                                  [] st = "Tombstone" -> gone
                                  [] st = "Evicted"   -> stale
                                  [] st = "Opening"   -> Retry(me)])
  BY Zenon DEF Probe
<1>5. ASSUME NEW you, rd' = [rd EXCEPT ![r] = you], you.world = me.world, you.pc # "opening",
             ReaderInv(you, o, slot, conns)
      PROVE  CacheInv'
  <2>1. Moves(r, you)
    BY <1>1, <1>3, <1>5 DEF Moves
  <2> QED BY <1>3, <1>5, <2>1, OnlyMoves, Zenon
<1>6. CASE st = "Ready"
  <2>1. /\ DOMAIN ready = Fields /\ ready.pc = "reading"
        /\ \A f \in Fields \ {"pc"} : ready[f] = me[f]
    BY <1>2 DEF Fields
  <2>2. rd' = [rd EXCEPT ![r] = ready]
    BY <1>4, <1>6, Zenon
  <2> HIDE DEF ready
  <2>3. OwnerInv(ready, slot, conns)
    BY <2>1, Zenon DEF OwnerInv
  <2>4. ReaderInv(ready, o, slot, conns)
    BY <1>1, <1>2, <1>6, <2>1, <2>3, Zenon DEF ReaderInv, Holding, Unmapping, Fields
  <2>5. ready.world = me.world /\ ready.pc # "opening"
    BY <2>1, Zenon DEF Fields
  <2> QED BY <1>5, <2>2, <2>4, <2>5, Zenon

<1>7. CASE st = "Tombstone"
  <2>1. /\ DOMAIN gone = Fields /\ gone.world = me.world /\ gone.arc = me.arc /\ gone.victim = me.victim
        /\ gone.cand = me.cand /\ gone.own = me.own /\ gone.outcome = "absent"
        /\ gone.pc \in {"drain", "trim"} /\ (gone.pc = "drain" => gone.own)
    BY <1>2 DEF Fields, Answer
  <2>2. rd' = [rd EXCEPT ![r] = gone]
    BY <1>4, <1>7, Zenon
  <2>3. me.own => \A w \in Worlds : conns[w] = me.arc => st # "Tombstone"
    BY <1>1, <1>2, Zenon DEF OwnerInv
  <2>4. 0 \in o
    BY <1>1, <1>2, <1>7, Zenon DEF ReaderInv
  <2> HIDE DEF gone
  <2>5. OwnerInv(gone, slot, conns)
    BY <2>1, <2>3, Zenon DEF OwnerInv
  <2>6. ReaderInv(gone, o, slot, conns)
    BY <1>1, <1>2, <2>1, <2>4, <2>5, Zenon DEF ReaderInv, Holding, Unmapping
  <2>7. gone.world = me.world /\ gone.pc # "opening"
    BY <2>1, Zenon
  <2> QED BY <1>5, <2>2, <2>6, <2>7, Zenon
<1>8. CASE st = "Evicted"
  <2>1. /\ DOMAIN stale = Fields /\ stale.pc = "stale"
        /\ \A f \in Fields \ {"pc"} : stale[f] = me[f]
    BY <1>2 DEF Fields
  <2>2. rd' = [rd EXCEPT ![r] = stale]
    BY <1>4, <1>8, Zenon
  <2> HIDE DEF stale
  <2>3. OwnerInv(stale, slot, conns)
    BY <2>1, Zenon DEF OwnerInv
  <2>4. ReaderInv(stale, o, slot, conns)
    BY <1>1, <1>2, <1>8, <2>1, <2>3, Zenon DEF ReaderInv, Holding, Unmapping, Fields
  <2>5. stale.world = me.world /\ stale.pc # "opening"
    BY <2>1 DEF Fields
  <2> QED BY <1>5, <2>2, <2>4, <2>5, Zenon
<1>9. CASE st = "Opening"
  <2>1. rd' = [rd EXCEPT ![r] = Retry(me)]
    BY <1>4, <1>9
  <2>2. Rest(me, Retry(me), o)
    BY <1>1, RetryRests, Zenon
  <2> QED BY <1>1, <1>3, <2>1, <2>2, RestOnly, Zenon
<1>10. st \in Live
  BY <1>1, <1>2, Zenon DEF ReaderInv
<1> QED BY <1>6, <1>7, <1>8, <1>9, <1>10, Zenon DEF Live

\* What a reader knows that opened or closed the slot it holds.
LEMMA ToucherKnows ==
    ASSUME NEW me, NEW you, NEW o, NEW sl, NEW sl2, NEW cs, NEW a \in Slots,
           ReaderInv(me, o, sl, cs), me.arc = a,
           DOMAIN you = Fields, \A f \in Fields \ {"pc"} : you[f] = me[f],
           \A y \in Slots \ {a} : sl2[y] = sl[y], sl2[a].world = sl[a].world,
           \/ you.pc \in {"openFailed", "undrain"} /\ sl2[a].st = "Evicted"
           \/ you.pc = "probe" /\ sl2[a].st = "Ready" /\ sl2[a].conn \in o /\ sl[a].st = "Opening",
           you.pc = "undrain" => me.outcome # "pending"
    PROVE  ReaderInv(you, o, sl2, cs)
<1>1. /\ you.arc = a /\ you.world = me.world /\ you.victim = me.victim /\ you.cand = me.cand
      /\ you.own = me.own /\ you.outcome = me.outcome /\ you.got = me.got
      /\ you.pc \in {"openFailed", "undrain", "probe"} /\ a # NoSlot
  BY ReadCacheAssumption, Zenon DEF Fields
<1>2. sl2[a].st \in {"Evicted", "Ready"} /\ sl2[a].st \in Live
  BY Zenon DEF Live
<1>3. you.pc \in Unmapping => sl2[a].st = "Evicted"
  BY <1>1, Zenon DEF Unmapping
<1>4. you.victim # NoSlot => \A w \in Worlds : cs[w] = you.victim => sl2[you.victim].st = "Evicted"
  <2>1. CASE you.victim = a
    BY <1>1, <2>1, Zenon DEF ReaderInv
  <2>2. CASE you.victim # a
    BY <1>1, <2>2, Zenon DEF ReaderInv
  <2> QED BY <2>1, <2>2
<1>5. OwnerInv(you, sl2, cs)
  BY <1>1, <1>2 DEF OwnerInv
<1>6. /\ sl2[a].world = you.world
      /\ sl2[a].st = "Ready" => sl2[a].conn \in o
  BY <1>1 DEF ReaderInv
<1> QED BY <1>1, <1>2, <1>3, <1>4, <1>5, <1>6, Zenon DEF ReaderInv

\* OpenConn: the connection is to the file that is there now.
LEMMA OpenConnKeeps ==
    ASSUME CacheInv, NEW r \in Readers, OpenConn(r)
    PROVE  CacheInv'
<1> DEFINE me == rd[r]
           o == obs[r]
           a == me.arc
           w == me.world
           x == [slot[a] EXCEPT !.st = "Ready", !.conn = disk[w]]
           you == [me EXCEPT !.pc = "probe"]
<1>1. me.pc = "opening" /\ ReaderInv(me, o, slot, conns) /\ w \in Worlds /\ disk[w] \in o
  BY AtReader, Zenon DEF OpenConn, Visible
<1>2. a \in Slots /\ slot[a].st = "Opening" /\ slot[a].world = w /\ DOMAIN me = Fields
  BY <1>1, Zenon DEF ReaderInv, Holding
<1>3. DOMAIN slot = Slots /\ DOMAIN slot[a] = {"st", "world", "conn"}
  BY <1>2 DEF CacheInv, Domains
<1>4. /\ slot' = [slot EXCEPT ![a] = x] /\ rd' = [rd EXCEPT ![r] = you] /\ disk[w] # 0
      /\ UNCHANGED Worldly /\ conns' = conns /\ obs' = obs
  BY Zenon DEF OpenConn
<1>5. x.st = "Ready" /\ x.conn = disk[w] /\ x.world = slot[a].world /\ DOMAIN x = {"st", "world", "conn"}
  BY <1>3
<1>6. slot'[a] = x /\ \A y \in Slots \ {a} : slot'[y] = slot[y]
  BY <1>2, <1>3, <1>4, Zenon
<1>7. DOMAIN you = Fields /\ you.pc = "probe" /\ \A f \in Fields \ {"pc"} : you[f] = me[f]
  BY <1>2 DEF Fields
<1>8. you.world = me.world
  BY <1>7, Zenon DEF Fields
<1> HIDE DEF x, you
<1>9. ReaderInv(you, o, slot', conns)
  BY <1>1, <1>2, <1>5, <1>6, <1>7, ToucherKnows
<1>10. \A v \in Worlds : conns[v] = a => v = w
  BY <1>2, ReadCacheAssumption DEF CacheInv, WorldInv
<1>11. ASSUME NEW q \in Readers \ {r}, rd[q].arc = a
       PROVE  rd[q].pc \notin {"opening", "reading"} /\ disk[w] \in obs[q]
  <2>1. ReaderInv(rd[q], obs[q], slot, conns) /\ a # NoSlot
    BY <1>2, ReadCacheAssumption, Zenon DEF CacheInv
  <2>2. rd[q].pc # "idle" /\ rd[q].world = w
    BY <1>2, <1>11, <2>1 DEF ReaderInv, IdleReader
  <2>3. disk[w] \in obs[q]
    BY <2>2, AtReader, Zenon DEF Visible
  <2>4. rd[q].pc # "reading"
    BY <1>2, <1>11, <2>1, Zenon DEF ReaderInv
  <2>5. rd[q].pc # "opening"
    BY <1>1, <1>11, Zenon DEF CacheInv, OneOpener
  <2> QED BY <2>3, <2>4, <2>5, Zenon
<1>12. Touch(r, a, x)
  BY <1>2, <1>4, <1>5, <1>10, <1>11, Zenon DEF Touch
<1>13. Moves(r, you) /\ you.pc # "opening"
  BY <1>1, <1>4, <1>7, <1>8, Zenon DEF Moves
<1> QED BY <1>9, <1>12, <1>13, TouchKeeps, Zenon

\* OpenFail: a slot that could not be opened is evicted, not left opening.
LEMMA OpenFailKeeps ==
    ASSUME CacheInv, NEW r \in Readers, OpenFail(r)
    PROVE  CacheInv'
<1> DEFINE me == rd[r]
           o == obs[r]
           a == me.arc
           x == [slot[a] EXCEPT !.st = "Evicted"]
           you == [me EXCEPT !.pc = "openFailed"]
<1>1. me.pc = "opening" /\ ReaderInv(me, o, slot, conns)
  BY AtReader, Zenon DEF OpenFail
<1>2. a \in Slots /\ slot[a].st = "Opening" /\ DOMAIN me = Fields
  BY <1>1, Zenon DEF ReaderInv, Holding
<1>3. DOMAIN slot = Slots /\ DOMAIN slot[a] = {"st", "world", "conn"}
  BY <1>2 DEF CacheInv, Domains
<1>4. /\ slot' = [slot EXCEPT ![a] = x] /\ rd' = [rd EXCEPT ![r] = you]
      /\ UNCHANGED Worldly /\ conns' = conns /\ obs' = obs
  BY Zenon DEF OpenFail
<1>5. x.st = "Evicted" /\ x.world = slot[a].world /\ DOMAIN x = {"st", "world", "conn"}
  BY <1>3, Zenon
<1>6. slot'[a] = x /\ \A y \in Slots \ {a} : slot'[y] = slot[y]
  BY <1>2, <1>3, <1>4, Zenon
<1>7. DOMAIN you = Fields /\ you.pc = "openFailed" /\ \A f \in Fields \ {"pc"} : you[f] = me[f]
  BY <1>2 DEF Fields
<1>8. you.world = me.world
  BY <1>7, Zenon DEF Fields
<1> HIDE DEF x, you
<1>9. ReaderInv(you, o, slot', conns)
  BY <1>1, <1>2, <1>5, <1>6, <1>7, ToucherKnows
<1>10. ASSUME NEW q \in Readers \ {r}, rd[q].arc = a
       PROVE  rd[q].pc \notin {"opening", "reading"}
  <2>1. ReaderInv(rd[q], obs[q], slot, conns)
    BY Zenon DEF CacheInv
  <2>2. rd[q].pc # "reading"
    BY <1>2, <1>10, <2>1, Zenon DEF ReaderInv
  <2>3. rd[q].pc # "opening"
    BY <1>1, <1>10, Zenon DEF CacheInv, OneOpener
  <2> QED BY <2>2, <2>3, Zenon
<1>11. Touch(r, a, x)
  BY <1>2, <1>4, <1>5, <1>10, Zenon DEF Touch
<1>12. Moves(r, you) /\ you.pc # "opening"
  BY <1>1, <1>4, <1>7, <1>8, Zenon DEF Moves
<1> QED BY <1>9, <1>11, <1>12, TouchKeeps, Zenon

\* The slot of a transient owner is no tombstone of the map, so that closing it
\* takes no delete's tombstone away.
LEMMA DrainTransientKeeps ==
    ASSUME CacheInv, NEW r \in Readers, DrainTransient(r)
    PROVE  CacheInv'
<1> DEFINE me == rd[r]
           o == obs[r]
           a == me.arc
           x == [slot[a] EXCEPT !.st = "Evicted", !.conn = 0]
           you == [me EXCEPT !.pc = "undrain"]
<1>1. me.pc = "drain" /\ ReaderInv(me, o, slot, conns)
  BY AtReader, Zenon DEF DrainTransient
<1>2. a \in Slots /\ DOMAIN me = Fields /\ OwnerInv(me, slot, conns)
  BY <1>1, Zenon DEF ReaderInv, Holding
<1>3. DOMAIN slot = Slots /\ DOMAIN slot[a] = {"st", "world", "conn"}
  BY <1>2, Zenon DEF CacheInv, Domains
<1>4. /\ slot' = [slot EXCEPT ![a] = x] /\ rd' = [rd EXCEPT ![r] = you]
      /\ UNCHANGED Worldly /\ conns' = conns /\ obs' = obs
  BY Zenon DEF DrainTransient
<1>5. x.st = "Evicted" /\ x.world = slot[a].world /\ DOMAIN x = {"st", "world", "conn"}
  BY <1>3
<1>6. slot'[a] = x /\ \A y \in Slots \ {a} : slot'[y] = slot[y]
  BY <1>2, <1>3, <1>4, Zenon
<1>7. DOMAIN you = Fields /\ you.pc = "undrain" /\ \A f \in Fields \ {"pc"} : you[f] = me[f]
  BY <1>2 DEF Fields
<1>8. you.world = me.world
  BY <1>7, Zenon DEF Fields
<1>9. /\ me.outcome # "pending"
      /\ \A w \in Worlds : conns[w] = a => slot[a].st # "Tombstone"
  BY <1>1, <1>2, Zenon DEF OwnerInv
<1> HIDE DEF x, you
<1>10. ReaderInv(you, o, slot', conns)
  BY <1>1, <1>2, <1>5, <1>6, <1>7, <1>9, ToucherKnows
<1>11. \A q \in Readers : rd[q].arc = a => rd[q].pc \notin {"opening", "reading"}
  BY NoGuards, Zenon DEF DrainTransient
<1>12. Touch(r, a, x)
  BY <1>2, <1>4, <1>5, <1>9, <1>11, Zenon DEF Touch
<1>13. Moves(r, you) /\ you.pc # "opening"
  BY <1>1, <1>4, <1>7, <1>8, Zenon DEF Moves
<1> QED BY <1>10, <1>12, <1>13, TouchKeeps, Zenon

\* What is held is known to the map, the readers and the operations before a step.
LEMMA HeldNow ==
    ASSUME CacheInv
    PROVE  /\ \A w \in Worlds : conns[w] # NoSlot => conns[w] \in Held
           /\ \A w \in Worlds : op[w].prev # NoSlot => op[w].prev \in Held
           /\ \A r \in Readers : rd[r].arc # NoSlot => rd[r].arc \in Held
           /\ \A r \in Readers : rd[r].victim # NoSlot => rd[r].victim \in Held
<1>1. DOMAIN conns = Worlds
  BY Zenon DEF CacheInv, Domains
<1> QED BY <1>1, HeldIs, HeldHas, Zenon

\* A new slot enters the map: what the other readers know stays true.
LEMMA ReadersKeep ==
    ASSUME CacheInv, NEW f \in Slots, f \notin Held, NEW w \in Worlds, NEW x,
           conns' = [conns EXCEPT ![w] = f], slot' = [slot EXCEPT ![f] = x],
           NEW q \in Readers, NEW o2, rd[q].pc # "idle" => obs[q] \subseteq o2
    PROVE  ReaderInv(rd[q], o2, slot', conns')
<1> DEFINE m == rd[q]
           o == obs[q]
           H == Held
<1>1. ReaderInv(m, o, slot, conns)
  BY Zenon DEF CacheInv
<1>2. m.arc \in Slots \cup {NoSlot} /\ m.victim \in Slots \cup {NoSlot}
  BY <1>1, Zenon DEF ReaderInv
<1>3. (m.arc # NoSlot => m.arc \in H) /\ (m.victim # NoSlot => m.victim \in H)
  BY HeldNow, Zenon
<1>4. \A y \in H \cap Slots : slot'[y] = slot[y]
  BY Zenon DEF CacheInv, Domains
<1>5. \A v \in Worlds : conns'[v] = conns[v] \/ conns'[v] = NoSlot \/ conns'[v] \notin H
  BY Zenon DEF CacheInv, Domains
<1>6. m.pc # "idle" => o \subseteq o2
  OBVIOUS
<1>7. /\ m.arc # NoSlot => m.arc \in H /\ slot'[m.arc] = slot[m.arc]
      /\ m.victim # NoSlot => m.victim \in H /\ slot'[m.victim] = slot[m.victim]
  BY <1>2, <1>3, <1>4, Zenon
<1> DEFINE sl2 == slot'
           cs2 == conns'
<1>8. /\ \A v \in Worlds : cs2[v] = conns[v] \/ cs2[v] = NoSlot \/ cs2[v] \notin H
      /\ m.arc # NoSlot => m.arc \in H /\ sl2[m.arc] = slot[m.arc]
      /\ m.victim # NoSlot => m.victim \in H /\ sl2[m.victim] = slot[m.victim]
  BY <1>5, <1>7
<1> HIDE DEF m, o, H, sl2, cs2
<1>9. ReaderInv(m, o2, sl2, cs2)
  BY <1>1, <1>6, <1>8, ReaderKeeps, ZenonT(30)
<1> QED BY <1>9, Zenon DEF m, sl2, cs2

\* And so does what is true of the other worlds.
LEMMA WorldsKeep ==
    ASSUME CacheInv, NEW f \in Slots, f \notin Held, NEW w \in Worlds, NEW x,
           conns' = [conns EXCEPT ![w] = f], slot' = [slot EXCEPT ![f] = x],
           NEW v \in Worlds, v # w
    PROVE  WorldInv(v, conns'[v], op[v], disk[v], slot')
<1> DEFINE c == conns[v]
           p == op[v]
           d == disk[v]
<1>1. WorldInv(v, c, p, d, slot)
  BY DEF CacheInv
<1>2. c \in Slots \cup {NoSlot} /\ p.prev \in Slots \cup {NoSlot}
  BY <1>1 DEF WorldInv
<1>3. conns'[v] = c
  BY DEF CacheInv, Domains
<1>4. \A y \in Held \cap Slots : slot'[y] = slot[y]
  BY Zenon DEF CacheInv, Domains
<1>5. /\ c # NoSlot => slot'[c] = slot[c]
      /\ p.prev # NoSlot => slot'[p.prev] = slot[p.prev]
  BY <1>2, <1>4, HeldNow, Zenon
<1> HIDE DEF c, p, d
<1>6. WorldInv(v, c, p, d, slot')
  BY <1>1, <1>5, WorldKeeps, Zenon
<1> QED BY <1>3, <1>6 DEF p, d

\* A slot is published under its guard before the file is opened.
LEMMA PublishKeeps ==
    ASSUME CacheInv, NEW r \in Readers, Publish(r)
    PROVE  CacheInv'
<1> DEFINE me == rd[r]
           o == obs[r]
           w == me.world
           f == FreshSlot
           x == NewSlot("Opening", w)
<1>1. me.pc = "publish" /\ ReaderInv(me, o, slot, conns) /\ w \in Worlds
  BY AtReader, Zenon DEF Publish
<1>2. /\ WorldInv(w, conns[w], op[w], disk[w], slot) /\ Visible(w) \subseteq o
      /\ ~me.own /\ DOMAIN me = Fields
  BY <1>1, AtReader, Zenon DEF ReaderInv, OwnerInv
<1>3. obs' = obs /\ UNCHANGED Worldly
  BY DEF Publish
<1>4. CASE conns[w] = NoSlot
  <2> DEFINE you == [me EXCEPT !.arc = f, !.own = TRUE, !.pc = "opening"]
  <2>1. /\ CanAllocate /\ conns' = [conns EXCEPT ![w] = f] /\ slot' = [slot EXCEPT ![f] = x]
        /\ rd' = [rd EXCEPT ![r] = you]
    BY <1>4, Zenon DEF Publish
  <2>2. f \in Slots /\ f \notin Held /\ f # NoSlot
    BY <2>1, FreshFacts, Zenon
  <2>3. x.st = "Opening" /\ x.world = w /\ DOMAIN x = {"st", "world", "conn"}
    BY DEF NewSlot
  <2>4. /\ DOMAIN you = Fields /\ you.arc = f /\ you.world = w /\ you.victim = me.victim
        /\ you.cand = me.cand /\ you.outcome = me.outcome /\ you.got = me.got /\ you.pc = "opening"
    BY <1>2, Zenon DEF Fields
  <2> HIDE DEF f, x, you
  <2>5. /\ rd'[r] = you /\ DOMAIN rd' = Readers /\ \A q \in Readers \ {r} : rd'[q] = rd[q]
        /\ op' = op /\ disk' = disk /\ wconns' = wconns /\ scope' = scope
    BY <1>3, <2>1, Zenon DEF CacheInv, Domains, Worldly
  <2>6. /\ slot'[f] = x /\ DOMAIN slot' = Slots /\ \A y \in Slots \ {f} : slot'[y] = slot[y]
        /\ conns'[w] = f /\ DOMAIN conns' = Worlds /\ \A v \in Worlds \ {w} : conns'[v] = conns[v]
    BY <1>1, <2>1, <2>2, Zenon DEF CacheInv, Domains
  <2>7. Domains'
    BY <1>3, <2>3, <2>5, <2>6, Zenon DEF CacheInv, Domains
  <2>8. ReaderInv(me, o, slot', conns')
    BY <1>1, <2>1, <2>2, ReadersKeep, Zenon
  <2>9. ReaderInv(you, o, slot', conns')
    <3>1. OwnerInv(you, slot', conns')
      BY <2>4, Zenon DEF OwnerInv
    <3>2. /\ slot'[you.arc].world = you.world /\ slot'[you.arc].st = "Opening"
          /\ slot'[you.arc].st \in Live
      BY <2>3, <2>4, <2>6, Zenon DEF Live
    <3>3. you.arc \in Slots /\ you.arc # NoSlot /\ you.pc \notin Unmapping
      BY <2>2, <2>4, Zenon DEF Unmapping
    <3> QED BY <2>4, <2>8, <3>1, <3>2, <3>3, Zenon DEF ReaderInv
  <2>10. \A q \in Readers : ReaderInv(rd'[q], obs'[q], slot', conns')
    <3>1. ASSUME NEW q \in Readers, q # r PROVE ReaderInv(rd'[q], obs'[q], slot', conns')
      <4>1. ReaderInv(rd[q], obs[q], slot', conns')
        BY <1>1, <2>1, <2>2, ReadersKeep, Zenon
      <4> QED BY <1>3, <2>5, <3>1, <4>1, Zenon
    <3> QED BY <1>3, <2>5, <2>9, <3>1, Zenon
  <2>11. \A v \in Worlds : WorldInv(v, conns'[v], op'[v], disk'[v], slot')
    <3>1. ASSUME NEW v \in Worlds, v # w PROVE WorldInv(v, conns'[v], op'[v], disk'[v], slot')
      <4>1. WorldInv(v, conns'[v], op[v], disk[v], slot')
        BY <1>1, <2>1, <2>2, <3>1, WorldsKeep, Zenon
      <4> QED BY <2>5, <4>1
    <3>2. WorldInv(w, f, op[w], disk[w], slot')
      <4>1. op[w].pc \notin Busy /\ op[w].prev = NoSlot /\ DOMAIN op[w] = {"pc", "prev"}
        BY <1>2, <1>4, Zenon DEF WorldInv, Busy
      <4> QED BY <2>2, <2>3, <2>6, <4>1, Zenon DEF WorldInv, Live
    <3> QED BY <2>5, <2>6, <3>1, <3>2, Zenon
  <2>12. OneOpener'
    <3>1. OneOpener /\ \A q \in Readers : rd[q].arc # f
      BY <2>2, HeldNow, Zenon DEF CacheInv
    <3> QED BY <2>4, <2>5, <3>1 DEF OneOpener
  <2>13. ObsCurrent'
    <3>1. ObsCurrent /\ \A v : Visible(v)' = Visible(v)
      BY <2>5, Zenon DEF CacheInv, Visible, Deleting
    <3> QED BY <1>1, <1>3, <2>4, <2>5, <3>1, Zenon DEF ObsCurrent
  <2>14. Unwritten'
    <3>1. CASE scope.writes = {}
      <4>1. wconns = {} /\ (\A v \in Worlds : op[v].pc # "write") /\ Tracked(slot, conns, op)
        BY <3>1, Zenon DEF CacheInv, Unwritten
      <4>2. Tracked(slot', conns', op)
        BY <1>1, <1>4, <2>2, <2>3, <2>6, <4>1, ReadCacheAssumption DEF Tracked
      <4> QED BY <2>5, <4>1, <4>2, Zenon DEF Unwritten
    <3>2. CASE scope.writes # {}
      BY <2>5, <3>2, Zenon DEF Unwritten
    <3> QED BY <3>1, <3>2, Zenon
  <2> QED BY <2>7, <2>10, <2>11, <2>12, <2>13, <2>14, Zenon DEF CacheInv
<1>5. CASE conns[w] # NoSlot
  <2> DEFINE s == conns[w]
             you == [me EXCEPT !.arc = s, !.pc = "probe"]
  <2>1. rd' = [rd EXCEPT ![r] = you] /\ conns' = conns /\ slot' = slot
    BY <1>5, Zenon DEF Publish
  <2>2. /\ DOMAIN you = Fields /\ you.arc = s /\ you.world = w /\ you.victim = me.victim
        /\ you.cand = me.cand /\ you.outcome = me.outcome /\ you.got = me.got /\ you.own = me.own
        /\ you.pc = "probe"
    BY <1>2, Zenon DEF Fields
  <2>3. /\ s \in Slots /\ s # NoSlot /\ slot[s].world = w /\ slot[s].st \in Live
        /\ slot[s].st = "Tombstone" => 0 \in o
        /\ slot[s].st = "Ready" => slot[s].conn \in o
    BY <1>2, <1>5, Zenon DEF WorldInv, Visible, Deleting, Busy
  <2> HIDE DEF you, s
  <2>4. OwnerInv(you, slot, conns)
    BY <1>2, <2>2, Zenon DEF OwnerInv
  <2>5. ReaderInv(you, o, slot, conns)
    BY <1>1, <2>2, <2>3, <2>4, Zenon DEF ReaderInv, Holding, Unmapping
  <2>6. Moves(r, you) /\ you.pc # "opening"
    BY <1>1, <1>3, <2>1, <2>2, Zenon DEF Moves
  <2> QED BY <2>1, <2>5, <2>6, OnlyMoves, Zenon
<1> QED BY <1>4, <1>5, Zenon

\* A read begins, or returns.
LEMMA TurnKeeps ==
    ASSUME CacheInv, NEW r \in Readers, NEW me, NEW o, rd' = [rd EXCEPT ![r] = me],
           obs' = [obs EXCEPT ![r] = o], UNCHANGED <<Worldly, conns, slot>>,
           ReaderInv(me, o, slot, conns), me.pc # "opening",
           me.pc # "idle" => me.world \in Worlds /\ Visible(me.world) \subseteq o
    PROVE  CacheInv'
<1>1. /\ rd'[r] = me /\ DOMAIN rd' = Readers /\ \A q \in Readers \ {r} : rd'[q] = rd[q]
      /\ obs'[r] = o /\ DOMAIN obs' = Readers /\ \A q \in Readers \ {r} : obs'[q] = obs[q]
      /\ op' = op /\ disk' = disk /\ wconns' = wconns /\ scope' = scope /\ conns' = conns /\ slot' = slot
  BY Zenon DEF CacheInv, Domains, Worldly
<1>2. Domains'
  BY <1>1, Zenon DEF CacheInv, Domains
<1>3. \A q \in Readers : ReaderInv(rd'[q], obs'[q], slot', conns')
  BY <1>1, Zenon DEF CacheInv
<1>4. \A w \in Worlds : WorldInv(w, conns'[w], op'[w], disk'[w], slot')
  BY <1>1, Zenon DEF CacheInv
<1>5. OneOpener'
  BY <1>1, Zenon DEF CacheInv, OneOpener
<1>6. ObsCurrent'
  <2>1. ObsCurrent /\ \A w : Visible(w)' = Visible(w)
    BY <1>1, Zenon DEF CacheInv, Visible, Deleting
  <2> QED BY <1>1, <2>1, Zenon DEF ObsCurrent
<1>7. Unwritten'
  BY <1>1, Zenon DEF CacheInv, Unwritten
<1> QED BY <1>2, <1>3, <1>4, <1>5, <1>6, <1>7, Zenon DEF CacheInv

\* A reader that holds nothing and has no answer knows nothing.
LEMMA Fresh ==
    ASSUME NEW me, NEW o, DOMAIN me = Fields, me.pc = "lookup" \/ me = IdleReader,
           me.arc = NoSlot, me.victim = NoSlot, me.cand = {}, ~me.own, me.outcome = "pending"
    PROVE  ReaderInv(me, o, slot, conns)
<1>1. me.pc \in {"lookup", "idle"}
  BY DEF IdleReader
<1>2. me.pc = "idle" => me = IdleReader
  OBVIOUS
<1>3. OwnerInv(me, slot, conns)
  BY <1>1 DEF OwnerInv
<1> QED BY <1>1, <1>2, <1>3, Zenon DEF ReaderInv, Holding, Unmapping

\* BeginRead: a new read starts with what is there now.
LEMMA BeginReadKeeps ==
    ASSUME CacheInv, NEW r \in Readers, NEW w \in Worlds, BeginRead(r, w)
    PROVE  CacheInv'
<1> DEFINE me == [IdleReader EXCEPT !.pc = "lookup", !.world = w]
<1>1. /\ DOMAIN me = Fields /\ me.pc = "lookup" /\ me.world = w /\ me.arc = NoSlot /\ me.victim = NoSlot
      /\ me.cand = {} /\ ~me.own /\ me.outcome = "pending"
  BY DEF IdleReader, Fields
<1>2. /\ rd' = [rd EXCEPT ![r] = me] /\ obs' = [obs EXCEPT ![r] = Visible(w)]
      /\ UNCHANGED <<Worldly, conns, slot>>
  BY Zenon DEF BeginRead
<1> HIDE DEF me
<1>3. ReaderInv(me, Visible(w), slot, conns)
  BY <1>1, Fresh, Zenon
<1>4. me.pc # "opening" /\ (me.pc # "idle" => me.world \in Worlds /\ Visible(me.world) \subseteq Visible(w))
  BY <1>1
<1> QED BY <1>2, <1>3, <1>4, TurnKeeps, Zenon

\* Return: the reader lets go of its slots.
LEMMA ReturnKeeps ==
    ASSUME CacheInv, NEW r \in Readers, Return(r)
    PROVE  CacheInv'
<1> DEFINE me == IdleReader
<1>1. /\ DOMAIN me = Fields /\ me.pc = "idle" /\ me.arc = NoSlot /\ me.victim = NoSlot
      /\ me.cand = {} /\ ~me.own /\ me.outcome = "pending"
  BY DEF IdleReader, Fields
<1>2. ReaderInv(me, {}, slot, conns)
  BY <1>1, Fresh, Zenon
<1>3. me.pc # "opening" /\ (me.pc # "idle" => me.world \in Worlds /\ Visible(me.world) \subseteq {})
  BY <1>1, Zenon
<1> QED BY <1>2, <1>3, TurnKeeps, Zenon DEF Return

-----------------------------------------------------------------------------
(* Steps of a delete or a write.                                            *)

\* Only the world w is concerned, and its entry may leave the map.
WorldMoves(w) ==
    /\ rd' = rd /\ scope' = scope /\ Kept
    /\ DOMAIN conns' = Worlds /\ DOMAIN op' = Worlds /\ DOMAIN disk' = Worlds /\ DOMAIN obs' = Readers
    /\ \A v \in Worlds \ {w} : conns'[v] = conns[v] /\ op'[v] = op[v] /\ disk'[v] = disk[v]
    /\ conns'[w] \in {conns[w], NoSlot}

\* Every read under way may report what it could and what is there now.
ObsGrows ==
    \A q \in Readers : rd[q].pc # "idle" => obs[q] \subseteq obs'[q] /\ Visible(rd[q].world)' \subseteq obs'[q]

\* If the world's entry leaves, no connection of a world nobody writes is lost.
TrackedMoves(w) ==
    scope.writes = {} =>
        /\ wconns' = {} /\ op'[w].pc # "write" /\ op'[w].prev = op[w].prev
        /\ conns'[w] = conns[w] \/ (conns[w] \in Slots => slot[conns[w]].st \notin {"Ready", "Opening"})

\* A step of an operation on one world keeps what holds of the others.
LEMMA WorldMovesKeeps ==
    ASSUME CacheInv, NEW w \in Worlds, WorldMoves(w), ObsGrows, TrackedMoves(w),
           WorldInv(w, conns'[w], op'[w], disk'[w], slot)
    PROVE  CacheInv'
<1>1. /\ rd' = rd /\ scope' = scope /\ Kept
      /\ DOMAIN conns' = Worlds /\ DOMAIN op' = Worlds /\ DOMAIN disk' = Worlds /\ DOMAIN obs' = Readers
      /\ \A v \in Worlds \ {w} : conns'[v] = conns[v] /\ op'[v] = op[v] /\ disk'[v] = disk[v]
      /\ conns'[w] \in {conns[w], NoSlot}
  BY Zenon DEF WorldMoves
<1>2. Domains'
  BY <1>1, Zenon DEF CacheInv, Domains, Kept
<1>3. \A s \in Slots \cap Held' : slot'[s] = slot[s]
  BY <1>1, Zenon DEF Kept
<1>4. /\ \A v \in Worlds : conns'[v] # NoSlot => conns'[v] \in Held'
      /\ \A v \in Worlds : op'[v].prev # NoSlot => op'[v].prev \in Held'
      /\ \A q \in Readers : rd'[q].arc # NoSlot => rd'[q].arc \in Held'
      /\ \A q \in Readers : rd'[q].victim # NoSlot => rd'[q].victim \in Held'
  BY <1>1, HeldIs, HeldHas, Zenon
<1>5. ASSUME NEW q \in Readers PROVE ReaderInv(rd'[q], obs'[q], slot', conns')
  <2> DEFINE m == rd[q]
             o == obs[q]
             o2 == obs'[q]
             H == Held'
             sl2 == slot'
             cs2 == conns'
  <2>1. ReaderInv(m, o, slot, conns)
    BY Zenon DEF CacheInv
  <2>2. m.arc \in Slots \cup {NoSlot} /\ m.victim \in Slots \cup {NoSlot}
    BY <2>1, Zenon DEF ReaderInv
  <2>3. /\ m.arc # NoSlot => m.arc \in H /\ sl2[m.arc] = slot[m.arc]
        /\ m.victim # NoSlot => m.victim \in H /\ sl2[m.victim] = slot[m.victim]
    BY <1>1, <1>3, <1>4, <2>2, Zenon
  <2>4. \A v \in Worlds : cs2[v] = conns[v] \/ cs2[v] = NoSlot \/ cs2[v] \notin H
    BY <1>1, Zenon
  <2>5. m.pc # "idle" => o \subseteq o2
    BY DEF ObsGrows
  <2> HIDE DEF m, o, o2, H, sl2, cs2
  <2>6. ReaderInv(m, o2, sl2, cs2)
    BY <2>1, <2>3, <2>4, <2>5, ReaderKeeps, Zenon
  <2> QED BY <1>1, <2>6, Zenon DEF m, o2, sl2, cs2
<1>6. ASSUME NEW v \in Worlds PROVE WorldInv(v, conns'[v], op'[v], disk'[v], slot')
  <2> DEFINE c == conns'[v]
             p == op'[v]
             d == disk'[v]
             sl2 == slot'
  <2>1. WorldInv(v, c, p, d, slot)
    <3>1. v # w => WorldInv(v, conns[v], op[v], disk[v], slot)
      BY Zenon DEF CacheInv
    <3> QED BY <1>1, <3>1
  <2>2. c \in Slots \cup {NoSlot} /\ p.prev \in Slots \cup {NoSlot}
    BY <2>1, Zenon DEF WorldInv
  <2>3. /\ c # NoSlot => sl2[c] = slot[c]
        /\ p.prev # NoSlot => sl2[p.prev] = slot[p.prev]
    BY <1>3, <1>4, <2>2, Zenon
  <2> HIDE DEF c, p, d, sl2
  <2>4. WorldInv(v, c, p, d, sl2)
    BY <2>1, <2>3, WorldKeeps, Zenon
  <2> QED BY <2>4 DEF c, p, d, sl2
<1>7. OneOpener'
  BY <1>1, Zenon DEF CacheInv, OneOpener
<1>8. ObsCurrent'
  <2>1. \A q \in Readers : rd[q].pc # "idle" => rd[q].world \in Worlds /\ Visible(rd[q].world)' \subseteq obs'[q]
    BY Zenon DEF CacheInv, ObsCurrent, ObsGrows
  <2> QED BY <1>1, <2>1, Zenon DEF ObsCurrent
<1>9. Unwritten'
  <2>1. CASE scope.writes = {}
    <3>1. (\A v \in Worlds : op[v].pc # "write") /\ Tracked(slot, conns, op)
      BY <2>1, Zenon DEF CacheInv, Unwritten
    <3>2. /\ wconns' = {} /\ op'[w].pc # "write" /\ op'[w].prev = op[w].prev
          /\ conns'[w] = conns[w] \/ (conns[w] \in Slots => slot[conns[w]].st \notin {"Ready", "Opening"})
      BY <2>1, Zenon DEF TrackedMoves
    <3>3. \A s \in Slots : slot'[s].st \in {"Ready", "Opening"} =>
              slot[s].st \in {"Ready", "Opening"} /\ slot'[s].world = slot[s].world
      BY <1>1 DEF Kept, FreeSlot
    <3>4. Tracked(slot', conns', op)
      BY <1>1, <3>1, <3>2, <3>3, TrackedKeeps
    <3>5. \A v \in Worlds : op'[v].prev = op[v].prev /\ op'[v].pc # "write"
      BY <1>1, <3>1, <3>2, Zenon
    <3>6. Tracked(slot', conns', op')
      BY <3>4, <3>5, Zenon DEF Tracked
    <3> QED BY <3>2, <3>5, <3>6, Zenon DEF Unwritten
  <2>2. CASE scope.writes # {}
    BY <1>1, <2>2, Zenon DEF Unwritten
  <2> QED BY <2>1, <2>2, Zenon
<1> QED BY <1>2, <1>5, <1>6, <1>7, <1>8, <1>9, Zenon DEF CacheInv

\* Observe adds what can be seen now.
LEMMA ObserveGrows ==
    ASSUME rd' = rd, Observe
    PROVE  ObsGrows /\ DOMAIN obs' = Readers
BY Zenon DEF Observe, ObsGrows, Visible, Deleting

\* A step that changes nothing that can be seen needs no Observe.
LEMMA UnseenGrows ==
    ASSUME CacheInv, obs' = obs, rd' = rd, \A v \in Worlds : Visible(v)' = Visible(v)
    PROVE  ObsGrows /\ DOMAIN obs' = Readers
<1>1. DOMAIN obs = Readers /\ ObsCurrent
  BY Zenon DEF CacheInv, Domains
<1>2. ASSUME NEW q \in Readers, rd[q].pc # "idle"
      PROVE  obs[q] \subseteq obs'[q] /\ Visible(rd[q].world)' \subseteq obs'[q]
  <2>1. rd[q].world \in Worlds /\ Visible(rd[q].world) \subseteq obs[q]
    BY <1>1, <1>2, Zenon DEF ObsCurrent
  <2>2. Visible(rd[q].world)' = Visible(rd[q].world)
    BY <2>1, Zenon DEF Visible, Deleting
  <2> QED BY <2>1, <2>2, Zenon
<1> QED BY <1>1, <1>2, Zenon DEF ObsGrows

\* RemoveWorld: the tombstone covers the change of the file.
LEMMA RemoveWorldKeeps ==
    ASSUME CacheInv, NEW w \in Worlds, RemoveWorld(w)
    PROVE  CacheInv'
<1>1. /\ op[w].pc = "remove" /\ WorldInv(w, conns[w], op[w], disk[w], slot)
      /\ op' = [op EXCEPT ![w].pc = "clear"] /\ rd' = rd /\ scope' = scope /\ conns' = conns
      /\ slot' = slot /\ wconns' = wconns /\ Observe
      /\ disk' = [disk EXCEPT ![w] = 0] \/ disk' = disk
  BY Zenon DEF CacheInv, RemoveWorld
<1>2. /\ conns[w] \in Slots /\ slot[conns[w]].st = "Tombstone" /\ slot[conns[w]].world = w
      /\ op[w].prev = NoSlot /\ DOMAIN op[w] = {"pc", "prev"}
  BY <1>1, Zenon DEF WorldInv, Busy
<1>3. op'[w].pc = "clear" /\ op'[w].prev = NoSlot /\ DOMAIN op'[w] = {"pc", "prev"} /\ conns'[w] = conns[w]
  BY <1>1, <1>2, Zenon DEF CacheInv, Domains
<1>4. WorldInv(w, conns'[w], op'[w], disk'[w], slot)
  BY <1>2, <1>3, ReadCacheAssumption, Zenon DEF WorldInv, Busy, Live
<1>5. ObsGrows /\ DOMAIN obs' = Readers
  BY <1>1, ObserveGrows, Zenon
<1>6. Kept
  BY <1>1, ReclaimKeeps, Zenon DEF CacheInv
<1>7. WorldMoves(w)
  BY <1>1, <1>5, <1>6, Zenon DEF WorldMoves, CacheInv, Domains
<1>8. TrackedMoves(w)
  BY <1>1, <1>2, <1>3, Zenon DEF TrackedMoves, CacheInv, Unwritten
<1> QED BY <1>4, <1>5, <1>7, <1>8, WorldMovesKeeps, Zenon

\* The entry that clear_tombstone takes out after a delete is the tombstone.
LEMMA ClearTombstoneKeeps ==
    ASSUME CacheInv, NEW w \in Worlds, ClearTombstone(w)
    PROVE  CacheInv'
<1>1. /\ op[w].pc = "clear" /\ WorldInv(w, conns[w], op[w], disk[w], slot)
      /\ op' = [op EXCEPT ![w] = IdleOp] /\ rd' = rd /\ scope' = scope /\ disk' = disk
      /\ conns' = [conns EXCEPT ![w] = NoSlot]
      /\ slot' = Reclaim(slot) /\ wconns' = wconns /\ Observe
  BY Zenon DEF CacheInv, ClearTombstone
<1>2. conns[w] \in Slots /\ slot[conns[w]].st = "Tombstone" /\ op[w].prev = NoSlot
  BY <1>1, Zenon DEF WorldInv, Busy
<1>3. op'[w] = IdleOp /\ conns'[w] = NoSlot
  BY <1>1, Zenon DEF CacheInv, Domains
<1>4. WorldInv(w, conns'[w], op'[w], disk'[w], slot)
  BY <1>3 DEF WorldInv, Busy, IdleOp
<1>5. ObsGrows /\ DOMAIN obs' = Readers
  BY <1>1, ObserveGrows, Zenon
<1>6. Kept
  BY <1>1, ReclaimKeeps, Zenon DEF CacheInv
<1>7. WorldMoves(w)
  <2> HIDE DEF Kept
  <2> QED BY <1>1, <1>5, <1>6, Zenon DEF WorldMoves, CacheInv, Domains
<1>8. TrackedMoves(w)
  BY <1>1, <1>2, <1>3 DEF TrackedMoves, CacheInv, Unwritten, IdleOp
<1> QED BY <1>4, <1>5, <1>7, <1>8, WorldMovesKeeps

\* A write takes whatever is in the map out of it, an open connection included.
LEMMA BeginWriteKeeps ==
    ASSUME CacheInv, NEW w \in Worlds, BeginWrite(w)
    PROVE  CacheInv'
<1>1. /\ op[w].pc = "idle" /\ WorldInv(w, conns[w], op[w], disk[w], slot)
      /\ op' = [op EXCEPT ![w].pc = "write"] /\ rd' = rd /\ scope' = scope /\ disk' = disk
      /\ conns' = [conns EXCEPT ![w] = NoSlot] /\ obs' = obs
      /\ slot' = Reclaim(slot) /\ w \in scope.writes
  BY Zenon DEF CacheInv, BeginWrite
<1>2. op[w].prev = NoSlot /\ DOMAIN op[w] = {"pc", "prev"}
  BY <1>1, Zenon DEF WorldInv
<1>3. op'[w].pc = "write" /\ op'[w].prev = NoSlot /\ DOMAIN op'[w] = {"pc", "prev"} /\ conns'[w] = NoSlot
  BY <1>1, <1>2, Zenon DEF CacheInv, Domains
<1>4. WorldInv(w, conns'[w], op'[w], disk'[w], slot)
  BY <1>3, Zenon DEF WorldInv, Busy
<1>5. ObsGrows /\ DOMAIN obs' = Readers
  <2>1. \A v \in Worlds : Visible(v)' = Visible(v)
    BY <1>1, <1>3, Zenon DEF Visible, Deleting, CacheInv, Domains
  <2> QED BY <1>1, <2>1, UnseenGrows, Zenon
<1>6. Kept
  BY <1>1, ReclaimKeeps, Zenon DEF CacheInv
<1>7. WorldMoves(w)
  BY <1>1, <1>5, <1>6, Zenon DEF WorldMoves, CacheInv, Domains
<1>8. TrackedMoves(w)
  BY <1>1, Zenon DEF TrackedMoves
<1> QED BY <1>4, <1>5, <1>7, <1>8, WorldMovesKeeps

\* A commit creates a file only where there is none, and no open connection then.
LEMMA EndWriteKeeps ==
    ASSUME CacheInv, NEW w \in Worlds, CommitWrite(w) \/ AbandonWrite(w)
    PROVE  CacheInv'
<1>1. /\ op[w].pc = "write" /\ WorldInv(w, conns[w], op[w], disk[w], slot)
      /\ op' = [op EXCEPT ![w] = IdleOp] /\ rd' = rd /\ scope' = scope
      /\ conns' = conns /\ slot' = slot
  BY Zenon DEF CacheInv, CommitWrite, AbandonWrite
<1>2. disk' = disk \/ (disk[w] = 0 /\ disk' = [disk EXCEPT ![w] = made[w] + 1])
  BY Zenon DEF CommitWrite, AbandonWrite
<1>3. op'[w] = IdleOp /\ op[w].prev = NoSlot
  BY <1>1, Zenon DEF CacheInv, Domains, WorldInv
<1>4. WorldInv(w, conns'[w], op'[w], disk'[w], slot)
  <2>1. conns[w] # NoSlot /\ disk[w] = 0 => slot[conns[w]].st # "Ready"
    BY <1>1, Zenon DEF WorldInv
  <2>2. conns[w] # NoSlot => slot[conns[w]].st # "Tombstone"
    BY <1>1, Zenon DEF WorldInv, Busy
  <2>3. disk' = disk \/ disk[w] = 0
    BY <1>2, Zenon
  <2> QED BY <1>1, <1>3, <2>1, <2>2, <2>3 DEF WorldInv, Busy, IdleOp
<1>5. ObsGrows /\ DOMAIN obs' = Readers
  <2>1. CASE CommitWrite(w)
    BY <1>1, <2>1, ObserveGrows, Zenon DEF CommitWrite
  <2>2. CASE AbandonWrite(w)
    <3>1. obs' = obs /\ disk' = disk
      BY <2>2, Zenon DEF AbandonWrite
    <3>2. \A v \in Worlds : Visible(v)' = Visible(v)
      BY <1>1, <1>3, <3>1, Zenon DEF Visible, Deleting, CacheInv, Domains, IdleOp
    <3> QED BY <1>1, <3>1, <3>2, UnseenGrows, Zenon
  <2> QED BY <2>1, <2>2, Zenon
<1>6. Kept
  BY <1>1, ReclaimKeeps, Zenon DEF CacheInv
<1>7. WorldMoves(w)
  BY <1>1, <1>2, <1>5, <1>6, ZenonT(30) DEF WorldMoves, CacheInv, Domains
<1>8. TrackedMoves(w)
  BY <1>1, Zenon DEF TrackedMoves, CacheInv, Unwritten
<1> QED BY <1>4, <1>5, <1>7, <1>8, WorldMovesKeeps, Zenon

\* The tombstone is a new slot, and the one it displaces is kept by the delete.
LEMMA InstallTombstoneKeeps ==
    ASSUME CacheInv, NEW w \in Worlds, InstallTombstone(w)
    PROVE  CacheInv'
<1> DEFINE f == FreshSlot
           x == NewSlot("Tombstone", w)
           p == [pc |-> "drain", prev |-> conns[w]]
<1>1. /\ op[w].pc = "idle" /\ WorldInv(w, conns[w], op[w], disk[w], slot) /\ CanAllocate
      /\ wconns' = wconns \ {w} /\ op' = [op EXCEPT ![w] = p] /\ conns' = [conns EXCEPT ![w] = f]
      /\ slot' = [slot EXCEPT ![f] = x] /\ scope' = scope /\ disk' = disk /\ rd' = rd /\ Observe
  BY Zenon DEF CacheInv, InstallTombstone
<1>2. f \in Slots /\ f \notin Held /\ f # NoSlot
  BY <1>1, FreshFacts, Zenon
<1>3. /\ x.st = "Tombstone" /\ x.world = w /\ DOMAIN x = {"st", "world", "conn"}
      /\ p.pc = "drain" /\ p.prev = conns[w] /\ DOMAIN p = {"pc", "prev"}
  BY Zenon DEF NewSlot
<1>4. /\ conns[w] \in Slots \cup {NoSlot} /\ (conns[w] # NoSlot => slot[conns[w]].world = w)
      /\ op[w].prev = NoSlot
  BY <1>1, Zenon DEF WorldInv
<1> HIDE DEF f, x, p
<1>5. /\ slot'[f] = x /\ DOMAIN slot' = Slots /\ \A y \in Slots \ {f} : slot'[y] = slot[y]
      /\ conns'[w] = f /\ DOMAIN conns' = Worlds /\ \A v \in Worlds \ {w} : conns'[v] = conns[v]
      /\ op'[w] = p /\ DOMAIN op' = Worlds /\ \A v \in Worlds \ {w} : op'[v] = op[v]
  BY <1>1, <1>2, Zenon DEF CacheInv, Domains
<1>6. ObsGrows /\ DOMAIN obs' = Readers
  BY <1>1, ObserveGrows, Zenon
<1>7. Domains'
  BY <1>1, <1>3, <1>5, <1>6, Zenon DEF CacheInv, Domains
<1>8. ASSUME NEW q \in Readers PROVE ReaderInv(rd'[q], obs'[q], slot', conns')
  <2>1. rd[q].pc # "idle" => obs[q] \subseteq obs'[q]
    BY <1>6, Zenon DEF ObsGrows
  <2>2. ReaderInv(rd[q], obs'[q], slot', conns')
    BY <1>1, <1>2, <2>1, ReadersKeep, Zenon
  <2> QED BY <1>1, <2>2, Zenon
<1>9. \A v \in Worlds : WorldInv(v, conns'[v], op'[v], disk'[v], slot')
  <2>1. ASSUME NEW v \in Worlds, v # w PROVE WorldInv(v, conns'[v], op'[v], disk'[v], slot')
    <3>1. WorldInv(v, conns'[v], op[v], disk[v], slot')
      BY <1>1, <1>2, <2>1, WorldsKeep, Zenon
    <3> QED BY <1>1, <1>5, <2>1, <3>1, Zenon
  <2>2. WorldInv(w, f, p, disk[w], slot')
    <3>1. conns[w] # NoSlot => conns[w] # f /\ slot'[conns[w]] = slot[conns[w]]
      BY <1>2, <1>4, <1>5, HeldNow
    <3> QED BY <1>2, <1>3, <1>4, <1>5, <3>1, ZenonT(30) DEF WorldInv, Busy, Live
  <2> QED BY <1>1, <1>5, <2>1, <2>2, Zenon
<1>10. OneOpener'
  BY <1>1 DEF CacheInv, OneOpener
<1>11. ObsCurrent'
  <2>1. \A q \in Readers : rd[q].pc # "idle" => rd[q].world \in Worlds /\ Visible(rd[q].world)' \subseteq obs'[q]
    BY <1>6, Zenon DEF CacheInv, ObsCurrent, ObsGrows
  <2> QED BY <1>1, <2>1, Zenon DEF ObsCurrent
<1>12. Unwritten'
  <2>1. CASE scope.writes = {}
    <3>1. wconns = {} /\ (\A v \in Worlds : op[v].pc # "write") /\ Tracked(slot, conns, op)
      BY <2>1, Zenon DEF CacheInv, Unwritten
    <3>2. ASSUME NEW s \in Slots, slot'[s].st \in {"Ready", "Opening"}
          PROVE  /\ slot'[s].world \in Worlds
                 /\ conns'[slot'[s].world] = s \/ op'[slot'[s].world].prev = s
      <4> DEFINE v == slot[s].world
      <4>1. s # f /\ slot'[s] = slot[s]
        BY <1>3, <1>5, <3>2, Zenon
      <4>2. v \in Worlds /\ (conns[v] = s \/ op[v].prev = s)
        BY <3>1, <3>2, <4>1, Zenon DEF Tracked
      <4>3. CASE v = w
        BY <1>3, <1>4, <1>5, <4>1, <4>2, <4>3, ReadCacheAssumption, ZenonT(30)
      <4>4. CASE v # w
        BY <1>5, <4>1, <4>2, <4>4, Zenon
      <4> QED BY <4>3, <4>4, Zenon
    <3>3. Tracked(slot', conns', op')
      BY <3>2, Zenon DEF Tracked
    <3>4. wconns' = {} /\ \A v \in Worlds : op'[v].pc # "write"
      BY <1>1, <1>3, <1>5, <3>1, Zenon
    <3> QED BY <3>3, <3>4, Zenon DEF Unwritten
  <2>2. CASE scope.writes # {}
    BY <1>1, <2>2, Zenon DEF Unwritten
  <2> QED BY <2>1, <2>2
<1> QED BY <1>7, <1>8, <1>9, <1>10, <1>11, <1>12, Zenon DEF CacheInv

\* The displaced slot becomes a tombstone: whoever still holds it reads a world
\* that is being deleted, and nobody finds it in the map.
LEMMA DisplacedKeeps ==
    ASSUME CacheInv, NEW w \in Worlds, DrainDisplaced(w), op[w].prev # NoSlot
    PROVE  CacheInv'
<1> DEFINE a == op[w].prev
           t == [s \in Slots |-> IF s = a THEN [slot[s] EXCEPT !.st = "Tombstone", !.conn = 0] ELSE slot[s]]
           p == [pc |-> "remove", prev |-> NoSlot]
<1>0. WorldInv(w, conns[w], op[w], disk[w], slot)
  BY Zenon DEF CacheInv
<1>1. /\ op[w].pc = "drain" /\ CanWriteLock(a)
      /\ op' = [op EXCEPT ![w] = p] /\ scope' = scope /\ disk' = disk /\ conns' = conns
      /\ wconns' = wconns /\ rd' = rd /\ obs' = obs /\ slot' = Reclaim(t)
  BY Zenon DEF DrainDisplaced
<1>2. /\ a \in Slots /\ slot[a].world = w /\ conns[w] # a /\ conns[w] \in Slots /\ conns[w] # NoSlot
      /\ slot[conns[w]].st = "Tombstone" /\ slot[conns[w]].world = w
  BY <1>0, <1>1, Zenon DEF WorldInv, Busy
<1>3. DOMAIN slot = Slots /\ \A s \in Slots : DOMAIN slot[s] = {"st", "world", "conn"}
  BY DEF CacheInv, Domains
<1>4. /\ DOMAIN t = Slots /\ \A s \in Slots : DOMAIN t[s] = {"st", "world", "conn"}
      /\ t[a].st = "Tombstone" /\ t[a].world = w /\ \A y \in Slots \ {a} : t[y] = slot[y]
  <2>1. DOMAIN t = Slots /\ \A y \in Slots \ {a} : t[y] = slot[y]
    BY Zenon
  <2>2. t[a] = [slot[a] EXCEPT !.st = "Tombstone", !.conn = 0]
    BY <1>2, Zenon
  <2>3. DOMAIN t[a] = {"st", "world", "conn"} /\ t[a].st = "Tombstone" /\ t[a].world = w
    BY <1>2, <1>3, <2>2, Zenon
  <2> HIDE DEF t
  <2> QED BY <1>3, <2>1, <2>3, Zenon
<1>5. \A v \in Worlds : conns[v] # a
  <2>1. ASSUME NEW v \in Worlds, conns[v] = a PROVE FALSE
    <3>1. WorldInv(v, conns[v], op[v], disk[v], slot)
      BY Zenon DEF CacheInv
    <3>2. v = w
      BY <1>2, <2>1, <3>1, ReadCacheAssumption, Zenon DEF WorldInv
    <3> QED BY <1>2, <2>1, <3>2, Zenon
  <2> QED BY <2>1, Zenon
<1>6. p.pc = "remove" /\ p.prev = NoSlot /\ DOMAIN p = {"pc", "prev"}
  OBVIOUS
<1> HIDE DEF a, t, p
<1>7. op'[w] = p /\ DOMAIN op' = Worlds /\ \A v \in Worlds \ {w} : op'[v] = op[v]
  BY <1>1, Zenon DEF CacheInv, Domains
<1>8. /\ DOMAIN slot' = Slots /\ \A s \in Slots : DOMAIN slot'[s] = {"st", "world", "conn"}
      /\ \A s \in Slots : slot'[s] = t[s] \/ (s \notin Held' /\ slot'[s] = FreeSlot)
  <2>1. DOMAIN FreeSlot = {"st", "world", "conn"}
    BY Zenon DEF FreeSlot
  <2> QED BY <1>1, <1>4, <2>1, Zenon DEF Reclaim
<1>9. Domains'
  BY <1>1, <1>7, <1>8, Zenon DEF CacheInv, Domains
<1>10. \A s \in Slots \cap Held' : slot'[s] = t[s]
  BY <1>8, Zenon
<1>11. /\ \A v \in Worlds : conns'[v] # NoSlot => conns'[v] \in Held'
       /\ \A v \in Worlds : op'[v].prev # NoSlot => op'[v].prev \in Held'
       /\ \A q \in Readers : rd'[q].arc # NoSlot => rd'[q].arc \in Held'
       /\ \A q \in Readers : rd'[q].victim # NoSlot => rd'[q].victim \in Held'
  BY <1>9, HeldIs, HeldHas, Zenon DEF Domains
<1>12. ASSUME NEW q \in Readers PROVE ReaderInv(rd'[q], obs'[q], slot', conns')
  <2> DEFINE m == rd[q]
             o == obs[q]
             H == Held'
             sl2 == slot'
  <2>1. ReaderInv(m, o, slot, conns)
    BY Zenon DEF CacheInv
  <2>2. m.arc \in Slots \cup {NoSlot} /\ m.victim \in Slots \cup {NoSlot}
    BY <2>1, Zenon DEF ReaderInv
  <2>3. m.arc = a => m.pc # "opening" /\ m.pc # "reading"
    BY <1>1, NoGuards, Zenon
  <2>4. m.arc = a => 0 \in o
    <3>1. m.arc = a => m.pc # "idle" /\ m.world = w
      BY <1>2, <2>1, ReadCacheAssumption DEF ReaderInv, IdleReader
    <3> QED BY <1>1, <3>1, AtReader, Zenon DEF Visible, Deleting
  <2>5. t[a].world = slot[a].world /\ t[a].st \in Live /\ t[a].st # "Ready"
    BY <1>2, <1>4 DEF Live
  <2>6. /\ m.arc # NoSlot => m.arc \in H /\ sl2[m.arc] = t[m.arc]
        /\ m.victim # NoSlot => m.victim \in H /\ sl2[m.victim] = t[m.victim]
    BY <1>1, <1>10, <1>11, <2>2, Zenon
  <2>7. obs'[q] = o /\ rd'[q] = m /\ conns' = conns
    BY <1>1, ZenonT(30)
  <2> HIDE DEF m, o, H, sl2
  <2>8. ReaderInv(m, o, t, conns)
    BY <1>2, <1>4, <1>5, <2>1, <2>2, <2>3, <2>4, <2>5, ReaderSees, Zenon
  <2>9. o \subseteq o
    OBVIOUS
  <2>10. ReaderInv(m, o, sl2, conns)
    BY <2>6, <2>8, <2>9, ReaderKeeps, Zenon
  <2> QED BY <2>7, <2>10, Zenon DEF sl2

<1>13. ASSUME NEW v \in Worlds PROVE WorldInv(v, conns'[v], op'[v], disk'[v], slot')
  <2> DEFINE c == conns[v]
             d == disk[v]
             m == op[v]
             n == op'[v]
             sl2 == slot'
  <2>1. WorldInv(v, c, m, d, t)
    <3>1. WorldInv(v, c, m, d, slot)
      BY Zenon DEF CacheInv
    <3>2. /\ c # a
          /\ t[a].world = slot[a].world /\ t[a].st \in Live
      BY <1>2, <1>4, <1>5, Zenon DEF Live
    <3> HIDE DEF c, d, m
    <3> QED BY <1>2, <1>4, <3>1, <3>2, WorldTouched, Zenon
  <2>2. WorldInv(v, c, n, d, t)
    <3>1. CASE v = w
      <4>1. n = p /\ c = conns[w]
        BY <1>7, <3>1, Zenon
      <4>2. t[conns[w]].st = "Tombstone" /\ t[conns[w]].world = w
        BY <1>2, <1>4, Zenon
      <4> HIDE DEF c, d, n
      <4> QED BY <1>2, <1>6, <3>1, <4>1, <4>2, Zenon DEF WorldInv, Busy, Live
    <3>2. CASE v # w
      BY <1>7, <2>1, <3>2, Zenon
    <3> QED BY <3>1, <3>2, Zenon
  <2>3. c \in Slots \cup {NoSlot} /\ n.prev \in Slots \cup {NoSlot}
    BY <2>2, Zenon DEF WorldInv
  <2>4. conns'[v] = c /\ disk'[v] = d
    BY <1>1, Zenon
  <2>5. /\ c # NoSlot => sl2[c] = t[c]
        /\ n.prev # NoSlot => sl2[n.prev] = t[n.prev]
    BY <1>10, <1>11, <2>3, <2>4, Zenon
  <2> HIDE DEF c, d, n, sl2
  <2>6. WorldInv(v, c, n, d, sl2)
    BY <2>2, <2>5, WorldKeeps, Zenon
  <2> QED BY <2>4, <2>6, Zenon DEF n, sl2
<1>14. OneOpener'
  BY <1>1, Zenon DEF CacheInv, OneOpener
<1>15. ObsCurrent'
  <2>1. \A v \in Worlds : Visible(v)' = Visible(v)
    BY <1>1, <1>6, <1>7, Zenon DEF Visible, Deleting
  <2> QED BY <1>1, <2>1, Zenon DEF CacheInv, ObsCurrent
<1>16. Unwritten'
  <2>1. CASE scope.writes = {}
    <3>1. wconns = {} /\ (\A v \in Worlds : op[v].pc # "write") /\ Tracked(slot, conns, op)
      BY <2>1, Zenon DEF CacheInv, Unwritten
    <3>2. ASSUME NEW s \in Slots, slot'[s].st \in {"Ready", "Opening"}
          PROVE  /\ slot'[s].world \in Worlds
                 /\ conns'[slot'[s].world] = s \/ op'[slot'[s].world].prev = s
      <4> DEFINE v == slot[s].world
      <4>1. s # a /\ slot'[s] = slot[s]
        BY <1>4, <1>8, <3>2 DEF FreeSlot
      <4>2. v \in Worlds /\ (conns[v] = s \/ op[v].prev = s)
        BY <3>1, <3>2, <4>1, Zenon DEF Tracked
      <4>3. conns[v] = s \/ op'[v].prev = s
        BY <1>7, <4>1, <4>2, Zenon DEF a
      <4> QED BY <1>1, <4>1, <4>2, <4>3, Zenon
    <3>3. Tracked(slot', conns', op')
      BY <3>2, Zenon DEF Tracked
    <3>4. wconns' = {} /\ \A v \in Worlds : op'[v].pc # "write"
      BY <1>1, <1>6, <1>7, <3>1, Zenon
    <3> QED BY <3>3, <3>4, Zenon DEF Unwritten
  <2>2. CASE scope.writes # {}
    BY <1>1, <2>2, Zenon DEF Unwritten
  <2> QED BY <2>1, <2>2, Zenon
<1> QED BY <1>9, <1>12, <1>13, <1>14, <1>15, <1>16, Zenon DEF CacheInv

\* DrainDisplaced: the displaced slot is closed once nobody uses it.
LEMMA DrainDisplacedKeeps ==
    ASSUME CacheInv, NEW w \in Worlds, DrainDisplaced(w)
    PROVE  CacheInv'
<1>1. CASE op[w].prev # NoSlot
  BY <1>1, DisplacedKeeps, Zenon
<1>2. CASE op[w].prev = NoSlot
  <2> DEFINE p == [pc |-> "remove", prev |-> NoSlot]
             t == [s \in Slots |-> IF s = op[w].prev
                                   THEN [slot[s] EXCEPT !.st = "Tombstone", !.conn = 0] ELSE slot[s]]
  <2>1. WorldInv(w, conns[w], op[w], disk[w], slot)
    BY DEF CacheInv
  <2>2. /\ op[w].pc = "drain" /\ op' = [op EXCEPT ![w] = p] /\ scope' = scope /\ disk' = disk
        /\ conns' = conns /\ wconns' = wconns /\ rd' = rd /\ obs' = obs /\ slot' = Reclaim(t)
    BY Zenon DEF DrainDisplaced
  <2>3. \A s \in Slots : t[s] = slot[s]
    BY <1>2, ReadCacheAssumption, Zenon
  <2>4. slot' = Reclaim(slot)
    <3> HIDE DEF t
    <3> QED BY <2>2, <2>3, Zenon DEF Reclaim
  <2>5. p.pc = "remove" /\ p.prev = NoSlot /\ DOMAIN p = {"pc", "prev"}
    OBVIOUS
  <2> HIDE DEF p, t
  <2>6. op'[w] = p /\ DOMAIN op' = Worlds /\ \A v \in Worlds \ {w} : op'[v] = op[v]
    BY <2>2, Zenon DEF CacheInv, Domains
  <2>7. WorldInv(w, conns'[w], op'[w], disk'[w], slot)
    BY <2>1, <2>2, <2>5, <2>6, Zenon DEF WorldInv, Busy
  <2>8. ObsGrows /\ DOMAIN obs' = Readers
    <3>1. \A v \in Worlds : Visible(v)' = Visible(v)
      BY <2>2, <2>5, <2>6, Zenon DEF Visible, Deleting
    <3> QED BY <2>2, <3>1, UnseenGrows, Zenon
  <2>9. Kept
    BY <2>4, ReclaimKeeps, Zenon DEF CacheInv
  <2>10. WorldMoves(w)
    BY <2>2, <2>6, <2>8, <2>9, Zenon DEF WorldMoves, CacheInv, Domains
  <2>11. TrackedMoves(w)
    BY <1>2, <2>2, <2>5, <2>6, Zenon DEF TrackedMoves, CacheInv, Unwritten
  <2> QED BY <2>7, <2>8, <2>10, <2>11, WorldMovesKeeps
<1> QED BY <1>1, <1>2, Zenon

-----------------------------------------------------------------------------
(* The invariant, and what it says.                                         *)

\* The invariant holds at the start.
LEMMA InitInv == Init => CacheInv
<1> SUFFICES ASSUME Init PROVE CacheInv
  OBVIOUS
<1>1. /\ conns = [w \in Worlds |-> NoSlot] /\ slot = [s \in Slots |-> FreeSlot] /\ wconns = {}
      /\ rd = [r \in Readers |-> IdleReader] /\ op = [w \in Worlds |-> IdleOp]
      /\ obs = [r \in Readers |-> {}] /\ DOMAIN disk = Worlds
  BY Zenon DEF Init
<1>2. DOMAIN FreeSlot = {"st", "world", "conn"} /\ FreeSlot.st = "Free"
  BY Zenon DEF FreeSlot
<1>3. Domains
  BY <1>1, <1>2, Zenon DEF Domains
<1>4. \A r \in Readers : ReaderInv(rd[r], obs[r], slot, conns)
  <2> DEFINE me == IdleReader
  <2>1. /\ DOMAIN me = Fields /\ me.pc = "idle" /\ me.arc = NoSlot /\ me.victim = NoSlot
        /\ me.cand = {} /\ ~me.own /\ me.outcome = "pending"
    BY Zenon DEF IdleReader, Fields
  <2>2. ReaderInv(me, {}, slot, conns)
    BY <2>1, Fresh, Zenon
  <2> QED BY <1>1, <2>2, Zenon
<1>5. \A w \in Worlds : WorldInv(w, conns[w], op[w], disk[w], slot)
  BY <1>1, Zenon DEF WorldInv, IdleOp, Busy
<1>6. OneOpener /\ ObsCurrent
  BY <1>1, Zenon DEF OneOpener, ObsCurrent, IdleReader
<1>7. Unwritten
  BY <1>1, <1>2, Zenon DEF Unwritten, Tracked, IdleOp
<1> QED BY <1>3, <1>4, <1>5, <1>6, <1>7, Zenon DEF CacheInv

\* The scope is one of the workloads, and stays.
Scoped == scope \in Scopes

\* Every step of a reader keeps the invariant.
LEMMA ReaderStepKeeps ==
    ASSUME CacheInv, NEW r \in Readers, ReaderStep(r)
    PROVE  CacheInv'
BY LookupKeeps, CheckCapacityKeeps, SampleVictimsKeeps, TryEvictKeeps, UnmapVictimKeeps, NoVictimKeeps,
   CheckExistsKeeps, PublishKeeps, OpenConnKeeps, OpenFailKeeps, RemoveFailedKeeps, RecheckExistsKeeps,
   ProbeKeeps, DropStaleKeeps, RunClosureKeeps, DrainTransientKeeps, RemoveTransientKeeps, TrimKeeps,
   ReturnKeeps, Zenon DEF ReaderStep

\* So does every step of a delete or a write.
LEMMA WorldStepKeeps ==
    ASSUME CacheInv, NEW w \in Worlds, DeleteStep(w) \/ WriteStep(w)
    PROVE  CacheInv'
BY InstallTombstoneKeeps, DrainDisplacedKeeps, RemoveWorldKeeps, ClearTombstoneKeeps, BeginWriteKeeps,
   EndWriteKeeps, Zenon DEF DeleteStep, WriteStep

\* The workload is fixed.
LEMMA ScopeStays ==
    ASSUME Scoped, [Next]_vars
    PROVE  Scoped'
<1>1. scope' = scope
  <2>1. ASSUME NEW r \in Readers, ReaderStep(r) PROVE scope' = scope
    BY <2>1, Zenon DEF ReaderStep, Worldly, Lookup, CheckCapacity, SampleVictims, TryEvict, UnmapVictim, NoVictim,
       CheckExists, Publish, OpenConn, OpenFail, RemoveFailed, RecheckExists, Probe, DropStale, RunClosure,
       DrainTransient, RemoveTransient, Trim, Return
  <2>2. ASSUME NEW w \in Worlds, DeleteStep(w) \/ WriteStep(w) PROVE scope' = scope
    BY <2>2, Zenon DEF DeleteStep, WriteStep, InstallTombstone, DrainDisplaced, RemoveWorld, ClearTombstone,
       BeginWrite, CommitWrite, AbandonWrite
  <2>3. ASSUME NEW r \in Readers, NEW w, BeginRead(r, w) PROVE scope' = scope
    BY <2>3, Zenon DEF BeginRead, Worldly
  <2> QED BY <2>1, <2>2, <2>3, Zenon DEF Next, vars
<1> QED BY <1>1 DEF Scoped

\* So does a step that changes nothing.
LEMMA StutterKeeps ==
    ASSUME CacheInv, UNCHANGED vars
    PROVE  CacheInv'
<1>1. /\ scope' = scope /\ disk' = disk /\ conns' = conns /\ slot' = slot /\ wconns' = wconns
      /\ rd' = rd /\ op' = op /\ obs' = obs
  BY Zenon DEF vars
<1>2. Domains' /\ OneOpener' /\ Unwritten'
  BY <1>1, Zenon DEF CacheInv, Domains, OneOpener, Unwritten
<1>3. ObsCurrent'
  BY <1>1, Zenon DEF CacheInv, ObsCurrent, Visible, Deleting
<1> QED BY <1>1, <1>2, <1>3, Zenon DEF CacheInv

\* CacheInv is inductive.
LEMMA NextKeeps ==
    ASSUME CacheInv, Scoped, [Next]_vars
    PROVE  CacheInv'
<1>1. CASE UNCHANGED vars
  BY <1>1, StutterKeeps, Zenon
<1>2. ASSUME NEW r \in Readers, NEW w \in scope.worlds, BeginRead(r, w) PROVE CacheInv'
  <2>1. w \in Worlds
    BY <1>2, ReadCacheAssumption, Zenon DEF Scoped
  <2> QED BY <1>2, <2>1, BeginReadKeeps, Zenon
<1> QED BY <1>1, <1>2, ReaderStepKeeps, WorldStepKeeps, Zenon DEF Next

\* The invariant holds in every state.
LEMMA CacheAlways == Spec => [](CacheInv /\ Scoped)
<1>1. Init => CacheInv /\ Scoped
  BY InitInv, Zenon DEF Init, Scoped
<1>2. CacheInv /\ Scoped /\ [Next]_vars => (CacheInv /\ Scoped)'
  BY NextKeeps, ScopeStays, Zenon
<1> QED BY <1>1, <1>2, PTL DEF Spec

\* A read through the cache (with_tracked_conn, invoke_transient) answers with
\* what its world really was at some moment of the call, whatever evictions,
\* failed opens, writes and deletes of any number of others meanwhile.
THEOREM ReadLinearizesAlways == Spec => []ReadLinearizes
<1>1. CacheInv => ReadLinearizes
  BY ZenonT(30) DEF CacheInv, ReaderInv, ReadLinearizes
<1> QED BY <1>1, CacheAlways, PTL

\* In an engine whose worlds nobody writes meanwhile, a delete that has drained
\* the slot it displaced (install_tombstone_blocking) removes a directory on
\* which the read cache has no connection open, and write_conns neither.
THEOREM NoFdUnlessWrittenAlways == Spec => []NoFdUnlessWritten
<1>1. ASSUME CacheInv, scope.writes = {}, NEW w \in Worlds, op[w].pc = "remove"
      PROVE  OpenFds(w) = {} /\ w \notin wconns
  <2>1. WorldInv(w, conns[w], op[w], disk[w], slot) /\ wconns = {} /\ Tracked(slot, conns, op)
    BY <1>1, Zenon DEF CacheInv, Unwritten
  <2>2. op[w].prev = NoSlot /\ slot[conns[w]].st = "Tombstone"
    BY <1>1, <2>1, Zenon DEF WorldInv, Busy
  <2>3. \A s \in Slots : ~(slot[s].st = "Ready" /\ slot[s].world = w)
    BY <2>1, <2>2, ReadCacheAssumption, Zenon DEF Tracked
  <2> QED BY <2>1, <2>3, Zenon DEF OpenFds
<1>2. CacheInv => NoFdUnlessWritten
  BY <1>1, Zenon DEF NoFdUnlessWritten, NoFdAtRemoval
<1> QED BY <1>2, CacheAlways, PTL

\* The tombstones that /proc/pool counts (read_cache_snapshot) are the deletes
\* between the installation of their tombstone and its removal from the map: no
\* guard hides one from the count, and none is left behind.
THEOREM TombstonesCounted ==
    Spec => [](PoolSnapshot.tombstones = Cardinality({w \in Worlds : Deleting(w)}))
<1>1. ASSUME CacheInv, NEW w \in Worlds
      PROVE  (/\ conns[w] # NoSlot /\ CanReadLock(conns[w])
              /\ slot[conns[w]].st = "Tombstone") <=> Deleting(w)
  <2>1. WorldInv(w, conns[w], op[w], disk[w], slot)
    BY <1>1, Zenon DEF CacheInv
  <2>2. ASSUME Deleting(w)
        PROVE  conns[w] # NoSlot /\ CanReadLock(conns[w]) /\ slot[conns[w]].st = "Tombstone"
    <3>1. conns[w] # NoSlot /\ slot[conns[w]].st = "Tombstone"
      BY <2>1, <2>2, Zenon DEF WorldInv, Deleting, Busy
    <3>2. \A r \in Readers : rd[r].pc = "opening" => slot[rd[r].arc].st = "Opening"
      BY <1>1, Zenon DEF CacheInv, ReaderInv
    <3> QED BY <3>1, <3>2, Zenon DEF CanReadLock, WriteGuards
  <2>3. conns[w] # NoSlot /\ slot[conns[w]].st = "Tombstone" => Deleting(w)
    BY <2>1, Zenon DEF WorldInv, Deleting, Busy
  <2> QED BY <2>2, <2>3, Zenon
<1>2. CacheInv => PoolSnapshot.tombstones = Cardinality({w \in Worlds : Deleting(w)})
  <2> SUFFICES ASSUME CacheInv PROVE SnapshotTombstones = Cardinality({w \in Worlds : Deleting(w)})
    BY Zenon DEF PoolSnapshot
  <2>1. {w \in Worlds : /\ conns[w] # NoSlot /\ CanReadLock(conns[w])
                        /\ slot[conns[w]].st = "Tombstone"} = {w \in Worlds : Deleting(w)}
    BY <1>1
  <2> QED BY <2>1, Zenon DEF SnapshotTombstones
<1> QED BY <1>2, CacheAlways, PTL
=============================================================================
