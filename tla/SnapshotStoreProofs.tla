------------------------ MODULE SnapshotStoreProofs ------------------------
(***************************************************************************)
(* Safety of the snapshot store for every set of views, holders, imports   *)
(* and captures, every policy and every fault set.                         *)
(***************************************************************************)
EXTENDS SnapshotStore, FiniteSetTheorems, TLAPS

\* A lease pins a cached entry, and a cached entry has a directory.
PinsCached == \A o \in Owners : pin[o] # NoView => pin[o] \in entries
EntriesOnDisk == \A v \in entries : disk[v] # "absent"

\* An import that is under way has a target.
ImportsNamed ==
    \A i \in Importers : imp[i].pc \in {"borrowed", "staging", "staged"} => imp[i].view \in Views

\* The inductive invariant behind the lease theorems.
LeaseInv == TypeOK /\ RefsMatchLeases /\ PinsCached /\ EntriesOnDisk /\ ImportsNamed

PinnersOf(v) == {o \in Owners : pin[o] = v}

-----------------------------------------------------------------------------

LEMMA OwnersFinite == IsFiniteSet(Owners)
  BY OwnersAssumption, FS_Union DEF Owners

LEMMA PinnersFinite == \A v : IsFiniteSet(PinnersOf(v)) /\ Cardinality(PinnersOf(v)) \in Nat
  <1> TAKE v
  <1>1. PinnersOf(v) \subseteq Owners
    BY DEF PinnersOf
  <1>2. QED
    BY <1>1, OwnersFinite, FS_Subset, FS_CardinalityType

LEMMA NoViewNotView == NoView \notin Views
  BY ViewsAssumption DEF NoView

LEMMA ImportTyped ==
  ASSUME NEW pc \in {"idle", "borrowed", "staging", "staged", "leaving", "returning"},
         NEW v \in Views \cup {NoView}, NEW depth \in 0 .. 2, NEW t \in Nat
  PROVE  /\ Import(pc, v, depth, t) \in ImportState
         /\ Import(pc, v, depth, t).pc = pc
         /\ Import(pc, v, depth, t).view = v
         /\ Import(pc, v, depth, t).depth = depth
  BY DEF Import, ImportState

LEMMA ImportFields ==
  ASSUME NEW r \in ImportState
  PROVE  /\ r.view \in Views \cup {NoView}
         /\ r.depth \in 0 .. 2
         /\ r.stagedAt \in Nat
  BY DEF ImportState

LEMMA IdleTyped == Idle \in ImportState /\ Idle.pc = "idle"
  BY ImportTyped DEF Idle

\* A view that collectLocked or Remove may take is pinned by nobody.
LEMMA UnpinnedHasNoPinner ==
  ASSUME LeaseInv, NEW v \in Views, ~Pinned(v)
  PROVE  \A o \in Owners : pin[o] # v
  <1> SUFFICES ASSUME NEW o \in Owners, pin[o] = v
               PROVE  FALSE
    OBVIOUS
  <1>1. v \in entries
    BY NoViewNotView DEF LeaseInv, PinsCached
  <1>2. refs[v] = 0
    BY <1>1 DEF Pinned, LeaseInv, TypeOK
  <1>3. Cardinality(PinnersOf(v)) = 0
    BY <1>2 DEF LeaseInv, RefsMatchLeases, PinnersOf
  <1>4. PinnersOf(v) = {}
    BY <1>3, PinnersFinite, FS_EmptySet
  <1>5. QED
    BY <1>4 DEF PinnersOf

\* An absent view is pinned by nobody and not cached.
LEMMA AbsentHasNoPinner ==
  ASSUME LeaseInv, NEW v \in Views, disk[v] = "absent"
  PROVE  v \notin entries /\ \A o \in Owners : pin[o] # v
  BY NoViewNotView DEF LeaseInv, PinsCached, EntriesOnDisk

\* Every plan consists of unpinned views that have a directory.
LEMMA PlanIsEvictable ==
  ASSUME NEW b, NEW n, NEW x
  PROVE  /\ CollectPlan(b, n, x) \subseteq Evictable
         /\ CollectPlan(b, n, x) \subseteq Views
         /\ \A v \in CollectPlan(b, n, x) : ~Pinned(v)
  BY DEF CollectPlan, Evictable, OnDisk

\* Taking a lease adds one pinner to one view.
LEMMA TakeLeaseCounts ==
  ASSUME LeaseInv, NEW o \in Owners, NEW v \in Views, TakeLease(o, v)
  PROVE  RefsMatchLeases' /\ PinsCached'
  <1>1. pin' = [pin EXCEPT ![o] = v] /\ refs' = [refs EXCEPT ![v] = @ + 1]
        /\ pin[o] = NoView /\ entries' = entries \cup {v}
    BY DEF TakeLease
  <1>2. PinsCached'
    BY <1>1 DEF LeaseInv, TypeOK, PinsCached
  <1>3. ASSUME NEW w \in Views
        PROVE  refs'[w] = Cardinality({p \in Owners : pin'[p] = w})
    <2>1. refs[w] = Cardinality(PinnersOf(w))
      BY DEF LeaseInv, RefsMatchLeases, PinnersOf
    <2>2. CASE w = v
      <3>1. {p \in Owners : pin'[p] = w} = PinnersOf(w) \cup {o}
        BY <1>1, <2>2, NoViewNotView DEF LeaseInv, TypeOK, PinnersOf
      <3>2. o \notin PinnersOf(w)
        BY <1>1, NoViewNotView DEF PinnersOf
      <3>3. Cardinality(PinnersOf(w) \cup {o}) = Cardinality(PinnersOf(w)) + 1
        BY <3>2, PinnersFinite, FS_AddElement
      <3>4. QED
        BY <1>1, <2>1, <2>2, <3>1, <3>3 DEF LeaseInv, TypeOK
    <2>3. CASE w # v
      <3>1. {p \in Owners : pin'[p] = w} = PinnersOf(w)
        BY <1>1, <2>3, NoViewNotView DEF LeaseInv, TypeOK, PinnersOf
      <3>2. QED
        BY <1>1, <2>1, <2>3, <3>1 DEF LeaseInv, TypeOK
    <2>4. QED
      BY <2>2, <2>3
  <1>4. QED
    BY <1>2, <1>3 DEF RefsMatchLeases

\* Releasing a lease takes one pinner away from one view.
LEMMA DropLeaseCounts ==
  ASSUME LeaseInv, NEW o \in Owners, DropLease(o)
  PROVE  RefsMatchLeases' /\ PinsCached' /\ refs' \in [Views -> Nat]
  <1> DEFINE v == pin[o]
  <1>1. pin' = [pin EXCEPT ![o] = NoView] /\ refs' = [refs EXCEPT ![v] = @ - 1]
        /\ v # NoView /\ entries' = entries
    BY DEF DropLease
  <1>2. v \in Views
    BY <1>1 DEF LeaseInv, TypeOK
  <1>3. PinsCached'
    BY <1>1 DEF LeaseInv, TypeOK, PinsCached
  <1>4. ASSUME NEW w \in Views
        PROVE  /\ refs'[w] = Cardinality({p \in Owners : pin'[p] = w})
               /\ refs'[w] \in Nat
    <2>1. refs[w] = Cardinality(PinnersOf(w)) /\ refs[w] \in Nat
      BY DEF LeaseInv, RefsMatchLeases, PinnersOf, TypeOK
    <2>2. CASE w = v
      <3>1. {p \in Owners : pin'[p] = w} = PinnersOf(w) \ {o}
        BY <1>1, <1>2, <2>2, NoViewNotView DEF LeaseInv, TypeOK, PinnersOf
      <3>2. o \in PinnersOf(w)
        BY <2>2 DEF PinnersOf
      <3>3. /\ Cardinality(PinnersOf(w) \ {o}) = Cardinality(PinnersOf(w)) - 1
            /\ IsFiniteSet(PinnersOf(w) \ {o})
        BY <3>2, PinnersFinite, FS_RemoveElement
      <3>4. Cardinality(PinnersOf(w) \ {o}) \in Nat
        BY <3>3, FS_CardinalityType
      <3>5. QED
        BY <1>1, <2>1, <2>2, <3>1, <3>3, <3>4 DEF LeaseInv, TypeOK
    <2>3. CASE w # v
      <3>1. {p \in Owners : pin'[p] = w} = PinnersOf(w)
        BY <1>1, <2>3, NoViewNotView DEF LeaseInv, TypeOK, PinnersOf
      <3>2. QED
        BY <1>1, <2>1, <2>3, <3>1 DEF LeaseInv, TypeOK
    <2>4. QED
      BY <2>2, <2>3
  <1>5. refs' \in [Views -> Nat]
    BY <1>1, <1>4 DEF LeaseInv, TypeOK
  <1>6. QED
    BY <1>3, <1>4, <1>5 DEF RefsMatchLeases

\* A plan, and every part of it that is carried out, takes away views nobody pins.
LEMMA CollectSafe ==
  ASSUME LeaseInv, NEW plan, plan \subseteq Views, \A v \in plan : ~Pinned(v), Collect(plan)
  PROVE  /\ disk' \in [Views -> Content]
         /\ mtime' \in [Views -> Nat]
         /\ entries' \subseteq Views
         /\ lastUse' \in [Views -> Nat]
         /\ used' \in [Views -> Nat]
         /\ \A o \in Owners : pin[o] # NoView => pin[o] \in entries'
         /\ \A v \in entries' : disk'[v] # "absent"
         /\ \A v \in Views : (\E o \in Owners : pin[o] = v) => disk'[v] = disk[v]
  <1>1. PICK removed \in Prefixes(plan), content \in {"damaged", "gutted"},
             broken \in {{}} \cup {{v} : v \in Broken(plan)} :
               /\ Carried(removed, broken, content)
               /\ entries' = entries \ removed
               /\ lastUse' = Without(lastUse, removed)
               /\ used' = Without(used, removed)
    BY DEF Collect
  <1>2. removed \subseteq plan /\ broken \subseteq plan
    BY DEF Prefixes, RemovedBefore, Broken
  <1>3. \A v \in plan : \A o \in Owners : pin[o] # v
    BY UnpinnedHasNoPinner
  <1>4. /\ mtime' \in [Views -> Nat] /\ lastUse' \in [Views -> Nat]
        /\ used' \in [Views -> Nat]
    BY <1>1 DEF Carried, Without, LeaseInv, TypeOK
  <1>5. disk' = [v \in Views |-> IF v \in broken THEN content
                                 ELSE IF v \in removed THEN "absent" ELSE disk[v]]
    BY <1>1 DEF Carried, Emptied
  <1>6. disk' \in [Views -> Content]
    BY <1>5 DEF LeaseInv, TypeOK, Content
  <1>7. entries' \subseteq Views
    BY <1>1 DEF LeaseInv, TypeOK
  <1>8. \A o \in Owners : pin[o] # NoView => pin[o] \in entries'
    BY <1>1, <1>2, <1>3 DEF LeaseInv, PinsCached
  <1>9. \A v \in entries' : disk'[v] # "absent"
    BY <1>1, <1>5 DEF LeaseInv, EntriesOnDisk, TypeOK
  <1>10. \A v \in Views : (\E o \in Owners : pin[o] = v) => disk'[v] = disk[v]
    BY <1>2, <1>3, <1>5
  <1>11. QED
    BY <1>4, <1>6, <1>7, <1>8, <1>9, <1>10

\* A publication touches a key nobody pins and collects views nobody pins.
LEMMA RoomSafe ==
  ASSUME LeaseInv, NEW i \in Importers, RoomNeeded(i)
  PROVE  LET v == imp[i].view
             gone == ImportPlan(v)
         IN  /\ gone \subseteq Views
             /\ \A w \in gone : ~Pinned(w)
             /\ v \in Views \ entries
             /\ \A o \in Owners : pin[o] # v
             /\ \A w \in gone : \A o \in Owners : pin[o] # w
  <1>1. /\ ImportPlan(imp[i].view) \subseteq Views
        /\ \A w \in ImportPlan(imp[i].view) : ~Pinned(w)
    BY PlanIsEvictable DEF ImportPlan
  <1>2. disk[imp[i].view] = "absent" /\ imp[i].view \in Views
    BY DEF RoomNeeded, LeaseInv, ImportsNamed
  <1>3. QED
    BY <1>1, <1>2, UnpinnedHasNoPinner, AbsentHasNoPinner

\* A process that closes or dies leaves no lease, no entry and no import.
LEMMA ForgetSafe ==
  ASSUME LeaseInv, Forget, disk' \in [Views -> Content],
         pin' = [o \in Owners |-> NoView],
         imp' = [i \in Importers |-> Idle] \/ imp' = imp
  PROVE  RefsMatchLeases' /\ PinsCached' /\ EntriesOnDisk' /\ ImportsNamed'
  <1>1. \A v \in Views : {o \in Owners : pin'[o] = v} = {}
    BY NoViewNotView
  <1>2. RefsMatchLeases'
    BY <1>1, FS_EmptySet DEF RefsMatchLeases, Forget
  <1>3. QED
    BY <1>2, IdleTyped DEF Forget, PinsCached, EntriesOnDisk, ImportsNamed, LeaseInv

LEMMA VanishSafe ==
  ASSUME LeaseInv, NEW removed, Vanish(removed),
         disk' \in [Views -> Content], mtime' \in [Views -> Nat], UNCHANGED <<saved, now>>
  PROVE  LeaseInv'
  <1>1. Forget /\ pin' = [o \in Owners |-> NoView] /\ imp' = [i \in Importers |-> Idle]
    BY DEF Vanish
  <1>2. RefsMatchLeases' /\ PinsCached' /\ EntriesOnDisk' /\ ImportsNamed'
    BY <1>1, ForgetSafe
  <1>3. TypeOK'
    BY IdleTyped DEF Vanish, Forget, Without, NoTimes, LeaseInv, TypeOK
  <1>4. QED
    BY <1>2, <1>3 DEF LeaseInv

\* A removal cut short by the process dying.
LEMMA DieRemovingSafe ==
  ASSUME LeaseInv, NEW plan, plan \subseteq Views, DieRemoving(plan)
  PROVE  LeaseInv'
  <1>1. PICK v \in plan, content \in {"damaged", "gutted"} :
          /\ Carried(RemovedBefore(plan, v), {v}, content)
          /\ Vanish(RemovedBefore(plan, v))
          /\ UNCHANGED <<saved, now>>
    BY DEF DieRemoving
  <1>2. disk' \in [Views -> Content] /\ mtime' \in [Views -> Nat]
    BY <1>1 DEF Carried, Emptied, Without, Content, LeaseInv, TypeOK
  <1>3. QED
    BY <1>1, <1>2, VanishSafe

\* An import moves on, keeping its target while it still needs one.
LEMMA ImportMoves ==
  ASSUME LeaseInv, NEW i \in Importers, NEW r \in ImportState,
         imp' = [imp EXCEPT ![i] = r],
         r.pc \in {"borrowed", "staging", "staged"} => r.view \in Views
  PROVE  imp' \in [Importers -> ImportState] /\ ImportsNamed'
  BY DEF LeaseInv, TypeOK, ImportsNamed

LEMMA LeavingMoves ==
  ASSUME LeaseInv, NEW i \in Importers, Leaving(i)
  PROVE  imp' \in [Importers -> ImportState] /\ ImportsNamed'
  <1> DEFINE r == Import("leaving", NoView, imp[i].depth, 0)
  <1>1. imp[i] \in ImportState
    BY DEF LeaseInv, TypeOK
  <1>2. imp[i].depth \in 0 .. 2
    BY <1>1, ImportFields
  <1>3. r \in ImportState
    BY <1>2, ImportTyped
  <1>4. r.pc = "leaving"
    BY DEF Import
  <1>5. QED
    BY <1>3, <1>4, ImportMoves DEF Leaving

\* Actions that only move imports, captures, the clock or the owner along.
LEMMA QuietStep ==
  ASSUME LeaseInv, UNCHANGED <<disk, entries, refs, pin>>, TypeOK', ImportsNamed'
  PROVE  LeaseInv'
  BY DEF LeaseInv, RefsMatchLeases, PinsCached, EntriesOnDisk

LEMMA InitLease == Init => LeaseInv
  <1> SUFFICES ASSUME Init PROVE LeaseInv
    OBVIOUS
  <1>1. TypeOK
    BY IdleTyped DEF Init, TypeOK, Content, NoTimes
  <1>2. \A v \in Views : {o \in Owners : pin[o] = v} = {}
    BY NoViewNotView DEF Init
  <1>3. RefsMatchLeases
    BY <1>2, FS_EmptySet DEF Init, RefsMatchLeases
  <1>4. QED
    BY <1>1, <1>3, IdleTyped DEF Init, LeaseInv, PinsCached, EntriesOnDisk, ImportsNamed

\* Every action of the store preserves the lease invariant.
LEMMA LeaseStep == LeaseInv /\ [Next]_vars => LeaseInv'
  <1> SUFFICES ASSUME LeaseInv, [Next]_vars PROVE LeaseInv'
    OBVIOUS
  <1> USE DEF durable, memory, clients, Keep
  <1>1. CASE Tick \/ Open \/ ConfigureRetention \/ CloseSyncFails
    <2>1. TypeOK'
      BY <1>1 DEF Tick, Open, ConfigureRetention, CloseSyncFails, RetentionClose,
                  RetentionUsedAt, Latest, NoTimes, LeaseInv, TypeOK
    <2>2. UNCHANGED <<disk, entries, refs, pin, imp>>
      BY <1>1 DEF Tick, Open, ConfigureRetention, CloseSyncFails
    <2>3. QED
      BY <2>1, <2>2, QuietStep DEF LeaseInv, ImportsNamed
  <1>2. CASE Close
    <2>1. \A o \in Owners : pin[o] = NoView
      BY <1>2, UnpinnedHasNoPinner DEF Close, Drained, Pinned, LeaseInv, PinsCached, TypeOK
    <2>2. pin = [o \in Owners |-> NoView]
      BY <2>1 DEF LeaseInv, TypeOK
    <2>3. TypeOK'
      BY <1>2 DEF Close, Forget, RetentionClose, RetentionUsedAt, Latest, NoTimes, LeaseInv, TypeOK
    <2>4. Forget /\ disk' \in [Views -> Content] /\ pin' = pin /\ imp' = imp
      BY <1>2 DEF Close, LeaseInv, TypeOK
    <2>5. QED
      BY <2>2, <2>3, <2>4, ForgetSafe DEF LeaseInv
  <1>3. CASE Crash
    BY <1>3, VanishSafe DEF Crash, LeaseInv, TypeOK
  <1>4. ASSUME NEW plan, plan \subseteq Views, \A v \in plan : ~Pinned(v), Collect(plan),
               UNCHANGED <<saved, phase, refs, active, restoredUse, openedAt, pin, captures, now>>,
               imp' \in [Importers -> ImportState],
               ImportsNamed'
        PROVE  LeaseInv'
    <2>1. TypeOK'
      BY <1>4, CollectSafe DEF LeaseInv, TypeOK
    <2>2. RefsMatchLeases'
      BY <1>4 DEF LeaseInv, RefsMatchLeases
    <2>3. PinsCached' /\ EntriesOnDisk'
      BY <1>4, CollectSafe DEF PinsCached, EntriesOnDisk
    <2>4. QED
      BY <1>4, <2>1, <2>2, <2>3 DEF LeaseInv
  <1>5. CASE Prune
    <2>1. Collect(CollectPlan(0, 0, TRUE))
      BY <1>5 DEF Prune
    <2>2. QED
      BY <1>4, <1>5, <2>1, PlanIsEvictable DEF Prune, LeaseInv, TypeOK, ImportsNamed
  <1>6. CASE CrashInPrune
    BY <1>6, PlanIsEvictable, DieRemovingSafe DEF CrashInPrune
  <1>7. ASSUME NEW h \in Holders, NEW v \in Views, Acquire(h, v)
        PROVE  LeaseInv'
    <2>1. h \in Owners /\ TakeLease(h, v)
      BY <1>7 DEF Acquire, Owners
    <2>2. RefsMatchLeases' /\ PinsCached'
      BY <2>1, TakeLeaseCounts
    <2>3. TypeOK'
      BY <1>7, <2>1 DEF Acquire, TakeLease, Use, LeaseInv, TypeOK
    <2>4. EntriesOnDisk' /\ ImportsNamed'
      BY <1>7 DEF Acquire, TakeLease, LeaseInv, EntriesOnDisk, ImportsNamed
    <2>5. QED
      BY <2>2, <2>3, <2>4 DEF LeaseInv
  <1>8. ASSUME NEW h \in Holders, Release(h)
        PROVE  LeaseInv'
    <2>1. h \in Owners /\ DropLease(h)
      BY <1>8 DEF Release, Owners
    <2>2. RefsMatchLeases' /\ PinsCached' /\ refs' \in [Views -> Nat]
      BY <2>1, DropLeaseCounts
    <2>3. TypeOK'
      BY <1>8, <2>1, <2>2 DEF Release, DropLease, Use, LeaseInv, TypeOK
    <2>4. EntriesOnDisk' /\ ImportsNamed'
      BY <1>8 DEF Release, DropLease, LeaseInv, EntriesOnDisk, ImportsNamed
    <2>5. QED
      BY <2>2, <2>3, <2>4 DEF LeaseInv
  <1>9. ASSUME NEW i \in Importers, NEW v \in Views, NEW base \in Views, BorrowBase(i, v, base)
        PROVE  LeaseInv'
    <2>0. imp' \in [Importers -> ImportState] /\ ImportsNamed'
      <3>1. Import("borrowed", v, 0, 0) \in ImportState
        BY ImportTyped
      <3>2. QED
        BY <1>9, <3>1, ImportMoves DEF BorrowBase, Import
    <2>1. i \in Owners /\ TakeLease(i, base)
      BY <1>9 DEF BorrowBase, Owners
    <2>2. RefsMatchLeases' /\ PinsCached'
      BY <2>1, TakeLeaseCounts
    <2>3. TypeOK'
      BY <1>9, <2>0, <2>1 DEF BorrowBase, TakeLease, Use, LeaseInv, TypeOK
    <2>4. EntriesOnDisk'
      BY <1>9 DEF BorrowBase, TakeLease, LeaseInv, EntriesOnDisk
    <2>5. QED
      BY <2>0, <2>2, <2>3, <2>4 DEF LeaseInv
  <1>10. ASSUME NEW i \in Importers, ReturnBase(i)
         PROVE  LeaseInv'
    <2>0. imp' \in [Importers -> ImportState] /\ ImportsNamed'
      BY <1>10, IdleTyped, ImportMoves DEF ReturnBase
    <2>1. i \in Owners /\ DropLease(i)
      BY <1>10 DEF ReturnBase, Owners
    <2>2. RefsMatchLeases' /\ PinsCached' /\ refs' \in [Views -> Nat]
      BY <2>1, DropLeaseCounts
    <2>3. TypeOK'
      BY <1>10, <2>0, <2>1, <2>2 DEF ReturnBase, DropLease, Use, LeaseInv, TypeOK
    <2>4. EntriesOnDisk'
      BY <1>10 DEF ReturnBase, DropLease, LeaseInv, EntriesOnDisk
    <2>5. QED
      BY <2>0, <2>2, <2>3, <2>4 DEF LeaseInv
  <1>11. ASSUME NEW i \in Importers,
                \/ StartIncremental(i) \/ Repack(i) \/ FinishStage(i) \/ AbortStage(i)
                \/ PublishExisting(i) \/ Leave(i) \/ \E v \in Views : Install(i, v)
         PROVE  LeaseInv'
    <2>1. UNCHANGED <<disk, entries, refs, pin>>
      BY <1>11 DEF StartIncremental, Repack, FinishStage, AbortStage, PublishExisting, Leave, Install
    <2>2. imp' \in [Importers -> ImportState] /\ ImportsNamed'
      <3>0. imp[i] \in ImportState /\ now \in Nat
        BY DEF LeaseInv, TypeOK
      <3>1. CASE StartIncremental(i)
        <4>1. imp[i].view \in Views
          BY <3>1 DEF StartIncremental, LeaseInv, ImportsNamed
        <4>2. Import("staging", imp[i].view, 1, 0) \in ImportState
          BY <4>1, ImportTyped
        <4>3. QED
          BY <3>1, <4>1, <4>2, ImportMoves DEF StartIncremental, Import
      <3>2. CASE Repack(i)
        <4>1. imp[i].view \in Views
          BY <3>2 DEF Repack, LeaseInv, ImportsNamed
        <4>2. Import("staging", imp[i].view, 2, 0) \in ImportState
          BY <4>1, ImportTyped
        <4>3. QED
          BY <3>2, <4>1, <4>2, ImportMoves DEF Repack, Import
      <3>3. CASE FinishStage(i)
        <4>1. imp[i].view \in Views
          BY <3>3 DEF FinishStage, LeaseInv, ImportsNamed
        <4>2. Import("staged", imp[i].view, imp[i].depth, now) \in ImportState
          BY <3>0, <4>1, ImportTyped, ImportFields
        <4>3. QED
          BY <3>3, <4>1, <4>2, ImportMoves DEF FinishStage, Import
      <3>4. CASE AbortStage(i) \/ PublishExisting(i)
        BY <3>4, LeavingMoves DEF AbortStage, PublishExisting
      <3>5. CASE Leave(i)
        <4>1. CASE imp[i].depth > 1
          <5>1. imp[i].depth - 1 \in 0 .. 2
            BY <3>0, <4>1, ImportFields
          <5>2. Import("leaving", NoView, imp[i].depth - 1, 0) \in ImportState
            BY <5>1, ImportTyped
          <5>3. QED
            BY <3>5, <4>1, <5>2, ImportMoves DEF Leave, Import
        <4>2. CASE ~(imp[i].depth > 1)
          <5>1. Import("returning", NoView, 0, 0) \in ImportState
            BY ImportTyped
          <5>2. QED
            BY <3>5, <4>2, <5>1, IdleTyped, ImportMoves DEF Leave, Import
        <4>3. QED
          BY <4>1, <4>2
      <3>6. CASE \E v \in Views : Install(i, v)
        <4>1. PICK v \in Views : Install(i, v)
          BY <3>6
        <4>2. Import("staging", v, 1, 0) \in ImportState
          BY ImportTyped
        <4>3. QED
          BY <4>1, <4>2, ImportMoves DEF Install, Import
      <3>7. QED
        BY <1>11, <3>1, <3>2, <3>3, <3>4, <3>5, <3>6
    <2>3. TypeOK'
      <3>1. /\ UNCHANGED <<mtime, saved, phase, lastUse, restoredUse, openedAt, captures, now, used>>
            /\ active' \in Int
        BY <1>11 DEF StartIncremental, Repack, FinishStage, AbortStage, PublishExisting,
                     Leave, Install, LeaseInv, TypeOK
      <3>2. QED
        BY <2>1, <2>2, <3>1 DEF LeaseInv, TypeOK
    <2>4. QED
      BY <2>1, <2>2, <2>3, QuietStep
  <1>12. ASSUME NEW i \in Importers, Publish(i) \/ PublishSyncFails(i)
         PROVE  LeaseInv'
    <2> DEFINE v == imp[i].view
               gone == ImportPlan(v)
    <2>1. RoomNeeded(i)
      BY <1>12 DEF Publish, PublishSyncFails
    <2>2. /\ gone \subseteq Views
          /\ v \in Views \ entries
          /\ \A o \in Owners : pin[o] # v
          /\ \A w \in gone : \A o \in Owners : pin[o] # w
      BY <2>1, RoomSafe
    <2> HIDE DEF v, gone
    <2>3. /\ disk' = [Emptied(gone) EXCEPT ![v] = "intact"]
          /\ mtime' = [Without(mtime, gone) EXCEPT ![v] = imp[i].stagedAt]
          /\ \/ entries' = (entries \ gone) \cup {v} /\ refs' = [refs EXCEPT ![v] = 0]
             \/ entries' = entries \ gone /\ refs' = refs
          /\ Leaving(i)
          /\ UNCHANGED <<saved, phase, active, restoredUse, openedAt, pin, captures, now>>
          /\ \/ /\ lastUse' = [Without(lastUse, gone) EXCEPT ![v] = now]
                /\ used' = [Without(used, gone) EXCEPT ![v] = now]
             \/ /\ lastUse' = Without(lastUse, gone)
                /\ used' = Without(used, gone)
      BY <1>12 DEF Publish, PublishSyncFails, v, gone
    <2>4. /\ disk' \in [Views -> Content] /\ mtime' \in [Views -> Nat]
          /\ refs' \in [Views -> Nat] /\ entries' \subseteq Views
      <3>1. imp[i] \in ImportState
        BY DEF LeaseInv, TypeOK
      <3>2. imp[i].stagedAt \in Nat
        BY <3>1, ImportFields
      <3>3. QED
        BY <2>2, <2>3, <3>2 DEF Emptied, Without, Content, LeaseInv, TypeOK
    <2>5. lastUse' \in [Views -> Nat] /\ used' \in [Views -> Nat]
      <3>1. /\ Without(lastUse, gone) \in [Views -> Nat]
            /\ Without(used, gone) \in [Views -> Nat]
            /\ now \in Nat
        BY DEF Without, LeaseInv, TypeOK
      <3>2. QED
        BY <2>3, <3>1
    <2>6. TypeOK'
      BY <2>3, <2>4, <2>5, LeavingMoves DEF LeaseInv, TypeOK
    <2>7. refs[v] = 0
      <3>1. PinnersOf(v) = {}
        BY <2>2 DEF PinnersOf
      <3>2. QED
        BY <2>2, <3>1, FS_EmptySet DEF LeaseInv, RefsMatchLeases, PinnersOf
    <2>8. refs' = refs
      BY <2>3, <2>7 DEF LeaseInv, TypeOK
    <2>9. RefsMatchLeases'
      BY <2>3, <2>8 DEF LeaseInv, RefsMatchLeases
    <2>10. PinsCached'
      BY <2>2, <2>3 DEF LeaseInv, PinsCached
    <2>11. EntriesOnDisk'
      BY <2>2, <2>3 DEF LeaseInv, EntriesOnDisk, Emptied, TypeOK
    <2>12. ImportsNamed'
      BY <2>3, LeavingMoves
    <2>13. QED
      BY <2>6, <2>9, <2>10, <2>11, <2>12 DEF LeaseInv
  <1>13. ASSUME NEW i \in Importers, MakeRoomFails(i)
         PROVE  LeaseInv'
    <2>1. RoomNeeded(i) /\ Collect(ImportPlan(imp[i].view))
      BY <1>13 DEF MakeRoomFails
    <2>2. imp' \in [Importers -> ImportState] /\ ImportsNamed'
      BY <1>13, LeavingMoves DEF MakeRoomFails
    <2>3. QED
      BY <1>4, <1>13, <2>1, <2>2, PlanIsEvictable DEF MakeRoomFails, ImportPlan
  <1>14. ASSUME NEW i \in Importers, CrashInPublish(i)
         PROVE  LeaseInv'
    BY <1>14, PlanIsEvictable, DieRemovingSafe DEF CrashInPublish, ImportPlan
  <1>15. ASSUME NEW c \in Captures, NewCapture(c) \/ CloseCapture(c)
         PROVE  LeaseInv'
    <2>1. UNCHANGED <<disk, entries, refs, pin, imp>>
      BY <1>15 DEF NewCapture, CloseCapture
    <2>2. TypeOK'
      BY <1>15 DEF NewCapture, CloseCapture, LeaseInv, TypeOK
    <2>3. QED
      BY <2>1, <2>2, QuietStep DEF LeaseInv, ImportsNamed
  <1>16. ASSUME NEW v \in Views, Remove(v)
         PROVE  LeaseInv'
    <2>1. Collect({v}) /\ ~Pinned(v)
      BY <1>16 DEF Remove, Removable
    <2>2. QED
      BY <1>4, <1>16, <2>1 DEF Remove, LeaseInv, TypeOK, ImportsNamed
  <1>17. ASSUME NEW v \in Views, CrashInRemove(v)
         PROVE  LeaseInv'
    BY <1>17, DieRemovingSafe DEF CrashInRemove
  <1>18. CASE UNCHANGED vars
    BY <1>18 DEF vars, LeaseInv, TypeOK, RefsMatchLeases, PinsCached, EntriesOnDisk, ImportsNamed
  <1>19. QED
    BY <1>1, <1>2, <1>3, <1>5, <1>6, <1>7, <1>8, <1>9, <1>10, <1>11, <1>12, <1>13, <1>14,
       <1>15, <1>16, <1>17, <1>18 DEF Next

\* The lease invariant holds in every reachable state.
THEOREM LeaseInvariant == Spec => []LeaseInv
  <1>1. Init => LeaseInv
    BY InitLease
  <1>2. LeaseInv /\ [Next]_vars => LeaseInv'
    BY LeaseStep
  <1>3. QED
    BY <1>1, <1>2, PTL DEF Spec

\* Every variable of the store keeps its type.
THEOREM TypeCorrect == Spec => []TypeOK
  <1>1. LeaseInv => TypeOK
    BY DEF LeaseInv
  <1>2. QED
    BY <1>1, LeaseInvariant, PTL

\* entry.refs is the number of leases handed out on a view and not released.
THEOREM LeasesCounted == Spec => []RefsMatchLeases
  <1>1. LeaseInv => RefsMatchLeases
    BY DEF LeaseInv
  <1>2. QED
    BY <1>1, LeaseInvariant, PTL

-----------------------------------------------------------------------------

\* What a death inside a removal does to the views on disk.
LEMMA DieRemovingDisk ==
  ASSUME LeaseInv, NEW plan, plan \subseteq Views, \A v \in plan : ~Pinned(v), DieRemoving(plan)
  PROVE  \A v \in Views : (\E o \in Owners : pin[o] = v) => disk'[v] = disk[v]
  <1>1. PICK v \in plan, content \in {"damaged", "gutted"} :
          Carried(RemovedBefore(plan, v), {v}, content)
    BY DEF DieRemoving
  <1>2. RemovedBefore(plan, v) \subseteq plan
    BY DEF RemovedBefore
  <1>3. \A w \in plan : \A o \in Owners : pin[o] # w
    BY UnpinnedHasNoPinner
  <1>4. QED
    BY <1>1, <1>2, <1>3 DEF Carried, Emptied

\* No action touches the directory of a pinned view.
LEMMA PinnedStep ==
  LeaseInv /\ [Next]_vars =>
    \A v \in Views : (\E o \in Owners : pin[o] = v) => disk'[v] = disk[v]
  <1> SUFFICES ASSUME LeaseInv, [Next]_vars
               PROVE  \A v \in Views : (\E o \in Owners : pin[o] = v) => disk'[v] = disk[v]
    OBVIOUS
  <1> USE DEF durable, Keep
  <1>1. CASE \/ Tick \/ Open \/ ConfigureRetention \/ Close \/ CloseSyncFails \/ Crash
             \/ \E h \in Holders : Release(h) \/ \E v \in Views : Acquire(h, v)
             \/ \E c \in Captures : NewCapture(c) \/ CloseCapture(c)
             \/ UNCHANGED vars
    BY <1>1 DEF Tick, Open, ConfigureRetention, Close, CloseSyncFails, Crash, Release, Acquire,
                NewCapture, CloseCapture, vars
  <1>2. CASE \E i \in Importers :
               \/ StartIncremental(i) \/ Repack(i) \/ FinishStage(i) \/ AbortStage(i)
               \/ PublishExisting(i) \/ Leave(i) \/ ReturnBase(i)
               \/ \E v \in Views : Install(i, v) \/ \E base \in Views : BorrowBase(i, v, base)
    BY <1>2 DEF StartIncremental, Repack, FinishStage, AbortStage, PublishExisting, Leave,
                ReturnBase, Install, BorrowBase
  <1>3. CASE Prune
    BY <1>3, PlanIsEvictable, CollectSafe DEF Prune
  <1>4. CASE CrashInPrune
    BY <1>4, PlanIsEvictable, DieRemovingDisk DEF CrashInPrune
  <1>5. ASSUME NEW i \in Importers, Publish(i) \/ PublishSyncFails(i)
        PROVE  \A v \in Views : (\E o \in Owners : pin[o] = v) => disk'[v] = disk[v]
    <2>1. RoomNeeded(i)
      BY <1>5 DEF Publish, PublishSyncFails
    <2>2. disk' = [Emptied(ImportPlan(imp[i].view)) EXCEPT ![imp[i].view] = "intact"]
      BY <1>5 DEF Publish, PublishSyncFails
    <2>3. QED
      BY <2>1, <2>2, RoomSafe DEF Emptied
  <1>6. ASSUME NEW i \in Importers, MakeRoomFails(i)
        PROVE  \A v \in Views : (\E o \in Owners : pin[o] = v) => disk'[v] = disk[v]
    BY <1>6, PlanIsEvictable, CollectSafe DEF MakeRoomFails, ImportPlan
  <1>7. ASSUME NEW i \in Importers, CrashInPublish(i)
        PROVE  \A v \in Views : (\E o \in Owners : pin[o] = v) => disk'[v] = disk[v]
    BY <1>7, PlanIsEvictable, DieRemovingDisk DEF CrashInPublish, ImportPlan
  <1>8. ASSUME NEW w \in Views, Remove(w)
        PROVE  \A v \in Views : (\E o \in Owners : pin[o] = v) => disk'[v] = disk[v]
    <2>1. Collect({w}) /\ ~Pinned(w)
      BY <1>8 DEF Remove, Removable
    <2>2. QED
      BY <2>1, CollectSafe
  <1>9. ASSUME NEW w \in Views, CrashInRemove(w)
        PROVE  \A v \in Views : (\E o \in Owners : pin[o] = v) => disk'[v] = disk[v]
    <2>1. DieRemoving({w}) /\ ~Pinned(w)
      BY <1>9 DEF CrashInRemove, Removable
    <2>2. QED
      BY <2>1, DieRemovingDisk
  <1>10. QED
    BY <1>1, <1>2, <1>3, <1>4, <1>5, <1>6, <1>7, <1>8, <1>9 DEF Next

\* A lease pins an immutable view: whatever readers, imports, collections,
\* operators and crashes do, its directory stays as it was acquired.
THEOREM PinnedUntouched == Spec => PinnedViewUntouched
  <1>1. LeaseInv /\ [Next]_vars =>
          [\A v \in Views : (\E o \in Owners : pin[o] = v) => disk'[v] = disk[v]]_vars
    BY PinnedStep
  <1>2. QED
    BY <1>1, LeaseInvariant, PTL DEF Spec, PinnedViewUntouched

-----------------------------------------------------------------------------
(* When no removal fails in a running process, every cached entry is a      *)
(* complete view: only a crash can leave a half-removed directory, and      *)
(* after a crash Acquire verifies a view before it caches it.               *)

EntriesIntact == \A v \in entries : disk[v] = "intact"

LEMMA CollectIntact ==
  ASSUME "remove" \notin Faults, LeaseInv, EntriesIntact, NEW plan, Collect(plan)
  PROVE  EntriesIntact'
  <1>1. PICK removed \in Prefixes(plan), content \in {"damaged", "gutted"},
             broken \in {{}} \cup {{v} : v \in Broken(plan)} :
               /\ Carried(removed, broken, content)
               /\ entries' = entries \ removed
    BY DEF Collect
  <1>2. broken = {}
    BY DEF Broken
  <1>3. QED
    BY <1>1, <1>2 DEF Carried, Emptied, EntriesIntact, LeaseInv, TypeOK

LEMMA IntactStep ==
  ASSUME "remove" \notin Faults, LeaseInv, EntriesIntact, [Next]_vars
  PROVE  EntriesIntact'
  <1> USE DEF durable, memory, Keep
  <1>1. CASE \/ Tick \/ Open \/ ConfigureRetention \/ CloseSyncFails \/ UNCHANGED vars
             \/ \E h \in Holders : Release(h)
             \/ \E c \in Captures : NewCapture(c) \/ CloseCapture(c)
    BY <1>1 DEF Tick, Open, ConfigureRetention, CloseSyncFails, Release, DropLease,
                NewCapture, CloseCapture, vars, EntriesIntact
  <1>2. CASE \E i \in Importers :
               \/ StartIncremental(i) \/ Repack(i) \/ FinishStage(i) \/ AbortStage(i)
               \/ PublishExisting(i) \/ Leave(i) \/ ReturnBase(i)
               \/ \E v \in Views : Install(i, v)
    BY <1>2 DEF StartIncremental, Repack, FinishStage, AbortStage, PublishExisting, Leave,
                ReturnBase, DropLease, Install, EntriesIntact
  <1>3. CASE \/ Close \/ Crash \/ CrashInPrune
             \/ \E i \in Importers : CrashInPublish(i)
             \/ \E v \in Views : CrashInRemove(v)
    <2>1. entries' = {}
      BY <1>3 DEF Close, Crash, CrashInPrune, CrashInPublish, CrashInRemove, DieRemoving,
                  Vanish, Forget
    <2>2. QED
      BY <2>1 DEF EntriesIntact
  <1>4. CASE Prune \/ \E i \in Importers : MakeRoomFails(i)
    BY <1>4, CollectIntact DEF Prune, MakeRoomFails
  <1>5. CASE \E v \in Views : Remove(v)
    BY <1>5, CollectIntact DEF Remove
  <1>6. CASE \E h \in Holders, v \in Views : Acquire(h, v)
    BY <1>6 DEF Acquire, TakeLease, EntriesIntact
  <1>7. CASE \E i \in Importers, v \in Views, base \in Views : BorrowBase(i, v, base)
    BY <1>7 DEF BorrowBase, TakeLease, EntriesIntact
  <1>8. ASSUME NEW i \in Importers, Publish(i) \/ PublishSyncFails(i)
        PROVE  EntriesIntact'
    <2> DEFINE v == imp[i].view
               gone == ImportPlan(v)
    <2>1. RoomNeeded(i)
      BY <1>8 DEF Publish, PublishSyncFails
    <2>2. v \in Views /\ gone \subseteq Views
      BY <2>1, RoomSafe
    <2>3. /\ disk' = [Emptied(gone) EXCEPT ![v] = "intact"]
          /\ entries' \subseteq (entries \ gone) \cup {v}
      BY <1>8 DEF Publish, PublishSyncFails
    <2> HIDE DEF v, gone
    <2>4. QED
      BY <2>2, <2>3 DEF Emptied, EntriesIntact, LeaseInv, TypeOK
  <1>9. QED
    BY <1>1, <1>2, <1>3, <1>4, <1>5, <1>6, <1>7, <1>8 DEF Next

\* A lease is on a complete view, as long as a removal that fails half way
\* happens only by the process dying in it.
THEOREM LeasedIntact ==
  ASSUME "remove" \notin Faults
  PROVE  Spec => []LeasedViewIntact
  <1>1. Init => EntriesIntact
    BY DEF Init, EntriesIntact
  <1>2. LeaseInv /\ EntriesIntact /\ [Next]_vars => EntriesIntact'
    BY IntactStep
  <1>3. LeaseInv /\ EntriesIntact => LeasedViewIntact
    BY DEF LeaseInv, PinsCached, EntriesIntact, LeasedViewIntact
  <1>4. QED
    BY <1>1, <1>2, <1>3, LeaseInvariant, PTL DEF Spec

-----------------------------------------------------------------------------
(* Retention never understates a view's last use.  While a process owns the *)
(* store there is no checkpoint, so after a crash every view counts as used *)
(* when the store is opened again; after a clean close the checkpoint is at *)
(* least as recent as the last use it summarises.                           *)

AbsentUnused == \A v \in Views : disk[v] = "absent" => used[v] = 0
UsedByNow == \A v \in Views : used[v] <= now
OwnedAges == phase # "down" => /\ saved = NoTimes
                               /\ \A v \in Views : used[v] <= RetentionUsedAt(v)
SavedAges == phase = "down" => \A v \in Views : saved[v] = 0 \/ used[v] <= saved[v]

PinsOwned == phase = "down" => \A o \in Owners : pin[o] = NoView

AgeInv == AbsentUnused /\ UsedByNow /\ OwnedAges /\ SavedAges /\ PinsOwned

LEMMA UsedAtTyped ==
  ASSUME LeaseInv, NEW v \in Views
  PROVE  /\ RetentionUsedAt(v) \in Nat
         /\ lastUse[v] <= RetentionUsedAt(v)
         /\ mtime[v] <= RetentionUsedAt(v)
  BY DEF LeaseInv, TypeOK, RetentionUsedAt, Latest

\* Using a view keeps its recorded age at least as recent as its use.
LEMMA UseAges ==
  ASSUME LeaseInv, AgeInv, LeaseInv', NEW v \in Views, disk[v] # "absent", Use(v),
         phase # "down", UNCHANGED <<durable, phase, restoredUse, openedAt, now>>
  PROVE  AgeInv'
  <1>1. AbsentUnused' /\ UsedByNow'
    BY DEF Use, durable, AgeInv, AbsentUnused, UsedByNow, LeaseInv, TypeOK
  <1>2. OwnedAges'
    <2>1. saved' = NoTimes
      BY DEF durable, AgeInv, OwnedAges
    <2>2. ASSUME NEW w \in Views
          PROVE  used'[w] <= RetentionUsedAt(w)'
      BY DEF Use, durable, AgeInv, OwnedAges, RetentionUsedAt, Latest, LeaseInv, TypeOK
    <2>3. QED
      BY <2>1, <2>2 DEF OwnedAges
  <1>3. SavedAges' /\ PinsOwned'
    BY DEF SavedAges, PinsOwned
  <1>4. QED
    BY <1>1, <1>2, <1>3 DEF AgeInv

\* A collection forgets the use of exactly the views it removes.
LEMMA CollectAges ==
  ASSUME LeaseInv, AgeInv, NEW plan, Collect(plan), phase # "down",
         UNCHANGED <<saved, phase, restoredUse, openedAt, now>>
  PROVE  AgeInv'
  <1>1. PICK removed \in Prefixes(plan), content \in {"damaged", "gutted"},
             broken \in {{}} \cup {{v} : v \in Broken(plan)} :
               /\ \A v \in broken : removed = RemovedBefore(plan, v)
               /\ Carried(removed, broken, content)
               /\ lastUse' = Without(lastUse, removed)
               /\ used' = Without(used, removed)
    BY DEF Collect
  <1>2. AbsentUnused'
    BY <1>1 DEF Carried, Emptied, Without, AgeInv, AbsentUnused
  <1>3. UsedByNow'
    BY <1>1 DEF Without, AgeInv, UsedByNow, LeaseInv, TypeOK
  <1>4. OwnedAges'
    BY <1>1 DEF Carried, Without, AgeInv, OwnedAges, RetentionUsedAt, Latest, LeaseInv, TypeOK
  <1>5. QED
    BY <1>2, <1>3, <1>4 DEF AgeInv, SavedAges, PinsOwned

\* A process that dies leaves no checkpoint and no lease.
LEMMA VanishAges ==
  ASSUME LeaseInv, AgeInv, NEW removed, Vanish(removed), phase # "down",
         \A v \in Views : disk'[v] = "absent" =>
            /\ v \in removed \/ disk[v] = "absent"
            /\ \A o \in Owners : pin[o] # v,
         UNCHANGED <<saved, now>>
  PROVE  AgeInv'
  <1>1. used' = [v \in Views |-> IF \E o \in Owners : pin[o] = v THEN now
                                 ELSE IF v \in removed THEN 0 ELSE used[v]]
    BY DEF Vanish, Without
  <1>2. AbsentUnused'
    BY <1>1 DEF AgeInv, AbsentUnused
  <1>3. UsedByNow'
    BY <1>1 DEF AgeInv, UsedByNow, LeaseInv, TypeOK
  <1>4. SavedAges' /\ OwnedAges'
    BY DEF Vanish, AgeInv, OwnedAges, SavedAges, NoTimes
  <1>5. PinsOwned'
    BY DEF Vanish, PinsOwned
  <1>6. QED
    BY <1>2, <1>3, <1>4, <1>5 DEF AgeInv

LEMMA DieRemovingAges ==
  ASSUME LeaseInv, AgeInv, NEW plan, plan \subseteq Views, \A v \in plan : ~Pinned(v),
         DieRemoving(plan), phase # "down"
  PROVE  AgeInv'
  <1>1. PICK v \in plan, content \in {"damaged", "gutted"} :
          /\ Carried(RemovedBefore(plan, v), {v}, content)
          /\ Vanish(RemovedBefore(plan, v))
          /\ UNCHANGED <<saved, now>>
    BY DEF DieRemoving
  <1>2. RemovedBefore(plan, v) \subseteq plan
    BY DEF RemovedBefore
  <1>3. \A w \in plan : \A o \in Owners : pin[o] # w
    BY UnpinnedHasNoPinner
  <1>4. \A w \in Views : disk'[w] = "absent" => w \in RemovedBefore(plan, v) \/ disk[w] = "absent"
    BY <1>1 DEF Carried, Emptied
  <1>5. \A w \in Views : disk'[w] = "absent" => \A o \in Owners : pin[o] # w
    BY <1>2, <1>3, <1>4, AbsentHasNoPinner
  <1>6. QED
    BY <1>1, <1>4, <1>5, VanishAges

\* A publication makes its own view recent and forgets the views it collects.
LEMMA PublishAges ==
  ASSUME LeaseInv, AgeInv, LeaseInv', NEW i \in Importers, Publish(i) \/ PublishSyncFails(i)
  PROVE  AgeInv'
  <1> DEFINE v == imp[i].view
             gone == ImportPlan(v)
  <1>1. RoomNeeded(i) /\ phase # "down"
    BY DEF Publish, PublishSyncFails, RoomNeeded
  <1>2. v \in Views /\ gone \subseteq Views /\ disk[v] = "absent"
    BY <1>1, RoomSafe DEF RoomNeeded
  <1>3. used[v] = 0
    BY <1>2 DEF AgeInv, AbsentUnused
  <1>4. /\ disk' = [Emptied(gone) EXCEPT ![v] = "intact"]
        /\ mtime' = [Without(mtime, gone) EXCEPT ![v] = imp[i].stagedAt]
        /\ UNCHANGED <<saved, phase, restoredUse, openedAt, pin, now>>
    BY DEF Publish, PublishSyncFails
  <1>5. \/ /\ lastUse' = [Without(lastUse, gone) EXCEPT ![v] = now]
           /\ used' = [Without(used, gone) EXCEPT ![v] = now]
        \/ /\ lastUse' = Without(lastUse, gone)
           /\ used' = Without(used, gone)
    BY DEF Publish, PublishSyncFails
  <1> HIDE DEF v, gone
  <1>6. AbsentUnused' /\ UsedByNow'
    <2>1. ASSUME NEW w \in Views
          PROVE  used'[w] = now \/ used'[w] = 0 \/ (used'[w] = used[w] /\ w # v /\ w \notin gone)
      BY <1>2, <1>3, <1>5 DEF Without, LeaseInv, TypeOK
    <2>2. ASSUME NEW w \in Views, w # v, w \notin gone
          PROVE  disk'[w] = disk[w]
      BY <1>2, <1>4, <2>2 DEF Emptied, LeaseInv, TypeOK
    <2>3. UsedByNow'
      BY <1>4, <2>1 DEF AgeInv, UsedByNow, LeaseInv, TypeOK
    <2>4. ASSUME NEW w \in Views, disk'[w] = "absent"
          PROVE  used'[w] = 0
      <3>1. w # v
        BY <1>2, <1>4, <2>4 DEF Emptied, LeaseInv, TypeOK
      <3>2. CASE w \in gone
        BY <1>2, <1>5, <3>1, <3>2 DEF Without
      <3>3. CASE w \notin gone
        BY <1>2, <1>5, <2>2, <2>4, <3>1, <3>3 DEF Without, AgeInv, AbsentUnused
      <3>4. QED
        BY <3>2, <3>3
    <2>5. QED
      BY <2>3, <2>4 DEF AbsentUnused
  <1>7. ASSUME NEW w \in Views
        PROVE  used'[w] <= RetentionUsedAt(w)'
    <2>1. used[w] <= RetentionUsedAt(w)
      BY <1>1 DEF AgeInv, OwnedAges
    <2>2. lastUse'[w] <= RetentionUsedAt(w)' /\ RetentionUsedAt(w)' \in Nat
      BY DEF LeaseInv, TypeOK, RetentionUsedAt, Latest
    <2>3. CASE w = v
      BY <1>2, <1>3, <1>5, <2>2, <2>3 DEF Without, LeaseInv, TypeOK
    <2>4. CASE w \in gone /\ w # v
      BY <1>2, <1>5, <2>2, <2>4 DEF Without, LeaseInv, TypeOK
    <2>5. CASE w \notin gone /\ w # v
      <3>1. used'[w] = used[w] /\ lastUse'[w] = lastUse[w] /\ mtime'[w] = mtime[w]
        BY <1>2, <1>4, <1>5, <2>5 DEF Without, LeaseInv, TypeOK
      <3>2. QED
        BY <1>4, <2>1, <3>1 DEF RetentionUsedAt
    <2>6. QED
      BY <2>3, <2>4, <2>5
  <1>8. OwnedAges' /\ SavedAges' /\ PinsOwned'
    BY <1>1, <1>4, <1>7 DEF AgeInv, OwnedAges, SavedAges, PinsOwned
  <1>9. QED
    BY <1>6, <1>8 DEF AgeInv

\* Steps that use no view, change no directory and keep the process.
LEMMA QuietAges ==
  ASSUME LeaseInv, AgeInv,
         UNCHANGED <<durable, phase, lastUse, restoredUse, openedAt, pin, used>>,
         now' = now \/ now' = now + 1
  PROVE  AgeInv'
  <1>1. UsedByNow'
    BY DEF AgeInv, UsedByNow, LeaseInv, TypeOK
  <1>2. QED
    BY <1>1 DEF durable, AgeInv, AbsentUnused, OwnedAges, SavedAges, PinsOwned, RetentionUsedAt

\* The owner of a lease is alive and the view it holds is on disk.
LEMMA PinLive ==
  ASSUME LeaseInv, AgeInv, NEW o \in Owners, pin[o] # NoView
  PROVE  phase # "down" /\ pin[o] \in Views /\ disk[pin[o]] # "absent"
  BY DEF AgeInv, PinsOwned, LeaseInv, PinsCached, EntriesOnDisk, TypeOK

\* Every action preserves the age invariant.
LEMMA AgeStep ==
  ASSUME "close_sync" \notin Faults, LeaseInv, LeaseInv', AgeInv, [Next]_vars
  PROVE  AgeInv'
  <1> USE DEF durable, memory, clients, Keep
  <1>1. CASE Tick \/ ConfigureRetention \/ UNCHANGED vars \/ \E c \in Captures : NewCapture(c) \/ CloseCapture(c)
    <2>1. CASE ConfigureRetention
      BY <2>1 DEF ConfigureRetention, AgeInv, AbsentUnused, UsedByNow, OwnedAges, SavedAges,
                  PinsOwned, RetentionUsedAt
    <2>2. CASE Tick
      BY <2>2, QuietAges DEF Tick
    <2>3. CASE UNCHANGED vars
      BY <2>3, QuietAges DEF vars
    <2>4. CASE \E c \in Captures : NewCapture(c) \/ CloseCapture(c)
      BY <2>4, QuietAges DEF NewCapture, CloseCapture
    <2>5. QED
      BY <1>1, <2>1, <2>2, <2>3, <2>4
  <1>2. CASE Open
    <2>1. AbsentUnused' /\ UsedByNow' /\ SavedAges' /\ PinsOwned'
      BY <1>2 DEF Open, AgeInv, AbsentUnused, UsedByNow, SavedAges, PinsOwned
    <2>2. \A v \in Views : used'[v] <= RetentionUsedAt(v)'
      BY <1>2 DEF Open, AgeInv, UsedByNow, SavedAges, RetentionUsedAt, Latest, LeaseInv, TypeOK
    <2>3. QED
      BY <1>2, <2>1, <2>2 DEF Open, AgeInv, OwnedAges
  <1>3. CASE Close
    <2>1. \A o \in Owners : pin[o] = NoView
      BY <1>3, UnpinnedHasNoPinner DEF Close, Drained, Pinned, LeaseInv, PinsCached, TypeOK
    <2>2. phase # "down" /\ phase' = "down" /\ saved' = RetentionClose
          /\ UNCHANGED <<disk, mtime, pin, now, used>>
      BY <1>3 DEF Close
    <2>3. \A v \in Views : saved'[v] = 0 \/ used'[v] <= saved'[v]
      BY <2>2 DEF RetentionClose, AgeInv, OwnedAges
    <2>4. QED
      BY <2>1, <2>2, <2>3 DEF AgeInv, AbsentUnused, UsedByNow, OwnedAges, SavedAges, PinsOwned
  <1>4. CASE CloseSyncFails
    BY <1>4 DEF CloseSyncFails
  <1>5. CASE Crash
    BY <1>5, VanishAges, AbsentHasNoPinner DEF Crash
  <1>6. CASE Prune
    BY <1>6, CollectAges DEF Prune
  <1>7. CASE CrashInPrune
    BY <1>7, PlanIsEvictable, DieRemovingAges DEF CrashInPrune
  <1>8. ASSUME NEW o \in Owners, NEW v \in Views, TakeLease(o, v),
               UNCHANGED <<durable, phase, restoredUse, openedAt, now>>
        PROVE  AgeInv'
    <2>1. disk[v] # "absent" /\ phase # "down" /\ Use(v)
      BY <1>8 DEF TakeLease, LeaseInv, EntriesOnDisk
    <2>2. QED
      BY <1>8, <2>1, UseAges
  <1>9. ASSUME NEW o \in Owners, DropLease(o),
               UNCHANGED <<durable, phase, restoredUse, openedAt, now>>
        PROVE  AgeInv'
    <2>1. pin[o] # NoView /\ Use(pin[o])
      BY <1>9 DEF DropLease
    <2>2. QED
      BY <1>9, <2>1, PinLive, UseAges
  <1>10. ASSUME NEW h \in Holders, Release(h) \/ \E v \in Views : Acquire(h, v)
         PROVE  AgeInv'
    BY <1>8, <1>9, <1>10 DEF Owners, Release, Acquire
  <1>11. ASSUME NEW i \in Importers,
                ReturnBase(i) \/ \E v \in Views, base \in Views : BorrowBase(i, v, base)
         PROVE  AgeInv'
    BY <1>8, <1>9, <1>11 DEF Owners, ReturnBase, BorrowBase
  <1>12. ASSUME NEW i \in Importers,
                \/ StartIncremental(i) \/ Repack(i) \/ FinishStage(i) \/ AbortStage(i)
                \/ PublishExisting(i) \/ Leave(i) \/ \E v \in Views : Install(i, v)
         PROVE  AgeInv'
    <2>1. UNCHANGED <<durable, phase, lastUse, restoredUse, openedAt, pin, used, now>>
      BY <1>12 DEF StartIncremental, Repack, FinishStage, AbortStage, PublishExisting, Leave, Install
    <2>2. QED
      BY <2>1, QuietAges
  <1>13. ASSUME NEW i \in Importers, Publish(i) \/ PublishSyncFails(i)
         PROVE  AgeInv'
    BY <1>13, PublishAges
  <1>14. ASSUME NEW i \in Importers, MakeRoomFails(i)
         PROVE  AgeInv'
    BY <1>14, CollectAges DEF MakeRoomFails, RoomNeeded
  <1>15. ASSUME NEW i \in Importers, CrashInPublish(i)
         PROVE  AgeInv'
    BY <1>15, PlanIsEvictable, DieRemovingAges DEF CrashInPublish, RoomNeeded, ImportPlan
  <1>16. ASSUME NEW v \in Views, Remove(v)
         PROVE  AgeInv'
    <2>1. Collect({v}) /\ phase # "down" /\ UNCHANGED <<saved, phase, restoredUse, openedAt, now>>
      BY <1>16 DEF Remove, Removable
    <2>2. QED
      BY <2>1, CollectAges
  <1>17. ASSUME NEW v \in Views, CrashInRemove(v)
         PROVE  AgeInv'
    <2>1. DieRemoving({v}) /\ phase # "down" /\ ~Pinned(v)
      BY <1>17 DEF CrashInRemove, Removable
    <2>2. QED
      BY <2>1, DieRemovingAges
  <1>18. QED
    BY <1>1, <1>2, <1>3, <1>4, <1>5, <1>6, <1>7, <1>10, <1>11, <1>12, <1>13, <1>14, <1>15,
       <1>16, <1>17 DEF Next

\* No collection takes a view used within MinAge, by this process or by one
\* that closed or crashed, as long as a failed Close is not followed by work.
THEOREM RecentUse ==
  ASSUME "close_sync" \notin Faults
  PROVE  Spec => []RecentUseProtected
  <1>1. Init => AgeInv
    BY DEF Init, AgeInv, AbsentUnused, UsedByNow, OwnedAges, SavedAges, PinsOwned, NoTimes
  <1>2. LeaseInv /\ LeaseInv' /\ AgeInv /\ [Next]_vars => AgeInv'
    BY AgeStep
  <1>3. LeaseInv /\ AgeInv => RecentUseProtected
    <2> SUFFICES ASSUME LeaseInv, AgeInv, phase = "open", NEW v \in Evictable
                 PROVE  now - used[v] >= MinAge
      BY DEF RecentUseProtected
    <2>1. v \in Views /\ now - RetentionUsedAt(v) >= MinAge
      BY DEF Evictable, OnDisk, Age
    <2>2. used[v] <= RetentionUsedAt(v) /\ RetentionUsedAt(v) \in Nat
      BY <2>1, UsedAtTyped DEF AgeInv, OwnedAges
    <2>3. QED
      BY <2>1, <2>2, PolicyAssumption DEF LeaseInv, TypeOK
  <1>4. QED
    BY <1>1, <1>2, <1>3, LeaseInvariant, PTL DEF Spec

-----------------------------------------------------------------------------
(* Close and the work under way.                                            *)

\* The reservations of imports: Store.active counts these and the captures.
Reserved == {r \in Importers \X {1, 2} : r[2] <= imp[r[1]].depth}

ActiveExact ==
    IsFiniteSet(captures) /\ active = Cardinality(Reserved) + Cardinality(captures)

\* An import reserves the store exactly while it has a stage, and one that has
\* not reserved it yet, or has no more, holds its base.
ReservedInv ==
    \A i \in Importers :
        /\ imp[i].pc \in {"staging", "staged", "leaving"} => imp[i].depth > 0
        /\ imp[i].pc \in {"idle", "borrowed", "returning"} => imp[i].depth = 0
        /\ imp[i].pc \in {"borrowed", "returning"} => pin[i] # NoView

DrainInv == ActiveExact /\ ReservedInv /\ DrainedWhenDown

\* There are at most two reservations of each import.
LEMMA ReservedFinite == IsFiniteSet(Reserved) /\ Cardinality(Reserved) \in Nat
  <1>1. IsFiniteSet({1, 2})
    <2>1. IsFiniteSet({1})
      BY FS_Singleton
    <2>2. {1, 2} = {1} \cup {2}
      OBVIOUS
    <2>3. QED
      BY <2>1, <2>2, FS_AddElement
  <1>2. IsFiniteSet(Importers \X {1, 2})
    BY <1>1, OwnersAssumption, FS_Product
  <1>3. Reserved \subseteq Importers \X {1, 2}
    BY DEF Reserved
  <1>4. QED
    BY <1>2, <1>3, FS_Subset, FS_CardinalityType

\* A step that changes no reservation and no capture.
LEMMA SameReservations ==
  ASSUME ActiveExact, UNCHANGED <<active, captures>>,
         \A i \in Importers : imp'[i].depth = imp[i].depth
  PROVE  ActiveExact'
  <1>1. Reserved' = Reserved
    BY DEF Reserved
  <1>2. QED
    BY <1>1 DEF ActiveExact

\* An import reserves the store once more.
LEMMA OneMore ==
  ASSUME LeaseInv, ActiveExact, NEW i \in Importers, NEW d \in {1, 2}, NEW r,
         imp' = [imp EXCEPT ![i] = r], imp[i].depth = d - 1, r.depth = d,
         active' = active + 1, captures' = captures
  PROVE  ActiveExact'
  <1>1. Reserved' = Reserved \cup {<<i, d>>} /\ <<i, d>> \notin Reserved
    <2>1. /\ \A j \in Importers : imp'[j].depth = IF j = i THEN d ELSE imp[j].depth
          /\ \A j \in Importers : imp[j].depth \in 0 .. 2
      BY ImportFields DEF LeaseInv, TypeOK
    <2>2. ASSUME NEW p \in Importers \X {1, 2}
          PROVE  p \in Reserved' <=> p \in Reserved \/ p = <<i, d>>
      <3>1. PICK j \in Importers, k \in {1, 2} : p = <<j, k>>
        OBVIOUS
      <3>2. p[1] = j /\ p[2] = k
        BY <3>1
      <3>3. p \in Reserved' <=> k <= imp'[j].depth
        BY <3>2 DEF Reserved
      <3>4. p \in Reserved <=> k <= imp[j].depth
        BY <3>2 DEF Reserved
      <3>5. p = <<i, d>> <=> j = i /\ k = d
        BY <3>1
      <3>6. QED
        BY <2>1, <3>3, <3>4, <3>5
    <2>3. <<i, d>> \in Importers \X {1, 2} /\ <<i, d>> \notin Reserved
      BY <2>1 DEF Reserved
    <2>4. Reserved \subseteq Importers \X {1, 2} /\ Reserved' \subseteq Importers \X {1, 2}
      BY DEF Reserved
    <2>5. QED
      BY <2>2, <2>3, <2>4
  <1>2. Cardinality(Reserved') = Cardinality(Reserved) + 1
    BY <1>1, ReservedFinite, FS_AddElement
  <1>3. Cardinality(captures) \in Nat
    BY FS_CardinalityType DEF ActiveExact
  <1>4. QED
    BY <1>2, <1>3, ReservedFinite DEF ActiveExact

\* ... and gives one reservation back.
LEMMA OneLess ==
  ASSUME LeaseInv, ActiveExact, NEW i \in Importers, NEW d \in {1, 2}, NEW r,
         imp' = [imp EXCEPT ![i] = r], imp[i].depth = d, r.depth = d - 1,
         active' = active - 1, captures' = captures
  PROVE  ActiveExact'
  <1>1. Reserved' = Reserved \ {<<i, d>>} /\ <<i, d>> \in Reserved
    <2>1. /\ \A j \in Importers : imp'[j].depth = IF j = i THEN d - 1 ELSE imp[j].depth
          /\ \A j \in Importers : imp[j].depth \in 0 .. 2
      BY ImportFields DEF LeaseInv, TypeOK
    <2>2. ASSUME NEW p \in Importers \X {1, 2}
          PROVE  p \in Reserved' <=> p \in Reserved /\ p # <<i, d>>
      <3>1. PICK j \in Importers, k \in {1, 2} : p = <<j, k>>
        OBVIOUS
      <3>2. p[1] = j /\ p[2] = k
        BY <3>1
      <3>3. p \in Reserved' <=> k <= imp'[j].depth
        BY <3>2 DEF Reserved
      <3>4. p \in Reserved <=> k <= imp[j].depth
        BY <3>2 DEF Reserved
      <3>5. p = <<i, d>> <=> j = i /\ k = d
        BY <3>1
      <3>6. QED
        BY <2>1, <3>3, <3>4, <3>5
    <2>3. <<i, d>> \in Importers \X {1, 2} /\ <<i, d>> \in Reserved
      BY <2>1 DEF Reserved
    <2>4. Reserved \subseteq Importers \X {1, 2} /\ Reserved' \subseteq Importers \X {1, 2}
      BY DEF Reserved
    <2>5. QED
      BY <2>2, <2>3, <2>4
  <1>2. Cardinality(Reserved') = Cardinality(Reserved) - 1
    BY <1>1, ReservedFinite, FS_RemoveElement
  <1>3. Cardinality(captures) \in Nat
    BY FS_CardinalityType DEF ActiveExact
  <1>4. QED
    BY <1>2, <1>3, ReservedFinite DEF ActiveExact

\* A death forgets the reservations with those who made them.
LEMMA NobodyLeft ==
  ASSUME Forget, pin' = [o \in Owners |-> NoView], imp' = [i \in Importers |-> Idle],
         captures' = {}
  PROVE  DrainInv'
  <1>1. Idle.pc = "idle" /\ Idle.depth = 0
    BY DEF Idle, Import
  <1>2. Reserved' = {}
    BY <1>1 DEF Reserved
  <1>3. ActiveExact'
    BY <1>2, FS_EmptySet DEF ActiveExact, Forget
  <1>4. ReservedInv'
    BY <1>1 DEF ReservedInv
  <1>5. DrainedWhenDown'
    BY <1>1 DEF DrainedWhenDown
  <1>6. QED
    BY <1>3, <1>4, <1>5 DEF DrainInv

\* Close goes ahead only when nobody is left: no lease, hence no import that only
\* holds its base, and no reservation, hence no other import and no capture.
LEMMA DrainedMeansIdle ==
  ASSUME LeaseInv, DrainInv, Drained
  PROVE  /\ \A o \in Owners : pin[o] = NoView
         /\ \A i \in Importers : imp[i].pc = "idle"
         /\ captures = {}
  <1>1. \A o \in Owners : pin[o] = NoView
    <2> SUFFICES ASSUME NEW o \in Owners, pin[o] # NoView PROVE FALSE
      OBVIOUS
    <2>1. pin[o] \in Views /\ pin[o] \in entries
      BY DEF LeaseInv, TypeOK, PinsCached
    <2>2. ~Pinned(pin[o])
      BY <2>1 DEF Drained, Pinned
    <2>3. QED
      BY <2>1, <2>2, UnpinnedHasNoPinner
  <1>2. Cardinality(Reserved) = 0 /\ Cardinality(captures) = 0
    <2>1. Cardinality(captures) \in Nat
      BY FS_CardinalityType DEF DrainInv, ActiveExact
    <2>2. QED
      BY <2>1, ReservedFinite DEF DrainInv, ActiveExact, Drained
  <1>3. Reserved = {} /\ captures = {}
    BY <1>2, ReservedFinite, FS_EmptySet DEF DrainInv, ActiveExact
  <1>4. \A i \in Importers : imp[i].depth = 0
    <2> SUFFICES ASSUME NEW i \in Importers, imp[i].depth # 0 PROVE FALSE
      OBVIOUS
    <2>1. imp[i].depth \in 0 .. 2
      BY ImportFields DEF LeaseInv, TypeOK
    <2>2. <<i, 1>> \in Reserved
      BY <2>1 DEF Reserved
    <2>3. QED
      BY <1>3, <2>2
  <1>5. \A i \in Importers : imp[i].pc \in {"idle", "borrowed", "staging", "staged", "leaving", "returning"}
    BY DEF LeaseInv, TypeOK, ImportState
  <1>6. QED
    BY <1>1, <1>3, <1>4, <1>5 DEF DrainInv, ReservedInv, Owners

\* Every action preserves the counts of work under way.
LEMMA DrainStep == LeaseInv /\ DrainInv /\ [Next]_vars => DrainInv'
  <1> SUFFICES ASSUME LeaseInv, DrainInv, [Next]_vars PROVE DrainInv'
    OBVIOUS
  <1> USE DEF durable, memory, clients, Keep
  <1>0. /\ \A i \in Importers : imp[i] \in ImportState /\ imp[i].depth \in 0 .. 2
        /\ ActiveExact /\ ReservedInv /\ DrainedWhenDown /\ DOMAIN imp = Importers
    BY ImportFields DEF LeaseInv, TypeOK, DrainInv
  <1>1. CASE \/ Tick \/ Open \/ ConfigureRetention \/ CloseSyncFails \/ Prune
             \/ (\E v \in Views : Remove(v)) \/ UNCHANGED vars
    <2>1. UNCHANGED <<active, pin, imp, captures>> /\ (phase' = "down" => phase = "down")
      BY <1>1 DEF Tick, Open, ConfigureRetention, CloseSyncFails, Prune, Remove, vars
    <2>2. ActiveExact'
      BY <1>0, <2>1, SameReservations
    <2>3. QED
      BY <1>0, <2>1, <2>2 DEF DrainInv, ReservedInv, DrainedWhenDown
  <1>2. CASE Close
    <2>1. UNCHANGED <<pin, imp, captures>> /\ active' = active
      BY <1>2 DEF Close, Forget, Drained
    <2>2. ActiveExact'
      BY <1>0, <2>1, SameReservations
    <2>3. DrainedWhenDown'
      BY <1>2, <2>1, DrainedMeansIdle DEF DrainedWhenDown, Close
    <2>4. QED
      BY <1>0, <2>1, <2>2, <2>3 DEF DrainInv, ReservedInv
  <1>3. CASE \/ Crash \/ CrashInPrune \/ (\E i \in Importers : CrashInPublish(i))
             \/ \E v \in Views : CrashInRemove(v)
    BY <1>3, NobodyLeft DEF Crash, CrashInPrune, CrashInPublish, CrashInRemove, DieRemoving, Vanish
  <1>4. ASSUME NEW h \in Holders, Release(h) \/ \E v \in Views : Acquire(h, v) PROVE DrainInv'
    <2>1. UNCHANGED <<active, imp, captures, phase>> /\ phase # "down"
      BY <1>0, <1>4 DEF Release, Acquire, TakeLease, DropLease, DrainedWhenDown, Owners
    <2>2. \A i \in Importers : pin'[i] = pin[i]
      BY <1>4, OwnersAssumption DEF Release, Acquire, TakeLease, DropLease, LeaseInv, TypeOK, Owners
    <2>3. ActiveExact'
      BY <1>0, <2>1, SameReservations
    <2>4. QED
      BY <1>0, <2>1, <2>2, <2>3 DEF DrainInv, ReservedInv, DrainedWhenDown
  <1>5. ASSUME NEW i \in Importers,
               \/ FinishStage(i) \/ AbortStage(i) \/ PublishExisting(i) \/ Publish(i)
               \/ PublishSyncFails(i) \/ MakeRoomFails(i)
        PROVE  DrainInv'
    <2>1. /\ imp[i].pc \in {"staging", "staged"} /\ UNCHANGED <<active, captures, pin, phase>>
          /\ \/ imp' = [imp EXCEPT ![i] = Import("staged", imp[i].view, imp[i].depth, now)]
             \/ imp' = [imp EXCEPT ![i] = Import("leaving", NoView, imp[i].depth, 0)]
      BY <1>5 DEF FinishStage, AbortStage, PublishExisting, Publish, PublishSyncFails,
                  MakeRoomFails, RoomNeeded, Leaving
    <2>2. phase # "down"
      BY <1>0, <2>1 DEF DrainedWhenDown
    <2>3. \A j \in Importers : imp'[j].depth = imp[j].depth
      BY <1>0, <2>1 DEF Import
    <2>4. ActiveExact'
      BY <1>0, <2>1, <2>3, SameReservations
    <2>5. ReservedInv'
      BY <1>0, <2>1 DEF ReservedInv, Import
    <2>6. QED
      BY <2>1, <2>2, <2>4, <2>5 DEF DrainInv, DrainedWhenDown
  <1>6. ASSUME NEW i \in Importers,
               \/ StartIncremental(i) \/ Repack(i) \/ \E v \in Views : Install(i, v)
        PROVE  DrainInv'
    <2>1. PICK v \in Views \cup {NoView}, d \in {1, 2} :
              /\ imp' = [imp EXCEPT ![i] = Import("staging", v, d, 0)]
              /\ imp[i].depth = d - 1 /\ active' = active + 1
              /\ UNCHANGED <<captures, pin, phase>> /\ phase # "down"
      <3>1. CASE StartIncremental(i)
        <4>1. /\ imp' = [imp EXCEPT ![i] = Import("staging", imp[i].view, 1, 0)]
              /\ imp[i].depth = 1 - 1 /\ active' = active + 1
              /\ UNCHANGED <<captures, pin, phase>> /\ phase # "down"
          BY <1>0, <3>1 DEF StartIncremental, ReservedInv
        <4>2. QED
          BY <1>0, <4>1, ImportFields
      <3>2. CASE Repack(i)
        <4>1. /\ imp' = [imp EXCEPT ![i] = Import("staging", imp[i].view, 2, 0)]
              /\ imp[i].depth = 2 - 1 /\ active' = active + 1
              /\ UNCHANGED <<captures, pin, phase>> /\ phase # "down"
          BY <1>0, <3>2 DEF Repack, DrainedWhenDown
        <4>2. QED
          BY <1>0, <4>1, ImportFields
      <3>3. ASSUME NEW x \in Views, Install(i, x)
            PROVE  \E v \in Views \cup {NoView}, d \in {1, 2} :
              /\ imp' = [imp EXCEPT ![i] = Import("staging", v, d, 0)]
              /\ imp[i].depth = d - 1 /\ active' = active + 1
              /\ UNCHANGED <<captures, pin, phase>> /\ phase # "down"
        <4>1. /\ imp' = [imp EXCEPT ![i] = Import("staging", x, 1, 0)]
              /\ imp[i].depth = 1 - 1 /\ active' = active + 1
              /\ UNCHANGED <<captures, pin, phase>> /\ phase # "down"
          BY <1>0, <3>3 DEF Install, ReservedInv
        <4>2. QED
          BY <1>0, <4>1, ImportFields
      <3>4. QED
        BY <1>6, <3>1, <3>2, <3>3
    <2>2. ActiveExact'
      <3>1. Import("staging", v, d, 0).depth = d
        BY DEF Import
      <3>2. QED
        BY <1>0, <2>1, <3>1, OneMore
    <2>3. ReservedInv'
      BY <1>0, <2>1 DEF ReservedInv, Import
    <2>4. QED
      BY <2>1, <2>2, <2>3 DEF DrainInv, DrainedWhenDown
  <1>7. ASSUME NEW i \in Importers, NEW v \in Views, NEW base \in Views, BorrowBase(i, v, base)
        PROVE  DrainInv'
    <2>1. /\ imp[i].pc = "idle" /\ imp' = [imp EXCEPT ![i] = Import("borrowed", v, 0, 0)]
          /\ pin' = [pin EXCEPT ![i] = base] /\ phase = "open"
          /\ UNCHANGED <<active, captures, phase>>
      BY <1>7 DEF BorrowBase, TakeLease
    <2>2. \A j \in Importers : imp'[j].depth = imp[j].depth
      BY <1>0, <2>1 DEF Import, ReservedInv
    <2>3. ActiveExact'
      BY <1>0, <2>1, <2>2, SameReservations
    <2>4. \A j \in Importers : pin'[j] = IF j = i THEN base ELSE pin[j]
      BY <2>1 DEF LeaseInv, TypeOK, Owners
    <2>5. ReservedInv'
      BY <1>0, <2>1, <2>4, NoViewNotView DEF ReservedInv, Import
    <2>6. QED
      BY <2>1, <2>3, <2>5 DEF DrainInv, DrainedWhenDown
  <1>8. ASSUME NEW i \in Importers, Leave(i) PROVE DrainInv'
    <2>1. imp[i].pc = "leaving" /\ imp[i].depth \in {1, 2} /\ phase # "down"
      BY <1>0, <1>8 DEF Leave, ReservedInv, DrainedWhenDown
    <2>2. PICK r : /\ imp' = [imp EXCEPT ![i] = r] /\ r.depth = imp[i].depth - 1
                   /\ r.pc = "leaving" => r.depth > 0
                   /\ r.pc \in {"leaving", "returning", "idle"}
                   /\ r.pc \in {"returning", "idle"} => r.depth = 0
                   /\ r.pc = "returning" => pin[i] # NoView
      <3> DEFINE q == IF imp[i].depth > 1 THEN Import("leaving", NoView, imp[i].depth - 1, 0)
                      ELSE IF pin[i] # NoView THEN Import("returning", NoView, 0, 0)
                      ELSE Idle
      <3>1. imp' = [imp EXCEPT ![i] = q]
        BY <1>8 DEF Leave
      <3>2. /\ q.depth = imp[i].depth - 1 /\ q.pc \in {"leaving", "returning", "idle"}
            /\ q.pc = "leaving" => q.depth > 0
            /\ q.pc \in {"returning", "idle"} => q.depth = 0
            /\ q.pc = "returning" => pin[i] # NoView
        BY <2>1 DEF Import, Idle
      <3>3. QED
        BY <3>1, <3>2
    <2>3. active' = active - 1 /\ UNCHANGED <<captures, pin, phase>>
      BY <1>8 DEF Leave
    <2>4. ActiveExact'
      BY <1>0, <2>1, <2>2, <2>3, OneLess
    <2>5. ReservedInv'
      BY <1>0, <2>2, <2>3 DEF ReservedInv
    <2>6. QED
      BY <2>1, <2>3, <2>4, <2>5 DEF DrainInv, DrainedWhenDown
  <1>9. ASSUME NEW i \in Importers, ReturnBase(i) PROVE DrainInv'
    <2>1. /\ imp[i].pc = "returning" /\ imp' = [imp EXCEPT ![i] = Idle]
          /\ pin' = [pin EXCEPT ![i] = NoView] /\ UNCHANGED <<active, captures, phase>>
      BY <1>9 DEF ReturnBase, DropLease
    <2>2. phase # "down"
      BY <1>0, <2>1 DEF DrainedWhenDown
    <2>3. \A j \in Importers : imp'[j].depth = imp[j].depth
      BY <1>0, <2>1 DEF Import, Idle, ReservedInv
    <2>4. ActiveExact'
      BY <1>0, <2>1, <2>3, SameReservations
    <2>5. \A j \in Importers : pin'[j] = IF j = i THEN NoView ELSE pin[j]
      BY <2>1 DEF LeaseInv, TypeOK, Owners
    <2>6. ReservedInv'
      BY <1>0, <2>1, <2>5 DEF ReservedInv, Import, Idle
    <2>7. QED
      BY <2>1, <2>2, <2>4, <2>6 DEF DrainInv, DrainedWhenDown
  <1>10. ASSUME NEW c \in Captures, NewCapture(c) \/ CloseCapture(c) PROVE DrainInv'
    <2>1. /\ UNCHANGED <<phase, pin, imp>> /\ phase # "down"
          /\ \/ c \notin captures /\ captures' = captures \cup {c} /\ active' = active + 1
             \/ c \in captures /\ captures' = captures \ {c} /\ active' = active - 1
      BY <1>0, <1>10 DEF NewCapture, CloseCapture, DrainedWhenDown
    <2>2. Reserved' = Reserved
      BY <2>1 DEF Reserved
    <2>3. IsFiniteSet(captures) /\ Cardinality(captures) \in Nat
      BY <1>0, FS_CardinalityType DEF ActiveExact
    <2>4. /\ IsFiniteSet(captures')
          /\ Cardinality(captures') - Cardinality(captures) = active' - active
      BY <1>0, <2>1, <2>3, ReservedFinite, FS_AddElement, FS_RemoveElement DEF ActiveExact
    <2>5. Cardinality(captures') \in Nat
      BY <2>4, FS_CardinalityType
    <2>6. ActiveExact'
      BY <1>0, <2>1, <2>2, <2>3, <2>4, <2>5, ReservedFinite DEF ActiveExact
    <2>7. QED
      BY <1>0, <2>1, <2>6 DEF DrainInv, ReservedInv, DrainedWhenDown
  <1>11. QED
    BY <1>1, <1>2, <1>3, <1>4, <1>5, <1>6, <1>7, <1>8, <1>9, <1>10 DEF Next

\* Close: when the store is down no lease, import or capture is left, because Close
\* waits for the pins and for Store.active, and those count every one of them.
THEOREM ClosesDrained == Spec => []DrainedWhenDown
  <1>1. Init => DrainInv
    <2> SUFFICES ASSUME Init PROVE DrainInv
      OBVIOUS
    <2>1. Idle.pc = "idle" /\ Idle.depth = 0
      BY DEF Idle, Import
    <2>2. Reserved = {}
      BY <2>1 DEF Init, Reserved
    <2>3. QED
      BY <2>1, <2>2, FS_EmptySet DEF Init, DrainInv, ActiveExact, ReservedInv, DrainedWhenDown
  <1>2. LeaseInv /\ DrainInv /\ [Next]_vars => DrainInv'
    BY DrainStep
  <1>3. DrainInv => DrainedWhenDown
    BY DEF DrainInv
  <1>4. QED
    BY <1>1, <1>2, <1>3, LeaseInvariant, PTL DEF Spec

-----------------------------------------------------------------------------
(* The size of a set of views.  SizeOf is a fold; what it adds up to is     *)
(* shown from a smallest set for which it does not.                         *)

\* Among finite sets there is a smallest one.
LEMMA SmallestSet ==
  ASSUME NEW V, IsFiniteSet(V), NEW Bad, Bad \subseteq SUBSET V, Bad # {}
  PROVE  \E B \in Bad : \A C \in SUBSET B : C # B => C \notin Bad
  <1>1. IsWellFoundedOn(StrictSubsetOrdering(V), SUBSET V)
    BY FS_StrictSubsetOrderingWellFounded, FS_FiniteSubsetsOfFinite
  <1>2. PICK B \in Bad : \A C \in Bad : ~(<<C, B>> \in StrictSubsetOrdering(V))
    BY <1>1, WFMin
  <1>3. ASSUME NEW C \in SUBSET B, C # B, C \in Bad PROVE FALSE
    <2>1. <<C, B>> \in (SUBSET V) \X (SUBSET V)
      BY <1>3
    <2>2. <<C, B>> \in StrictSubsetOrdering(V)
      BY <1>3, <2>1 DEF StrictSubsetOrdering
    <2>3. QED
      BY <1>2, <1>3, <2>2
  <1>4. QED
    BY <1>3

\* The fold's choice of the next view, and the function it builds.
NextOf(s) == CHOOSE x \in s : TRUE
IsSum(f, S) ==
    f = [s \in SUBSET S |-> IF s = {} THEN 0 ELSE Bytes[NextOf(s)] + f[s \ {NextOf(s)}]]

\* SizeOf is the fold of the library, unfolded.
LEMMA SizeIsSum ==
  ASSUME NEW S
  PROVE  SizeOf(S) = (CHOOSE f : IsSum(f, S))[S]
  BY DEF SizeOf, MapThenSumSet, MapThenFoldSet, IsSum, NextOf

\* What such a function says of each subset.
LEMMA SumAt ==
  ASSUME NEW f, NEW S, IsSum(f, S), NEW s \in SUBSET S
  PROVE  f[s] = IF s = {} THEN 0 ELSE Bytes[NextOf(s)] + f[s \ {NextOf(s)}]
  BY DEF IsSum

\* Two such functions agree where both are defined.
LEMMA SumUnique ==
  ASSUME NEW f, NEW g, NEW S, NEW T, IsFiniteSet(T), T \subseteq S, IsSum(f, S), IsSum(g, T)
  PROVE  \A s \in SUBSET T : f[s] = g[s]
  <1> DEFINE Bad == {s \in SUBSET T : f[s] # g[s]}
  <1> SUFFICES ASSUME Bad # {} PROVE FALSE
    OBVIOUS
  <1>1. PICK b \in Bad : \A c \in SUBSET b : c # b => c \notin Bad
    <2>1. Bad \subseteq SUBSET T
      OBVIOUS
    <2> HIDE DEF Bad
    <2>2. QED
      BY <2>1, SmallestSet
  <1> DEFINE c == b \ {NextOf(b)}
  <1>2. /\ f[b] = IF b = {} THEN 0 ELSE Bytes[NextOf(b)] + f[c]
        /\ g[b] = IF b = {} THEN 0 ELSE Bytes[NextOf(b)] + g[c]
    BY SumAt
  <1>3. b # {}
    BY <1>2
  <1>4. NextOf(b) \in b
    BY <1>3 DEF NextOf
  <1>5. c \in SUBSET T /\ c \notin Bad
    BY <1>1, <1>4
  <1>6. QED
    BY <1>2, <1>3, <1>5

\* There is one for every set of views.
LEMMA SumExists ==
  ASSUME NEW S \in SUBSET Views
  PROVE  IsSum(CHOOSE f : IsSum(f, S), S)
  <1> DEFINE Bad == {T \in SUBSET Views : ~\E f : IsSum(f, T)}
  <1> SUFFICES ASSUME Bad # {} PROVE FALSE
    OBVIOUS
  <1>0. IsFiniteSet(Views)
    BY ViewsAssumption
  <1>1. PICK B \in Bad : \A C \in SUBSET B : C # B => C \notin Bad
    BY <1>0, SmallestSet
  <1> DEFINE F == [s \in SUBSET B |-> IF s = {} THEN 0 ELSE Bytes[NextOf(s)] + SizeOf(s \ {NextOf(s)})]
  <1>2. \A C \in SUBSET B : C # B => IsSum(CHOOSE f : IsSum(f, C), C)
    BY <1>1
  <1>3. ASSUME NEW C \in SUBSET B, C # B PROVE F[C] = SizeOf(C)
    <2> DEFINE f == CHOOSE f : IsSum(f, C)
               D == C \ {NextOf(C)}
               g == CHOOSE g : IsSum(g, D)
    <2>1. IsSum(f, C)
      BY <1>2, <1>3
    <2>2. IsFiniteSet(D)
      BY <1>0, FS_Subset
    <2>3. D # B /\ D \in SUBSET B
      BY <1>3
    <2>4. IsSum(g, D)
      BY <1>2, <2>3
    <2>5. SizeOf(C) = f[C] /\ SizeOf(D) = g[D]
      BY SizeIsSum
    <2>6. F[C] = IF C = {} THEN 0 ELSE Bytes[NextOf(C)] + SizeOf(D)
      OBVIOUS
    <2> HIDE DEF f, g, F
    <2>7. f[C] = IF C = {} THEN 0 ELSE Bytes[NextOf(C)] + f[D]
      BY <2>1, SumAt
    <2>8. f[D] = g[D]
      BY <2>1, <2>2, <2>4, SumUnique
    <2>9. QED
      BY <2>5, <2>6, <2>7, <2>8
  <1>4. ASSUME NEW s \in SUBSET B, s # {}
        PROVE  F[s \ {NextOf(s)}] = SizeOf(s \ {NextOf(s)})
    <2>1. NextOf(s) \in s
      BY <1>4 DEF NextOf
    <2>2. s \ {NextOf(s)} \in SUBSET B /\ s \ {NextOf(s)} # B
      BY <2>1
    <2>3. QED
      BY <1>3, <2>2
  <1>5. F = [s \in SUBSET B |-> IF s = {} THEN 0 ELSE Bytes[NextOf(s)] + F[s \ {NextOf(s)}]]
    BY <1>4
  <1>6. IsSum(F, B)
    BY <1>5 DEF IsSum
  <1>7. QED
    BY <1>1, <1>6

\* The equation SizeOf was meant to satisfy.
LEMMA SizeUnfolds ==
  ASSUME NEW S \in SUBSET Views
  PROVE  SizeOf(S) = IF S = {} THEN 0 ELSE Bytes[NextOf(S)] + SizeOf(S \ {NextOf(S)})
  <1> DEFINE f == CHOOSE f : IsSum(f, S)
             D == S \ {NextOf(S)}
             g == CHOOSE g : IsSum(g, D)
  <1>1. IsSum(f, S) /\ IsSum(g, D)
    BY SumExists
  <1>2. SizeOf(S) = f[S] /\ SizeOf(D) = g[D]
    BY SizeIsSum
  <1>3. IsFiniteSet(D)
    BY ViewsAssumption, FS_Subset
  <1> HIDE DEF f, g
  <1>4. f[S] = IF S = {} THEN 0 ELSE Bytes[NextOf(S)] + f[D]
    BY <1>1, SumAt
  <1>5. f[D] = g[D]
    BY <1>1, <1>3, SumUnique
  <1>6. QED
    BY <1>2, <1>4, <1>5

\* It is a number of bytes.
LEMMA SizeNat ==
  ASSUME NEW S \in SUBSET Views
  PROVE  SizeOf(S) \in Nat
  <1> DEFINE Bad == {T \in SUBSET Views : SizeOf(T) \notin Nat}
  <1> SUFFICES ASSUME Bad # {} PROVE FALSE
    OBVIOUS
  <1>1. PICK B \in Bad : \A C \in SUBSET B : C # B => C \notin Bad
    BY ViewsAssumption, SmallestSet
  <1>2. SizeOf(B) = IF B = {} THEN 0 ELSE Bytes[NextOf(B)] + SizeOf(B \ {NextOf(B)})
    BY SizeUnfolds
  <1>3. B # {}
    BY <1>2
  <1>4. NextOf(B) \in B
    BY <1>3 DEF NextOf
  <1>5. SizeOf(B \ {NextOf(B)}) \in Nat
    BY <1>1, <1>4
  <1>6. Bytes[NextOf(B)] \in Nat
    BY <1>4, ViewsAssumption
  <1>7. QED
    BY <1>2, <1>3, <1>5, <1>6

\* The order in which the views are added up does not matter.
LEMMA SizeRemoves ==
  ASSUME NEW S \in SUBSET Views, NEW v \in S
  PROVE  SizeOf(S) = Bytes[v] + SizeOf(S \ {v})
  <1> DEFINE Bad == {T \in SUBSET Views : \E x \in T : SizeOf(T) # Bytes[x] + SizeOf(T \ {x})}
  <1> SUFFICES ASSUME Bad # {} PROVE FALSE
    OBVIOUS
  <1>1. PICK B \in Bad : \A C \in SUBSET B : C # B => C \notin Bad
    BY ViewsAssumption, SmallestSet
  <1>2. PICK x \in B : SizeOf(B) # Bytes[x] + SizeOf(B \ {x})
    BY <1>1
  <1> DEFINE y == NextOf(B)
  <1>3. y \in B
    BY <1>2 DEF NextOf
  <1>4. SizeOf(B) = Bytes[y] + SizeOf(B \ {y})
    BY <1>2, SizeUnfolds
  <1> HIDE DEF y
  <1>5. x # y
    BY <1>2, <1>4
  <1> DEFINE C == B \ {x}
             D == B \ {y}
             E == B \ {x, y}
  <1>6. /\ C \ {y} = E /\ D \ {x} = E /\ y \in C /\ x \in D
        /\ C \in SUBSET Views /\ D \in SUBSET Views /\ E \in SUBSET Views
        /\ C \in SUBSET B /\ D \in SUBSET B /\ C # B /\ D # B
    BY <1>2, <1>3, <1>5
  <1>7. C \notin Bad /\ D \notin Bad
    BY <1>1, <1>6
  <1>8. SizeOf(C) = Bytes[y] + SizeOf(E) /\ SizeOf(D) = Bytes[x] + SizeOf(E)
    BY <1>6, <1>7
  <1>9. SizeOf(E) \in Nat /\ Bytes[x] \in Nat /\ Bytes[y] \in Nat
    BY <1>3, <1>6, SizeNat, ViewsAssumption
  <1>10. QED
    BY <1>2, <1>4, <1>8, <1>9

\* Fewer views are not larger.
LEMMA SizeShrinks ==
  ASSUME NEW S \in SUBSET Views, NEW T \in SUBSET S
  PROVE  SizeOf(T) <= SizeOf(S)
  <1> DEFINE Bad == {B \in SUBSET Views : \E C \in SUBSET B : ~(SizeOf(C) <= SizeOf(B))}
  <1> SUFFICES ASSUME Bad # {} PROVE FALSE
    OBVIOUS
  <1>1. PICK B \in Bad : \A C \in SUBSET B : C # B => C \notin Bad
    <2>1. Bad \subseteq SUBSET Views
      OBVIOUS
    <2> HIDE DEF Bad
    <2>2. QED
      BY <2>1, ViewsAssumption, SmallestSet
  <1>2. PICK C \in SUBSET B : ~(SizeOf(C) <= SizeOf(B))
    BY <1>1
  <1>3. C # B
    BY <1>2, SizeNat
  <1>4. PICK x \in B : x \notin C
    BY <1>3
  <1>5. SizeOf(C) <= SizeOf(B \ {x})
    BY <1>1, <1>4
  <1>6. SizeOf(B) = Bytes[x] + SizeOf(B \ {x})
    BY <1>4, SizeRemoves
  <1>7. SizeOf(C) \in Nat /\ SizeOf(B \ {x}) \in Nat /\ Bytes[x] \in Nat
    BY <1>4, SizeNat, ViewsAssumption
  <1>8. QED
    BY <1>2, <1>5, <1>6, <1>7

-----------------------------------------------------------------------------
(* The retention budget.                                                    *)

\* Steps that publish nothing.
LEMMA FewerOnDisk ==
  ASSUME BudgetRespected, OnDisk' \subseteq OnDisk
  PROVE  BudgetRespected'
  <1>1. OnDisk \in SUBSET Views /\ IsFiniteSet(OnDisk)
    BY ViewsAssumption, FS_Subset DEF OnDisk
  <1>2. SizeOf(OnDisk') <= SizeOf(OnDisk) /\ SizeOf(OnDisk) \in Nat /\ SizeOf(OnDisk') \in Nat
    BY <1>1, SizeShrinks, SizeNat
  <1>3. IsFiniteSet(OnDisk') /\ Cardinality(OnDisk') <= Cardinality(OnDisk)
    BY <1>1, FS_Subset
  <1>4. Cardinality(OnDisk) \in Nat /\ Cardinality(OnDisk') \in Nat
    BY <1>1, <1>3, FS_CardinalityType
  <1>5. QED
    BY <1>2, <1>3, <1>4, PolicyAssumption DEF BudgetRespected

\* A publication finds room for its own view in what the plan leaves.
LEMMA PublishInBudget ==
  ASSUME LeaseInv, NEW i \in Importers, Publish(i) \/ PublishSyncFails(i)
  PROVE  BudgetRespected'
  <1> DEFINE v == imp[i].view
             gone == ImportPlan(v)
             rest == OnDisk \ gone
  <1>1. RoomNeeded(i) /\ disk' = [Emptied(gone) EXCEPT ![v] = "intact"]
    BY DEF Publish, PublishSyncFails
  <1>2. v \in Views /\ disk[v] = "absent"
    BY <1>1, RoomSafe DEF RoomNeeded
  <1>3. ~Over(rest, Bytes[v], 1)
    BY <1>1 DEF RoomNeeded, Admits, ImportPlan
  <1> HIDE DEF v, gone
  <1>4. OnDisk' = rest \cup {v} /\ v \notin rest /\ rest \in SUBSET Views
    BY <1>1, <1>2 DEF OnDisk, Emptied
  <1>5. IsFiniteSet(rest)
    BY <1>4, ViewsAssumption, FS_Subset
  <1>6. Cardinality(OnDisk') = Cardinality(rest) + 1 /\ Cardinality(rest) \in Nat
    BY <1>4, <1>5, FS_AddElement, FS_CardinalityType
  <1>7. SizeOf(OnDisk') = Bytes[v] + SizeOf(rest)
    <2>1. OnDisk' \in SUBSET Views /\ v \in OnDisk' /\ OnDisk' \ {v} = rest
      BY <1>2, <1>4
    <2>2. QED
      BY <2>1, SizeRemoves
  <1>8. SizeOf(rest) \in Nat /\ Bytes[v] \in Nat
    BY <1>2, <1>4, SizeNat, ViewsAssumption
  <1> HIDE DEF rest
  <1>9. QED
    BY <1>3, <1>6, <1>7, <1>8, PolicyAssumption DEF Over, BudgetRespected

\* Every other action leaves no more on disk than there was.
LEMMA BudgetStep == LeaseInv /\ BudgetRespected /\ [Next]_vars => BudgetRespected'
  <1> SUFFICES ASSUME LeaseInv, BudgetRespected, [Next]_vars PROVE BudgetRespected'
    OBVIOUS
  <1> USE DEF durable, memory, Keep
  <1>1. ASSUME NEW i \in Importers, Publish(i) \/ PublishSyncFails(i) PROVE BudgetRespected'
    BY <1>1, PublishInBudget
  <1>2. ASSUME NEW removed, NEW broken, NEW content, broken \subseteq OnDisk,
               Carried(removed, broken, content)
        PROVE  BudgetRespected'
    <2>1. OnDisk' \subseteq OnDisk
      BY <1>2 DEF Carried, Emptied, OnDisk
    <2>2. QED
      BY <2>1, FewerOnDisk
  <1>3. ASSUME NEW plan, plan \subseteq OnDisk, Collect(plan) \/ DieRemoving(plan)
        PROVE  BudgetRespected'
    <2>1. CASE Collect(plan)
      <3>1. PICK removed \in Prefixes(plan), content \in {"damaged", "gutted"},
                 broken \in {{}} \cup {{v} : v \in Broken(plan)} :
                    Carried(removed, broken, content)
        BY <2>1 DEF Collect
      <3>2. broken \subseteq OnDisk
        BY <1>3 DEF Broken
      <3>3. QED
        BY <1>2, <3>1, <3>2
    <2>2. CASE DieRemoving(plan)
      <3>1. PICK v \in plan, content \in {"damaged", "gutted"} :
                    Carried(RemovedBefore(plan, v), {v}, content)
        BY <2>2 DEF DieRemoving
      <3>2. {v} \subseteq OnDisk
        BY <1>3
      <3>3. QED
        BY <1>2, <3>1, <3>2
    <2>3. QED
      BY <1>3, <2>1, <2>2
  <1>4. \A b, n, x : CollectPlan(b, n, x) \subseteq OnDisk
    BY DEF CollectPlan, Evictable
  <1>5. CASE Prune \/ CrashInPrune
    BY <1>3, <1>4, <1>5 DEF Prune, CrashInPrune
  <1>6. ASSUME NEW i \in Importers, MakeRoomFails(i) \/ CrashInPublish(i) PROVE BudgetRespected'
    BY <1>3, <1>4, <1>6 DEF MakeRoomFails, CrashInPublish, ImportPlan
  <1>7. ASSUME NEW v \in Views, Remove(v) \/ CrashInRemove(v) PROVE BudgetRespected'
    <2>1. {v} \subseteq OnDisk
      BY <1>7 DEF Remove, CrashInRemove, Removable, OnDisk
    <2>2. QED
      BY <1>3, <1>7, <2>1 DEF Remove, CrashInRemove
  <1>8. CASE UNCHANGED disk
    BY <1>8, FewerOnDisk DEF OnDisk
  <1>9. CASE \/ Tick \/ Open \/ ConfigureRetention \/ Close \/ CloseSyncFails \/ Crash
             \/ UNCHANGED vars
             \/ (\E h \in Holders : Release(h) \/ \E v \in Views : Acquire(h, v))
             \/ (\E c \in Captures : NewCapture(c) \/ CloseCapture(c))
    BY <1>8, <1>9 DEF Tick, Open, ConfigureRetention, Close, CloseSyncFails, Crash, Release,
         Acquire, NewCapture, CloseCapture, vars
  <1>10. CASE \E i \in Importers :
                \/ StartIncremental(i) \/ Repack(i) \/ FinishStage(i) \/ AbortStage(i)
                \/ PublishExisting(i) \/ Leave(i) \/ ReturnBase(i)
                \/ \E v \in Views : Install(i, v) \/ \E base \in Views : BorrowBase(i, v, base)
    BY <1>8, <1>10 DEF StartIncremental, Repack, FinishStage, AbortStage, PublishExisting, Leave,
         ReturnBase, Install, BorrowBase
  <1>11. QED
    BY <1>1, <1>5, <1>6, <1>7, <1>9, <1>10 DEF Next

\* RetentionPolicy: whatever concurrent imports, failed publications, interrupted
\* collections and crashes do, the published views stay within MaxViews and MaxBytes.
THEOREM BudgetKept == Spec => []BudgetRespected
  <1>1. Init => BudgetRespected
    <2> SUFFICES ASSUME Init PROVE BudgetRespected
      OBVIOUS
    <2>1. OnDisk = {}
      BY DEF Init, OnDisk
    <2>2. SizeOf({}) = 0 /\ Cardinality({}) = 0
      BY SizeUnfolds, FS_EmptySet
    <2>3. QED
      BY <2>1, <2>2, PolicyAssumption DEF BudgetRespected
  <1>2. LeaseInv /\ BudgetRespected /\ [Next]_vars => BudgetRespected'
    BY BudgetStep
  <1>3. QED
    BY <1>1, <1>2, LeaseInvariant, PTL DEF Spec

-----------------------------------------------------------------------------
(* The promise: the store implements ViewStore, as long as no removal stops *)
(* half way in a running process.                                           *)

\* The views the store offers in the abstraction.
IntactViews == {v \in Views : disk[v] = "intact"}

\* What the mapping needs of a state: leases are on cached, complete views.
MapInv == LeaseInv /\ EntriesIntact

LEMMA LeasedOffered ==
  ASSUME MapInv
  PROVE  Promise!InUse \subseteq IntactViews
  BY NoViewNotView DEF MapInv, LeaseInv, PinsCached, EntriesIntact, Promise!InUse, IntactViews

\* No step takes a view away from under a lease.
LEMMA LeasedStaysOffered ==
  ASSUME MapInv, [Next]_vars
  PROVE  Promise!InUse \subseteq IntactViews'
  <1>1. \A v \in Views : (\E o \in Owners : pin[o] = v) => disk'[v] = disk[v]
    BY PinnedStep DEF MapInv
  <1>2. QED
    BY <1>1, LeasedOffered DEF Promise!InUse, IntactViews

\* A step that leaves every lease alone restocks the store or changes nothing.
LEMMA KeepingLeases ==
  ASSUME MapInv, [Next]_vars, UNCHANGED pin
  PROVE  Promise!Restock
  <1>1. IntactViews' \in SUBSET Views
    BY DEF IntactViews
  <1>2. QED
    BY <1>1, LeasedStaysOffered DEF Promise!Restock, IntactViews

\* A death ends every lease at once.
LEMMA EndingLeases ==
  ASSUME MapInv, [Next]_vars, pin' = [o \in Owners |-> NoView]
  PROVE  Promise!Restart
  <1>1. IntactViews' \in SUBSET Views
    BY DEF IntactViews
  <1>2. QED
    BY <1>1, LeasedStaysOffered DEF Promise!Restart, IntactViews

LEMMA TakingLease ==
  ASSUME MapInv, NEW o \in Owners, NEW v \in Views, TakeLease(o, v), UNCHANGED disk
  PROVE  Promise!Lease(o, v)
  <1>1. v \in IntactViews
    BY DEF TakeLease, MapInv, EntriesIntact, IntactViews
  <1>2. QED
    BY <1>1 DEF TakeLease, Promise!Lease, IntactViews

LEMMA DroppingLease ==
  ASSUME NEW o \in Owners, DropLease(o), UNCHANGED disk
  PROVE  Promise!Return(o)
  BY DEF DropLease, Promise!Return

\* Every step of the store is a step of the abstract store or none.
LEMMA StepMaps == MapInv /\ [Next]_vars => [Promise!Next]_(Promise!vars)
  <1> SUFFICES ASSUME MapInv, [Next]_vars
               PROVE  Promise!Next \/ UNCHANGED Promise!vars
    OBVIOUS
  <1> USE DEF durable, memory, clients, Keep
  <1>1. CASE UNCHANGED pin
    BY <1>1, KeepingLeases DEF Promise!Next
  <1>2. ASSUME NEW h \in Holders, NEW v \in Views, Acquire(h, v)
        PROVE  Promise!Next
    BY <1>2, TakingLease DEF Acquire, Owners, Promise!Next
  <1>3. ASSUME NEW h \in Holders, Release(h)
        PROVE  Promise!Next
    BY <1>3, DroppingLease DEF Release, Owners, Promise!Next
  <1>4. ASSUME NEW i \in Importers, NEW v \in Views, NEW base \in Views, BorrowBase(i, v, base)
        PROVE  Promise!Next
    BY <1>4, TakingLease DEF BorrowBase, Owners, Promise!Next
  <1>5. ASSUME NEW i \in Importers, ReturnBase(i)
        PROVE  Promise!Next
    BY <1>5, DroppingLease DEF ReturnBase, Owners, Promise!Next
  <1>6. CASE \/ Crash \/ CrashInPrune
             \/ \E i \in Importers : CrashInPublish(i)
             \/ \E v \in Views : CrashInRemove(v)
    <2>1. pin' = [o \in Owners |-> NoView]
      BY <1>6 DEF Crash, CrashInPrune, CrashInPublish, CrashInRemove, DieRemoving, Vanish
    <2>2. QED
      BY <2>1, EndingLeases DEF Promise!Next
  <1>7. CASE \/ Tick \/ Open \/ ConfigureRetention \/ Close \/ CloseSyncFails \/ Prune
             \/ \E c \in Captures : NewCapture(c) \/ CloseCapture(c)
             \/ \E v \in Views : Remove(v)
             \/ UNCHANGED vars
    <2>1. UNCHANGED pin
      BY <1>7 DEF Tick, Open, ConfigureRetention, Close, CloseSyncFails, Prune, NewCapture,
                  CloseCapture, Remove, vars
    <2>2. QED
      BY <2>1, <1>1
  <1>8. CASE \E i \in Importers :
               \/ StartIncremental(i) \/ Repack(i) \/ FinishStage(i) \/ AbortStage(i)
               \/ PublishExisting(i) \/ Publish(i) \/ PublishSyncFails(i)
               \/ MakeRoomFails(i) \/ Leave(i) \/ \E v \in Views : Install(i, v)
    <2>1. UNCHANGED pin
      BY <1>8 DEF StartIncremental, Repack, FinishStage, AbortStage, PublishExisting, Publish,
                  PublishSyncFails, MakeRoomFails, Leave, Install
    <2>2. QED
      BY <2>1, <1>1
  <1>9. QED
    BY <1>2, <1>3, <1>4, <1>5, <1>6, <1>7, <1>8 DEF Next

\* The store keeps its promise to readers: with leases mapped to pins and the
\* offered views to the complete trees on disk, Acquire and Release are the
\* abstract Lease and Return, a crash is a Restart, and publication, collection
\* and removal only ever restock what nobody uses.
THEOREM StoreImplementsPromise ==
  ASSUME "remove" \notin Faults
  PROVE  Spec => ImplementsViewStore
  <1>1. Init => EntriesIntact
    BY DEF Init, EntriesIntact
  <1>2. LeaseInv /\ EntriesIntact /\ [Next]_vars => EntriesIntact'
    BY IntactStep
  <1>3. Init => Promise!Init
    BY DEF Init, Promise!Init
  <1>4. LeaseInv /\ EntriesIntact /\ [Next]_vars => [Promise!Next]_(Promise!vars)
    BY StepMaps DEF MapInv
  <1>5. QED
    BY <1>1, <1>2, <1>3, <1>4, LeaseInvariant, PTL DEF Spec, ImplementsViewStore, Promise!Spec

=============================================================================
