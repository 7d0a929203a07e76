--------------------------- MODULE SnapshotStore ---------------------------
(***************************************************************************)
(* The store of immutable repository snapshots (internal/snapshotstore)    *)
(* that an Edge node reads from and that the primary exports from.  One     *)
(* process owns it at a time.  Readers and imports pin views with leases;   *)
(* imports build a view in private staging and publish it with a rename;    *)
(* retention collects idle views; the process may crash between any two     *)
(* steps and inside a removal.                                              *)
(*                                                                          *)
(* Every action that takes Store.mu is one critical section of the code.    *)
(* An operation that the code refuses leaves the state alone, so refusals   *)
(* appear only where the caller's control state moves on.                   *)
(***************************************************************************)
EXTENDS Integers, FiniteSets, FiniteSetsExt

CONSTANTS
    Views,       \* snapshot keys, ordered as the hex keys are
    Holders,     \* goroutines that hold at most one read or export lease
    Importers,   \* goroutines that run Install or InstallIncremental
    Captures,    \* primary-side captures that reserve the store
    Bytes,       \* logical size of a view's tree
    MaxBytes,    \* RetentionPolicy.MaxBytes
    MaxViews,    \* RetentionPolicy.MaxViews
    MinAge,      \* RetentionPolicy.MinAge
    MaxAge,      \* RetentionPolicy.MaxAge
    MaxTime,     \* bound on the clock
    Faults       \* which file-system calls may fail in a running process

ASSUME ViewsAssumption ==
    /\ Views \subseteq Nat
    /\ IsFiniteSet(Views)
    /\ Bytes \in [Views -> Nat]

ASSUME OwnersAssumption ==
    /\ IsFiniteSet(Holders)
    /\ IsFiniteSet(Importers)
    /\ Holders \cap Importers = {}

\* RetentionPolicy.Validate, with the clock's bound.
ASSUME PolicyAssumption ==
    /\ MaxBytes \in Nat \ {0}
    /\ MaxViews \in Nat \ {0}
    /\ MinAge \in Nat \ {0}
    /\ MaxAge \in Nat
    /\ MaxAge > MinAge
    /\ MaxTime \in Nat

ASSUME FaultsAssumption ==
    Faults \subseteq {"remove", "publish_sync", "close_sync"}

VARIABLES
    disk,        \* what published/<key> holds
    mtime,       \* modification time of published/<key>
    saved,       \* the clean-close checkpoint in staging, all 0 when there is none
    phase,       \* whether a process owns the store
    entries,     \* keys of Store.entries
    refs,        \* entry.refs
    active,      \* Store.active
    lastUse,     \* Store.lastUse, 0 for a missing key
    restoredUse, \* Store.restoredUse, 0 for a missing key
    openedAt,    \* Store.openedAt
    pin,         \* the view each holder or import has a Lease on
    imp,         \* where each import stands
    captures,    \* the open captures
    now,         \* the clock
    used         \* history: when each stored view was last in use

durable == <<disk, mtime, saved>>
memory  == <<entries, refs, active, lastUse, restoredUse, openedAt>>
clients == <<pin, imp, captures>>
vars == <<durable, phase, memory, clients, now, used>>

Owners == Holders \cup Importers
NoView == -1

\* A removal that stops half way leaves a tree whose objects are incomplete
\* ("damaged") or whose top-level entries are missing ("gutted").
Content == {"absent", "intact", "damaged", "gutted"}

NoTimes == [v \in Views |-> 0]

\* An import: its step, its target, its reservations of the store, and the
\* age of its finished stage.
Import(pc, v, depth, stagedAt) ==
    [pc |-> pc, view |-> v, depth |-> depth, stagedAt |-> stagedAt]
Idle == Import("idle", NoView, 0, 0)
ImportState ==
    [pc : {"idle", "borrowed", "staging", "staged", "leaving", "returning"},
     view : Views \cup {NoView}, depth : 0 .. 2, stagedAt : Nat]

TypeOK ==
    /\ disk \in [Views -> Content]
    /\ mtime \in [Views -> Nat]
    /\ saved \in [Views -> Nat]
    /\ phase \in {"down", "opening", "open"}
    /\ entries \subseteq Views
    /\ refs \in [Views -> Nat]
    /\ active \in Int
    /\ lastUse \in [Views -> Nat]
    /\ restoredUse \in [Views -> Nat]
    /\ openedAt \in Nat
    /\ pin \in [Owners -> Views \cup {NoView}]
    /\ imp \in [Importers -> ImportState]
    /\ captures \subseteq Captures
    /\ now \in Nat \ {0}
    /\ used \in [Views -> Nat]

Init ==
    /\ disk = [v \in Views |-> "absent"]
    /\ mtime = NoTimes
    /\ saved = NoTimes
    /\ phase = "down"
    /\ entries = {}
    /\ refs = [v \in Views |-> 0]
    /\ active = 0
    /\ lastUse = NoTimes
    /\ restoredUse = NoTimes
    /\ openedAt = 0
    /\ pin = [o \in Owners |-> NoView]
    /\ imp = [i \in Importers |-> Idle]
    /\ captures = {}
    /\ now = 1
    /\ used = NoTimes

-----------------------------------------------------------------------------
(* Retention: what a collection may remove, and what it does remove.        *)

OnDisk == {v \in Views : disk[v] # "absent"}

\* inventoryLocked fails as a whole when one directory misses its entries.
InventoryReadable == \A v \in Views : disk[v] # "gutted"

Latest(s, t) == IF s >= t THEN s ELSE t

\* retentionUsedAt: an unknown history counts as used when the store opened.
RetentionUsedAt(v) ==
    Latest(Latest(mtime[v], IF restoredUse[v] = 0 THEN openedAt ELSE restoredUse[v]),
           lastUse[v])

Pinned(v) == v \in entries /\ refs[v] > 0
Age(v) == now - RetentionUsedAt(v)

\* Mutant: a collection that does not look at the pins.
EvictableIgnoringPins == {v \in OnDisk : Age(v) >= MinAge}

Evictable == {v \in OnDisk : ~Pinned(v) /\ Age(v) >= MinAge}

\* The order inventoryLocked sorts in: least recently used first, then by key.
Older(v, w) ==
    \/ RetentionUsedAt(v) < RetentionUsedAt(w)
    \/ RetentionUsedAt(v) = RetentionUsedAt(w) /\ v < w

SizeOf(S) == MapThenSumSet(LAMBDA v : Bytes[v], S)

\* Mutant: the incoming view is not counted against MaxBytes.
OverNow(S, incomingBytes, incomingViews) ==
    \/ SizeOf(S) > MaxBytes
    \/ Cardinality(S) > MaxViews - incomingViews

Over(S, incomingBytes, incomingViews) ==
    \/ SizeOf(S) > MaxBytes - incomingBytes
    \/ Cardinality(S) > MaxViews - incomingViews

(***************************************************************************)
(* The loop of collectLocked walks the views oldest first and removes an    *)
(* evictable one while the store is over budget, or when it has expired.    *)
(* Both conditions only turn off along the walk, so the removed views are   *)
(* the evictable ones before the first that is kept: a view goes exactly    *)
(* when the store is still over with every older evictable view gone.       *)
(***************************************************************************)
CollectPlan(incomingBytes, incomingViews, expire) ==
    {v \in Evictable :
        \/ Over({w \in OnDisk : ~(w \in Evictable /\ Older(w, v))},
                incomingBytes, incomingViews)
        \/ expire /\ Age(v) >= MaxAge}

\* The whole collection is planned first; ErrBudget removes nothing.
Admits(incomingBytes, incomingViews, expire) ==
    /\ InventoryReadable
    /\ incomingBytes <= MaxBytes
    /\ incomingViews <= MaxViews
    /\ ~Over(OnDisk \ CollectPlan(incomingBytes, incomingViews, expire),
             incomingBytes, incomingViews)

\* Cancellation or an error stops the removals after the oldest few.
RemovedBefore(plan, v) == {w \in plan : Older(w, v)}
Prefixes(plan) == {plan} \cup {RemovedBefore(plan, v) : v \in plan}

Without(f, S) == [v \in Views |-> IF v \in S THEN 0 ELSE f[v]]
Emptied(S) == [v \in Views |-> IF v \in S THEN "absent" ELSE disk[v]]

-----------------------------------------------------------------------------
(* The process that owns the store.                                         *)

Tick ==
    /\ now < MaxTime
    /\ now' = now + 1
    /\ UNCHANGED <<durable, phase, memory, clients, used>>

\* Mutant: the checkpoint survives the open that uses it.
OpenKeepingCheckpoint ==
    /\ phase = "down"
    /\ phase' = "opening"
    /\ openedAt' = now
    /\ restoredUse' = saved
    /\ UNCHANGED <<durable, entries, refs, active, lastUse, clients, now, used>>

\* Open takes the owner lock, consumes the checkpoint and empties staging.
Open ==
    /\ phase = "down"
    /\ phase' = "opening"
    /\ openedAt' = now
    /\ restoredUse' = saved
    /\ saved' = NoTimes
    /\ UNCHANGED <<disk, mtime, entries, refs, active, lastUse, clients, now, used>>

\* Both owners of a store configure retention before they admit any work.
ConfigureRetention ==
    /\ phase = "opening"
    /\ InventoryReadable
    /\ phase' = "open"
    /\ UNCHANGED <<durable, memory, clients, now, used>>

Forget ==
    /\ entries' = {}
    /\ refs' = [v \in Views |-> 0]
    /\ active' = 0
    /\ lastUse' = NoTimes
    /\ restoredUse' = NoTimes
    /\ openedAt' = 0

\* saveRetentionAge records the age of every directory under published.
RetentionClose == [v \in Views |-> IF v \in OnDisk THEN RetentionUsedAt(v) ELSE 0]

\* Mutant: Close waits for leases only.
DrainedOfLeases == \A v \in entries : refs[v] = 0

Drained ==
    /\ \A v \in entries : refs[v] = 0
    /\ active = 0

\* Close, also when the owner gives up on ConfigureRetention or on headroom.
Close ==
    /\ phase \in {"opening", "open"}
    /\ Drained
    /\ saved' = RetentionClose
    /\ phase' = "down"
    /\ Forget
    /\ UNCHANGED <<disk, mtime, clients, now, used>>

\* The checkpoint is renamed into place but the directory sync fails: Close
\* returns the error and the store stays open.
CloseSyncFails ==
    /\ "close_sync" \in Faults
    /\ phase \in {"opening", "open"}
    /\ Drained
    /\ saved' = RetentionClose
    /\ UNCHANGED <<disk, mtime, phase, memory, clients, now, used>>

\* The process dies: memory, leases, imports and captures go with it.  A view
\* that was pinned had been in use until this moment.
Vanish(removed) ==
    /\ phase' = "down"
    /\ Forget
    /\ pin' = [o \in Owners |-> NoView]
    /\ imp' = [i \in Importers |-> Idle]
    /\ captures' = {}
    /\ used' = [v \in Views |-> IF \E o \in Owners : pin[o] = v THEN now
                                ELSE Without(used, removed)[v]]

Crash ==
    /\ phase # "down"
    /\ Vanish({})
    /\ UNCHANGED <<durable, now>>

-----------------------------------------------------------------------------
(* Leases.                                                                  *)

Use(v) ==
    /\ lastUse' = [lastUse EXCEPT ![v] = now]
    /\ used' = [used EXCEPT ![v] = now]

\* Mutant: Acquire trusts whatever directory it finds.
TakeUnverifiedLease(o, v) ==
    /\ phase = "open"
    /\ pin[o] = NoView
    /\ v \in entries \/ disk[v] # "absent"
    /\ entries' = entries \cup {v}
    /\ refs' = [refs EXCEPT ![v] = @ + 1]
    /\ pin' = [pin EXCEPT ![o] = v]
    /\ Use(v)

\* Mutant: every Acquire records an entry of its own.
TakeLeaseOfNewEntry(o, v) ==
    /\ phase = "open"
    /\ pin[o] = NoView
    /\ v \in entries \/ disk[v] = "intact"
    /\ entries' = entries \cup {v}
    /\ refs' = [refs EXCEPT ![v] = 1]
    /\ pin' = [pin EXCEPT ![o] = v]
    /\ Use(v)

\* Acquire by owner o: a cached entry is trusted, any other is verified on disk.
TakeLease(o, v) ==
    /\ phase = "open"
    /\ pin[o] = NoView
    /\ v \in entries \/ disk[v] = "intact"
    /\ entries' = entries \cup {v}
    /\ refs' = [refs EXCEPT ![v] = @ + 1]
    /\ pin' = [pin EXCEPT ![o] = v]
    /\ Use(v)

\* Lease.Release by owner o.
DropLease(o) ==
    /\ pin[o] # NoView
    /\ refs' = [refs EXCEPT ![pin[o]] = @ - 1]
    /\ pin' = [pin EXCEPT ![o] = NoView]
    /\ Use(pin[o])
    /\ UNCHANGED entries

Acquire(h, v) ==
    /\ TakeLease(h, v)
    /\ UNCHANGED <<durable, phase, active, restoredUse, openedAt, imp, captures, now>>

Release(h) ==
    /\ DropLease(h)
    /\ UNCHANGED <<durable, phase, active, restoredUse, openedAt, imp, captures, now>>

-----------------------------------------------------------------------------
(* Imports and captures.                                                    *)

Keep == <<durable, phase, restoredUse, openedAt, captures, now>>

\* Acquire answers ErrMissing.  Every caller imports a view only after that
\* (Mirror.runSync, PrimaryReadAuthority.prepareObservedSnapshot).
Missing(v) == v \notin entries /\ disk[v] \in {"absent", "gutted"}

\* InstallIncremental first pins its base, whichever compatible view that is.
BorrowBase(i, v, base) ==
    /\ imp[i].pc = "idle"
    /\ base # v
    /\ Missing(v)
    /\ TakeLease(i, base)
    /\ imp' = [imp EXCEPT ![i] = Import("borrowed", v, 0, 0)]
    /\ UNCHANGED <<Keep, active>>

\* ... and then, in a second critical section, reserves the store.
StartIncremental(i) ==
    /\ phase = "open"
    /\ imp[i].pc = "borrowed"
    /\ active' = active + 1
    /\ imp' = [imp EXCEPT ![i] = Import("staging", imp[i].view, 1, 0)]
    /\ UNCHANGED <<Keep, entries, refs, lastUse, pin, used>>

Install(i, v) ==
    /\ phase = "open"
    /\ imp[i].pc = "idle"
    /\ Missing(v)
    /\ active' = active + 1
    /\ imp' = [imp EXCEPT ![i] = Import("staging", v, 1, 0)]
    /\ UNCHANGED <<Keep, entries, refs, lastUse, pin, used>>

\* The base holds objects the target no longer reaches: InstallIncremental
\* repacks through a nested Install, which reserves the store again.
Repack(i) ==
    /\ imp[i].pc = "staging"
    /\ imp[i].depth = 1
    /\ pin[i] # NoView
    /\ active' = active + 1
    /\ imp' = [imp EXCEPT ![i] = Import("staging", imp[i].view, 2, 0)]
    /\ UNCHANGED <<Keep, entries, refs, lastUse, pin, used>>

\* The stage is complete, verified and synced; its directory is as old as this.
FinishStage(i) ==
    /\ imp[i].pc = "staging"
    /\ imp' = [imp EXCEPT ![i] = Import("staged", imp[i].view, imp[i].depth, now)]
    /\ UNCHANGED <<Keep, memory, pin, used>>

Leaving(i) == imp' = [imp EXCEPT ![i] = Import("leaving", NoView, imp[i].depth, 0)]

\* A failed transfer or verification, cancellation, missing headroom, a view
\* that exists but does not verify, or a publication retention refuses.
AbortStage(i) ==
    /\ imp[i].pc \in {"staging", "staged"}
    /\ Leaving(i)
    /\ UNCHANGED <<Keep, memory, pin, used>>

\* publishStage finds an intact view under its key and returns success.
PublishExisting(i) ==
    /\ phase = "open"
    /\ imp[i].pc = "staged"
    /\ disk[imp[i].view] = "intact"
    /\ Leaving(i)
    /\ UNCHANGED <<Keep, memory, pin, used>>

\* What an import may still collect before it publishes under view v.
ImportPlan(v) == CollectPlan(Bytes[v], 1, FALSE)

\* No view under the key, and the policy admits the new one.
RoomNeeded(i) ==
    /\ phase = "open"
    /\ imp[i].pc = "staged"
    /\ disk[imp[i].view] = "absent"
    /\ Admits(Bytes[imp[i].view], 1, FALSE)

\* publishStage makes room, renames the stage and records a fresh entry.
Publish(i) ==
    LET v == imp[i].view
        gone == ImportPlan(v)
    IN  /\ RoomNeeded(i)
        /\ disk' = [Emptied(gone) EXCEPT ![v] = "intact"]
        /\ mtime' = [Without(mtime, gone) EXCEPT ![v] = imp[i].stagedAt]
        /\ entries' = (entries \ gone) \cup {v}
        /\ refs' = [refs EXCEPT ![v] = 0]
        /\ lastUse' = [Without(lastUse, gone) EXCEPT ![v] = now]
        /\ used' = [Without(used, gone) EXCEPT ![v] = now]
        /\ Leaving(i)
        /\ UNCHANGED <<saved, phase, active, restoredUse, openedAt, pin, captures, now>>

\* The rename happened but syncing its directory failed: the view is on disk,
\* the import reports an error and no entry is recorded.
PublishSyncFails(i) ==
    LET v == imp[i].view
        gone == ImportPlan(v)
    IN  /\ "publish_sync" \in Faults
        /\ RoomNeeded(i)
        /\ disk' = [Emptied(gone) EXCEPT ![v] = "intact"]
        /\ mtime' = [Without(mtime, gone) EXCEPT ![v] = imp[i].stagedAt]
        /\ entries' = entries \ gone
        /\ lastUse' = Without(lastUse, gone)
        /\ used' = Without(used, gone)
        /\ Leaving(i)
        /\ UNCHANGED <<saved, phase, refs, active, restoredUse, openedAt, pin, captures, now>>

\* The deferred release of one reservation.
Leave(i) ==
    /\ imp[i].pc = "leaving"
    /\ active' = active - 1
    /\ imp' = [imp EXCEPT ![i] =
                 IF imp[i].depth > 1 THEN Import("leaving", NoView, imp[i].depth - 1, 0)
                 ELSE IF pin[i] # NoView THEN Import("returning", NoView, 0, 0)
                 ELSE Idle]
    /\ UNCHANGED <<Keep, entries, refs, lastUse, pin, used>>

\* The deferred release of the base.
ReturnBase(i) ==
    /\ imp[i].pc = "returning"
    /\ DropLease(i)
    /\ imp' = [imp EXCEPT ![i] = Idle]
    /\ UNCHANGED <<Keep, active>>

NewCapture(c) ==
    /\ phase = "open"
    /\ c \notin captures
    /\ active' = active + 1
    /\ captures' = captures \cup {c}
    /\ UNCHANGED <<durable, phase, entries, refs, lastUse, restoredUse, openedAt, pin, imp, now, used>>

CloseCapture(c) ==
    /\ c \in captures
    /\ active' = active - 1
    /\ captures' = captures \ {c}
    /\ UNCHANGED <<durable, phase, entries, refs, lastUse, restoredUse, openedAt, pin, imp, now, used>>

-----------------------------------------------------------------------------
(* Collection.  A plan is carried out oldest first, for a prune or for the  *)
(* room a publication needs.                                                *)

Carried(removed, broken, content) ==
    /\ disk' = [v \in Views |-> IF v \in broken THEN content ELSE Emptied(removed)[v]]
    /\ mtime' = Without(mtime, removed)

\* RemoveAll of a view stops half way with an error, in a running process.
Broken(plan) == IF "remove" \in Faults THEN plan ELSE {}

\* collectLocked, to the end or until cancellation or an error stops it.  A view
\* whose removal failed keeps its entry.
Collect(plan) ==
    \E removed \in Prefixes(plan), content \in {"damaged", "gutted"},
       broken \in {{}} \cup {{v} : v \in Broken(plan)} :
        /\ \A v \in broken : removed = RemovedBefore(plan, v)
        /\ Carried(removed, broken, content)
        /\ entries' = entries \ removed
        /\ lastUse' = Without(lastUse, removed)
        /\ used' = Without(used, removed)

Prune ==
    /\ phase = "open"
    /\ Admits(0, 0, TRUE)
    /\ Collect(CollectPlan(0, 0, TRUE))
    /\ UNCHANGED <<saved, phase, refs, active, restoredUse, openedAt, clients, now>>

\* The collection that should make room for a publication ends in an error.
MakeRoomFails(i) ==
    /\ RoomNeeded(i)
    /\ Collect(ImportPlan(imp[i].view))
    /\ Leaving(i)
    /\ UNCHANGED <<saved, phase, refs, active, restoredUse, openedAt, pin, captures, now>>

\* Mutant: Remove looks for imports and captures only.
RemovableUnderLease(v) ==
    /\ phase = "open"
    /\ active = 0
    /\ disk[v] # "absent"

Removable(v) ==
    /\ phase = "open"
    /\ ~Pinned(v)
    /\ active = 0
    /\ disk[v] # "absent"

\* Remove, the operator's eviction of one view.
Remove(v) ==
    /\ Removable(v)
    /\ Collect({v})
    /\ UNCHANGED <<saved, phase, refs, active, restoredUse, openedAt, clients, now>>

\* The process dies inside a removal.
DieRemoving(plan) ==
    \E v \in plan, content \in {"damaged", "gutted"} :
        /\ Carried(RemovedBefore(plan, v), {v}, content)
        /\ Vanish(RemovedBefore(plan, v))
        /\ UNCHANGED <<saved, now>>

CrashInPrune == phase = "open" /\ Admits(0, 0, TRUE) /\ DieRemoving(CollectPlan(0, 0, TRUE))
CrashInPublish(i) == RoomNeeded(i) /\ DieRemoving(ImportPlan(imp[i].view))
CrashInRemove(v) == Removable(v) /\ DieRemoving({v})

-----------------------------------------------------------------------------

Next ==
    \/ Tick \/ Open \/ ConfigureRetention \/ Close \/ CloseSyncFails \/ Crash
    \/ Prune \/ CrashInPrune
    \/ \E h \in Holders : Release(h) \/ \E v \in Views : Acquire(h, v)
    \/ \E i \in Importers :
          \/ StartIncremental(i) \/ Repack(i) \/ FinishStage(i) \/ AbortStage(i)
          \/ PublishExisting(i) \/ Publish(i) \/ PublishSyncFails(i)
          \/ MakeRoomFails(i) \/ CrashInPublish(i) \/ Leave(i) \/ ReturnBase(i)
          \/ \E v \in Views : Install(i, v) \/ \E base \in Views : BorrowBase(i, v, base)
    \/ \E c \in Captures : NewCapture(c) \/ CloseCapture(c)
    \/ \E v \in Views : Remove(v) \/ CrashInRemove(v)

Spec == Init /\ [][Next]_vars

-----------------------------------------------------------------------------
(* Properties.                                                              *)

\* The pin counts that Close, Remove and collectLocked consult are exactly the
\* leases handed out, however holders, imports, collections and crashes interleave.
RefsMatchLeases ==
    \A v \in Views : refs[v] = Cardinality({o \in Owners : pin[o] = v})

\* Lease: a pinned view is a complete published view.
LeasedViewIntact ==
    \A o \in Owners : pin[o] # NoView => disk[pin[o]] = "intact"

\* No step of any actor changes or removes a view while a lease pins it.
PinnedViewUntouched ==
    [][\A v \in Views : (\E o \in Owners : pin[o] = v) => disk'[v] = disk[v]]_vars

\* RetentionPolicy: a view used within MinAge is protected, by whichever process
\* it was used and whether or not that process closed the store.
RecentUseProtected ==
    phase = "open" => \A v \in Evictable : now - used[v] >= MinAge

\* RetentionPolicy: concurrent imports, failed publications and crashes never
\* leave more published than the policy allows.
BudgetRespected ==
    /\ Cardinality(OnDisk) <= MaxViews
    /\ SizeOf(OnDisk) <= MaxBytes

\* Close: no lease, import or capture outlives the process that owns the store.
DrainedWhenDown ==
    phase = "down" =>
        /\ \A o \in Owners : pin[o] = NoView
        /\ \A i \in Importers : imp[i].pc = "idle"
        /\ captures = {}

-----------------------------------------------------------------------------
(* The promise this store keeps to its readers, in the vocabulary of        *)
(* ViewStore: a view is offered when its tree on disk is complete.          *)

Promise == INSTANCE ViewStore WITH
    avail <- {v \in Views : disk[v] = "intact"},
    held <- pin

\* As long as no removal fails half way in a running process, leases, imports,
\* collections, restarts and crashes are steps of the abstract store.
ImplementsViewStore == Promise!Spec

=============================================================================
