----------------------------- MODULE EdgeMirror -----------------------------
(***************************************************************************)
(* The Edge's mirror (internal/edge): readers ask for an exact view with    *)
(* EnsureSnapshot; a missing view is fetched once, however many ask for it, *)
(* one transfer at a time per repository store and a bounded number per     *)
(* node; the mirror can be closed under all of them.  The snapshot store it *)
(* fills is the abstract one of ViewStore, which SnapshotStore implements.  *)
(***************************************************************************)
EXTENDS Integers, FiniteSets

CONSTANTS
    Views,        \* snapshot keys
    Stores,       \* repository identities
    StoreOf,      \* the repository a snapshot belongs to
    Callers,      \* goroutines that call EnsureSnapshot
    Jobs,         \* syncJob objects, numbered
    Queues,       \* storeQueue objects, numbered
    MaxPending,   \* MirrorConfig.MaxPending
    Concurrency,  \* MirrorConfig.Concurrency
    NoView        \* no view

NoJob == 0
NoQueue == 0

ASSUME ObjectsAssumption ==
    /\ Jobs \subseteq Nat \ {NoJob}
    /\ Queues \subseteq Nat \ {NoQueue}
    /\ IsFiniteSet(Jobs) /\ IsFiniteSet(Queues)
    /\ Callers \cap Jobs = {}
    /\ NoView \notin Views
    /\ StoreOf \in [Views -> Stores]

ASSUME LimitsAssumption ==
    /\ MaxPending \in Nat \ {0}
    /\ Concurrency \in Nat \ {0}

VARIABLES
    avail,        \* the complete views in the cache
    held,         \* the view each caller, or each job as its base, has a lease on
    phase,        \* "open", "closing" once closed is set and ctx cancelled, "closed"
    jobs,         \* Mirror.jobs
    stores,       \* Mirror.stores
    users,        \* storeQueue.users
    job,          \* each syncJob: where its goroutine stands, its target, its result
    caller,       \* where each caller stands, what it asked for, the job it waits on
    lost          \* history: the jobs, and the callers they told, whose view left the
                  \* cache after the job had made sure of it

vars == <<avail, held, phase, jobs, stores, users, job, caller, lost>>

Owners == Callers \cup Jobs
Store == INSTANCE ViewStore

JobPoints == {"free", "queued", "slotted", "checking", "transferring", "leaving", "finishing"}
Job(pc, v, q, err) == [pc |-> pc, view |-> v, queue |-> q, err |-> err]
Free == Job("free", NoView, NoQueue, FALSE)

CallerPoints == {"out", "entered", "missing", "waiting", "told", "reading"}
Caller(pc, v, j) == [pc |-> pc, view |-> v, job |-> j]
Gone == Caller("out", NoView, NoJob)

TypeOK ==
    /\ Store!TypeOK
    /\ phase \in {"open", "closing", "closed"}
    /\ jobs \in [Views -> Jobs \cup {NoJob}]
    /\ stores \in [Stores -> Queues \cup {NoQueue}]
    /\ users \in [Queues -> Nat]
    /\ job \in [Jobs -> [pc : JobPoints, view : Views \cup {NoView},
                         queue : Queues \cup {NoQueue}, err : BOOLEAN]]
    /\ caller \in [Callers -> [pc : CallerPoints, view : Views \cup {NoView},
                               job : Jobs \cup {NoJob}]]
    /\ lost \subseteq Owners

Init ==
    /\ Store!Init
    /\ phase = "open"
    /\ jobs = [v \in Views |-> NoJob]
    /\ stores = [s \in Stores |-> NoQueue]
    /\ users = [q \in Queues |-> 0]
    /\ job = [j \in Jobs |-> Free]
    /\ caller = [c \in Callers |-> Gone]
    /\ lost = {}

-----------------------------------------------------------------------------
(* EnsureSnapshot.                                                          *)

LiveJobs == {j \in Jobs : job[j].pc # "free"}

To(c, pc, v, j) == caller' = [caller EXCEPT ![c] = Caller(pc, v, j)]
Answer(c) ==
    /\ caller' = [caller EXCEPT ![c] = Gone]
    /\ lost' = lost \ {c}

\* Objects that nobody refers to.
UnusedQueue(q) ==
    /\ \A s \in Stores : stores[s] # q
    /\ \A j \in LiveJobs : job[j].queue # q

\* The call begins: neither context is done.
Ask(c, v) ==
    /\ phase = "open"
    /\ caller[c].pc = "out"
    /\ To(c, "entered", v, NoJob)
    /\ UNCHANGED <<avail, held, phase, jobs, stores, users, job, lost>>

\* Acquire finds the view.
Hit(c) ==
    /\ caller[c].pc = "entered"
    /\ phase # "closed"
    /\ Store!Lease(c, caller[c].view)
    /\ To(c, "reading", caller[c].view, NoJob)
    /\ UNCHANGED <<phase, jobs, stores, users, job, lost>>

Miss(c) ==
    /\ caller[c].pc = "entered"
    /\ phase # "closed"
    /\ caller[c].view \notin avail
    /\ To(c, "missing", caller[c].view, NoJob)
    /\ UNCHANGED <<avail, held, phase, jobs, stores, users, job, lost>>

\* The cache is closed.
Refuse(c) ==
    /\ caller[c].pc = "entered"
    /\ phase = "closed"
    /\ Answer(c)
    /\ UNCHANGED <<avail, held, phase, jobs, stores, users, job>>

\* Under mu: a closed mirror, or a full queue for a view nobody fetches.
Reject(c) ==
    /\ caller[c].pc = "missing"
    /\ \/ phase # "open"
       \/ jobs[caller[c].view] = NoJob /\ Cardinality({v \in Views : jobs[v] # NoJob}) >= MaxPending
    /\ Answer(c)
    /\ UNCHANGED <<avail, held, phase, jobs, stores, users, job>>

\* Under mu: join the job that fetches the view.
Join(c) ==
    /\ caller[c].pc = "missing"
    /\ phase = "open"
    /\ jobs[caller[c].view] # NoJob
    /\ To(c, "waiting", caller[c].view, jobs[caller[c].view])
    /\ UNCHANGED <<avail, held, phase, jobs, stores, users, job, lost>>

\* Mutants: closed is not tested; the bound is off by one.
AdmittedAfterClose(v) ==
    /\ jobs[v] = NoJob
    /\ Cardinality({w \in Views : jobs[w] # NoJob}) < MaxPending
AdmittedToFull(v) ==
    /\ phase = "open"
    /\ jobs[v] = NoJob
    /\ Cardinality({w \in Views : jobs[w] # NoJob}) <= MaxPending

Admitted(v) ==
    /\ phase = "open"
    /\ jobs[v] = NoJob
    /\ Cardinality({w \in Views : jobs[w] # NoJob}) < MaxPending

\* Mutant: only the job that creates the queue is counted.
FirstUser(q) == [users EXCEPT ![q] = IF UnusedQueue(q) THEN 1 ELSE @]

OneMoreUser(q) == [users EXCEPT ![q] = @ + 1]

\* Under mu: start a job in the queue of its store.
Begin(c, j, q) ==
    LET v == caller[c].view
        s == StoreOf[v]
    IN  /\ caller[c].pc = "missing"
        /\ Admitted(v)
        /\ j \notin LiveJobs
        /\ IF stores[s] = NoQueue THEN UnusedQueue(q) ELSE q = stores[s]
        /\ jobs' = [jobs EXCEPT ![v] = j]
        /\ stores' = [stores EXCEPT ![s] = q]
        /\ users' = OneMoreUser(q)
        /\ job' = [job EXCEPT ![j] = Job("queued", v, q, FALSE)]
        /\ To(c, "waiting", v, j)
        /\ UNCHANGED <<avail, held, phase, lost>>

\* The caller's context or the mirror's ends the wait.
StopWaiting(c) ==
    /\ caller[c].pc \in {"waiting", "told"}
    /\ Answer(c)
    /\ UNCHANGED <<avail, held, phase, jobs, stores, users, job>>

\* The job is done: Acquire again.
Woken(c) ==
    /\ caller[c].pc = "told"
    /\ phase # "closed"
    /\ Store!Lease(c, caller[c].view)
    /\ To(c, "reading", caller[c].view, NoJob)
    /\ lost' = lost \ {c}
    /\ UNCHANGED <<phase, jobs, stores, users, job>>

\* ... and find the view gone, or the cache closed.
TooLate(c) ==
    /\ caller[c].pc = "told"
    /\ caller[c].view \notin avail \/ phase = "closed"
    /\ Answer(c)
    /\ UNCHANGED <<avail, held, phase, jobs, stores, users, job>>

Release(c) ==
    /\ caller[c].pc = "reading"
    /\ Store!Return(c)
    /\ Answer(c)
    /\ UNCHANGED <<phase, jobs, stores, users, job>>

-----------------------------------------------------------------------------
(* runSync.                                                                 *)

NodeSlotHeld == {"checking", "transferring", "leaving"}
SlotHeld == {"slotted"} \cup NodeSlotHeld

Step(j, pc) == job' = [job EXCEPT ![j].pc = pc]
KeepMirror == UNCHANGED <<phase, jobs, stores, users, caller>>

TakeStoreSlot(j) ==
    /\ job[j].pc = "queued"
    /\ \A k \in Jobs : job[k].queue = job[j].queue => job[k].pc \notin SlotHeld
    /\ Step(j, "slotted")
    /\ KeepMirror
    /\ UNCHANGED <<avail, held, lost>>

TakeNodeSlot(j) ==
    /\ job[j].pc = "slotted"
    /\ Cardinality({k \in Jobs : job[k].pc \in NodeSlotHeld}) < Concurrency
    /\ Step(j, "checking")
    /\ KeepMirror
    /\ UNCHANGED <<avail, held, lost>>

\* Another producer may have published the view meanwhile.
Recheck(j) ==
    /\ job[j].pc = "checking"
    /\ job[j].view \in avail
    /\ Step(j, "leaving")
    /\ KeepMirror
    /\ UNCHANGED <<avail, held, lost>>

\* If not, an incremental source starts from whichever compatible view is there,
\* which it leases for the transfer.
OpenTransfer(j, base) ==
    /\ job[j].pc = "checking"
    /\ job[j].view \notin avail
    /\ StoreOf[base] = StoreOf[job[j].view]
    /\ Store!Lease(j, base)
    /\ Step(j, "transferring")
    /\ KeepMirror
    /\ UNCHANGED lost

\* Without a base, or from a source that knows no increments: the whole view.
OpenSnapshot(j) ==
    /\ job[j].pc = "checking"
    /\ job[j].view \notin avail
    /\ Step(j, "transferring")
    /\ KeepMirror
    /\ UNCHANGED <<avail, held, lost>>

\* Install or InstallIncremental publishes.
Publish(j) ==
    /\ job[j].pc = "transferring"
    /\ avail' = avail \cup {job[j].view}
    /\ Step(j, "leaving")
    /\ KeepMirror
    /\ UNCHANGED <<held, lost>>

\* SyncTimeout, a cancelled mirror, missing headroom, a peer or an import that
\* fails, at whichever step.
FailSync(j) ==
    /\ job[j].pc \in {"queued", "slotted", "checking", "transferring"}
    /\ job' = [job EXCEPT ![j].pc = IF @ \in NodeSlotHeld THEN "leaving" ELSE "finishing",
                          ![j].err = TRUE]
    /\ KeepMirror
    /\ UNCHANGED <<avail, held, lost>>

\* The deferred releases: the base, the node's slot, the store's slot.
Leave(j) ==
    /\ job[j].pc = "leaving"
    /\ IF held[j] = NoView THEN UNCHANGED <<avail, held>> ELSE Store!Return(j)
    /\ Step(j, "finishing")
    /\ KeepMirror
    /\ UNCHANGED lost

\* Mutant: a job that ends takes its store's queue away from the others.
QueueIdleNow(q) == TRUE

QueueIdle(q) == users[q] = 1

\* Mutant: the job's error is lost.
ToldWhatever(j, c) ==
    IF caller[c].job # j THEN caller[c] ELSE Caller("told", caller[c].view, NoJob)

\* What becomes of a caller when job j closes its done channel: it returns the
\* job's error, or goes on to acquire the view.
Told(j, c) ==
    IF caller[c].job # j THEN caller[c]
    ELSE IF job[j].err THEN Gone ELSE Caller("told", caller[c].view, NoJob)

\* Under mu: the result, the job map, the store's queue and the waiters.
Finish(j) ==
    LET q == job[j].queue
        s == StoreOf[job[j].view]
    IN  /\ job[j].pc = "finishing"
        /\ job' = [job EXCEPT ![j] = Free]
        /\ jobs' = [jobs EXCEPT ![job[j].view] = NoJob]
        /\ users' = [users EXCEPT ![q] = @ - 1]
        /\ stores' = IF QueueIdle(q) THEN [stores EXCEPT ![s] = NoQueue] ELSE stores
        /\ caller' = [c \in Callers |-> Told(j, c)]
        /\ lost' = (lost \ {j}) \cup {c \in Callers : caller[c].job = j /\ j \in lost}
        /\ UNCHANGED <<avail, held, phase>>

-----------------------------------------------------------------------------
(* Maintenance, eviction and the end.                                       *)

\* A view that is not in use is removed: by Prune or Evict, or by an import that
\* needs its room.
Collect(v) ==
    /\ phase # "closed"
    /\ v \in avail \ Store!InUse
    /\ avail' = avail \ {v}
    /\ lost' = lost
        \cup {j \in Jobs : job[j].view = v /\ ~job[j].err /\ job[j].pc \in {"leaving", "finishing"}}
        \cup {c \in Callers : caller[c].view = v /\ caller[c].pc = "told"}
    /\ UNCHANGED <<held, phase, jobs, stores, users, job, caller>>

Close ==
    /\ phase = "open"
    /\ phase' = "closing"
    /\ UNCHANGED <<avail, held, jobs, stores, users, job, caller, lost>>

\* wg.Wait, then Store.Close, which refuses while a lease is out.
CloseCache ==
    /\ phase = "closing"
    /\ LiveJobs = {}
    /\ Store!InUse = {}
    /\ phase' = "closed"
    /\ UNCHANGED <<avail, held, jobs, stores, users, job, caller, lost>>

-----------------------------------------------------------------------------

\* The first free object stands for a newly allocated one.
NewJob(j) == j \notin LiveJobs /\ \A k \in Jobs \ LiveJobs : j <= k
NewQueue(q) == UnusedQueue(q) /\ \A p \in Queues : UnusedQueue(p) => q <= p

Start(c) ==
    \E j \in Jobs, q \in Queues :
        /\ NewJob(j)
        /\ NewQueue(q) \/ \E s \in Stores : stores[s] = q
        /\ Begin(c, j, q)

Sync(j) ==
    \/ TakeStoreSlot(j) \/ TakeNodeSlot(j) \/ Recheck(j) \/ OpenSnapshot(j)
    \/ \E base \in Views : OpenTransfer(j, base)
    \/ Publish(j) \/ FailSync(j) \/ Leave(j) \/ Finish(j)

Next ==
    \/ \E c \in Callers :
          \/ Hit(c) \/ Miss(c) \/ Refuse(c) \/ Reject(c) \/ Join(c) \/ Start(c)
          \/ StopWaiting(c) \/ Woken(c) \/ TooLate(c) \/ Release(c)
          \/ \E v \in Views : Ask(c, v)
    \/ \E j \in Jobs : Sync(j)
    \/ \E v \in Views : Collect(v)
    \/ Close \/ CloseCache

Spec == Init /\ [][Next]_vars

-----------------------------------------------------------------------------
(* Properties.                                                              *)

\* storeQueue: two transfers into one repository's store never overlap, though
\* the queue object comes and goes with its users.
OneTransferPerStore ==
    \A j, k \in Jobs :
        j # k /\ {job[j].pc, job[k].pc} \subseteq SlotHeld =>
            StoreOf[job[j].view] # StoreOf[job[k].view]

\* EnsureSnapshot: a view is fetched by one job at a time, and no more than
\* MaxPending jobs exist, whoever asks while others finish.
SingleFlight ==
    /\ \A j, k \in LiveJobs : job[j].view = job[k].view => j = k
    /\ Cardinality(LiveJobs) <= MaxPending

\* Close: once the cache is closed no job runs and no lease is out, whichever
\* callers were inside EnsureSnapshot meanwhile.
QuietWhenClosed ==
    phase = "closed" => LiveJobs = {} /\ Store!InUse = {}

\* A caller told that its view is there finds it, unless the view was collected
\* after the job had published or found it.
WaiterServed ==
    \A c \in Callers : caller[c].pc = "told" => caller[c].view \in avail \/ c \in lost

=============================================================================
