-------------------------- MODULE EdgeMirrorProofs --------------------------
(***************************************************************************)
(* Theorems about EdgeMirror, for any sets of views, repositories, callers, *)
(* jobs and queues and any limits.  The inductive invariant ties the job    *)
(* map, the queues' user counts and the slots to the jobs that are running. *)
(***************************************************************************)
EXTENDS EdgeMirror, FiniteSetTheorems, TLAPS

\* The jobs in a queue, and the views of the job map.
Users(q) == {j \in LiveJobs : job[j].queue = q}
Pending == {v \in Views : jobs[v] # NoJob}

\* A running job is in the job map and in the queue of its store; nothing else is.
JobInv ==
    /\ \A j \in LiveJobs :
          /\ job[j].view \in Views /\ job[j].queue \in Queues
          /\ jobs[job[j].view] = j
          /\ stores[StoreOf[job[j].view]] = job[j].queue
    /\ \A v \in Pending : jobs[v] \in LiveJobs /\ job[jobs[v]].view = v

\* A queue belongs to one store and counts the jobs in it.
QueueInv ==
    /\ \A s, t \in Stores : stores[s] = stores[t] => s = t \/ stores[s] = NoQueue
    /\ \A q \in Queues : users[q] = Cardinality(Users(q))

\* A queue's slot is held once.
SlotInv ==
    \A j, k \in Jobs :
        j # k /\ job[j].pc \in SlotHeld /\ job[k].pc \in SlotHeld =>
            job[j].queue # job[k].queue

\* The job map has one entry per running job.
PendingInv ==
    /\ IsFiniteSet(Pending)
    /\ Cardinality(Pending) = Cardinality(LiveJobs)
    /\ Cardinality(LiveJobs) <= MaxPending

\* Whom a caller waits for, and for what.
CallerInv ==
    \A c \in Callers :
        /\ caller[c].pc # "out" => caller[c].view \in Views
        /\ caller[c].job # NoJob => /\ caller[c].pc = "waiting"
                                    /\ caller[c].job \in LiveJobs
                                    /\ job[caller[c].job].view = caller[c].view

\* A job that ends well leaves its view in the cache, unless it was collected.
ServedInv ==
    /\ \A j \in Jobs : job[j].pc \in {"leaving", "finishing"} /\ ~job[j].err =>
                          job[j].view \in avail \/ j \in lost
    /\ WaiterServed

\* Only the present call of a caller, and the present run of a job, count as lost.
LostInv ==
    /\ \A c \in Callers : c \in lost => caller[c].pc = "told"
    /\ \A j \in Jobs : j \in lost => job[j].pc \in {"leaving", "finishing"} /\ ~job[j].err

\* A step of a job between its start and its end.
Underway(j) ==
    \/ TakeStoreSlot(j) \/ TakeNodeSlot(j) \/ Recheck(j) \/ OpenSnapshot(j)
    \/ Publish(j) \/ FailSync(j) \/ Leave(j)
    \/ \E base \in Views : OpenTransfer(j, base)

MirrorInv ==
    /\ TypeOK /\ JobInv /\ QueueInv /\ SlotInv /\ PendingInv
    /\ CallerInv /\ ServedInv /\ LostInv /\ QuietWhenClosed

-----------------------------------------------------------------------------
LEMMA MirrorInit == Init => MirrorInv
  <1> SUFFICES ASSUME Init PROVE MirrorInv
    OBVIOUS
  <1>1. TypeOK
    BY ObjectsAssumption DEF Init, TypeOK, Store!Init, Store!TypeOK, Owners, Free, Job, Gone,
         Caller, JobPoints, CallerPoints, NoJob, NoQueue
  <1>2. LiveJobs = {} /\ Pending = {} /\ \A q \in Queues : Users(q) = {}
    BY DEF Init, LiveJobs, Pending, Users, Free, Job
  <1>3. Cardinality({}) = 0 /\ IsFiniteSet({})
    BY FS_EmptySet
  <1>4. JobInv /\ QueueInv /\ PendingInv
    BY <1>2, <1>3, LimitsAssumption DEF Init, JobInv, QueueInv, PendingInv
  <1>5. SlotInv /\ CallerInv /\ ServedInv /\ LostInv /\ QuietWhenClosed
    BY ObjectsAssumption DEF Init, SlotInv, SlotHeld, NodeSlotHeld, CallerInv, ServedInv,
         LostInv, WaiterServed, QuietWhenClosed, Free, Job, Gone, Caller
  <1> QED
    BY <1>1, <1>4, <1>5 DEF MirrorInv

\* Between its start and its end a job stays in its queue, at its view.
LEMMA Running ==
  ASSUME TypeOK, NEW j \in Jobs, Underway(j)
  PROVE  /\ UNCHANGED <<jobs, stores, users>>
         /\ LiveJobs' = LiveJobs /\ Pending' = Pending
         /\ \A k \in Jobs : job'[k].view = job[k].view /\ job'[k].queue = job[k].queue
         /\ \A k \in Jobs \ {j} : job'[k] = job[k]
  <1>1. UNCHANGED <<jobs, stores, users>> /\ job[j].pc # "free"
    BY DEF Underway, TakeStoreSlot, TakeNodeSlot, Recheck, OpenSnapshot, Publish, FailSync,
         Leave, OpenTransfer, KeepMirror
  <1>2. \/ \E pc \in JobPoints \ {"free"} : job' = [job EXCEPT ![j].pc = pc]
        \/ \E pc \in JobPoints \ {"free"} : job' = [job EXCEPT ![j].pc = pc, ![j].err = TRUE]
    <2>1. CASE FailSync(j)
      <3> DEFINE pc == IF job[j].pc \in NodeSlotHeld THEN "leaving" ELSE "finishing"
      <3>1. pc \in JobPoints \ {"free"}
        BY DEF JobPoints
      <3>2. job' = [job EXCEPT ![j].pc = pc, ![j].err = TRUE]
        BY <2>1 DEF FailSync
      <3> QED
        BY <3>1, <3>2
    <2> QED
      BY <2>1 DEF Underway, JobPoints, TakeStoreSlot, TakeNodeSlot, Recheck, OpenSnapshot,
           Publish, Leave, OpenTransfer, Step
  <1>3. LiveJobs' = LiveJobs
    BY <1>1, <1>2 DEF LiveJobs, TypeOK
  <1>4. /\ \A k \in Jobs : job'[k].view = job[k].view /\ job'[k].queue = job[k].queue
        /\ \A k \in Jobs \ {j} : job'[k] = job[k]
    <2>1. CASE \E pc \in JobPoints : job' = [job EXCEPT ![j].pc = pc]
      BY <2>1 DEF TypeOK
    <2>2. CASE \E pc \in JobPoints : job' = [job EXCEPT ![j].pc = pc, ![j].err = TRUE]
      <3>1. \A k \in Jobs \ {j} : job'[k] = job[k]
        BY <2>2 DEF TypeOK
      <3>2. job'[j].view = job[j].view /\ job'[j].queue = job[j].queue
        BY <2>2 DEF TypeOK
      <3> QED
        BY <3>1, <3>2
    <2> QED
      BY <1>2, <2>1, <2>2
  <1> QED
    BY <1>1, <1>3, <1>4 DEF Pending

\* Only a start, a job's own steps and its end touch the jobs and their queues.
LEMMA Bystanders ==
  ASSUME [Next]_vars
  PROVE  \/ UNCHANGED <<jobs, stores, users, job>>
         \/ \E c \in Callers, j \in Jobs, q \in Queues : Begin(c, j, q)
         \/ \E j \in Jobs : Underway(j) \/ Finish(j)
  BY DEF Next, Start, Sync, Underway, vars, Ask, Hit, Miss, Refuse, Reject, Join, StopWaiting,
       Woken, TooLate, Release, Collect, Close, CloseCache

LEMMA LiveFinite == IsFiniteSet(LiveJobs) /\ \A q : IsFiniteSet(Users(q))
  <1>1. LiveJobs \subseteq Jobs /\ \A q : Users(q) \subseteq Jobs
    BY DEF LiveJobs, Users
  <1> QED
    BY <1>1, FS_Subset, ObjectsAssumption

\* What a start adds to the sets that are counted, and what an end takes away.
LEMMA Begun ==
  ASSUME TypeOK, CallerInv, NEW c \in Callers, NEW j \in Jobs, NEW q \in Queues, Begin(c, j, q)
  PROVE  /\ caller[c].view \in Views
         /\ j \notin LiveJobs /\ LiveJobs' = LiveJobs \cup {j}
         /\ caller[c].view \notin Pending /\ Pending' = Pending \cup {caller[c].view}
         /\ Cardinality(Pending) < MaxPending
         /\ Users(q)' = Users(q) \cup {j}
         /\ \A p \in Queues \ {q} : Users(p)' = Users(p)
  <1> USE ObjectsAssumption
  <1>1. caller[c].view \in Views
    BY DEF Begin, CallerInv
  <1>2. job' = [job EXCEPT ![j] = Job("queued", caller[c].view, q, FALSE)] /\ j \notin LiveJobs
    BY DEF Begin
  <1>3. jobs[caller[c].view] = NoJob /\ jobs' = [jobs EXCEPT ![caller[c].view] = j]
    BY DEF Begin, Admitted
  <1>4. Cardinality(Pending) < MaxPending
    BY DEF Begin, Admitted, Pending
  <1>5. LiveJobs' = LiveJobs \cup {j}
    BY <1>2 DEF LiveJobs, Job, TypeOK
  <1>6. Pending' = Pending \cup {caller[c].view}
    BY <1>1, <1>3 DEF Pending, TypeOK, NoJob
  <1>7. Users(q)' = Users(q) \cup {j} /\ \A p \in Queues \ {q} : Users(p)' = Users(p)
    BY <1>2 DEF LiveJobs, Users, Job, TypeOK
  <1> QED
    BY <1>1, <1>2, <1>3, <1>4, <1>5, <1>6, <1>7 DEF Pending

LEMMA Ended ==
  ASSUME TypeOK, JobInv, NEW j \in Jobs, Finish(j)
  PROVE  /\ j \in LiveJobs /\ LiveJobs' = LiveJobs \ {j}
         /\ job[j].view \in Pending /\ Pending' = Pending \ {job[j].view}
         /\ job[j].queue \in Queues /\ j \in Users(job[j].queue)
         /\ \A p \in Queues :
               Users(p)' = IF p = job[j].queue THEN Users(p) \ {j} ELSE Users(p)
  <1> USE ObjectsAssumption
  <1>1. j \in LiveJobs /\ j # NoJob
    BY DEF Finish, LiveJobs, NoJob
  <1>2. job' = [job EXCEPT ![j] = Free] /\ jobs' = [jobs EXCEPT ![job[j].view] = NoJob]
    BY DEF Finish
  <1>3. job[j].view \in Views /\ jobs[job[j].view] = j /\ job[j].queue \in Queues
    BY <1>1 DEF JobInv
  <1>4. LiveJobs' = LiveJobs \ {j}
    BY <1>2 DEF LiveJobs, Free, Job, TypeOK
  <1>5. Pending' = Pending \ {job[j].view} /\ job[j].view \in Pending
    BY <1>1, <1>2, <1>3 DEF Pending, TypeOK, NoJob
  <1>6. /\ j \in Users(job[j].queue)
        /\ \A p \in Queues :
              Users(p)' = IF p = job[j].queue THEN Users(p) \ {j} ELSE Users(p)
    <2>1. \A k \in LiveJobs \ {j} : job'[k] = job[k]
      BY <1>2 DEF LiveJobs, TypeOK
    <2> QED
      BY <1>1, <1>4, <2>1 DEF Users
  <1> QED
    BY <1>1, <1>3, <1>4, <1>5, <1>6

\* A queue that is in use counts somebody, and the only one it counts is alone.
LEMMA UserCounted ==
  ASSUME TypeOK, QueueInv, NEW q \in Queues, NEW j \in Users(q)
  PROVE  users[q] \in Nat \ {0} /\ (users[q] = 1 => Users(q) = {j})
  <1>1. IsFiniteSet(Users(q)) /\ Cardinality(Users(q)) = users[q]
    BY LiveFinite DEF QueueInv
  <1>2. /\ IsFiniteSet(Users(q) \ {j})
        /\ Cardinality(Users(q) \ {j}) = Cardinality(Users(q)) - 1
    BY <1>1, FS_RemoveElement
  <1>3. Cardinality(Users(q) \ {j}) \in Nat /\ Cardinality(Users(q)) \in Nat
    BY <1>1, <1>2, FS_CardinalityType
  <1>4. users[q] = 1 => Users(q) \ {j} = {}
    BY <1>1, <1>2, <1>3, FS_EmptySet
  <1> QED
    BY <1>1, <1>2, <1>3, <1>4

LEMMA TypeStep == TypeOK /\ JobInv /\ QueueInv /\ CallerInv /\ [Next]_vars => TypeOK'
<1> SUFFICES ASSUME TypeOK, JobInv, QueueInv, CallerInv, [Next]_vars PROVE TypeOK'
  OBVIOUS
<1> USE ObjectsAssumption, LimitsAssumption
<1>1. ASSUME NEW c \in Callers, Hit(c) PROVE TypeOK'
  BY <1>1 DEF TypeOK, Store!TypeOK, Owners, JobPoints, CallerPoints, NoJob, NoQueue, JobInv,
       LiveJobs, CallerInv, Hit, Store!Lease, To, Caller
<1>2. ASSUME NEW c \in Callers, Miss(c) PROVE TypeOK'
  BY <1>2 DEF TypeOK, Store!TypeOK, Owners, JobPoints, CallerPoints, NoJob, NoQueue, JobInv,
       LiveJobs, CallerInv, Miss, To, Caller
<1>3. ASSUME NEW c \in Callers, Refuse(c) PROVE TypeOK'
  BY <1>3 DEF TypeOK, Store!TypeOK, Owners, JobPoints, CallerPoints, NoJob, NoQueue, JobInv,
       LiveJobs, CallerInv, Refuse, Answer, Gone, Caller
<1>4. ASSUME NEW c \in Callers, Reject(c) PROVE TypeOK'
  BY <1>4 DEF TypeOK, Store!TypeOK, Owners, JobPoints, CallerPoints, NoJob, NoQueue, JobInv,
       LiveJobs, CallerInv, Reject, Answer, Gone, Caller
<1>5. ASSUME NEW c \in Callers, Join(c) PROVE TypeOK'
  BY <1>5 DEF TypeOK, Store!TypeOK, Owners, JobPoints, CallerPoints, NoJob, NoQueue, JobInv,
       LiveJobs, CallerInv, Join, To, Caller
<1>6. ASSUME NEW c \in Callers, StopWaiting(c) PROVE TypeOK'
  BY <1>6 DEF TypeOK, Store!TypeOK, Owners, JobPoints, CallerPoints, NoJob, NoQueue, JobInv,
       LiveJobs, CallerInv, StopWaiting, Answer, Gone, Caller
<1>7. ASSUME NEW c \in Callers, Woken(c) PROVE TypeOK'
  BY <1>7 DEF TypeOK, Store!TypeOK, Owners, JobPoints, CallerPoints, NoJob, NoQueue, JobInv,
       LiveJobs, CallerInv, Woken, To, Caller, Store!Lease
<1>8. ASSUME NEW c \in Callers, TooLate(c) PROVE TypeOK'
  BY <1>8 DEF TypeOK, Store!TypeOK, Owners, JobPoints, CallerPoints, NoJob, NoQueue, JobInv,
       LiveJobs, CallerInv, TooLate, Answer, Gone, Caller
<1>9. ASSUME NEW c \in Callers, Release(c) PROVE TypeOK'
  BY <1>9 DEF TypeOK, Store!TypeOK, Owners, JobPoints, CallerPoints, NoJob, NoQueue, JobInv,
       LiveJobs, CallerInv, Release, Answer, Gone, Caller, Store!Return
<1>10. ASSUME NEW c \in Callers, NEW v \in Views, Ask(c, v) PROVE TypeOK'
  BY <1>10 DEF TypeOK, Store!TypeOK, Owners, JobPoints, CallerPoints, NoJob, NoQueue, JobInv,
       LiveJobs, CallerInv, Ask, To, Caller
<1>11. ASSUME NEW c \in Callers, NEW j \in Jobs, NEW q \in Queues, Begin(c, j, q) PROVE TypeOK'
  BY <1>11 DEF TypeOK, Store!TypeOK, Owners, JobPoints, CallerPoints, NoJob, NoQueue, JobInv,
       LiveJobs, CallerInv, Begin, Admitted, UnusedQueue, OneMoreUser, Job, To, Caller
<1>12. ASSUME NEW j \in Jobs, TakeStoreSlot(j) PROVE TypeOK'
  BY <1>12 DEF TypeOK, Store!TypeOK, Owners, JobPoints, CallerPoints, NoJob, NoQueue, JobInv,
       LiveJobs, CallerInv, TakeStoreSlot, KeepMirror, Step
<1>13. ASSUME NEW j \in Jobs, TakeNodeSlot(j) PROVE TypeOK'
  BY <1>13 DEF TypeOK, Store!TypeOK, Owners, JobPoints, CallerPoints, NoJob, NoQueue, JobInv,
       LiveJobs, CallerInv, TakeNodeSlot, KeepMirror, Step
<1>14. ASSUME NEW j \in Jobs, Recheck(j) PROVE TypeOK'
  BY <1>14 DEF TypeOK, Store!TypeOK, Owners, JobPoints, CallerPoints, NoJob, NoQueue, JobInv,
       LiveJobs, CallerInv, Recheck, KeepMirror, Step
<1>15. ASSUME NEW j \in Jobs, OpenSnapshot(j) PROVE TypeOK'
  BY <1>15 DEF TypeOK, Store!TypeOK, Owners, JobPoints, CallerPoints, NoJob, NoQueue, JobInv,
       LiveJobs, CallerInv, OpenSnapshot, KeepMirror, Step
<1>16. ASSUME NEW j \in Jobs, Publish(j) PROVE TypeOK'
  <2>1. job[j].view \in Views
    BY <1>16 DEF Publish, JobInv, LiveJobs
  <2>2. Store!TypeOK'
    BY <1>16, <2>1 DEF Publish, TypeOK, Store!TypeOK
  <2> QED
    BY <1>16, <2>2 DEF TypeOK, JobPoints, Publish, Step, KeepMirror
<1>17. ASSUME NEW j \in Jobs, FailSync(j) PROVE TypeOK'
  <2>1. job' \in [Jobs -> [pc : JobPoints, view : Views \cup {NoView},
                          queue : Queues \cup {NoQueue}, err : BOOLEAN]]
    <3> DEFINE pc == IF job[j].pc \in NodeSlotHeld THEN "leaving" ELSE "finishing"
    <3>1. pc \in JobPoints
      BY DEF JobPoints
    <3>2. job' = [job EXCEPT ![j].pc = pc, ![j].err = TRUE]
      BY <1>17 DEF FailSync
    <3> HIDE DEF pc
    <3>3. [job EXCEPT ![j].pc = pc] \in [Jobs -> [pc : JobPoints, view : Views \cup {NoView},
                                    queue : Queues \cup {NoQueue}, err : BOOLEAN]]
      BY <3>1 DEF TypeOK
    <3> DEFINE moved == [job EXCEPT ![j].pc = pc]
    <3>4. job' = [moved EXCEPT ![j].err = TRUE]
      BY <3>2 DEF TypeOK
    <3> HIDE DEF moved
    <3> QED
      BY <3>3, <3>4, Zenon DEF moved
  <2> QED
    BY <1>17, <2>1 DEF TypeOK, Store!TypeOK, FailSync, KeepMirror
<1>18. ASSUME NEW j \in Jobs, Leave(j) PROVE TypeOK'
  <2>1. Store!TypeOK'
    BY <1>18 DEF TypeOK, Store!TypeOK, Owners, Leave, Store!Return
  <2> QED
    BY <1>18, <2>1 DEF TypeOK, JobPoints, Leave, Step, KeepMirror
<1>19. ASSUME NEW j \in Jobs, NEW base \in Views, OpenTransfer(j, base) PROVE TypeOK'
  BY <1>19 DEF TypeOK, Store!TypeOK, Owners, JobPoints, CallerPoints, NoJob, NoQueue, JobInv,
       LiveJobs, CallerInv, OpenTransfer, KeepMirror, Step, Store!Lease
<1>20. ASSUME NEW j \in Jobs, Finish(j) PROVE TypeOK'
  <2>1. job[j].queue \in Queues /\ users[job[j].queue] \in Nat \ {0}
    BY <1>20, Ended, UserCounted
  <2>2. users' \in [Queues -> Nat]
    <3> DEFINE n == users[job[j].queue] - 1
    <3>1. n \in Nat
      BY <2>1
    <3>2. users' = [users EXCEPT ![job[j].queue] = n]
      BY <1>20 DEF Finish
    <3> HIDE DEF n
    <3> QED
      BY <2>1, <3>1, <3>2 DEF TypeOK
  <2>3. caller' \in [Callers -> [pc : CallerPoints, view : Views \cup {NoView},
                                job : Jobs \cup {NoJob}]]
    BY <1>20 DEF Finish, Told, Gone, Caller, TypeOK, CallerPoints
  <2>4. job' \in [Jobs -> [pc : JobPoints, view : Views \cup {NoView},
                          queue : Queues \cup {NoQueue}, err : BOOLEAN]]
    BY <1>20 DEF Finish, Free, Job, TypeOK, JobPoints
  <2>5. jobs' \in [Views -> Jobs \cup {NoJob}] /\ stores' \in [Stores -> Queues \cup {NoQueue}]
    BY <1>20 DEF Finish, TypeOK
  <2>6. lost' \subseteq Owners /\ UNCHANGED <<avail, held, phase>>
    BY <1>20 DEF Finish, TypeOK, Owners
  <2> QED
    BY <2>2, <2>3, <2>4, <2>5, <2>6 DEF TypeOK, Store!TypeOK
<1>21. ASSUME NEW v \in Views, Collect(v) PROVE TypeOK'
  BY <1>21 DEF TypeOK, Store!TypeOK, Owners, JobPoints, CallerPoints, NoJob, NoQueue, JobInv,
       LiveJobs, CallerInv, Collect, Store!InUse
<1>22. CASE Close
  BY <1>22 DEF TypeOK, Store!TypeOK, Owners, JobPoints, CallerPoints, NoJob, NoQueue, JobInv,
       LiveJobs, CallerInv, Close
<1>23. CASE CloseCache
  BY <1>23 DEF TypeOK, Store!TypeOK, Owners, JobPoints, CallerPoints, NoJob, NoQueue, JobInv,
       LiveJobs, CallerInv, CloseCache, Store!InUse
<1>24. CASE UNCHANGED vars
  BY <1>24 DEF TypeOK, Store!TypeOK, Owners, JobPoints, CallerPoints, NoJob, NoQueue, JobInv,
       LiveJobs, CallerInv, vars
<1> QED
  BY <1>1, <1>2, <1>3, <1>4, <1>5, <1>6, <1>7, <1>8, <1>9, <1>10, <1>11, <1>12, <1>13, <1>14,
       <1>15, <1>16, <1>17, <1>18, <1>19, <1>20, <1>21, <1>22, <1>23, <1>24 DEF Next, Start,
       Sync

LEMMA JobStep == TypeOK /\ JobInv /\ QueueInv /\ CallerInv /\ [Next]_vars => JobInv'
<1> SUFFICES ASSUME TypeOK, JobInv, QueueInv, CallerInv, [Next]_vars PROVE JobInv'
  OBVIOUS
<1> USE ObjectsAssumption, LimitsAssumption
<1>1. ASSUME NEW c \in Callers, NEW j \in Jobs, NEW q \in Queues, Begin(c, j, q) PROVE JobInv'
  BY <1>1 DEF TypeOK, Store!TypeOK, Owners, JobPoints, CallerPoints, NoJob, NoQueue, JobInv,
       LiveJobs, Pending, CallerInv, Begin, Admitted, UnusedQueue, OneMoreUser, Job
<1>2. ASSUME NEW j \in Jobs, Underway(j) PROVE JobInv'
  <2>1. LiveJobs \subseteq Jobs
    BY DEF LiveJobs
  <2>2. /\ jobs' = jobs /\ stores' = stores /\ LiveJobs' = LiveJobs /\ Pending' = Pending
        /\ \A k \in LiveJobs : job'[k].view = job[k].view /\ job'[k].queue = job[k].queue
    BY <1>2, <2>1, Running
  <2> QED
    BY <2>2 DEF JobInv
<1>3. ASSUME NEW j \in Jobs, Finish(j) PROVE JobInv'
  <2>1. j \in Users(job[j].queue) /\ job[j].queue \in Queues
    BY <1>3, Ended
  <2>2. ASSUME NEW k \in LiveJobs, k # j PROVE stores'[StoreOf[job[k].view]] = job[k].queue
    <3>1. stores[StoreOf[job[k].view]] = job[k].queue /\ StoreOf[job[k].view] \in Stores
      BY DEF JobInv
    <3>2. CASE StoreOf[job[k].view] = StoreOf[job[j].view]
      <4>1. job[k].queue = job[j].queue
        BY <3>1, <3>2, <2>1 DEF JobInv, Users
      <4>2. k \in Users(job[j].queue)
        BY <4>1 DEF Users
      <4>3. ~QueueIdle(job[j].queue)
        BY <2>1, <2>2, <4>2, UserCounted DEF QueueIdle
      <4> QED
        BY <1>3, <3>1, <4>3 DEF Finish
    <3>3. CASE StoreOf[job[k].view] # StoreOf[job[j].view]
      BY <1>3, <3>1, <3>3 DEF Finish, TypeOK
    <3> QED
      BY <3>2, <3>3
  <2>3. \A k \in LiveJobs : k # j => job'[k] = job[k] /\ jobs'[job[k].view] = k
    BY <1>3 DEF Finish, JobInv, LiveJobs, TypeOK
  <2>4. \A v \in Pending' : v \in Pending /\ jobs'[v] = jobs[v] /\ jobs[v] # j
    BY <1>3, Ended DEF Finish, JobInv, Pending, TypeOK
  <2> QED
    BY <1>3, <2>2, <2>3, <2>4, Ended DEF JobInv
<1>4. CASE UNCHANGED <<jobs, stores, users, job>>
  BY <1>4 DEF JobInv, LiveJobs, Pending
<1> QED
  BY <1>1, <1>2, <1>3, <1>4, Bystanders

LEMMA QueueStep == TypeOK /\ JobInv /\ QueueInv /\ CallerInv /\ [Next]_vars => QueueInv'
<1> SUFFICES ASSUME TypeOK, JobInv, QueueInv, CallerInv, [Next]_vars PROVE QueueInv'
  OBVIOUS
<1> USE ObjectsAssumption, LimitsAssumption
<1>1. ASSUME NEW c \in Callers, NEW j \in Jobs, NEW q \in Queues, Begin(c, j, q) PROVE QueueInv'
  <2>1. \A s, t \in Stores : stores'[s] = stores'[t] => s = t \/ stores'[s] = NoQueue
    BY <1>1, Begun DEF Begin, UnusedQueue, QueueInv, TypeOK
  <2>2. ASSUME NEW p \in Queues PROVE users'[p] = Cardinality(Users(p)')
    <3>1. CASE p = q
      <4>1. Cardinality(Users(q) \cup {j}) = Cardinality(Users(q)) + 1
        <5>1. IsFiniteSet(Users(q)) /\ j \notin Users(q)
          BY <1>1, LiveFinite, Begun DEF Users
        <5> QED
          BY <5>1, FS_AddElement
      <4> QED
        BY <1>1, <3>1, <4>1, Begun DEF Begin, OneMoreUser, QueueInv, TypeOK
    <3>2. CASE p # q
      <4>1. users'[p] = users[p]
        BY <1>1, <3>2 DEF Begin, OneMoreUser, TypeOK
      <4>2. Users(p)' = Users(p)
        BY <1>1, <3>2, Begun
      <4> QED
        BY <4>1, <4>2 DEF QueueInv
    <3> QED
      BY <3>1, <3>2
  <2> QED
    BY <2>1, <2>2 DEF QueueInv
<1>2. ASSUME NEW j \in Jobs, Underway(j) PROVE QueueInv'
  <2>1. \A q \in Queues : Users(q)' = Users(q)
    <3>1. LiveJobs \subseteq Jobs
      BY DEF LiveJobs
    <3> QED
      BY <1>2, <3>1, Running DEF Users
  <2> QED
    BY <1>2, <2>1, Running DEF QueueInv
<1>3. ASSUME NEW j \in Jobs, Finish(j) PROVE QueueInv'
  <2>1. \A s, t \in Stores : stores'[s] = stores'[t] => s = t \/ stores'[s] = NoQueue
    BY <1>3 DEF Finish, QueueInv, TypeOK
  <2>2. ASSUME NEW p \in Queues PROVE users'[p] = Cardinality(Users(p)')
    <3>1. CASE p = job[j].queue
      <4>1. Cardinality(Users(p) \ {j}) = Cardinality(Users(p)) - 1
        BY <1>3, <3>1, LiveFinite, Ended, FS_RemoveElement
      <4> QED
        <5>1. users'[p] = users[p] - 1
          BY <1>3, <3>1 DEF Finish, TypeOK
        <5>2. Users(p)' = Users(p) \ {j}
          BY <1>3, <3>1, Ended
        <5> QED
          BY <4>1, <5>1, <5>2 DEF QueueInv
    <3>2. CASE p # job[j].queue
      <4>1. users'[p] = users[p]
        BY <1>3, <3>2 DEF Finish, TypeOK
      <4>2. Users(p)' = Users(p)
        BY <1>3, <3>2, Ended
      <4> QED
        BY <4>1, <4>2 DEF QueueInv
    <3> QED
      BY <3>1, <3>2
  <2> QED
    BY <2>1, <2>2 DEF QueueInv
<1>4. CASE UNCHANGED <<jobs, stores, users, job>>
  BY <1>4 DEF QueueInv, Users, LiveJobs
<1> QED
  BY <1>1, <1>2, <1>3, <1>4, Bystanders

LEMMA SlotStep == TypeOK /\ SlotInv /\ [Next]_vars => SlotInv'
<1> SUFFICES ASSUME TypeOK, SlotInv, [Next]_vars PROVE SlotInv'
  OBVIOUS
<1> USE ObjectsAssumption, LimitsAssumption
<1>1. ASSUME NEW c \in Callers, NEW j \in Jobs, NEW q \in Queues, Begin(c, j, q) PROVE SlotInv'
  BY <1>1 DEF SlotInv, SlotHeld, NodeSlotHeld, Begin, Job, TypeOK
<1>2. ASSUME NEW j \in Jobs, Underway(j) PROVE SlotInv'
  <2>1. job'[j].pc \in SlotHeld =>
          job[j].pc \in SlotHeld \/ \A k \in Jobs : job[k].queue = job[j].queue => job[k].pc \notin SlotHeld
    BY <1>2 DEF TypeOK, SlotHeld, NodeSlotHeld, Underway, TakeStoreSlot, TakeNodeSlot, Recheck,
         OpenSnapshot, Publish, FailSync, Leave, OpenTransfer, Step
  <2> QED
    BY <1>2, <2>1, Running DEF SlotInv
<1>3. ASSUME NEW j \in Jobs, Finish(j) PROVE SlotInv'
  BY <1>3 DEF SlotInv, SlotHeld, NodeSlotHeld, Finish, Free, Job, TypeOK
<1>4. CASE UNCHANGED <<jobs, stores, users, job>>
  BY <1>4 DEF SlotInv
<1> QED
  BY <1>1, <1>2, <1>3, <1>4, Bystanders

LEMMA PendingStep == TypeOK /\ JobInv /\ CallerInv /\ PendingInv /\ [Next]_vars => PendingInv'
<1> SUFFICES ASSUME TypeOK, JobInv, CallerInv, PendingInv, [Next]_vars PROVE PendingInv'
  OBVIOUS
<1> USE ObjectsAssumption, LimitsAssumption
<1>1. ASSUME NEW c \in Callers, NEW j \in Jobs, NEW q \in Queues, Begin(c, j, q) PROVE PendingInv'
  <2>1. IsFiniteSet(LiveJobs) /\ IsFiniteSet(Pending)
    BY LiveFinite DEF PendingInv
  <2>2. /\ IsFiniteSet(Pending') /\ Cardinality(Pending') = Cardinality(Pending) + 1
        /\ Cardinality(LiveJobs') = Cardinality(LiveJobs) + 1
    <3>1. /\ j \notin LiveJobs /\ LiveJobs' = LiveJobs \cup {j}
          /\ caller[c].view \notin Pending /\ Pending' = Pending \cup {caller[c].view}
      BY <1>1, Begun
    <3> QED
      BY <2>1, <3>1, FS_AddElement
  <2>3. Cardinality(Pending) \in Nat
    BY <2>1, FS_CardinalityType
  <2> QED
    BY <1>1, <2>2, <2>3, Begun DEF PendingInv
<1>2. ASSUME NEW j \in Jobs, Underway(j) PROVE PendingInv'
  BY <1>2, Running DEF PendingInv
<1>3. ASSUME NEW j \in Jobs, Finish(j) PROVE PendingInv'
  <2>1. IsFiniteSet(LiveJobs) /\ IsFiniteSet(Pending)
    BY LiveFinite DEF PendingInv
  <2>2. /\ IsFiniteSet(Pending') /\ Cardinality(Pending') = Cardinality(Pending) - 1
        /\ Cardinality(LiveJobs') = Cardinality(LiveJobs) - 1
    BY <1>3, <2>1, Ended, FS_RemoveElement
  <2>3. Cardinality(LiveJobs) \in Nat
    BY <2>1, FS_CardinalityType
  <2> QED
    BY <2>2, <2>3 DEF PendingInv
<1>4. CASE UNCHANGED <<jobs, stores, users, job>>
  BY <1>4 DEF PendingInv, Pending, LiveJobs
<1> QED
  BY <1>1, <1>2, <1>3, <1>4, Bystanders

LEMMA CallerStep == TypeOK /\ JobInv /\ CallerInv /\ [Next]_vars => CallerInv'
<1> SUFFICES ASSUME TypeOK, JobInv, CallerInv, [Next]_vars PROVE CallerInv'
  OBVIOUS
<1> USE ObjectsAssumption, LimitsAssumption
<1>1. ASSUME NEW c \in Callers, Hit(c) PROVE CallerInv'
  BY <1>1 DEF TypeOK, Store!TypeOK, Owners, JobPoints, CallerPoints, NoJob, NoQueue, JobInv,
       CallerInv, LiveJobs, Pending, Hit, Store!Lease, To, Caller
<1>2. ASSUME NEW c \in Callers, Miss(c) PROVE CallerInv'
  BY <1>2 DEF TypeOK, Store!TypeOK, Owners, JobPoints, CallerPoints, NoJob, NoQueue, JobInv,
       CallerInv, LiveJobs, Pending, Miss, To, Caller
<1>3. ASSUME NEW c \in Callers, Refuse(c) PROVE CallerInv'
  BY <1>3 DEF TypeOK, Store!TypeOK, Owners, JobPoints, CallerPoints, NoJob, NoQueue, JobInv,
       CallerInv, LiveJobs, Pending, Refuse, Answer, Gone, Caller
<1>4. ASSUME NEW c \in Callers, Reject(c) PROVE CallerInv'
  BY <1>4 DEF TypeOK, Store!TypeOK, Owners, JobPoints, CallerPoints, NoJob, NoQueue, JobInv,
       CallerInv, LiveJobs, Pending, Reject, Answer, Gone, Caller
<1>5. ASSUME NEW c \in Callers, Join(c) PROVE CallerInv'
  BY <1>5 DEF TypeOK, Store!TypeOK, Owners, JobPoints, CallerPoints, NoJob, NoQueue, JobInv,
       CallerInv, LiveJobs, Pending, Join, To, Caller
<1>6. ASSUME NEW c \in Callers, StopWaiting(c) PROVE CallerInv'
  BY <1>6 DEF TypeOK, Store!TypeOK, Owners, JobPoints, CallerPoints, NoJob, NoQueue, JobInv,
       CallerInv, LiveJobs, Pending, StopWaiting, Answer, Gone, Caller
<1>7. ASSUME NEW c \in Callers, Woken(c) PROVE CallerInv'
  BY <1>7 DEF TypeOK, Store!TypeOK, Owners, JobPoints, CallerPoints, NoJob, NoQueue, JobInv,
       CallerInv, LiveJobs, Pending, Woken, To, Caller, Store!Lease
<1>8. ASSUME NEW c \in Callers, TooLate(c) PROVE CallerInv'
  BY <1>8 DEF TypeOK, Store!TypeOK, Owners, JobPoints, CallerPoints, NoJob, NoQueue, JobInv,
       CallerInv, LiveJobs, Pending, TooLate, Answer, Gone, Caller
<1>9. ASSUME NEW c \in Callers, Release(c) PROVE CallerInv'
  BY <1>9 DEF TypeOK, Store!TypeOK, Owners, JobPoints, CallerPoints, NoJob, NoQueue, JobInv,
       CallerInv, LiveJobs, Pending, Release, Answer, Gone, Caller, Store!Return
<1>10. ASSUME NEW c \in Callers, NEW v \in Views, Ask(c, v) PROVE CallerInv'
  BY <1>10 DEF TypeOK, Store!TypeOK, Owners, JobPoints, CallerPoints, NoJob, NoQueue, JobInv,
       CallerInv, LiveJobs, Pending, Ask, To, Caller
<1>11. ASSUME NEW c \in Callers, NEW j \in Jobs, NEW q \in Queues, Begin(c, j, q) PROVE CallerInv'
  BY <1>11 DEF TypeOK, Store!TypeOK, Owners, JobPoints, CallerPoints, NoJob, NoQueue, JobInv,
       CallerInv, LiveJobs, Pending, Begin, Admitted, UnusedQueue, OneMoreUser, Job, To, Caller
<1>12. ASSUME NEW j \in Jobs, TakeStoreSlot(j) PROVE CallerInv'
  BY <1>12 DEF TypeOK, Store!TypeOK, Owners, JobPoints, CallerPoints, NoJob, NoQueue, JobInv,
       CallerInv, LiveJobs, Pending, TakeStoreSlot, KeepMirror, Step
<1>13. ASSUME NEW j \in Jobs, TakeNodeSlot(j) PROVE CallerInv'
  BY <1>13 DEF TypeOK, Store!TypeOK, Owners, JobPoints, CallerPoints, NoJob, NoQueue, JobInv,
       CallerInv, LiveJobs, Pending, TakeNodeSlot, KeepMirror, Step
<1>14. ASSUME NEW j \in Jobs, Recheck(j) PROVE CallerInv'
  BY <1>14 DEF TypeOK, Store!TypeOK, Owners, JobPoints, CallerPoints, NoJob, NoQueue, JobInv,
       CallerInv, LiveJobs, Pending, Recheck, KeepMirror, Step
<1>15. ASSUME NEW j \in Jobs, OpenSnapshot(j) PROVE CallerInv'
  BY <1>15 DEF TypeOK, Store!TypeOK, Owners, JobPoints, CallerPoints, NoJob, NoQueue, JobInv,
       CallerInv, LiveJobs, Pending, OpenSnapshot, KeepMirror, Step
<1>16. ASSUME NEW j \in Jobs, Publish(j) PROVE CallerInv'
  BY <1>16 DEF TypeOK, Store!TypeOK, Owners, JobPoints, CallerPoints, NoJob, NoQueue, JobInv,
       CallerInv, LiveJobs, Pending, Publish, KeepMirror, Step
<1>17. ASSUME NEW j \in Jobs, FailSync(j) PROVE CallerInv'
  BY <1>17 DEF TypeOK, Store!TypeOK, Owners, JobPoints, CallerPoints, NoJob, NoQueue, JobInv,
       CallerInv, LiveJobs, Pending, FailSync, KeepMirror
<1>18. ASSUME NEW j \in Jobs, Leave(j) PROVE CallerInv'
  BY <1>18 DEF TypeOK, Store!TypeOK, Owners, JobPoints, CallerPoints, NoJob, NoQueue, JobInv,
       CallerInv, LiveJobs, Pending, Leave, KeepMirror, Step, Store!Return
<1>19. ASSUME NEW j \in Jobs, NEW base \in Views, OpenTransfer(j, base) PROVE CallerInv'
  BY <1>19 DEF TypeOK, Store!TypeOK, Owners, JobPoints, CallerPoints, NoJob, NoQueue, JobInv,
       CallerInv, LiveJobs, Pending, OpenTransfer, KeepMirror, Step, Store!Lease
<1>20. ASSUME NEW j \in Jobs, Finish(j) PROVE CallerInv'
  BY <1>20 DEF TypeOK, Store!TypeOK, Owners, JobPoints, CallerPoints, NoJob, NoQueue, JobInv,
       CallerInv, LiveJobs, Pending, Finish, Free, Job, Told, Gone, Caller, QueueIdle
<1>21. ASSUME NEW v \in Views, Collect(v) PROVE CallerInv'
  BY <1>21 DEF TypeOK, Store!TypeOK, Owners, JobPoints, CallerPoints, NoJob, NoQueue, JobInv,
       CallerInv, LiveJobs, Pending, Collect, Store!InUse
<1>22. CASE Close
  BY <1>22 DEF TypeOK, Store!TypeOK, Owners, JobPoints, CallerPoints, NoJob, NoQueue, JobInv,
       CallerInv, LiveJobs, Pending, Close
<1>23. CASE CloseCache
  BY <1>23 DEF TypeOK, Store!TypeOK, Owners, JobPoints, CallerPoints, NoJob, NoQueue, JobInv,
       CallerInv, LiveJobs, Pending, CloseCache, Store!InUse
<1>24. CASE UNCHANGED vars
  BY <1>24 DEF TypeOK, Store!TypeOK, Owners, JobPoints, CallerPoints, NoJob, NoQueue, JobInv,
       CallerInv, LiveJobs, Pending, vars
<1> QED
  BY <1>1, <1>2, <1>3, <1>4, <1>5, <1>6, <1>7, <1>8, <1>9, <1>10, <1>11, <1>12, <1>13, <1>14,
       <1>15, <1>16, <1>17, <1>18, <1>19, <1>20, <1>21, <1>22, <1>23, <1>24 DEF Next, Start,
       Sync

LEMMA ServedStep == TypeOK /\ JobInv /\ CallerInv /\ ServedInv /\ [Next]_vars => ServedInv'
<1> SUFFICES ASSUME TypeOK, JobInv, CallerInv, ServedInv, [Next]_vars PROVE ServedInv'
  OBVIOUS
<1> USE ObjectsAssumption, LimitsAssumption
<1>1. ASSUME NEW c \in Callers, Hit(c) PROVE ServedInv'
  BY <1>1 DEF TypeOK, Store!TypeOK, Owners, JobPoints, CallerPoints, NoJob, NoQueue, CallerInv,
       ServedInv, WaiterServed, LiveJobs, JobInv, NodeSlotHeld, Hit, Store!Lease, To, Caller
<1>2. ASSUME NEW c \in Callers, Miss(c) PROVE ServedInv'
  BY <1>2 DEF TypeOK, Store!TypeOK, Owners, JobPoints, CallerPoints, NoJob, NoQueue, CallerInv,
       ServedInv, WaiterServed, LiveJobs, JobInv, NodeSlotHeld, Miss, To, Caller
<1>3. ASSUME NEW c \in Callers, Refuse(c) PROVE ServedInv'
  BY <1>3 DEF TypeOK, Store!TypeOK, Owners, JobPoints, CallerPoints, NoJob, NoQueue, CallerInv,
       ServedInv, WaiterServed, LiveJobs, JobInv, NodeSlotHeld, Refuse, Answer, Gone, Caller
<1>4. ASSUME NEW c \in Callers, Reject(c) PROVE ServedInv'
  BY <1>4 DEF TypeOK, Store!TypeOK, Owners, JobPoints, CallerPoints, NoJob, NoQueue, CallerInv,
       ServedInv, WaiterServed, LiveJobs, JobInv, NodeSlotHeld, Reject, Answer, Gone, Caller
<1>5. ASSUME NEW c \in Callers, Join(c) PROVE ServedInv'
  BY <1>5 DEF TypeOK, Store!TypeOK, Owners, JobPoints, CallerPoints, NoJob, NoQueue, CallerInv,
       ServedInv, WaiterServed, LiveJobs, JobInv, NodeSlotHeld, Join, To, Caller
<1>6. ASSUME NEW c \in Callers, StopWaiting(c) PROVE ServedInv'
  BY <1>6 DEF TypeOK, Store!TypeOK, Owners, JobPoints, CallerPoints, NoJob, NoQueue, CallerInv,
       ServedInv, WaiterServed, LiveJobs, JobInv, NodeSlotHeld, StopWaiting, Answer, Gone,
       Caller
<1>7. ASSUME NEW c \in Callers, Woken(c) PROVE ServedInv'
  BY <1>7 DEF TypeOK, Store!TypeOK, Owners, JobPoints, CallerPoints, NoJob, NoQueue, CallerInv,
       ServedInv, WaiterServed, LiveJobs, JobInv, NodeSlotHeld, Woken, To, Caller, Store!Lease
<1>8. ASSUME NEW c \in Callers, TooLate(c) PROVE ServedInv'
  BY <1>8 DEF TypeOK, Store!TypeOK, Owners, JobPoints, CallerPoints, NoJob, NoQueue, CallerInv,
       ServedInv, WaiterServed, LiveJobs, JobInv, NodeSlotHeld, TooLate, Answer, Gone, Caller
<1>9. ASSUME NEW c \in Callers, Release(c) PROVE ServedInv'
  BY <1>9 DEF TypeOK, Store!TypeOK, Owners, JobPoints, CallerPoints, NoJob, NoQueue, CallerInv,
       ServedInv, WaiterServed, LiveJobs, JobInv, NodeSlotHeld, Release, Answer, Gone, Caller,
       Store!Return
<1>10. ASSUME NEW c \in Callers, NEW v \in Views, Ask(c, v) PROVE ServedInv'
  BY <1>10 DEF TypeOK, Store!TypeOK, Owners, JobPoints, CallerPoints, NoJob, NoQueue,
       CallerInv, ServedInv, WaiterServed, LiveJobs, JobInv, NodeSlotHeld, Ask, To, Caller
<1>11. ASSUME NEW c \in Callers, NEW j \in Jobs, NEW q \in Queues, Begin(c, j, q) PROVE ServedInv'
  BY <1>11 DEF TypeOK, Store!TypeOK, Owners, JobPoints, CallerPoints, NoJob, NoQueue,
       CallerInv, ServedInv, WaiterServed, LiveJobs, JobInv, NodeSlotHeld, Begin, Admitted,
       UnusedQueue, OneMoreUser, Job, To, Caller
<1>12. ASSUME NEW j \in Jobs, TakeStoreSlot(j) PROVE ServedInv'
  BY <1>12 DEF TypeOK, Store!TypeOK, Owners, JobPoints, CallerPoints, NoJob, NoQueue,
       CallerInv, ServedInv, WaiterServed, LiveJobs, JobInv, NodeSlotHeld, TakeStoreSlot,
       KeepMirror, Step
<1>13. ASSUME NEW j \in Jobs, TakeNodeSlot(j) PROVE ServedInv'
  BY <1>13 DEF TypeOK, Store!TypeOK, Owners, JobPoints, CallerPoints, NoJob, NoQueue,
       CallerInv, ServedInv, WaiterServed, LiveJobs, JobInv, NodeSlotHeld, TakeNodeSlot,
       KeepMirror, Step
<1>14. ASSUME NEW j \in Jobs, Recheck(j) PROVE ServedInv'
  BY <1>14 DEF TypeOK, Store!TypeOK, Owners, JobPoints, CallerPoints, NoJob, NoQueue,
       CallerInv, ServedInv, WaiterServed, LiveJobs, JobInv, NodeSlotHeld, Recheck, KeepMirror,
       Step
<1>15. ASSUME NEW j \in Jobs, OpenSnapshot(j) PROVE ServedInv'
  BY <1>15 DEF TypeOK, Store!TypeOK, Owners, JobPoints, CallerPoints, NoJob, NoQueue,
       CallerInv, ServedInv, WaiterServed, LiveJobs, JobInv, NodeSlotHeld, OpenSnapshot,
       KeepMirror, Step
<1>16. ASSUME NEW j \in Jobs, Publish(j) PROVE ServedInv'
  BY <1>16 DEF TypeOK, Store!TypeOK, Owners, JobPoints, CallerPoints, NoJob, NoQueue,
       CallerInv, ServedInv, WaiterServed, LiveJobs, JobInv, NodeSlotHeld, Publish, KeepMirror,
       Step
<1>17. ASSUME NEW j \in Jobs, FailSync(j) PROVE ServedInv'
  BY <1>17 DEF TypeOK, Store!TypeOK, Owners, JobPoints, CallerPoints, NoJob, NoQueue,
       CallerInv, ServedInv, WaiterServed, LiveJobs, JobInv, NodeSlotHeld, FailSync, KeepMirror
<1>18. ASSUME NEW j \in Jobs, Leave(j) PROVE ServedInv'
  BY <1>18 DEF TypeOK, Store!TypeOK, Owners, JobPoints, CallerPoints, NoJob, NoQueue,
       CallerInv, ServedInv, WaiterServed, LiveJobs, JobInv, NodeSlotHeld, Leave, KeepMirror,
       Step, Store!Return
<1>19. ASSUME NEW j \in Jobs, NEW base \in Views, OpenTransfer(j, base) PROVE ServedInv'
  BY <1>19 DEF TypeOK, Store!TypeOK, Owners, JobPoints, CallerPoints, NoJob, NoQueue,
       CallerInv, ServedInv, WaiterServed, LiveJobs, JobInv, NodeSlotHeld, OpenTransfer,
       KeepMirror, Step, Store!Lease
<1>20. ASSUME NEW j \in Jobs, Finish(j) PROVE ServedInv'
  BY <1>20 DEF TypeOK, Store!TypeOK, Owners, JobPoints, CallerPoints, NoJob, NoQueue,
       CallerInv, ServedInv, WaiterServed, LiveJobs, JobInv, NodeSlotHeld, Finish, Free, Job,
       Told, Gone, Caller, QueueIdle
<1>21. ASSUME NEW v \in Views, Collect(v) PROVE ServedInv'
  BY <1>21 DEF TypeOK, Store!TypeOK, Owners, JobPoints, CallerPoints, NoJob, NoQueue,
       CallerInv, ServedInv, WaiterServed, LiveJobs, JobInv, NodeSlotHeld, Collect, Store!InUse
<1>22. CASE Close
  BY <1>22 DEF TypeOK, Store!TypeOK, Owners, JobPoints, CallerPoints, NoJob, NoQueue,
       CallerInv, ServedInv, WaiterServed, LiveJobs, JobInv, NodeSlotHeld, Close
<1>23. CASE CloseCache
  BY <1>23 DEF TypeOK, Store!TypeOK, Owners, JobPoints, CallerPoints, NoJob, NoQueue,
       CallerInv, ServedInv, WaiterServed, LiveJobs, JobInv, NodeSlotHeld, CloseCache,
       Store!InUse
<1>24. CASE UNCHANGED vars
  BY <1>24 DEF TypeOK, Store!TypeOK, Owners, JobPoints, CallerPoints, NoJob, NoQueue,
       CallerInv, ServedInv, WaiterServed, LiveJobs, JobInv, NodeSlotHeld, vars
<1> QED
  BY <1>1, <1>2, <1>3, <1>4, <1>5, <1>6, <1>7, <1>8, <1>9, <1>10, <1>11, <1>12, <1>13, <1>14,
       <1>15, <1>16, <1>17, <1>18, <1>19, <1>20, <1>21, <1>22, <1>23, <1>24 DEF Next, Start,
       Sync

LEMMA LostStep == TypeOK /\ CallerInv /\ LostInv /\ [Next]_vars => LostInv'
<1> SUFFICES ASSUME TypeOK, CallerInv, LostInv, [Next]_vars PROVE LostInv'
  OBVIOUS
<1> USE ObjectsAssumption, LimitsAssumption
<1>1. ASSUME NEW c \in Callers, Hit(c) PROVE LostInv'
  BY <1>1 DEF TypeOK, Store!TypeOK, Owners, JobPoints, CallerPoints, NoJob, NoQueue, CallerInv,
       LostInv, LiveJobs, NodeSlotHeld, Hit, Store!Lease, To, Caller
<1>2. ASSUME NEW c \in Callers, Miss(c) PROVE LostInv'
  BY <1>2 DEF TypeOK, Store!TypeOK, Owners, JobPoints, CallerPoints, NoJob, NoQueue, CallerInv,
       LostInv, LiveJobs, NodeSlotHeld, Miss, To, Caller
<1>3. ASSUME NEW c \in Callers, Refuse(c) PROVE LostInv'
  BY <1>3 DEF TypeOK, Store!TypeOK, Owners, JobPoints, CallerPoints, NoJob, NoQueue, CallerInv,
       LostInv, LiveJobs, NodeSlotHeld, Refuse, Answer, Gone, Caller
<1>4. ASSUME NEW c \in Callers, Reject(c) PROVE LostInv'
  BY <1>4 DEF TypeOK, Store!TypeOK, Owners, JobPoints, CallerPoints, NoJob, NoQueue, CallerInv,
       LostInv, LiveJobs, NodeSlotHeld, Reject, Answer, Gone, Caller
<1>5. ASSUME NEW c \in Callers, Join(c) PROVE LostInv'
  BY <1>5 DEF TypeOK, Store!TypeOK, Owners, JobPoints, CallerPoints, NoJob, NoQueue, CallerInv,
       LostInv, LiveJobs, NodeSlotHeld, Join, To, Caller
<1>6. ASSUME NEW c \in Callers, StopWaiting(c) PROVE LostInv'
  BY <1>6 DEF TypeOK, Store!TypeOK, Owners, JobPoints, CallerPoints, NoJob, NoQueue, CallerInv,
       LostInv, LiveJobs, NodeSlotHeld, StopWaiting, Answer, Gone, Caller
<1>7. ASSUME NEW c \in Callers, Woken(c) PROVE LostInv'
  BY <1>7 DEF TypeOK, Store!TypeOK, Owners, JobPoints, CallerPoints, NoJob, NoQueue, CallerInv,
       LostInv, LiveJobs, NodeSlotHeld, Woken, To, Caller, Store!Lease
<1>8. ASSUME NEW c \in Callers, TooLate(c) PROVE LostInv'
  BY <1>8 DEF TypeOK, Store!TypeOK, Owners, JobPoints, CallerPoints, NoJob, NoQueue, CallerInv,
       LostInv, LiveJobs, NodeSlotHeld, TooLate, Answer, Gone, Caller
<1>9. ASSUME NEW c \in Callers, Release(c) PROVE LostInv'
  BY <1>9 DEF TypeOK, Store!TypeOK, Owners, JobPoints, CallerPoints, NoJob, NoQueue, CallerInv,
       LostInv, LiveJobs, NodeSlotHeld, Release, Answer, Gone, Caller, Store!Return
<1>10. ASSUME NEW c \in Callers, NEW v \in Views, Ask(c, v) PROVE LostInv'
  BY <1>10 DEF TypeOK, Store!TypeOK, Owners, JobPoints, CallerPoints, NoJob, NoQueue,
       CallerInv, LostInv, LiveJobs, NodeSlotHeld, Ask, To, Caller
<1>11. ASSUME NEW c \in Callers, NEW j \in Jobs, NEW q \in Queues, Begin(c, j, q) PROVE LostInv'
  BY <1>11 DEF TypeOK, Store!TypeOK, Owners, JobPoints, CallerPoints, NoJob, NoQueue,
       CallerInv, LostInv, LiveJobs, NodeSlotHeld, Begin, Admitted, UnusedQueue, OneMoreUser,
       Job, To, Caller
<1>12. ASSUME NEW j \in Jobs, TakeStoreSlot(j) PROVE LostInv'
  BY <1>12 DEF TypeOK, Store!TypeOK, Owners, JobPoints, CallerPoints, NoJob, NoQueue,
       CallerInv, LostInv, LiveJobs, NodeSlotHeld, TakeStoreSlot, KeepMirror, Step
<1>13. ASSUME NEW j \in Jobs, TakeNodeSlot(j) PROVE LostInv'
  BY <1>13 DEF TypeOK, Store!TypeOK, Owners, JobPoints, CallerPoints, NoJob, NoQueue,
       CallerInv, LostInv, LiveJobs, NodeSlotHeld, TakeNodeSlot, KeepMirror, Step
<1>14. ASSUME NEW j \in Jobs, Recheck(j) PROVE LostInv'
  BY <1>14 DEF TypeOK, Store!TypeOK, Owners, JobPoints, CallerPoints, NoJob, NoQueue,
       CallerInv, LostInv, LiveJobs, NodeSlotHeld, Recheck, KeepMirror, Step
<1>15. ASSUME NEW j \in Jobs, OpenSnapshot(j) PROVE LostInv'
  BY <1>15 DEF TypeOK, Store!TypeOK, Owners, JobPoints, CallerPoints, NoJob, NoQueue,
       CallerInv, LostInv, LiveJobs, NodeSlotHeld, OpenSnapshot, KeepMirror, Step
<1>16. ASSUME NEW j \in Jobs, Publish(j) PROVE LostInv'
  BY <1>16 DEF TypeOK, Store!TypeOK, Owners, JobPoints, CallerPoints, NoJob, NoQueue,
       CallerInv, LostInv, LiveJobs, NodeSlotHeld, Publish, KeepMirror, Step
<1>17. ASSUME NEW j \in Jobs, FailSync(j) PROVE LostInv'
  BY <1>17 DEF TypeOK, Store!TypeOK, Owners, JobPoints, CallerPoints, NoJob, NoQueue,
       CallerInv, LostInv, LiveJobs, NodeSlotHeld, FailSync, KeepMirror
<1>18. ASSUME NEW j \in Jobs, Leave(j) PROVE LostInv'
  BY <1>18 DEF TypeOK, Store!TypeOK, Owners, JobPoints, CallerPoints, NoJob, NoQueue,
       CallerInv, LostInv, LiveJobs, NodeSlotHeld, Leave, KeepMirror, Step, Store!Return
<1>19. ASSUME NEW j \in Jobs, NEW base \in Views, OpenTransfer(j, base) PROVE LostInv'
  BY <1>19 DEF TypeOK, Store!TypeOK, Owners, JobPoints, CallerPoints, NoJob, NoQueue,
       CallerInv, LostInv, LiveJobs, NodeSlotHeld, OpenTransfer, KeepMirror, Step, Store!Lease
<1>20. ASSUME NEW j \in Jobs, Finish(j) PROVE LostInv'
  BY <1>20 DEF TypeOK, Store!TypeOK, Owners, JobPoints, CallerPoints, NoJob, NoQueue,
       CallerInv, LostInv, LiveJobs, NodeSlotHeld, Finish, Free, Job, Told, Gone, Caller,
       QueueIdle
<1>21. ASSUME NEW v \in Views, Collect(v) PROVE LostInv'
  BY <1>21 DEF TypeOK, Store!TypeOK, Owners, JobPoints, CallerPoints, NoJob, NoQueue,
       CallerInv, LostInv, LiveJobs, NodeSlotHeld, Collect, Store!InUse
<1>22. CASE Close
  BY <1>22 DEF TypeOK, Store!TypeOK, Owners, JobPoints, CallerPoints, NoJob, NoQueue,
       CallerInv, LostInv, LiveJobs, NodeSlotHeld, Close
<1>23. CASE CloseCache
  BY <1>23 DEF TypeOK, Store!TypeOK, Owners, JobPoints, CallerPoints, NoJob, NoQueue,
       CallerInv, LostInv, LiveJobs, NodeSlotHeld, CloseCache, Store!InUse
<1>24. CASE UNCHANGED vars
  BY <1>24 DEF TypeOK, Store!TypeOK, Owners, JobPoints, CallerPoints, NoJob, NoQueue,
       CallerInv, LostInv, LiveJobs, NodeSlotHeld, vars
<1> QED
  BY <1>1, <1>2, <1>3, <1>4, <1>5, <1>6, <1>7, <1>8, <1>9, <1>10, <1>11, <1>12, <1>13, <1>14,
       <1>15, <1>16, <1>17, <1>18, <1>19, <1>20, <1>21, <1>22, <1>23, <1>24 DEF Next, Start,
       Sync

LEMMA QuietStep == TypeOK /\ QuietWhenClosed /\ [Next]_vars => QuietWhenClosed'
<1> SUFFICES ASSUME TypeOK, QuietWhenClosed, [Next]_vars PROVE QuietWhenClosed'
  OBVIOUS
<1> USE ObjectsAssumption, LimitsAssumption
<1>1. ASSUME NEW c \in Callers, Hit(c) PROVE QuietWhenClosed'
  BY <1>1 DEF TypeOK, Store!TypeOK, Owners, JobPoints, CallerPoints, NoJob, NoQueue,
       QuietWhenClosed, LiveJobs, Store!InUse, Hit, Store!Lease, To, Caller
<1>2. ASSUME NEW c \in Callers, Miss(c) PROVE QuietWhenClosed'
  BY <1>2 DEF TypeOK, Store!TypeOK, Owners, JobPoints, CallerPoints, NoJob, NoQueue,
       QuietWhenClosed, LiveJobs, Store!InUse, Miss, To, Caller
<1>3. ASSUME NEW c \in Callers, Refuse(c) PROVE QuietWhenClosed'
  BY <1>3 DEF TypeOK, Store!TypeOK, Owners, JobPoints, CallerPoints, NoJob, NoQueue,
       QuietWhenClosed, LiveJobs, Store!InUse, Refuse, Answer, Gone, Caller
<1>4. ASSUME NEW c \in Callers, Reject(c) PROVE QuietWhenClosed'
  BY <1>4 DEF TypeOK, Store!TypeOK, Owners, JobPoints, CallerPoints, NoJob, NoQueue,
       QuietWhenClosed, LiveJobs, Store!InUse, Reject, Answer, Gone, Caller
<1>5. ASSUME NEW c \in Callers, Join(c) PROVE QuietWhenClosed'
  BY <1>5 DEF TypeOK, Store!TypeOK, Owners, JobPoints, CallerPoints, NoJob, NoQueue,
       QuietWhenClosed, LiveJobs, Store!InUse, Join, To, Caller
<1>6. ASSUME NEW c \in Callers, StopWaiting(c) PROVE QuietWhenClosed'
  BY <1>6 DEF TypeOK, Store!TypeOK, Owners, JobPoints, CallerPoints, NoJob, NoQueue,
       QuietWhenClosed, LiveJobs, Store!InUse, StopWaiting, Answer, Gone, Caller
<1>7. ASSUME NEW c \in Callers, Woken(c) PROVE QuietWhenClosed'
  BY <1>7 DEF TypeOK, Store!TypeOK, Owners, JobPoints, CallerPoints, NoJob, NoQueue,
       QuietWhenClosed, LiveJobs, Store!InUse, Woken, To, Caller, Store!Lease
<1>8. ASSUME NEW c \in Callers, TooLate(c) PROVE QuietWhenClosed'
  BY <1>8 DEF TypeOK, Store!TypeOK, Owners, JobPoints, CallerPoints, NoJob, NoQueue,
       QuietWhenClosed, LiveJobs, Store!InUse, TooLate, Answer, Gone, Caller
<1>9. ASSUME NEW c \in Callers, Release(c) PROVE QuietWhenClosed'
  BY <1>9 DEF TypeOK, Store!TypeOK, Owners, JobPoints, CallerPoints, NoJob, NoQueue,
       QuietWhenClosed, LiveJobs, Store!InUse, Release, Answer, Gone, Caller, Store!Return
<1>10. ASSUME NEW c \in Callers, NEW v \in Views, Ask(c, v) PROVE QuietWhenClosed'
  BY <1>10 DEF TypeOK, Store!TypeOK, Owners, JobPoints, CallerPoints, NoJob, NoQueue,
       QuietWhenClosed, LiveJobs, Store!InUse, Ask, To, Caller
<1>11. ASSUME NEW c \in Callers, NEW j \in Jobs, NEW q \in Queues, Begin(c, j, q) PROVE QuietWhenClosed'
  BY <1>11 DEF TypeOK, Store!TypeOK, Owners, JobPoints, CallerPoints, NoJob, NoQueue,
       QuietWhenClosed, LiveJobs, Store!InUse, Begin, Admitted, UnusedQueue, OneMoreUser, Job,
       To, Caller
<1>12. ASSUME NEW j \in Jobs, TakeStoreSlot(j) PROVE QuietWhenClosed'
  BY <1>12 DEF TypeOK, Store!TypeOK, Owners, JobPoints, CallerPoints, NoJob, NoQueue,
       QuietWhenClosed, LiveJobs, Store!InUse, TakeStoreSlot, KeepMirror, Step
<1>13. ASSUME NEW j \in Jobs, TakeNodeSlot(j) PROVE QuietWhenClosed'
  BY <1>13 DEF TypeOK, Store!TypeOK, Owners, JobPoints, CallerPoints, NoJob, NoQueue,
       QuietWhenClosed, LiveJobs, Store!InUse, TakeNodeSlot, KeepMirror, Step
<1>14. ASSUME NEW j \in Jobs, Recheck(j) PROVE QuietWhenClosed'
  BY <1>14 DEF TypeOK, Store!TypeOK, Owners, JobPoints, CallerPoints, NoJob, NoQueue,
       QuietWhenClosed, LiveJobs, Store!InUse, Recheck, KeepMirror, Step
<1>15. ASSUME NEW j \in Jobs, OpenSnapshot(j) PROVE QuietWhenClosed'
  BY <1>15 DEF TypeOK, Store!TypeOK, Owners, JobPoints, CallerPoints, NoJob, NoQueue,
       QuietWhenClosed, LiveJobs, Store!InUse, OpenSnapshot, KeepMirror, Step
<1>16. ASSUME NEW j \in Jobs, Publish(j) PROVE QuietWhenClosed'
  BY <1>16 DEF TypeOK, Store!TypeOK, Owners, JobPoints, CallerPoints, NoJob, NoQueue,
       QuietWhenClosed, LiveJobs, Store!InUse, Publish, KeepMirror, Step
<1>17. ASSUME NEW j \in Jobs, FailSync(j) PROVE QuietWhenClosed'
  BY <1>17 DEF TypeOK, Store!TypeOK, Owners, JobPoints, CallerPoints, NoJob, NoQueue,
       QuietWhenClosed, LiveJobs, Store!InUse, FailSync, KeepMirror
<1>18. ASSUME NEW j \in Jobs, Leave(j) PROVE QuietWhenClosed'
  BY <1>18 DEF TypeOK, Store!TypeOK, Owners, JobPoints, CallerPoints, NoJob, NoQueue,
       QuietWhenClosed, LiveJobs, Store!InUse, Leave, KeepMirror, Step, Store!Return
<1>19. ASSUME NEW j \in Jobs, NEW base \in Views, OpenTransfer(j, base) PROVE QuietWhenClosed'
  BY <1>19 DEF TypeOK, Store!TypeOK, Owners, JobPoints, CallerPoints, NoJob, NoQueue,
       QuietWhenClosed, LiveJobs, Store!InUse, OpenTransfer, KeepMirror, Step, Store!Lease
<1>20. ASSUME NEW j \in Jobs, Finish(j) PROVE QuietWhenClosed'
  BY <1>20 DEF TypeOK, Store!TypeOK, Owners, JobPoints, CallerPoints, NoJob, NoQueue,
       QuietWhenClosed, LiveJobs, Store!InUse, Finish, Free, Job, Told, Gone, Caller, QueueIdle
<1>21. ASSUME NEW v \in Views, Collect(v) PROVE QuietWhenClosed'
  BY <1>21 DEF TypeOK, Store!TypeOK, Owners, JobPoints, CallerPoints, NoJob, NoQueue,
       QuietWhenClosed, LiveJobs, Store!InUse, Collect
<1>22. CASE Close
  BY <1>22 DEF TypeOK, Store!TypeOK, Owners, JobPoints, CallerPoints, NoJob, NoQueue,
       QuietWhenClosed, LiveJobs, Store!InUse, Close
<1>23. CASE CloseCache
  BY <1>23 DEF TypeOK, Store!TypeOK, Owners, JobPoints, CallerPoints, NoJob, NoQueue,
       QuietWhenClosed, LiveJobs, Store!InUse, CloseCache
<1>24. CASE UNCHANGED vars
  BY <1>24 DEF TypeOK, Store!TypeOK, Owners, JobPoints, CallerPoints, NoJob, NoQueue,
       QuietWhenClosed, LiveJobs, Store!InUse, vars
<1> QED
  BY <1>1, <1>2, <1>3, <1>4, <1>5, <1>6, <1>7, <1>8, <1>9, <1>10, <1>11, <1>12, <1>13, <1>14,
       <1>15, <1>16, <1>17, <1>18, <1>19, <1>20, <1>21, <1>22, <1>23, <1>24 DEF Next, Start,
       Sync

-----------------------------------------------------------------------------
\* Mirror: the invariant holds of every behaviour.
THEOREM MirrorInvariant == Spec => []MirrorInv
<1>1. MirrorInv /\ [Next]_vars => MirrorInv'
  BY TypeStep, JobStep, QueueStep, SlotStep, PendingStep, CallerStep, ServedStep, LostStep,
     QuietStep DEF MirrorInv
<1> QED
  BY MirrorInit, <1>1, PTL DEF Spec

\* The state of the mirror stays well typed; the user count of a queue never
\* falls below zero.
THEOREM MirrorTypeCorrect == Spec => []TypeOK
<1>1. MirrorInv => TypeOK
  BY DEF MirrorInv
<1> QED
  BY MirrorInvariant, <1>1, PTL

\* storeQueue: two transfers into one repository's store never overlap, though
\* the queue object comes and goes with its users.
THEOREM TransfersExclusive == Spec => []OneTransferPerStore
<1>1. MirrorInv => OneTransferPerStore
  <2> SUFFICES ASSUME MirrorInv, NEW j \in Jobs, NEW k \in Jobs, j # k,
                      job[j].pc \in SlotHeld, job[k].pc \in SlotHeld
               PROVE  StoreOf[job[j].view] # StoreOf[job[k].view]
    BY DEF OneTransferPerStore
  <2>1. j \in LiveJobs /\ k \in LiveJobs
    BY DEF LiveJobs, SlotHeld, NodeSlotHeld
  <2> QED
    BY <2>1 DEF MirrorInv, JobInv, SlotInv
<1> QED
  BY MirrorInvariant, <1>1, PTL

\* EnsureSnapshot: one job per view, and never more than MaxPending of them.
THEOREM FlightIsSingle == Spec => []SingleFlight
<1>1. MirrorInv => SingleFlight
  BY DEF MirrorInv, JobInv, PendingInv, SingleFlight
<1> QED
  BY MirrorInvariant, <1>1, PTL

\* Close: with the cache closed no job runs and no lease is out.
THEOREM ClosedIsQuiet == Spec => []QuietWhenClosed
<1>1. MirrorInv => QuietWhenClosed
  BY DEF MirrorInv
<1> QED
  BY MirrorInvariant, <1>1, PTL

\* EnsureSnapshot: a caller told that its view is there finds it, unless the view
\* was collected after the job had made sure of it.
THEOREM WaitersServed == Spec => []WaiterServed
<1>1. MirrorInv => WaiterServed
  BY DEF MirrorInv, ServedInv
<1> QED
  BY MirrorInvariant, <1>1, PTL

=============================================================================
