------------------------ MODULE ForgejoJobsProofs ------------------------
(***************************************************************************)
(* Theorems about ForgejoJobs, for any processes, requests and bounds.     *)
(***************************************************************************)
EXTENDS ForgejoJobs, TLAPS

Runner == [pc: {"down", "off", "load", "reload", "closing"} \cup Working,
           tries: 0..MaxTries - 1, valid: BOOLEAN, fact: Facts]
Rows == [phase: {"none", "queued", "preflight", "pushing", "recording", "retryable"} \cup Ended,
         due: {"now", "later"}, head: Heads \cup {NoHead},
         why: {"none", "retired", "admission", "drift", "other"}]

Reqs == [op: {"none", "schedule", "reopened", "resume", "retire", "healall", "select"}]
        \cup [op: {"advance", "heal", "revive"}, head: Heads]
        \cup [op: {"fact"}, head: Heads, pending: BOOLEAN]

Pulls == [open: BOOLEAN, gen: 0..MaxGen, head: Heads, pending: BOOLEAN]

\* A runner that carries the row's attempt works on the head the row asks for:
\* whoever changes the head takes the row away from the runner.
ClaimedHead == \A p \in Processes: runner[p].valid => runner[p].fact.head = row.head

\* A settled row has neither lease nor delay.
SettledNow == row.phase \in Ended => row.due = "now"

JobsInv == TypeOK /\ PendingHasWork /\ ClaimedHead /\ ProjectedRecorded /\ SettledNow

---------------------------------------------------------------------------
\* What the proofs use of TypeOK.
Typed ==
  /\ runner \in [Processes -> Runner]
  /\ row \in Rows
  /\ pr \in Pulls /\ pr.head \in Heads \cup {NoHead}
  /\ req \in [Requests -> Reqs]
  /\ \A c \in Requests: req[c].op \in {"fact", "advance", "heal", "revive"} =>
                           req[c].head \in Heads /\ req[c].head \in Heads \cup {NoHead}
  /\ \A c \in Requests: ProcessOf[c] \in Processes
  /\ recorded \subseteq Heads

LEMMA TypedFacts == TypeOK => Typed
<1> SUFFICES ASSUME TypeOK PROVE Typed
  OBVIOUS
<1>1. /\ runner \in [Processes -> Runner] /\ row \in Rows /\ pr \in Pulls
      /\ req \in [Requests -> Reqs] /\ recorded \subseteq Heads
  BY DEF TypeOK, Runner, Rows, Pulls, Reqs
<1>2. pr.head \in Heads \cup {NoHead}
  BY <1>1 DEF Pulls
<1>3. ASSUME NEW c \in Requests, req[c].op \in {"fact", "advance", "heal", "revive"}
      PROVE  req[c].head \in Heads
  <2>1. req[c] \in Reqs
    BY <1>1
  <2>2. QED
    BY <2>1, <1>3 DEF Reqs
<1>4. \A c \in Requests: ProcessOf[c] \in Processes
  BY BoundsAssumption
<1>5. QED
  BY <1>1, <1>2, <1>3, <1>4 DEF Typed

\* The variables have their types when each of them has.
LEMMA FromParts ==
  ASSUME pr' \in Pulls, row' \in Rows, runner' \in [Processes -> Runner],
         req' \in [Requests -> Reqs], recorded' \subseteq Heads
  PROVE  TypeOK'
  BY DEF TypeOK, Runner, Rows, Pulls, Reqs

\* What a request is at next.
LEMMA GoesType ==
  ASSUME req \in [Requests -> Reqs], NEW c \in Requests,
         NEW op \in {"none", "schedule", "reopened", "resume", "retire", "healall", "select"},
         Goes(c, op) \/ Ends(c)
  PROVE  req' \in [Requests -> Reqs]
<1>1. [op |-> op] \in Reqs /\ NoRequest \in Reqs
  BY DEF Reqs, NoRequest
<1>2. QED
  BY <1>1 DEF Goes, Ends

LEMMA GoesForType ==
  ASSUME req \in [Requests -> Reqs], NEW c \in Requests, NEW op \in {"advance", "heal", "revive"},
         NEW head \in Heads, GoesFor(c, op, head)
  PROVE  req' \in [Requests -> Reqs]
<1>1. [op |-> op, head |-> head] \in Reqs
  BY DEF Reqs
<1>2. QED
  BY <1>1 DEF GoesFor

\* The helpers keep the types.
LEMMA OffType ==
  ASSUME NEW pc \in {"down", "off", "load", "closing"}
  PROVE  OffRunner(pc) \in Runner /\ OffRunner(pc).pc = pc /\ ~OffRunner(pc).valid
  BY BoundsAssumption DEF OffRunner, Runner, Facts, NoFact, Working

LEMMA SupersededType ==
  ASSUME runner \in [Processes -> Runner]
  PROVE  /\ Superseded \in [Processes -> Runner]
         /\ \A p \in Processes: ~Superseded[p].valid /\ Superseded[p].pc = runner[p].pc
  BY DEF Superseded, Runner

LEMMA ScheduledType ==
  ASSUME NEW f \in [Processes -> Runner], NEW p \in Processes
  PROVE  /\ Scheduled(f, p) \in [Processes -> Runner]
         /\ \A q \in Processes: Scheduled(f, p)[q].valid => Scheduled(f, p)[q] = f[q]
  BY OffType DEF Scheduled

LEMMA QueuedType ==
  ASSUME NEW head \in Heads \cup {NoHead}
  PROVE  Queued(head) \in Rows /\ Queued(head).phase = "queued" /\ Queued(head).head = head
  BY DEF Queued, Rows, Ended

\* queueForgejoReopenTx leaves restartable work, and changes nothing or
\* queues a row that was missing, projected or retired.
LEMMA ReopenQueues ==
  ASSUME NEW r \in Rows, NEW head \in Heads \cup {NoHead}
  PROVE  /\ QueuedForReopen(r, head) \in Rows
         /\ QueuedForReopen(r, head).phase \notin {"none", "projected"}
         /\ ~(QueuedForReopen(r, head).phase = "terminal" /\ QueuedForReopen(r, head).why = "retired")
         /\ QueuedForReopen(r, head) = r \/ QueuedForReopen(r, head) = Queued(head)
         /\ r.phase = "terminal" /\ r.why \in {"drift", "other"} => QueuedForReopen(r, head) = r
  BY QueuedType DEF QueuedForReopen, Revivable, Queued, Rows

LEMMA RetiredFacts ==
  ASSUME NEW r \in Rows
  PROVE  /\ Retired(r) \in Rows /\ Retired(r).head = r.head
         /\ Retired(r).phase = r.phase \/ (~pr.open /\ Retired(r).phase = "terminal")
         /\ pr.open \/ r.phase \in Ended => Retired(r) = r
         /\ Retired(r) # r => Retired(r).due = "now"
  BY DEF Retired, Rows, Ended

\* Every way an attempt ends is a fenced mark that gives the claim up.
LEMMA AttemptEnds ==
  ASSUME TypeOK, NEW p \in Processes, Fail(p)
  PROVE  \E phase \in {"terminal", "retryable"}, why \in {"none", "admission", "drift", "other"},
            due \in {"now", "later"}, next \in Runner :
           ~next.valid /\ (phase = "terminal" => due = "now") /\ Mark(p, phase, why, due, next)
<1> DEFINE again(n) == [OffRunner("load") EXCEPT !.tries = n]
<1>1. OffRunner("closing") \in Runner /\ ~OffRunner("closing").valid
  BY OffType
<1>2. ASSUME NEW n \in 0..MaxTries - 1 PROVE again(n) \in Runner /\ ~again(n).valid
  BY OffType DEF Runner
<1>3. runner[p].tries \in 0..MaxTries - 1
  BY DEF TypeOK
<1>4. runner[p].tries + 1 < MaxTries => runner[p].tries + 1 \in 0..MaxTries - 1
  BY <1>3, BoundsAssumption
<1>5. again(runner[p].tries) \in Runner /\ ~again(runner[p].tries).valid
  BY <1>2, <1>3
<1>6. runner[p].tries + 1 < MaxTries =>
        again(runner[p].tries + 1) \in Runner /\ ~again(runner[p].tries + 1).valid
  BY <1>2, <1>4
<1> HIDE DEF again
<1>7. \/ \E why \in {"admission", "drift", "other"}: Mark(p, "terminal", why, "now", OffRunner("closing"))
      \/ Mark(p, "retryable", "none", "later", again(runner[p].tries))
      \/ /\ runner[p].tries + 1 < MaxTries
         /\ Mark(p, "retryable", "none", "later", again(runner[p].tries + 1))
      \/ Mark(p, "retryable", "none", "now", OffRunner("closing"))
  BY DEF Fail, again
<1>8. QED
  BY <1>1, <1>5, <1>6, <1>7

LEMMA HealedFacts ==
  ASSUME NEW r \in Rows
  PROVE  /\ Healed(r) \in Rows /\ Healed(r).head = r.head
         /\ Healed(r) = r \/ Healed(r).phase = "queued"
         /\ r.phase = "terminal" /\ r.why \in {"drift", "other"} => Healed(r) = r
  BY QueuedType DEF Healed, Queued, Rows

LEMMA TypeInit == Init => TypeOK
  BY BoundsAssumption, OffType DEF Init, TypeOK, Runner, Ended, Heads, NoRequest

LEMMA TypeStep == TypeOK /\ [Next]_vars => TypeOK'
<1> SUFFICES ASSUME TypeOK, [Next]_vars PROVE TypeOK'
  OBVIOUS
<1>0. Typed
  BY TypedFacts
<1> USE BoundsAssumption
<1>1. CASE PushHead
  BY <1>0, <1>1, FromParts DEF Typed, Pulls, Heads, PushHead
<1>2. CASE ClosePR
  BY <1>0, <1>2, FromParts DEF Typed, Pulls, ClosePR
<1>3. CASE RecordSynchronously
  BY <1>0, <1>3, FromParts DEF Typed, Pulls, RecordSynchronously
<1>4. CASE Retire
  BY <1>0, <1>4, FromParts, RetiredFacts DEF Typed, Retire
<1>5. CASE Elapse
  BY <1>0, <1>5, FromParts DEF Typed, Rows, Elapse
<1>6. ASSUME NEW c \in Requests, ReopenPR(c) PROVE TypeOK'
  <2>1. pr.gen + 1 \in 0..MaxGen
    BY <1>0, <1>6 DEF Typed, Pulls, ReopenPR
  <2>2. pr' \in Pulls
    BY <1>0, <1>6, <2>1 DEF Typed, Pulls, ReopenPR
  <2>3. row' \in Rows
    BY <1>0, <1>6, ReopenQueues DEF Typed, ReopenPR
  <2>4. runner' \in [Processes -> Runner]
    BY <1>0, <1>6, SupersededType DEF Typed, ReopenPR
  <2>5. req' \in [Requests -> Reqs]
    BY <1>0, <1>6, GoesType DEF Typed, ReopenPR
  <2>6. QED
    BY <1>0, <1>6, <2>2, <2>3, <2>4, <2>5, FromParts DEF Typed, ReopenPR
<1>7. ASSUME NEW c \in Requests, EnqueueRead(c) PROVE TypeOK'
  <2>1. [op |-> "fact", head |-> pr.head, pending |-> pr.pending] \in Reqs
    BY <1>0 DEF Typed, Pulls, Reqs
  <2>2. req' \in [Requests -> Reqs]
    BY <1>0, <1>7, <2>1 DEF Typed, EnqueueRead
  <2>3. QED
    BY <1>0, <1>7, <2>2, FromParts DEF Typed, EnqueueRead
<1>8. ASSUME NEW c \in Requests, Retry(c) PROVE TypeOK'
  BY <1>0, <1>8, FromParts, QueuedType, SupersededType, GoesType DEF Typed, Rows, Retry
<1>9. ASSUME NEW c \in Requests, Repair(c) PROVE TypeOK'
  BY <1>0, <1>9, FromParts, QueuedType, SupersededType, GoesType DEF Typed, Repair
<1>10. ASSUME NEW c \in Requests, Start(c) PROVE TypeOK'
  BY <1>0, <1>10, FromParts, OffType, GoesType DEF Typed, Start
<1>11. ASSUME NEW c \in Requests, EnqueueInsert(c) PROVE TypeOK'
  <2> DEFINE head == req[c].head
             inserted == IF row.phase = "none" THEN Queued(head) ELSE row
             revived == IF req[c].pending THEN QueuedForReopen(inserted, head) ELSE inserted
             heal == revived.phase = "terminal" /\ revived.why = "admission"
             advance == revived.phase # "terminal" /\ revived.head # head
  <2>1. head \in Heads /\ head \in Heads \cup {NoHead}
    BY <1>0, <1>11 DEF Typed, EnqueueInsert
  <2>2. inserted \in Rows
    BY <1>0, <2>1, QueuedType DEF Typed
  <2>3. revived \in Rows
    BY <2>1, <2>2, ReopenQueues
  <2>4. /\ row' = revived
        /\ runner' = IF revived = row THEN runner ELSE Superseded
        /\ IF heal \/ advance THEN GoesFor(c, IF heal THEN "heal" ELSE "advance", head)
                              ELSE Goes(c, "schedule")
        /\ UNCHANGED <<pr, recorded>>
    BY <1>11 DEF EnqueueInsert
  <2> HIDE DEF head, inserted, revived, heal, advance
  <2>5. req' \in [Requests -> Reqs]
    BY <1>0, <2>1, <2>4, GoesType, GoesForType DEF Typed
  <2>6. runner' \in [Processes -> Runner]
    BY <1>0, <2>4, SupersededType DEF Typed
  <2>7. QED
    BY <1>0, <2>3, <2>4, <2>5, <2>6, FromParts DEF Typed
<1>12. ASSUME NEW c \in Requests, EnqueueUpdate(c) PROVE TypeOK'
  BY <1>0, <1>12, FromParts, QueuedType, SupersededType, GoesType DEF Typed,
       EnqueueUpdate
<1>13. ASSUME NEW c \in Requests, Schedule(c) PROVE TypeOK'
  BY <1>0, <1>13, FromParts, ScheduledType, GoesType DEF Typed, Schedule
<1>14. ASSUME NEW c \in Requests, ResumeRead(c) PROVE TypeOK'
  <2>1. pr.head \in Heads
    BY <1>0 DEF Typed, Pulls
  <2>2. req' \in [Requests -> Reqs]
    BY <1>0, <1>14, <2>1, GoesType, GoesForType DEF Typed, ResumeRead
  <2>3. QED
    BY <1>0, <1>14, <2>2, FromParts DEF Typed, ResumeRead
<1>15. ASSUME NEW c \in Requests, ResumeRevive(c) PROVE TypeOK'
  BY <1>0, <1>15, FromParts, ReopenQueues, SupersededType, GoesType DEF Typed,
       ResumeRevive
<1>16. ASSUME NEW c \in Requests, ResumeRetire(c) PROVE TypeOK'
  BY <1>0, <1>16, FromParts, RetiredFacts, GoesType DEF Typed, ResumeRetire
<1>17. ASSUME NEW c \in Requests, ResumeHeal(c) PROVE TypeOK'
  BY <1>0, <1>17, FromParts, HealedFacts, GoesType DEF Typed, ResumeHeal
<1>18. ASSUME NEW c \in Requests, ResumeSelect(c) PROVE TypeOK'
  BY <1>0, <1>18, FromParts, GoesType DEF Typed, ResumeSelect
<1>19. ASSUME NEW c \in Requests, ReopenFails(c) PROVE TypeOK'
  BY <1>0, <1>19, FromParts, GoesType DEF Typed, ReopenFails
<1>20. ASSUME NEW p \in Processes, Crash(p) PROVE TypeOK'
  <2>1. NoRequest \in Reqs
    BY DEF NoRequest, Reqs
  <2>2. req' \in [Requests -> Reqs]
    BY <1>0, <1>20, <2>1 DEF Typed, Crash
  <2>3. QED
    BY <1>0, <1>20, <2>2, FromParts, OffType DEF Typed, Crash
<1>21. ASSUME NEW p \in Processes, LoadEnded(p) PROVE TypeOK'
  BY <1>0, <1>21, FromParts, OffType DEF Typed, LoadEnded
<1>22. ASSUME NEW p \in Processes, Claim(p) PROVE TypeOK'
  <2>1. row' \in Rows
    BY <1>0, <1>22 DEF Typed, Rows, Claim
  <2>2. runner' \in [Processes -> Runner]
    BY <1>0, <1>22, SupersededType DEF Typed, Runner, Claim
  <2>3. QED
    BY <1>0, <1>22, <2>1, <2>2, FromParts DEF Typed, Claim
<1>23. ASSUME NEW p \in Processes, Reload(p) PROVE TypeOK'
  <2> DEFINE f == [gen |-> pr.gen, head |-> row.head, pending |-> pr.pending]
  <2>1. f \in Facts
    BY <1>0 DEF Typed, Pulls, Rows, Facts
  <2>2. runner' = [runner EXCEPT ![p] = [runner[p] EXCEPT !.pc = "start", !.valid = TRUE, !.fact = f]]
    BY <1>0, <1>23 DEF Reload, Typed
  <2> HIDE DEF f
  <2>3. [runner[p] EXCEPT !.pc = "start", !.valid = TRUE, !.fact = f] \in Runner
    BY <1>0, <2>1 DEF Typed, Runner, Working
  <2>4. runner' \in [Processes -> Runner]
    BY <1>0, <2>2, <2>3 DEF Typed
  <2>5. QED
    BY <1>0, <1>23, <2>4, FromParts DEF Typed, Reload
<1>24. ASSUME NEW p \in Processes, StartPush(p) PROVE TypeOK'
  BY <1>0, <1>24, FromParts DEF Typed, Rows, Runner, Working, StartPush
<1>25. ASSUME NEW p \in Processes, ReopenProvider(p) PROVE TypeOK'
  <2>1. pr' \in Pulls
    BY <1>0, <1>25 DEF Typed, Pulls, ReopenProvider
  <2>2. runner' \in [Processes -> Runner]
    BY <1>0, <1>25 DEF Typed, Runner, Working, ReopenProvider, At
  <2>3. QED
    BY <1>0, <1>25, <2>1, <2>2, FromParts DEF Typed, ReopenProvider
<1>26. ASSUME NEW p \in Processes, PushRef(p) PROVE TypeOK'
  BY <1>0, <1>26, FromParts DEF Typed, Runner, Working, At, PushRef
<1>27. ASSUME NEW p \in Processes, Record(p) PROVE TypeOK'
  BY <1>0, <1>27, FromParts DEF Typed, Rows, Runner, Working, Record
<1>28. ASSUME NEW p \in Processes, Commit(p) PROVE TypeOK'
  <2>1. pr' \in Pulls
    BY <1>0, <1>28 DEF Typed, Pulls, Commit
  <2>2. row' \in Rows
    BY <1>0, <1>28 DEF Typed, Rows, Ended, Commit
  <2>3. runner' \in [Processes -> Runner]
    BY <1>0, <1>28, OffType DEF Typed, Commit
  <2>4. runner[p].fact.head \in Heads
    BY <1>0, <1>28 DEF Typed, Commit, SameFact, Pulls
  <2>5. QED
    BY <1>0, <1>28, <2>1, <2>2, <2>3, <2>4, FromParts DEF Typed, Commit
<1>29. ASSUME NEW p \in Processes, Fail(p) PROVE TypeOK'
  <2>1. PICK phase \in {"terminal", "retryable"}, why \in {"none", "admission", "drift", "other"},
             due \in {"now", "later"}, next \in Runner : Mark(p, phase, why, due, next)
    BY <1>29, AttemptEnds
  <2>2. row' \in Rows
    BY <1>0, <2>1 DEF Typed, Rows, Ended, Mark
  <2>3. runner' \in [Processes -> Runner]
    BY <1>0, <2>1 DEF Typed, Mark
  <2>4. QED
    BY <1>0, <1>29, <2>2, <2>3, FromParts DEF Typed, Fail
<1>30. ASSUME NEW p \in Processes, Finish(p) PROVE TypeOK'
  BY <1>0, <1>30, FromParts, OffType DEF Typed, Finish
<1>31. CASE UNCHANGED vars
  BY <1>0, <1>31, FromParts DEF Typed, vars
<1>. QED
  BY <1>1, <1>2, <1>3, <1>4, <1>5, <1>6, <1>7, <1>8, <1>9, <1>10, <1>11, <1>12, <1>13,
       <1>14, <1>15, <1>16, <1>17, <1>18, <1>19, <1>20, <1>21, <1>22, <1>23, <1>24,
       <1>25, <1>26, <1>27, <1>28, <1>29, <1>30, <1>31 DEF Next

LEMMA PendingStep == TypeOK /\ PendingHasWork /\ [Next]_vars => PendingHasWork'
<1> SUFFICES ASSUME TypeOK, PendingHasWork, [Next]_vars PROVE PendingHasWork'
  OBVIOUS
<1>0. Typed
  BY TypedFacts
<1> USE BoundsAssumption
<1>1. CASE PushHead
  BY <1>0, <1>1 DEF Typed, PendingHasWork, Rows, Ended, PushHead
<1>2. CASE ClosePR
  BY <1>0, <1>2 DEF Typed, PendingHasWork, Rows, Ended, ClosePR
<1>3. CASE RecordSynchronously
  BY <1>0, <1>3 DEF Typed, PendingHasWork, Rows, Ended, RecordSynchronously
<1>4. ASSUME NEW c \in Requests, EnqueueInsert(c) PROVE PendingHasWork'
  BY <1>0, <1>4, QueuedType, ReopenQueues, SupersededType DEF Typed, PendingHasWork, Rows,
       Ended, EnqueueInsert
<1>5. ASSUME NEW c \in Requests, EnqueueUpdate(c) PROVE PendingHasWork'
  BY <1>0, <1>5, QueuedType, SupersededType DEF Typed, PendingHasWork, Rows,
       Ended, EnqueueUpdate
<1>6. ASSUME NEW c \in Requests, Schedule(c) PROVE PendingHasWork'
  BY <1>0, <1>6, ScheduledType DEF Typed, PendingHasWork, Rows, Ended, Schedule
<1>7. ASSUME NEW c \in Requests, ReopenFails(c) PROVE PendingHasWork'
  BY <1>0, <1>7 DEF Typed, PendingHasWork, Rows, Ended, ReopenFails
<1>8. CASE Retire
  BY <1>0, <1>8, RetiredFacts DEF Typed, PendingHasWork, Rows, Ended, Retire
<1>9. CASE Elapse
  BY <1>0, <1>9 DEF Typed, PendingHasWork, Rows, Ended, Elapse
<1>10. ASSUME NEW c \in Requests, ReopenPR(c) PROVE PendingHasWork'
  BY <1>0, <1>10, ReopenQueues, SupersededType, QueuedType DEF Typed, PendingHasWork,
       Rows, Ended, ReopenPR
<1>11. ASSUME NEW c \in Requests, EnqueueRead(c) PROVE PendingHasWork'
  BY <1>0, <1>11 DEF Typed, PendingHasWork, Rows, Ended, EnqueueRead
<1>12. ASSUME NEW c \in Requests, Retry(c) PROVE PendingHasWork'
  BY <1>0, <1>12, QueuedType, SupersededType DEF Typed, PendingHasWork, Rows,
       Ended, Retry
<1>13. ASSUME NEW c \in Requests, Repair(c) PROVE PendingHasWork'
  BY <1>0, <1>13, QueuedType, SupersededType DEF Typed, PendingHasWork, Rows,
       Ended, Repair
<1>14. ASSUME NEW c \in Requests, Start(c) PROVE PendingHasWork'
  BY <1>0, <1>14, OffType DEF Typed, PendingHasWork, Rows, Ended, Start
<1>15. ASSUME NEW c \in Requests, ResumeRead(c) PROVE PendingHasWork'
  BY <1>0, <1>15 DEF Typed, PendingHasWork, Rows, Ended, ResumeRead
<1>16. ASSUME NEW c \in Requests, ResumeRevive(c) PROVE PendingHasWork'
  BY <1>0, <1>16, ReopenQueues, SupersededType, QueuedType DEF Typed, PendingHasWork, Rows, Ended, ResumeRevive
<1>17. ASSUME NEW c \in Requests, ResumeRetire(c) PROVE PendingHasWork'
  BY <1>0, <1>17, RetiredFacts DEF Typed, PendingHasWork, Rows, Ended, ResumeRetire
<1>18. ASSUME NEW c \in Requests, ResumeHeal(c) PROVE PendingHasWork'
  BY <1>0, <1>18, HealedFacts DEF Typed, PendingHasWork, Rows, Ended, ResumeHeal
<1>19. ASSUME NEW c \in Requests, ResumeSelect(c) PROVE PendingHasWork'
  BY <1>0, <1>19 DEF Typed, PendingHasWork, Rows, Ended, ResumeSelect
<1>20. ASSUME NEW p \in Processes, Crash(p) PROVE PendingHasWork'
  BY <1>0, <1>20, OffType DEF Typed, PendingHasWork, Rows, Ended, Crash
<1>21. ASSUME NEW p \in Processes, LoadEnded(p) PROVE PendingHasWork'
  BY <1>0, <1>21, OffType DEF Typed, PendingHasWork, Rows, Ended, LoadEnded
<1>22. ASSUME NEW p \in Processes, Claim(p) PROVE PendingHasWork'
  BY <1>0, <1>22, SupersededType DEF Typed, PendingHasWork, Rows, Ended, Claim
<1>23. ASSUME NEW p \in Processes, Reload(p) PROVE PendingHasWork'
  BY <1>0, <1>23 DEF Typed, PendingHasWork, Rows, Ended, Reload
<1>24. ASSUME NEW p \in Processes, StartPush(p) PROVE PendingHasWork'
  BY <1>0, <1>24 DEF Typed, PendingHasWork, Rows, Ended, StartPush, InScope
<1>25. ASSUME NEW p \in Processes, ReopenProvider(p) PROVE PendingHasWork'
  <2>1. pr'.open = pr.open /\ (pr'.pending => pr.pending) /\ row' = row
    BY <1>0, <1>25 DEF Typed, Pulls, ReopenProvider
  <2>2. QED
    BY <2>1 DEF PendingHasWork
<1>26. ASSUME NEW p \in Processes, PushRef(p) PROVE PendingHasWork'
  BY <1>0, <1>26 DEF Typed, PendingHasWork, Rows, Ended, PushRef, Holds,
       InScope, At
<1>27. ASSUME NEW p \in Processes, Record(p) PROVE PendingHasWork'
  BY <1>0, <1>27 DEF Typed, PendingHasWork, Rows, Ended, Record, Holds, InScope
<1>28. ASSUME NEW p \in Processes, Commit(p) PROVE PendingHasWork'
  BY <1>0, <1>28, OffType DEF Typed, PendingHasWork, Rows, Ended, Commit,
       Holds, InScope, SameFact
<1>29. ASSUME NEW p \in Processes, Fail(p) PROVE PendingHasWork'
  <2>1. PICK phase \in {"terminal", "retryable"}, why \in {"none", "admission", "drift", "other"},
             due \in {"now", "later"}, next \in Runner : Mark(p, phase, why, due, next)
    BY <1>29, AttemptEnds
  <2>2. row' = row \/ (row'.phase = phase /\ row'.why = why)
    BY <1>0, <2>1 DEF Typed, Rows, Mark
  <2>3. QED
    BY <1>29, <2>2 DEF Fail, PendingHasWork
<1>30. ASSUME NEW p \in Processes, Finish(p) PROVE PendingHasWork'
  BY <1>0, <1>30, OffType DEF Typed, PendingHasWork, Rows, Ended, Finish
<1>31. CASE UNCHANGED vars
  BY <1>31 DEF Typed, PendingHasWork, Rows, Ended, vars
<1>. QED
  BY <1>1, <1>2, <1>3, <1>4, <1>5, <1>6, <1>7, <1>8, <1>9, <1>10, <1>11, <1>12, <1>13,
       <1>14, <1>15, <1>16, <1>17, <1>18, <1>19, <1>20, <1>21, <1>22, <1>23, <1>24,
       <1>25, <1>26, <1>27, <1>28, <1>29, <1>30, <1>31 DEF Next

LEMMA HeadStep == TypeOK /\ ClaimedHead /\ [Next]_vars => ClaimedHead'
<1> SUFFICES ASSUME TypeOK, ClaimedHead, [Next]_vars PROVE ClaimedHead'
  OBVIOUS
<1>0. Typed
  BY TypedFacts
<1> USE BoundsAssumption
<1>1. CASE PushHead
  BY <1>0, <1>1 DEF Typed, ClaimedHead, Rows, Runner, PushHead
<1>2. CASE ClosePR
  BY <1>0, <1>2 DEF Typed, ClaimedHead, Rows, Runner, ClosePR
<1>3. CASE RecordSynchronously
  BY <1>0, <1>3 DEF Typed, ClaimedHead, Rows, Runner, RecordSynchronously
<1>4. ASSUME NEW c \in Requests, EnqueueInsert(c) PROVE ClaimedHead'
  BY <1>0, <1>4, QueuedType, ReopenQueues, SupersededType DEF Typed, ClaimedHead, Rows,
       Runner, EnqueueInsert
<1>5. ASSUME NEW c \in Requests, EnqueueUpdate(c) PROVE ClaimedHead'
  BY <1>0, <1>5, QueuedType, SupersededType DEF Typed, ClaimedHead, Rows,
       Runner, EnqueueUpdate
<1>6. ASSUME NEW c \in Requests, Schedule(c) PROVE ClaimedHead'
  BY <1>0, <1>6, ScheduledType DEF Typed, ClaimedHead, Rows, Runner, Schedule
<1>7. ASSUME NEW c \in Requests, ReopenFails(c) PROVE ClaimedHead'
  BY <1>0, <1>7 DEF Typed, ClaimedHead, Rows, Runner, ReopenFails
<1>8. CASE Retire
  BY <1>0, <1>8, RetiredFacts DEF Typed, ClaimedHead, Rows, Runner, Retire
<1>9. CASE Elapse
  BY <1>0, <1>9 DEF Typed, ClaimedHead, Rows, Runner, Elapse
<1>10. ASSUME NEW c \in Requests, ReopenPR(c) PROVE ClaimedHead'
  BY <1>0, <1>10, ReopenQueues, SupersededType, QueuedType DEF Typed, ClaimedHead, Rows,
       Runner, ReopenPR
<1>11. ASSUME NEW c \in Requests, EnqueueRead(c) PROVE ClaimedHead'
  BY <1>0, <1>11 DEF Typed, ClaimedHead, Rows, Runner, EnqueueRead
<1>12. ASSUME NEW c \in Requests, Retry(c) PROVE ClaimedHead'
  BY <1>0, <1>12, QueuedType, SupersededType DEF Typed, ClaimedHead, Rows,
       Runner, Retry
<1>13. ASSUME NEW c \in Requests, Repair(c) PROVE ClaimedHead'
  BY <1>0, <1>13, QueuedType, SupersededType DEF Typed, ClaimedHead, Rows,
       Runner, Repair
<1>14. ASSUME NEW c \in Requests, Start(c) PROVE ClaimedHead'
  BY <1>0, <1>14, OffType DEF Typed, ClaimedHead, Rows, Runner, Start
<1>15. ASSUME NEW c \in Requests, ResumeRead(c) PROVE ClaimedHead'
  BY <1>0, <1>15 DEF Typed, ClaimedHead, Rows, Runner, ResumeRead
<1>16. ASSUME NEW c \in Requests, ResumeRevive(c) PROVE ClaimedHead'
  BY <1>0, <1>16, ReopenQueues, SupersededType, QueuedType DEF Typed, ClaimedHead, Rows, Runner, ResumeRevive
<1>17. ASSUME NEW c \in Requests, ResumeRetire(c) PROVE ClaimedHead'
  BY <1>0, <1>17, RetiredFacts DEF Typed, ClaimedHead, Rows, Runner, ResumeRetire
<1>18. ASSUME NEW c \in Requests, ResumeHeal(c) PROVE ClaimedHead'
  BY <1>0, <1>18, HealedFacts DEF Typed, ClaimedHead, Rows, Runner, ResumeHeal
<1>19. ASSUME NEW c \in Requests, ResumeSelect(c) PROVE ClaimedHead'
  BY <1>0, <1>19 DEF Typed, ClaimedHead, Rows, Runner, ResumeSelect
<1>20. ASSUME NEW p \in Processes, Crash(p) PROVE ClaimedHead'
  BY <1>0, <1>20, OffType DEF Typed, ClaimedHead, Rows, Runner, Crash
<1>21. ASSUME NEW p \in Processes, LoadEnded(p) PROVE ClaimedHead'
  BY <1>0, <1>21, OffType DEF Typed, ClaimedHead, Rows, Runner, LoadEnded
<1>22. ASSUME NEW p \in Processes, Claim(p) PROVE ClaimedHead'
  BY <1>0, <1>22, SupersededType DEF Typed, ClaimedHead, Rows, Runner, Claim
<1>23. ASSUME NEW p \in Processes, Reload(p) PROVE ClaimedHead'
  BY <1>0, <1>23 DEF Typed, ClaimedHead, Rows, Runner, Reload
<1>24. ASSUME NEW p \in Processes, StartPush(p) PROVE ClaimedHead'
  BY <1>0, <1>24 DEF Typed, ClaimedHead, Rows, Runner, StartPush, InScope
<1>25. ASSUME NEW p \in Processes, ReopenProvider(p) PROVE ClaimedHead'
  BY <1>0, <1>25 DEF Typed, ClaimedHead, Rows, Runner, ReopenProvider, At
<1>26. ASSUME NEW p \in Processes, PushRef(p) PROVE ClaimedHead'
  BY <1>0, <1>26 DEF Typed, ClaimedHead, Rows, Runner, PushRef, Holds, InScope,
       At
<1>27. ASSUME NEW p \in Processes, Record(p) PROVE ClaimedHead'
  BY <1>0, <1>27 DEF Typed, ClaimedHead, Rows, Runner, Record, Holds, InScope
<1>28. ASSUME NEW p \in Processes, Commit(p) PROVE ClaimedHead'
  BY <1>0, <1>28, OffType DEF Typed, ClaimedHead, Rows, Runner, Commit, Holds,
       InScope, SameFact
<1>29. ASSUME NEW p \in Processes, Fail(p) PROVE ClaimedHead'
  <2>1. PICK phase \in {"terminal", "retryable"}, why \in {"none", "admission", "drift", "other"},
             due \in {"now", "later"}, next \in Runner : ~next.valid /\ Mark(p, phase, why, due, next)
    BY <1>29, AttemptEnds
  <2>2. row'.head = row.head
    BY <1>0, <2>1 DEF Typed, Rows, Mark
  <2>3. QED
    BY <1>0, <2>1, <2>2 DEF Typed, Mark, ClaimedHead
<1>30. ASSUME NEW p \in Processes, Finish(p) PROVE ClaimedHead'
  BY <1>0, <1>30, OffType DEF Typed, ClaimedHead, Rows, Runner, Finish
<1>31. CASE UNCHANGED vars
  BY <1>31 DEF Typed, ClaimedHead, Rows, Runner, vars
<1>. QED
  BY <1>1, <1>2, <1>3, <1>4, <1>5, <1>6, <1>7, <1>8, <1>9, <1>10, <1>11, <1>12, <1>13,
       <1>14, <1>15, <1>16, <1>17, <1>18, <1>19, <1>20, <1>21, <1>22, <1>23, <1>24,
       <1>25, <1>26, <1>27, <1>28, <1>29, <1>30, <1>31 DEF Next

LEMMA RecordedStep == TypeOK /\ ClaimedHead /\ ProjectedRecorded /\ [Next]_vars => ProjectedRecorded'
<1> SUFFICES ASSUME TypeOK, ClaimedHead, ProjectedRecorded, [Next]_vars PROVE ProjectedRecorded'
  OBVIOUS
<1>0. Typed
  BY TypedFacts
<1> USE BoundsAssumption
<1>1. CASE PushHead
  BY <1>0, <1>1 DEF Typed, ProjectedRecorded, ClaimedHead, Rows, Runner, Ended,
       PushHead
<1>2. CASE ClosePR
  BY <1>0, <1>2 DEF Typed, ProjectedRecorded, ClaimedHead, Rows, Runner, Ended,
       ClosePR
<1>3. CASE RecordSynchronously
  BY <1>0, <1>3 DEF Typed, ProjectedRecorded, ClaimedHead, Rows, Runner, Ended,
       RecordSynchronously
<1>4. ASSUME NEW c \in Requests, EnqueueInsert(c) PROVE ProjectedRecorded'
  BY <1>0, <1>4, QueuedType, ReopenQueues, SupersededType DEF Typed, ProjectedRecorded,
       ClaimedHead, Rows, Runner, Ended, EnqueueInsert
<1>5. ASSUME NEW c \in Requests, EnqueueUpdate(c) PROVE ProjectedRecorded'
  BY <1>0, <1>5, QueuedType, SupersededType DEF Typed, ProjectedRecorded, ClaimedHead,
       Rows, Runner, Ended, EnqueueUpdate
<1>6. ASSUME NEW c \in Requests, Schedule(c) PROVE ProjectedRecorded'
  BY <1>0, <1>6, ScheduledType DEF Typed, ProjectedRecorded, ClaimedHead, Rows,
       Runner, Ended, Schedule
<1>7. ASSUME NEW c \in Requests, ReopenFails(c) PROVE ProjectedRecorded'
  BY <1>0, <1>7 DEF Typed, ProjectedRecorded, ClaimedHead, Rows, Runner, Ended,
       ReopenFails
<1>8. CASE Retire
  BY <1>0, <1>8, RetiredFacts DEF Typed, ProjectedRecorded, ClaimedHead, Rows,
       Runner, Ended, Retire
<1>9. CASE Elapse
  BY <1>0, <1>9 DEF Typed, ProjectedRecorded, ClaimedHead, Rows, Runner, Ended,
       Elapse
<1>10. ASSUME NEW c \in Requests, ReopenPR(c) PROVE ProjectedRecorded'
  BY <1>0, <1>10, ReopenQueues, SupersededType, QueuedType DEF Typed, ProjectedRecorded,
       ClaimedHead, Rows, Runner, Ended, ReopenPR
<1>11. ASSUME NEW c \in Requests, EnqueueRead(c) PROVE ProjectedRecorded'
  BY <1>0, <1>11 DEF Typed, ProjectedRecorded, ClaimedHead, Rows, Runner,
       Ended, EnqueueRead
<1>12. ASSUME NEW c \in Requests, Retry(c) PROVE ProjectedRecorded'
  BY <1>0, <1>12, QueuedType, SupersededType DEF Typed, ProjectedRecorded, ClaimedHead,
       Rows, Runner, Ended, Retry
<1>13. ASSUME NEW c \in Requests, Repair(c) PROVE ProjectedRecorded'
  BY <1>0, <1>13, QueuedType, SupersededType DEF Typed, ProjectedRecorded, ClaimedHead,
       Rows, Runner, Ended, Repair
<1>14. ASSUME NEW c \in Requests, Start(c) PROVE ProjectedRecorded'
  BY <1>0, <1>14, OffType DEF Typed, ProjectedRecorded, ClaimedHead, Rows, Runner, Ended, Start
<1>15. ASSUME NEW c \in Requests, ResumeRead(c) PROVE ProjectedRecorded'
  BY <1>0, <1>15 DEF Typed, ProjectedRecorded, ClaimedHead, Rows, Runner, Ended, ResumeRead
<1>16. ASSUME NEW c \in Requests, ResumeRevive(c) PROVE ProjectedRecorded'
  BY <1>0, <1>16, ReopenQueues, SupersededType, QueuedType DEF Typed, ProjectedRecorded, ClaimedHead, Rows, Runner, Ended, ResumeRevive
<1>17. ASSUME NEW c \in Requests, ResumeRetire(c) PROVE ProjectedRecorded'
  BY <1>0, <1>17, RetiredFacts DEF Typed, ProjectedRecorded, ClaimedHead, Rows, Runner, Ended, ResumeRetire
<1>18. ASSUME NEW c \in Requests, ResumeHeal(c) PROVE ProjectedRecorded'
  BY <1>0, <1>18, HealedFacts DEF Typed, ProjectedRecorded, ClaimedHead, Rows, Runner, Ended, ResumeHeal
<1>19. ASSUME NEW c \in Requests, ResumeSelect(c) PROVE ProjectedRecorded'
  BY <1>0, <1>19 DEF Typed, ProjectedRecorded, ClaimedHead, Rows, Runner, Ended, ResumeSelect
<1>20. ASSUME NEW p \in Processes, Crash(p) PROVE ProjectedRecorded'
  BY <1>0, <1>20, OffType DEF Typed, ProjectedRecorded, ClaimedHead, Rows,
       Runner, Ended, Crash
<1>21. ASSUME NEW p \in Processes, LoadEnded(p) PROVE ProjectedRecorded'
  BY <1>0, <1>21, OffType DEF Typed, ProjectedRecorded, ClaimedHead, Rows,
       Runner, Ended, LoadEnded
<1>22. ASSUME NEW p \in Processes, Claim(p) PROVE ProjectedRecorded'
  BY <1>0, <1>22, SupersededType DEF Typed, ProjectedRecorded, ClaimedHead, Rows,
       Runner, Ended, Claim
<1>23. ASSUME NEW p \in Processes, Reload(p) PROVE ProjectedRecorded'
  BY <1>0, <1>23 DEF Typed, ProjectedRecorded, ClaimedHead, Rows, Runner,
       Ended, Reload
<1>24. ASSUME NEW p \in Processes, StartPush(p) PROVE ProjectedRecorded'
  BY <1>0, <1>24 DEF Typed, ProjectedRecorded, ClaimedHead, Rows, Runner,
       Ended, StartPush, InScope
<1>25. ASSUME NEW p \in Processes, ReopenProvider(p) PROVE ProjectedRecorded'
  BY <1>0, <1>25 DEF Typed, ProjectedRecorded, ClaimedHead, Rows, Runner,
       Ended, ReopenProvider, At
<1>26. ASSUME NEW p \in Processes, PushRef(p) PROVE ProjectedRecorded'
  BY <1>0, <1>26 DEF Typed, ProjectedRecorded, ClaimedHead, Rows, Runner,
       Ended, PushRef, Holds, InScope, At
<1>27. ASSUME NEW p \in Processes, Record(p) PROVE ProjectedRecorded'
  BY <1>0, <1>27 DEF Typed, ProjectedRecorded, ClaimedHead, Rows, Runner,
       Ended, Record, Holds, InScope
<1>28. ASSUME NEW p \in Processes, Commit(p) PROVE ProjectedRecorded'
  BY <1>0, <1>28, OffType DEF Typed, ProjectedRecorded, ClaimedHead, Rows,
       Runner, Ended, Commit, Holds, InScope, SameFact
<1>29. ASSUME NEW p \in Processes, Fail(p) PROVE ProjectedRecorded'
  <2>1. PICK phase \in {"terminal", "retryable"}, why \in {"none", "admission", "drift", "other"},
             due \in {"now", "later"}, next \in Runner : Mark(p, phase, why, due, next)
    BY <1>29, AttemptEnds
  <2>2. row' = row \/ row'.phase # "projected"
    BY <1>0, <2>1 DEF Typed, Rows, Mark
  <2>3. QED
    BY <2>2, <1>29 DEF Fail, ProjectedRecorded
<1>30. ASSUME NEW p \in Processes, Finish(p) PROVE ProjectedRecorded'
  BY <1>0, <1>30, OffType DEF Typed, ProjectedRecorded, ClaimedHead, Rows,
       Runner, Ended, Finish
<1>31. CASE UNCHANGED vars
  BY <1>31 DEF Typed, ProjectedRecorded, ClaimedHead, Rows, Runner, Ended, vars
<1>. QED
  BY <1>1, <1>2, <1>3, <1>4, <1>5, <1>6, <1>7, <1>8, <1>9, <1>10, <1>11, <1>12, <1>13,
       <1>14, <1>15, <1>16, <1>17, <1>18, <1>19, <1>20, <1>21, <1>22, <1>23, <1>24,
       <1>25, <1>26, <1>27, <1>28, <1>29, <1>30, <1>31 DEF Next

LEMMA SettledStep == TypeOK /\ SettledNow /\ [Next]_vars => SettledNow'
<1> SUFFICES ASSUME TypeOK, SettledNow, [Next]_vars PROVE SettledNow'
  OBVIOUS
<1>0. Typed
  BY TypedFacts
<1> USE BoundsAssumption
<1>1. CASE PushHead
  BY <1>0, <1>1 DEF Typed, SettledNow, Rows, Runner, Ended, PushHead
<1>2. CASE ClosePR
  BY <1>0, <1>2 DEF Typed, SettledNow, Rows, Runner, Ended, ClosePR
<1>3. CASE RecordSynchronously
  BY <1>0, <1>3 DEF Typed, SettledNow, Rows, Runner, Ended, RecordSynchronously
<1>4. ASSUME NEW c \in Requests, EnqueueInsert(c) PROVE SettledNow'
  BY <1>0, <1>4, QueuedType, ReopenQueues, SupersededType DEF Typed, SettledNow, Rows,
       Runner, Ended, EnqueueInsert
<1>5. ASSUME NEW c \in Requests, EnqueueUpdate(c) PROVE SettledNow'
  BY <1>0, <1>5, QueuedType, SupersededType DEF Typed, SettledNow, Rows,
       Runner, Ended, EnqueueUpdate
<1>6. ASSUME NEW c \in Requests, Schedule(c) PROVE SettledNow'
  BY <1>0, <1>6, ScheduledType DEF Typed, SettledNow, Rows, Runner, Ended,
       Schedule
<1>7. ASSUME NEW c \in Requests, ReopenFails(c) PROVE SettledNow'
  BY <1>0, <1>7 DEF Typed, SettledNow, Rows, Runner, Ended, ReopenFails
<1>8. CASE Retire
  BY <1>0, <1>8, RetiredFacts DEF Typed, SettledNow, Rows, Runner, Ended,
       Retire
<1>9. CASE Elapse
  BY <1>0, <1>9 DEF Typed, SettledNow, Rows, Runner, Ended, Elapse
<1>10. ASSUME NEW c \in Requests, ReopenPR(c) PROVE SettledNow'
  BY <1>0, <1>10, ReopenQueues, SupersededType, QueuedType DEF Typed, SettledNow, Rows,
       Runner, Ended, ReopenPR
<1>11. ASSUME NEW c \in Requests, EnqueueRead(c) PROVE SettledNow'
  BY <1>0, <1>11 DEF Typed, SettledNow, Rows, Runner, Ended, EnqueueRead
<1>12. ASSUME NEW c \in Requests, Retry(c) PROVE SettledNow'
  BY <1>0, <1>12, QueuedType, SupersededType DEF Typed, SettledNow, Rows,
       Runner, Ended, Retry
<1>13. ASSUME NEW c \in Requests, Repair(c) PROVE SettledNow'
  BY <1>0, <1>13, QueuedType, SupersededType DEF Typed, SettledNow, Rows,
       Runner, Ended, Repair
<1>14. ASSUME NEW c \in Requests, Start(c) PROVE SettledNow'
  BY <1>0, <1>14, OffType DEF Typed, SettledNow, Rows, Runner, Ended, Start
<1>15. ASSUME NEW c \in Requests, ResumeRead(c) PROVE SettledNow'
  BY <1>0, <1>15 DEF Typed, SettledNow, Rows, Runner, Ended, ResumeRead
<1>16. ASSUME NEW c \in Requests, ResumeRevive(c) PROVE SettledNow'
  BY <1>0, <1>16, ReopenQueues, SupersededType, QueuedType DEF Typed, SettledNow, Rows, Runner, Ended, ResumeRevive
<1>17. ASSUME NEW c \in Requests, ResumeRetire(c) PROVE SettledNow'
  BY <1>0, <1>17, RetiredFacts DEF Typed, SettledNow, Rows, Runner, Ended, ResumeRetire
<1>18. ASSUME NEW c \in Requests, ResumeHeal(c) PROVE SettledNow'
  BY <1>0, <1>18, HealedFacts DEF Typed, SettledNow, Rows, Runner, Ended, ResumeHeal
<1>19. ASSUME NEW c \in Requests, ResumeSelect(c) PROVE SettledNow'
  BY <1>0, <1>19 DEF Typed, SettledNow, Rows, Runner, Ended, ResumeSelect
<1>20. ASSUME NEW p \in Processes, Crash(p) PROVE SettledNow'
  BY <1>0, <1>20, OffType DEF Typed, SettledNow, Rows, Runner, Ended, Crash
<1>21. ASSUME NEW p \in Processes, LoadEnded(p) PROVE SettledNow'
  BY <1>0, <1>21, OffType DEF Typed, SettledNow, Rows, Runner, Ended, LoadEnded
<1>22. ASSUME NEW p \in Processes, Claim(p) PROVE SettledNow'
  BY <1>0, <1>22, SupersededType DEF Typed, SettledNow, Rows, Runner, Ended,
       Claim
<1>23. ASSUME NEW p \in Processes, Reload(p) PROVE SettledNow'
  BY <1>0, <1>23 DEF Typed, SettledNow, Rows, Runner, Ended, Reload
<1>24. ASSUME NEW p \in Processes, StartPush(p) PROVE SettledNow'
  BY <1>0, <1>24 DEF Typed, SettledNow, Rows, Runner, Ended, StartPush, InScope
<1>25. ASSUME NEW p \in Processes, ReopenProvider(p) PROVE SettledNow'
  BY <1>0, <1>25 DEF Typed, SettledNow, Rows, Runner, Ended, ReopenProvider, At
<1>26. ASSUME NEW p \in Processes, PushRef(p) PROVE SettledNow'
  BY <1>0, <1>26 DEF Typed, SettledNow, Rows, Runner, Ended, PushRef, Holds,
       InScope, At
<1>27. ASSUME NEW p \in Processes, Record(p) PROVE SettledNow'
  BY <1>0, <1>27 DEF Typed, SettledNow, Rows, Runner, Ended, Record, Holds,
       InScope
<1>28. ASSUME NEW p \in Processes, Commit(p) PROVE SettledNow'
  BY <1>0, <1>28, OffType DEF Typed, SettledNow, Rows, Runner, Ended, Commit,
       Holds, InScope, SameFact
<1>29. ASSUME NEW p \in Processes, Fail(p) PROVE SettledNow'
  BY <1>0, <1>29, OffType DEF Typed, SettledNow, Rows, Runner, Ended, Fail,
       Mark, MayMark
<1>30. ASSUME NEW p \in Processes, Finish(p) PROVE SettledNow'
  BY <1>0, <1>30, OffType DEF Typed, SettledNow, Rows, Runner, Ended, Finish
<1>31. CASE UNCHANGED vars
  BY <1>31 DEF Typed, SettledNow, Rows, Runner, Ended, vars
<1>. QED
  BY <1>1, <1>2, <1>3, <1>4, <1>5, <1>6, <1>7, <1>8, <1>9, <1>10, <1>11, <1>12, <1>13,
       <1>14, <1>15, <1>16, <1>17, <1>18, <1>19, <1>20, <1>21, <1>22, <1>23, <1>24,
       <1>25, <1>26, <1>27, <1>28, <1>29, <1>30, <1>31 DEF Next

---------------------------------------------------------------------------
\* The invariant holds in every reachable state of the job.
THEOREM JobsInvariant == Spec => []JobsInv
<1>1. Init => JobsInv
  BY TypeInit
  DEF Init, JobsInv, PendingHasWork, ClaimedHead, ProjectedRecorded, SettledNow, OffRunner, Ended
<1>2. JobsInv /\ [Next]_vars => JobsInv'
  BY TypeStep, PendingStep, HeadStep, RecordedStep, SettledStep DEF JobsInv
<1>3. QED
  BY <1>1, <1>2, PTL DEF Spec

\* Every variable keeps its type.
THEOREM JobsTypeCorrect == Spec => []TypeOK
<1>1. JobsInv => TypeOK
  BY DEF JobsInv
<1>2. QED
  BY <1>1, JobsInvariant, PTL

\* queueForgejoReopenTx and its callers: a reopen that waits for its
\* confirmation always has restartable work.
THEOREM PendingReopensHaveWork == Spec => []PendingHasWork
<1>1. JobsInv => PendingHasWork
  BY DEF JobsInv
<1>2. QED
  BY <1>1, JobsInvariant, PTL

\* completeGenericForgejoPullRequestProjection: a projected job has had the
\* mapping for its own head committed.
THEOREM ProjectedAreRecorded == Spec => []ProjectedRecorded
<1>1. JobsInv => ProjectedRecorded
  BY DEF JobsInv
<1>2. QED
  BY <1>1, JobsInvariant, PTL

\* A terminal failure is left only through the repair of a diverged branch.
THEOREM TerminalsAreKept == Spec => TerminalKept
<1>1. JobsInv /\ [Next]_vars =>
        [row.phase = "terminal" /\ row.why \in {"drift", "other"} /\ row' # row =>
           row.why = "drift" /\ \E c \in Requests: Repair(c)]_vars
  <2> SUFFICES ASSUME JobsInv, Next, row.phase = "terminal", row.why \in {"drift", "other"}, row' # row
               PROVE  row.why = "drift" /\ \E c \in Requests: Repair(c)
    OBVIOUS
  <2>0. Typed /\ row.due = "now"
    BY TypedFacts DEF JobsInv, SettledNow, Ended
  <2>1. row' = row \/ \E c \in Requests: Repair(c)
    <3>1. ASSUME NEW c \in Requests, EnqueueInsert(c) PROVE row' = row
      BY <2>0, <3>1, ReopenQueues DEF Typed, EnqueueInsert
    <3>2. ASSUME NEW c \in Requests, EnqueueUpdate(c) PROVE row' = row
      BY <3>2 DEF EnqueueUpdate, Requeues
    <3>3. ASSUME Retire \/ \E c \in Requests: ResumeRetire(c) PROVE row' = row
      BY <2>0, <3>3, RetiredFacts DEF Typed, Retire, ResumeRetire, Ended
    <3>4. ASSUME NEW c \in Requests, ReopenPR(c) \/ ResumeRevive(c) PROVE row' = row
      BY <2>0, <3>4, ReopenQueues DEF Typed, ReopenPR, ResumeRevive
    <3>5. ASSUME NEW c \in Requests, ResumeHeal(c) PROVE row' = row
      BY <2>0, <3>5, HealedFacts DEF Typed, ResumeHeal
    <3>6. ASSUME NEW p \in Processes, Fail(p) PROVE row' = row
      BY <3>6 DEF Fail, Mark, MayMark, Ended
    <3>7. ASSUME NEW p \in Processes, \/ Claim(p) \/ StartPush(p) \/ Record(p) \/ Commit(p)
          PROVE  row' = row
      BY <3>7 DEF Claim, StartPush, Record, Commit, Holds, InScope, Ended
    <3>8. ASSUME NEW c \in Requests, Retry(c) PROVE row' = row
      BY <3>8 DEF Retry, Ended
    <3>9. QED
      BY <2>0, <3>1, <3>2, <3>3, <3>4, <3>5, <3>6, <3>7, <3>8
      DEF Next, PushHead, ClosePR, RecordSynchronously, Elapse, EnqueueRead, Schedule, Start, ResumeRead,
          ResumeSelect, ReopenFails, Crash, LoadEnded, Reload, ReopenProvider, PushRef, Finish
  <2>2. QED
    BY <2>1 DEF Repair
<1>2. QED
  BY <1>1, JobsInvariant, PTL DEF Spec, TerminalKept

===========================================================================
