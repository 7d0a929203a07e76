---------------------------- MODULE ForgejoJobs ----------------------------
(***************************************************************************)
(* The durable job that projects one pull request to Forgejo.  Requests    *)
(* queue, retry, repair or resume the job row, several at a time; in each  *)
(* process at most one runner works on it, guarded by an in-process lock   *)
(* that a scheduling attempt finds taken or not.  A runner loads the row,  *)
(* claims it by a compare and set on updated_at, reads it again, writes to *)
(* the provider and commits the mapping together with the projected phase. *)
(*                                                                         *)
(* The attempt column is the generation of a claim.  Only whether a runner *)
(* still carries the row's attempt matters, so the model keeps that as a   *)
(* flag instead of the number: it bounds no counter.  Time is the flag due *)
(* of the row: "later" is a lease or a retry delay that has not run out.   *)
(***************************************************************************)
EXTENDS Integers, FiniteSets

CONSTANTS
  Processes,  \* server processes that share the database
  Requests,   \* API requests and startup resumes that may be in flight
  ProcessOf,  \* the process that serves a request
  MaxTries,   \* ForgejoProjectionWorkerMaxAttempts: attempts per run
  MaxHead,    \* bound on head commits of the pull request
  MaxGen      \* bound on native reopens

ASSUME BoundsAssumption ==
  /\ MaxTries \in Nat \ {0} /\ MaxHead \in Nat \ {0} /\ MaxGen \in Nat
  /\ ProcessOf \in [Requests -> Processes]

VARIABLES
  pr,        \* the native row: open, gen, head, pending
  row,       \* the projection job: phase, due, head, why
  runner,    \* per process: pc, tries, valid, fact
  req,       \* per request: its next step and what it has read
  recorded   \* heads whose mapping has been committed

vars == <<pr, row, runner, req, recorded>>

Heads == 1..MaxHead
NoHead == 0
Ended == {"projected", "terminal"}   \* forgejoProjectionTerminalPhases
Working == {"start", "reopen", "push", "record", "commit"}

Facts == [gen: 0..MaxGen, head: Heads \cup {NoHead}, pending: BOOLEAN]
NoFact == [gen |-> 0, head |-> NoHead, pending |-> FALSE]
NoRequest == [op |-> "none"]

TypeOK ==
  /\ pr \in [open: BOOLEAN, gen: 0..MaxGen, head: Heads, pending: BOOLEAN]
  /\ row \in [phase: {"none", "queued", "preflight", "pushing", "recording", "retryable"} \cup Ended,
              due: {"now", "later"}, head: Heads \cup {NoHead},
              why: {"none", "retired", "admission", "drift", "other"}]
  /\ runner \in [Processes -> [pc: {"down", "off", "load", "reload", "closing"} \cup Working,
                               tries: 0..MaxTries - 1, valid: BOOLEAN, fact: Facts]]
  /\ req \in [Requests -> [op: {"none", "schedule", "reopened", "resume", "retire", "healall", "select"}]
                          \cup [op: {"advance", "heal", "revive"}, head: Heads]
                          \cup [op: {"fact"}, head: Heads, pending: BOOLEAN]]
  /\ recorded \subseteq Heads

OffRunner(pc) == [pc |-> pc, tries |-> 0, valid |-> FALSE, fact |-> NoFact]

\* A new pull request without a job.
Init ==
  /\ pr = [open |-> TRUE, gen |-> 0, head |-> 1, pending |-> FALSE]
  /\ row = [phase |-> "none", due |-> "now", head |-> NoHead, why |-> "none"]
  /\ runner = [p \in Processes |-> OffRunner("off")]
  /\ req = [c \in Requests |-> NoRequest]
  /\ recorded = {}

---------------------------------------------------------------------------
(***************************************************************************)
(* Row writes.  A write that advances attempt takes the row away from the  *)
(* runner that claimed it.                                                 *)
(***************************************************************************)
Superseded == [p \in Processes |-> [runner[p] EXCEPT !.valid = FALSE]]

Queued(head) == [phase |-> "queued", due |-> "now", head |-> head, why |-> "none"]

\* Mutant: a retired row stays.
RevivableProjected(r) == r.phase \in {"none", "projected"}

\* queueForgejoReopenTx: a missing, projected or retired row becomes queued;
\* active claims and other terminal failures are left alone.
Revivable(r) == r.phase \in {"none", "projected"} \/ (r.phase = "terminal" /\ r.why = "retired")
QueuedForReopen(r, head) == IF Revivable(r) THEN Queued(head) ELSE r

\* terminalizeClosedForgejoProjectionJobs.
Retired(r) ==
  IF ~pr.open /\ r.phase \notin Ended \cup {"none"}
    THEN [r EXCEPT !.phase = "terminal", !.why = "retired", !.due = "now"]
    ELSE r

\* requeueGenericForgejoSessionAdmissionJobs: without a new attempt.
Healed(r) ==
  IF r.phase = "terminal" /\ r.why = "admission" THEN Queued(r.head) ELSE r

\* scheduleForgejoProjectionJob: nothing when the process has a runner.
Scheduled(f, p) ==
  IF f[p].pc = "off" THEN [f EXCEPT ![p] = OffRunner("load")] ELSE f

---------------------------------------------------------------------------
(***************************************************************************)
(* The pull request.                                                       *)
(***************************************************************************)
PushHead ==
  /\ pr.open /\ pr.head < MaxHead
  /\ pr' = [pr EXCEPT !.head = @ + 1]
  /\ UNCHANGED <<row, runner, req, recorded>>

ClosePR ==
  /\ pr.open
  /\ pr' = [pr EXCEPT !.open = FALSE]
  /\ UNCHANGED <<row, runner, req, recorded>>

\* A request starts in a process that is up.
Starts(c) == req[c] = NoRequest /\ runner[ProcessOf[c]].pc # "down"
Goes(c, op) == req' = [req EXCEPT ![c] = [op |-> op]]
GoesFor(c, op, head) == req' = [req EXCEPT ![c] = [op |-> op, head |-> head]]
Ends(c) == req' = [req EXCEPT ![c] = NoRequest]

\* UpdatePR to open: intent and job in one transaction, then a resume.
ReopenPR(c) ==
  /\ ~pr.open /\ pr.gen < MaxGen /\ Starts(c)
  /\ pr' = [pr EXCEPT !.open = TRUE, !.gen = @ + 1, !.pending = TRUE]
  /\ row' = QueuedForReopen(row, pr.head)
  /\ runner' = IF row' = row THEN runner ELSE Superseded
  /\ Goes(c, "reopened")
  /\ UNCHANGED <<recorded>>

\* The synchronous dispatch records the mapping and consumes the intent.
RecordSynchronously ==
  /\ pr.open
  /\ pr' = [pr EXCEPT !.pending = FALSE]
  /\ recorded' = recorded \cup {pr.head}
  /\ UNCHANGED <<row, runner, req>>

---------------------------------------------------------------------------
(***************************************************************************)
(* Requests.                                                               *)
(***************************************************************************)
\* EnqueueForgejoPullRequestProjection reads the pull request once.
EnqueueRead(c) ==
  /\ Starts(c) /\ pr.open
  /\ req' = [req EXCEPT ![c] = [op |-> "fact", head |-> pr.head, pending |-> pr.pending]]
  /\ UNCHANGED <<pr, row, runner, recorded>>

\* It creates the row unless there is one, revives it for a pending reopen
\* and decides from what it then reads.
EnqueueInsert(c) ==
  /\ req[c].op = "fact"
  /\ LET head == req[c].head
         inserted == IF row.phase = "none" THEN Queued(head) ELSE row
         revived == IF req[c].pending THEN QueuedForReopen(inserted, head) ELSE inserted
         heal == revived.phase = "terminal" /\ revived.why = "admission"
         advance == revived.phase # "terminal" /\ revived.head # head
     IN /\ row' = revived
        /\ runner' = IF revived = row THEN runner ELSE Superseded
        /\ IF heal \/ advance THEN GoesFor(c, IF heal THEN "heal" ELSE "advance", head)
                              ELSE Goes(c, "schedule")
  /\ UNCHANGED <<pr, recorded>>

\* Mutant: the requeue tests nothing.
RequeuesWhatever(r, op) == TRUE

\* The requeue repeats the phase test, not the comparison of heads.
Requeues(r, op) ==
  IF op = "heal" THEN r.phase = "terminal" /\ r.why = "admission" ELSE r.phase # "terminal"

\* Mutant: the row gets the head and its runner goes on.
EnqueueInPlace(c) ==
  /\ req[c].op \in {"heal", "advance"}
  /\ row' = IF Requeues(row, req[c].op) THEN [row EXCEPT !.head = req[c].head] ELSE row
  /\ Goes(c, "schedule")
  /\ UNCHANGED <<pr, runner, recorded>>

EnqueueUpdate(c) ==
  /\ req[c].op \in {"heal", "advance"}
  /\ IF Requeues(row, req[c].op)
       THEN row' = Queued(req[c].head) /\ runner' = Superseded
       ELSE UNCHANGED <<row, runner>>
  /\ Goes(c, "schedule")
  /\ UNCHANGED <<pr, recorded>>

Schedule(c) ==
  /\ req[c].op = "schedule"
  /\ runner' = Scheduled(runner, ProcessOf[c])
  /\ Ends(c)
  /\ UNCHANGED <<pr, row, recorded>>

\* RetryForgejoPullRequestProjection: read and compare-and-set as one step.
Retry(c) ==
  /\ Starts(c)
  /\ row.phase \notin Ended \cup {"none"}
  /\ row' = Queued(row.head)
  /\ runner' = Superseded
  /\ Goes(c, "schedule")
  /\ UNCHANGED <<pr, recorded>>

\* RepairForgejoPullRequestProjectionAuthority: the operator has confirmed the
\* current head, and the failure is that the provider's branch has diverged.
Repair(c) ==
  /\ Starts(c) /\ pr.open
  /\ row.phase = "terminal" /\ row.why = "drift"
  /\ row' = Queued(pr.head)
  /\ runner' = Superseded
  /\ Goes(c, "schedule")
  /\ UNCHANGED <<pr, recorded>>

---------------------------------------------------------------------------
(***************************************************************************)
(* ResumePendingForgejoProjectionJobs, at startup and after a reopen: five *)
(* statements, each a transaction of its own.                              *)
(***************************************************************************)
\* A process starts and resumes.  (The code serves no other request before the
\* resume has returned; the model lets other requests of the process in.)
Start(c) ==
  /\ req[c] = NoRequest /\ runner[ProcessOf[c]].pc = "down"
  /\ runner' = [runner EXCEPT ![ProcessOf[c]] = OffRunner("off")]
  /\ Goes(c, "resume")
  /\ UNCHANGED <<pr, row, recorded>>

\* It reads the pull requests with a pending reopen.
ResumeRead(c) ==
  /\ req[c].op \in {"reopened", "resume"}
  /\ IF pr.open /\ pr.pending
       THEN GoesFor(c, "revive", pr.head)
       ELSE Goes(c, "retire")
  /\ UNCHANGED <<pr, row, runner, recorded>>

\* It revives the job of each, from what it read.
ResumeRevive(c) ==
  /\ req[c].op = "revive"
  /\ row' = QueuedForReopen(row, req[c].head)
  /\ runner' = IF row' = row THEN runner ELSE Superseded
  /\ Goes(c, "retire")
  /\ UNCHANGED <<pr, recorded>>

ResumeRetire(c) ==
  /\ req[c].op = "retire"
  /\ row' = Retired(row)
  /\ Goes(c, "healall")
  /\ UNCHANGED <<pr, runner, recorded>>

ResumeHeal(c) ==
  /\ req[c].op = "healall"
  /\ row' = Healed(row)
  /\ Goes(c, "select")
  /\ UNCHANGED <<pr, runner, recorded>>

\* It schedules what is not over.
ResumeSelect(c) ==
  /\ req[c].op = "select"
  /\ IF row.phase \in Ended \cup {"none"} THEN Ends(c) ELSE Goes(c, "schedule")
  /\ UNCHANGED <<pr, row, runner, recorded>>

\* UpdatePR returns early: the head of the reopened pull request could not be
\* read.  The queued row waits for the next resume.
ReopenFails(c) ==
  /\ req[c].op = "reopened"
  /\ Ends(c)
  /\ UNCHANGED <<pr, row, runner, recorded>>

\* Artifact retirement settles the jobs of closed pull requests.
Retire ==
  /\ row # Retired(row)
  /\ row' = Retired(row)
  /\ UNCHANGED <<pr, runner, req, recorded>>

Crash(p) ==
  /\ runner[p].pc # "down"
  /\ runner' = [runner EXCEPT ![p] = OffRunner("down")]
  /\ req' = [c \in Requests |-> IF ProcessOf[c] = p THEN NoRequest ELSE req[c]]
  /\ UNCHANGED <<pr, row, recorded>>

---------------------------------------------------------------------------
(***************************************************************************)
(* The runner.                                                             *)
(***************************************************************************)
At(p, pc) == [runner EXCEPT ![p].pc = pc]

\* The row is over: the run ends.
LoadEnded(p) ==
  /\ runner[p].pc = "load" /\ row.phase \in Ended
  /\ runner' = [runner EXCEPT ![p] = OffRunner("closing")]
  /\ UNCHANGED <<pr, row, req, recorded>>

\* A delay of the row is waited for and the row loaded again; then
\* claimGenericForgejoProjectionJob.  Its compare and set succeeds only on
\* the row that was loaded and otherwise loads it again, so load and claim
\* are one step.  An expired lease is taken over.
Claim(p) ==
  /\ runner[p].pc = "load" /\ row.phase \notin Ended /\ row.due = "now"
  /\ row' = [row EXCEPT !.phase = "preflight", !.due = "later"]
  /\ runner' = [Superseded EXCEPT ![p].pc = "reload"]
  /\ UNCHANGED <<pr, req, recorded>>

\* Its second read, outside any transaction: whatever generation is there.
Reload(p) ==
  /\ runner[p].pc = "reload"
  /\ runner' = [runner EXCEPT ![p].pc = "start", ![p].valid = TRUE,
                  ![p].fact = [gen |-> pr.gen, head |-> row.head, pending |-> pr.pending]]
  /\ UNCHANGED <<pr, row, req, recorded>>

\* projectionJobMutationScope within the attempt's deadline, which is the
\* lease of the row it claimed.
InScope(p) == runner[p].valid /\ row.due = "later" /\ row.phase \notin Ended
\* revalidateGenericProjectionGeneration.
Holds(p, phase) == InScope(p) /\ row.phase = phase
\* validateForgejoProjectionFact.
SameFact(f) == pr.open /\ pr.gen = f.gen /\ pr.head = f.head

\* The phase pushing_ref covers all provider writes.
StartPush(p) ==
  /\ runner[p].pc = "start" /\ InScope(p)
  /\ row' = [row EXCEPT !.phase = "pushing"]
  /\ runner' = [runner EXCEPT ![p].pc = "reopen"]
  /\ UNCHANGED <<pr, req, recorded>>

\* reopenForgejoProjection.  Without an observed intent or without a mapping there
\* is nothing to reopen, and an intent stays pending.  Otherwise the generation is
\* tested only before a PATCH, and the provider may be open already.
ReopenProvider(p) ==
  /\ runner[p].pc = "reopen"
  /\ IF runner[p].fact.pending /\ recorded # {}
       THEN /\ SameFact(runner[p].fact) /\ pr.pending
            /\ pr' = [pr EXCEPT !.pending = FALSE]
       ELSE pr' = pr
  /\ runner' = At(p, "push")
  /\ UNCHANGED <<row, req, recorded>>

\* The provider write behind revalidateGenericProjectionProviderWrite.
PushRef(p) ==
  /\ runner[p].pc = "push"
  /\ Holds(p, "pushing") /\ SameFact(runner[p].fact)
  /\ runner' = At(p, "record")
  /\ UNCHANGED <<pr, row, req, recorded>>

Record(p) ==
  /\ runner[p].pc = "record"
  /\ Holds(p, "pushing")
  /\ row' = [row EXCEPT !.phase = "recording"]
  /\ runner' = [runner EXCEPT ![p].pc = "commit"]
  /\ UNCHANGED <<pr, req, recorded>>

\* completeGenericForgejoPullRequestProjection: mapping, intent and phase in
\* one transaction.  A pending intent must be the one the runner observed.
Commit(p) ==
  /\ runner[p].pc = "commit"
  /\ Holds(p, "recording") /\ SameFact(runner[p].fact)
  /\ pr.pending => runner[p].fact.pending
  /\ pr' = [pr EXCEPT !.pending = FALSE]
  /\ recorded' = recorded \cup {runner[p].fact.head}
  /\ row' = [row EXCEPT !.phase = "projected", !.due = "now"]
  /\ runner' = [runner EXCEPT ![p] = OffRunner("closing")]
  /\ UNCHANGED <<req>>

\* markForgejoProjectionJobFailed runs without the attempt's deadline.
MayMark(p) == runner[p].valid /\ row.phase \notin Ended
Mark(p, phase, why, due, next) ==
  /\ row' = IF MayMark(p) THEN [row EXCEPT !.phase = phase, !.why = why, !.due = due] ELSE row
  /\ runner' = [runner EXCEPT ![p] = next]

\* A refused check, a failed call or the deadline ends the attempt.
Fail(p) ==
  /\ runner[p].pc \in Working
  /\ LET again(n) == [OffRunner("load") EXCEPT !.tries = n]
         closing == OffRunner("closing")
     IN \/ \E why \in {"admission", "drift", "other"}: Mark(p, "terminal", why, "now", closing)
        \/ \E n \in {runner[p].tries, runner[p].tries + 1}:
             n < MaxTries /\ Mark(p, "retryable", "none", "later", again(n))
        \/ /\ runner[p].tries + 1 >= MaxTries
           /\ Mark(p, "retryable", "none", "now", closing)
  /\ UNCHANGED <<pr, req, recorded>>

\* What follows the last write (the notification of a projected pull request,
\* the drift signal of a terminal failure) and the deletion of the lock.
Finish(p) ==
  /\ runner[p].pc = "closing"
  /\ runner' = [runner EXCEPT ![p] = OffRunner("off")]
  /\ UNCHANGED <<pr, row, req, recorded>>

\* The lease or the delay of the row runs out.
Elapse ==
  /\ row.due = "later"
  /\ row' = [row EXCEPT !.due = "now"]
  /\ UNCHANGED <<pr, runner, req, recorded>>

Next ==
  \/ PushHead \/ ClosePR \/ RecordSynchronously \/ Retire \/ Elapse
  \/ \E c \in Requests: ReopenPR(c) \/ EnqueueRead(c) \/ Retry(c) \/ Repair(c) \/ Start(c)
  \/ \E c \in Requests: EnqueueInsert(c) \/ EnqueueUpdate(c) \/ Schedule(c)
  \/ \E c \in Requests: ResumeRead(c) \/ ResumeRevive(c) \/ ResumeRetire(c) \/ ResumeHeal(c)
  \/ \E c \in Requests: ResumeSelect(c) \/ ReopenFails(c)
  \/ \E p \in Processes:
       \/ Crash(p) \/ LoadEnded(p) \/ Claim(p) \/ Reload(p) \/ StartPush(p) \/ ReopenProvider(p)
       \/ PushRef(p) \/ Record(p) \/ Commit(p) \/ Fail(p) \/ Finish(p)

Spec == Init /\ [][Next]_vars

---------------------------------------------------------------------------
\* A reopen that waits for its confirmation always has its job: the row exists
\* and is neither projected nor retired for a closed pull request, whatever
\* runner, retirement, retry, resume or crash came in between.  Only a terminal
\* failure for an operator may stop it.
PendingHasWork ==
  pr.open /\ pr.pending =>
    /\ row.phase \notin {"none", "projected"}
    /\ ~(row.phase = "terminal" /\ row.why = "retired")

\* A job that says projected has had the mapping for its own head committed:
\* a runner that was superseded by an enqueue of a newer head does not mark
\* the newer job as done.
ProjectedRecorded == row.phase = "projected" => row.head \in recorded

\* A terminal failure that an operator has to inspect stays: of all requests for
\* the generic job only the repair of a diverged branch leaves it; no enqueue,
\* reopen, retry, restart or late runner brings the job back.  (A rebase action,
\* beginForgejoActionRebaseJob, takes the row for another kind of job; it is
\* outside this module.)
TerminalKept ==
  [][row.phase = "terminal" /\ row.why \in {"drift", "other"} /\ row' # row =>
       row.why = "drift" /\ \E c \in Requests: Repair(c)]_vars

\* "Resets a retryable Forgejo PR projection job to queued and schedules the
\* worker": once the requests that queued the job have returned, some runner is
\* going to load it, unless a process is down and will resume it at startup.
QueuedIsScheduled ==
  /\ row.phase = "queued"
  /\ \A c \in Requests: req[c] = NoRequest
  /\ \A p \in Processes: runner[p].pc # "down"
  => \E p \in Processes: runner[p].pc \notin {"off", "closing"}
===========================================================================
