-------------------------- MODULE GitHubProjection --------------------------
(***************************************************************************)
(* Durable projection of one AGS pull request to a GitHub "shadow" pull     *)
(* request (internal/service/github_projection_*.go).  One job row carries  *)
(* the desired state (ensure or close).  Requests enqueue and run it, a      *)
(* scheduler of each process retries it, watch rounds compare with GitHub    *)
(* and repair.  Every write of the row is a compare-and-set; an attempt      *)
(* claims the row with a lease, talks to GitHub, and records its result only *)
(* while the row still carries its claim.  Processes and calls may fail      *)
(* anywhere.                                                                 *)
(*                                                                          *)
(* Durations are left out: a time in the future becomes past at some moment. *)
(* Every write of next_run_at is either null, for a finished job, or a new   *)
(* value, so an actor's copy of it is the row's or matches no longer, and a  *)
(* finished job is recognized by its trigger, phase and attempt alone.       *)
(***************************************************************************)
EXTENDS Integers, FiniteSets

CONSTANTS
    Requests,     \* API calls and callbacks that dispatch an ensure or a close
    Watchers,     \* processes that run ReconcileGitHubPullRequestStates
    Schedulers,   \* the goroutine of each process that scheduleGitHubProjection starts;
                  \* an actor may be a request first and the goroutine it started later
    Facts,        \* what gitHubProjectionDesiredFact can be
    FirstFact,    \* the fact of the pull request when it is created
    MaxAttempts,  \* githubProjectionMaxAttempts
    MaxShadows,   \* bound on the pull requests GitHub creates
    MaxChanges,   \* bound on closes, reopens and edits of the pull request
    MaxFailures   \* bound on crashes, provider and database errors

Actors == Requests \cup Watchers \cup Schedulers

ASSUME ActorsAssumption ==
    /\ Requests \cap Watchers = {}
    /\ Watchers \cap Schedulers = {}

ASSUME BoundsAssumption ==
    /\ FirstFact \in Facts
    /\ MaxAttempts \in Nat \ {0}
    /\ MaxShadows \in Nat \ {0}
    /\ MaxChanges \in Nat
    /\ MaxFailures \in Nat

VARIABLES
    open,      \* the pull request is open and not merged
    fact,      \* its present head, refs, title and body
    trigger,   \* columns of the job row
    phase,     \* "none" before the row exists
    attempt,
    due,       \* next_run_at: none, in the future, or reached
    hash,      \* github_desired_fact_hash
    current,   \* the actors whose copy of next_run_at is the row's
    mapNum,    \* external number of the projection row, 0 when there is none
    mapState,  \* its state
    stray,     \* history: a watch round wrote it since the close at work read it
    shadow,    \* the pull requests on GitHub, by number
    pc,        \* where each actor stands
    me,        \* what it knows
    changes,   \* changes of the pull request so far
    failures   \* failures so far

pull == <<open, fact>>
row == <<trigger, phase, attempt, due, hash>>
mapping == <<mapNum, mapState, stray>>
vars == <<pull, row, current, mapping, shadow, pc, me, changes, failures>>

Numbers == 1 .. MaxShadows
Triggers == {"ensure", "close"}
Phases == {"none", "queued", "preflight", "retryable", "projected", "failed"}
Terminal == {"projected", "failed"}
States == {"none", "open", "closed"}

\* An actor's trigger, the fact, attempt and phase it read, the GitHub number and
\* state it goes by, and what is left for it to do about the mapping.
Knowledge ==
    [want : Triggers, fact : Facts, seen : 0 .. MaxAttempts, saw : Phases,
     num : 0 .. MaxShadows, state : States, mark : BOOLEAN, repair : BOOLEAN]
Rest == [want |-> "ensure", fact |-> FirstFact, seen |-> 0, saw |-> "none",
         num |-> 0, state |-> "none", mark |-> FALSE, repair |-> FALSE]

Enqueueing == {"insert", "read", "supersede", "reopen", "reopened", "refresh",
               "reread", "requeue", "requeued", "claim"}
Attempting == {"begin", "observe", "check", "write", "finish", "fail", "denied"}
Places == {"idle", "mark", "scan", "upsert"} \cup Enqueueing \cup Attempting

TypeOK ==
    /\ open \in BOOLEAN
    /\ fact \in Facts
    /\ trigger \in Triggers
    /\ phase \in Phases
    /\ attempt \in 0 .. MaxAttempts
    /\ due \in {"null", "later", "past"}
    /\ hash \in Facts
    /\ current \subseteq Actors
    /\ mapNum \in 0 .. MaxShadows
    /\ mapState \in States
    /\ stray \in BOOLEAN
    /\ shadow \in [Numbers -> States]
    /\ pc \in [Actors -> Places]
    /\ me \in [Actors -> Knowledge]
    /\ changes \in Nat
    /\ failures \in Nat

Init ==
    /\ open = TRUE
    /\ fact = FirstFact
    /\ trigger = "ensure"
    /\ phase = "none"
    /\ attempt = 0
    /\ due = "null"
    /\ hash = FirstFact
    /\ current = {}
    /\ mapNum = 0
    /\ mapState = "none"
    /\ stray = FALSE
    /\ shadow = [n \in Numbers |-> "none"]
    /\ pc = [a \in Actors |-> "idle"]
    /\ me = [a \in Actors |-> Rest]
    /\ changes = 0
    /\ failures = 0

-----------------------------------------------------------------------------
(* The pull request, and time.                                              *)

Change(o, f) ==
    /\ changes < MaxChanges
    /\ changes' = changes + 1
    /\ open' = o
    /\ fact' = f
    /\ UNCHANGED <<row, current, mapping, shadow, pc, me, failures>>

ClosePR == open /\ Change(FALSE, fact)
ReopenPR == ~open /\ Change(TRUE, fact)
EditPR(f) == f # fact /\ Change(open, f)

\* A lease or a backoff runs out.
Expire ==
    /\ due = "later"
    /\ due' = "past"
    /\ UNCHANGED <<pull, trigger, phase, attempt, hash, current, mapping, shadow, pc, me,
                   changes, failures>>

-----------------------------------------------------------------------------
(* Steps of an actor.                                                       *)

\* What an actor at p will still use of what it knows; it forgets the rest.
Needed(p, m) ==
    CASE p \in {"idle", "mark"} -> Rest
      [] p \in {"fail", "denied"} -> [Rest EXCEPT !.want = m.want]
      [] p = "claim" -> [Rest EXCEPT !.want = m.want, !.mark = m.mark]
      [] p = "upsert" -> [Rest EXCEPT !.num = m.num, !.state = m.state]
      [] p = "read" /\ m.want = "close" -> [m EXCEPT !.fact = FirstFact]
      [] p \in {"reread", "reopened", "requeued"} -> [m EXCEPT !.seen = 0, !.saw = "none"]
      [] p \in {"supersede", "requeue"} -> [m EXCEPT !.saw = "none"]
      [] OTHER -> m

\* Actor a goes on at p with knowledge m.
To(a, p, m) ==
    /\ pc' = [pc EXCEPT ![a] = p]
    /\ me' = [me EXCEPT ![a] = Needed(p, m)]

SetRow(t, p, n, d, h) ==
    /\ trigger' = t
    /\ phase' = p
    /\ attempt' = n
    /\ due' = d
    /\ hash' = h

Bounds == <<changes, failures>>

\* A step that reads the row.
ReadRow(a) ==
    /\ current' = current \cup {a}
    /\ UNCHANGED <<pull, row, mapping, shadow, Bounds>>

\* A compare-and-set on the row that resets it to queued work.
Queue(hit, t, h) ==
    /\ \/ hit /\ SetRow(t, "queued", 0, "past", h) /\ current' = {}
       \/ ~hit /\ UNCHANGED <<row, current>>
    /\ UNCHANGED <<pull, mapping, shadow, Bounds>>

\* ensureGitHubShadowPullRequest, EnqueuePullRequestCreatedIntegrations.
AskEnsure(a) ==
    /\ pc[a] = "idle"
    /\ open
    /\ To(a, "insert", [Rest EXCEPT !.fact = fact])
    /\ UNCHANGED <<pull, row, current, mapping, shadow, Bounds>>

\* closeGitHubProjectionDurably, for a merge callback or for a close, which
\* afterwards marks the mapping it found open.
AskClose(a, m) ==
    /\ pc[a] = "idle"
    /\ ~open
    /\ m => mapState = "open"
    /\ To(a, "insert", [Rest EXCEPT !.want = "close", !.fact = fact, !.mark = m])
    /\ UNCHANGED <<pull, row, current, mapping, shadow, Bounds>>

-----------------------------------------------------------------------------
(* enqueueGitHubProjection, one statement per step.                         *)

\* INSERT ... ON CONFLICT DO NOTHING.
Insert(a) ==
    /\ pc[a] = "insert"
    /\ Queue(phase = "none", me[a].want, me[a].fact)
    /\ To(a, "read", me[a])

\* What follows once the row carries the trigger that was asked for: a watch
\* round requeues a finished job that needs repair, nobody revives a failed one.
Admit(a) ==
    IF trigger # me[a].want THEN "idle"
    ELSE IF phase \notin Terminal THEN "claim"
    ELSE IF phase = "failed" THEN "idle"
    ELSE IF a \in Watchers /\ me[a].repair THEN "requeue"
    ELSE IF me[a].mark THEN "mark"
    ELSE "idle"

Stale(a) == me[a].want = "ensure" /\ trigger = "ensure" /\ hash # me[a].fact

Seen(a) == [me[a] EXCEPT !.seen = attempt, !.saw = phase]

\* Mutant: next_run_at is left out of the fence.
UnchangedAttempt(a, t) ==
    trigger = t /\ phase = me[a].saw /\ attempt = me[a].seen

\* The fence of a compare-and-set on a row read with trigger t: trigger, phase,
\* attempt and next_run_at are what was read.
Unchanged(a, t) ==
    \/ a \in current
    \/ due = "null" /\ trigger = t /\ phase = me[a].saw /\ attempt = me[a].seen

ReadJob(a) ==
    /\ pc[a] = "read"
    /\ To(a, IF me[a].want = "close" /\ trigger = "ensure" THEN "supersede"
             ELSE IF me[a].want = "ensure" /\ trigger = "close" THEN "reopen"
             ELSE IF Stale(a) THEN "refresh" ELSE Admit(a), Seen(a))
    /\ ReadRow(a)

\* Mutant: a finished ensure is not superseded.
SupersedeUnfinished(a) ==
    /\ pc[a] = "supersede"
    /\ Queue(trigger = "ensure" /\ attempt = me[a].seen /\ phase \notin Terminal, "close", hash)
    /\ To(a, "reread", me[a])

\* A close replaces an ensure, also one that is being attempted.
Supersede(a) ==
    /\ pc[a] = "supersede"
    /\ Queue(trigger = "ensure" /\ attempt = me[a].seen, "close", hash)
    /\ To(a, "reread", me[a])

\* Mutant: a finished close is not superseded.
ReopenUnfinished(a) ==
    /\ pc[a] = "reopen"
    /\ Queue(Unchanged(a, "close") /\ open /\ phase \notin Terminal, "ensure", me[a].fact)
    /\ To(a, "reopened", me[a])

\* An ensure replaces the close it read, if the pull request is open.
Reopen(a) ==
    /\ pc[a] = "reopen"
    /\ Queue(Unchanged(a, "close") /\ open, "ensure", me[a].fact)
    /\ To(a, "reopened", me[a])

ReadReopened(a) ==
    /\ pc[a] = "reopened"
    /\ To(a, IF Stale(a) THEN "refresh" ELSE Admit(a), Seen(a))
    /\ ReadRow(a)

\* A changed fact restarts the ensure.
Refresh(a) ==
    /\ pc[a] = "refresh"
    /\ Queue(Unchanged(a, "ensure"), "ensure", me[a].fact)
    /\ To(a, "reread", me[a])

Reread(a) ==
    /\ pc[a] = "reread"
    /\ To(a, Admit(a), Seen(a))
    /\ ReadRow(a)

-----------------------------------------------------------------------------
(* runGitHubProjectionAttempt.                                              *)

\* claimGitHubProjection: takes the lease, or gives up an exhausted job.
Claim(a) ==
    /\ pc[a] = "claim"
    /\ UNCHANGED <<pull, mapping, shadow, Bounds>>
    /\ \/ /\ a \in current /\ due # "later" /\ attempt < MaxAttempts
          /\ SetRow(trigger, "preflight", attempt + 1, "later", hash)
          /\ current' = {a}
          /\ To(a, "begin", [Rest EXCEPT !.want = me[a].want, !.mark = me[a].mark])
       \/ /\ a \in current /\ due # "later" /\ attempt >= MaxAttempts
          /\ SetRow(trigger, "failed", attempt, "null", hash)
          /\ current' = {}
          /\ To(a, "idle", Rest)
       \/ /\ a \notin current \/ due = "later"
          /\ UNCHANGED <<row, current>>
          /\ To(a, "idle", Rest)

\* The attempt's context ends with the lease.
TimedOut(a) == a \in current /\ due = "past"

Quiet == UNCHANGED <<pull, row, current, mapping, shadow, Bounds>>

\* attemptGitHubProjection reads the pull request and its mapping.
Begin(a) ==
    /\ pc[a] = "begin"
    /\ ~TimedOut(a)
    /\ stray' = (stray /\ a \notin current)
    /\ UNCHANGED <<pull, row, current, mapNum, mapState, shadow, Bounds>>
    /\ To(a, IF (me[a].want = "ensure") = open THEN "observe"
             ELSE IF me[a].want = "ensure" THEN "finish" ELSE "fail",
          [me[a] EXCEPT !.num = mapNum, !.state = "none"])

\* ObservePullRequest: by number if one is known, else an open one for the
\* branches, else the newest.
Exists(n) == shadow[n] # "none"
Observed(known, n) ==
    IF known # 0 THEN n = known
    ELSE IF \A m \in Numbers : ~Exists(m) THEN n = 0
    ELSE /\ n # 0
         /\ \/ shadow[n] = "open"
            \/ /\ Exists(n)
               /\ \A m \in Numbers : shadow[m] # "open" /\ (Exists(m) => m <= n)

StateOf(n) == IF n = 0 THEN "none" ELSE shadow[n]

\* There is nothing to write when the shadow is closed, or absent for a close.
Observe(a) ==
    \E n \in 0 .. MaxShadows :
        /\ pc[a] = "observe"
        /\ ~TimedOut(a)
        /\ Observed(me[a].num, n)
        /\ Quiet
        /\ To(a, IF StateOf(n) = "open" \/ (me[a].want = "ensure" /\ n = 0)
                 THEN "check" ELSE "finish",
              [me[a] EXCEPT !.num = n, !.state = StateOf(n)])

\* The claim scope: the row still carries this actor's claim.
Holds(a) == a \in current /\ phase = "preflight"

\* BeforeWrite.
Check(a) ==
    /\ pc[a] = "check"
    /\ Quiet
    /\ To(a, IF /\ Holds(a) /\ due = "later"
                /\ IF me[a].want = "ensure" THEN open /\ fact = hash ELSE ~open
             THEN "write" ELSE "fail", me[a])

\* The delegated session behind an ensure has lost its authority.
Deny(a) ==
    /\ pc[a] = "check"
    /\ me[a].want = "ensure"
    /\ failures < MaxFailures
    /\ failures' = failures + 1
    /\ To(a, "denied", me[a])
    /\ UNCHANGED <<pull, row, current, mapping, shadow, changes>>

\* GitHub takes the write: a new pull request n unless the branches have an open
\* one, new content for n, or the end of n.
Lands(a, n) ==
    \/ /\ me[a].want = "ensure" /\ me[a].num = 0
       /\ ~Exists(n)
       /\ \A m \in Numbers : shadow[m] # "open" /\ (m < n => Exists(m))
       /\ shadow' = [shadow EXCEPT ![n] = "open"]
    \/ /\ me[a].want = "ensure"
       /\ n = me[a].num
       /\ UNCHANGED shadow
    \/ /\ me[a].want = "close"
       /\ n = me[a].num
       /\ shadow' = [shadow EXCEPT ![n] = "closed"]

Write(a) ==
    \E n \in Numbers :
        /\ pc[a] = "write"
        /\ ~TimedOut(a)
        /\ Lands(a, n)
        /\ To(a, "finish", [me[a] EXCEPT !.num = n, !.state = shadow'[n]])
        /\ UNCHANGED <<pull, row, current, mapping, Bounds>>

Spend == failures < MaxFailures /\ failures' = failures + 1

\* The write lands but its answer is lost, or comes after the deadline.
WriteLost(a) ==
    /\ pc[a] = "write"
    /\ \E n \in Numbers : Lands(a, n)
    /\ To(a, "fail", me[a])
    /\ \/ TimedOut(a) /\ UNCHANGED failures
       \/ Spend
    /\ UNCHANGED <<pull, row, current, mapping, changes>>

\* GitHub has an open pull request for the branches and refuses another.
WriteRefused(a) ==
    /\ pc[a] = "write"
    /\ me[a].want = "ensure" /\ me[a].num = 0
    /\ (\E n \in Numbers : shadow[n] = "open") \/ (\A n \in Numbers : Exists(n))
    /\ To(a, "fail", me[a])
    /\ Quiet

\* What the result of an attempt says about the mapping: nothing for an ensure of
\* a closed pull request, else the number that was found or is known.
RecordMapping(a) ==
    LET n == IF me[a].num # 0 THEN me[a].num ELSE mapNum
    IN  \/ /\ me[a].want = "ensure" /\ (~open \/ me[a].state = "none")
           /\ UNCHANGED mapping
        \/ /\ me[a].want = "ensure" /\ open /\ me[a].state # "none"
           /\ mapNum' = me[a].num
           /\ mapState' = me[a].state
           /\ UNCHANGED stray
        \/ /\ me[a].want = "close" /\ n = 0
           /\ UNCHANGED mapping
        \/ /\ me[a].want = "close" /\ n # 0
           /\ mapNum' = n
           /\ mapState' = "closed"
           /\ UNCHANGED stray

\* Mutant: the claim's owner is not compared.
FinishableUnfenced(a) ==
    /\ phase = "preflight" /\ due = "later"
    /\ me[a].want = "close" => ~open
    /\ me[a].want = "ensure" /\ open /\ me[a].state # "none" => fact = hash

\* The result counts if the claim is alive and the pull request is as it was
\* when the attempt began.
Finishable(a) ==
    /\ Holds(a) /\ due = "later"
    /\ me[a].want = "close" => ~open
    /\ me[a].want = "ensure" /\ open /\ me[a].state # "none" => fact = hash

\* finishGitHubProjection, one transaction that locks the pull request.
Finish(a) ==
    /\ pc[a] = "finish"
    /\ UNCHANGED <<pull, shadow, Bounds>>
    /\ \/ /\ Finishable(a)
          /\ SetRow(trigger, "projected", attempt, "null", hash)
          /\ current' = {}
          /\ RecordMapping(a)
          /\ To(a, IF me[a].mark THEN "mark" ELSE "idle", me[a])
       \/ /\ ~Finishable(a)
          /\ UNCHANGED <<row, current, mapping>>
          /\ To(a, "fail", me[a])

\* A failed attempt waits for its next run, the last one ends the job.
Fail(a) ==
    /\ pc[a] \in {"fail", "denied"}
    /\ UNCHANGED <<pull, mapping, shadow, Bounds>>
    /\ To(a, "idle", Rest)
    /\ \/ /\ Holds(a) /\ (attempt >= MaxAttempts \/ pc[a] = "denied")
          /\ SetRow(trigger, "failed", attempt, "null", hash)
          /\ current' = {}
       \/ /\ Holds(a) /\ attempt < MaxAttempts /\ pc[a] = "fail"
          /\ SetRow(trigger, "retryable", attempt, "later", hash)
          /\ current' = {}
       \/ /\ ~Holds(a)
          /\ UNCHANGED <<row, current>>

TimeOut(a) ==
    /\ pc[a] \in {"begin", "observe", "write"}
    /\ TimedOut(a)
    /\ To(a, "fail", me[a])
    /\ Quiet

\* A call to GitHub or to the database fails within an attempt.
Break(a) ==
    /\ pc[a] \in {"begin", "observe", "check", "write", "finish"}
    /\ Spend
    /\ To(a, "fail", me[a])
    /\ UNCHANGED <<pull, row, current, mapping, shadow, changes>>

\* The process dies, or a statement outside of an attempt fails.
Crash(a) ==
    /\ pc[a] # "idle"
    /\ Spend
    /\ To(a, "idle", Rest)
    /\ UNCHANGED <<pull, row, current, mapping, shadow, changes>>

\* DispatchPullRequestClosedIntegrations marks the mapping it found open.
Mark(a) ==
    /\ pc[a] = "mark"
    /\ mapState' = "closed"
    /\ To(a, "idle", Rest)
    /\ UNCHANGED <<pull, row, current, mapNum, stray, shadow, Bounds>>

-----------------------------------------------------------------------------
(* The scheduler and the watch rounds.                                      *)

\* scheduleGitHubProjection: the loop picks up unfinished work that is due.
Wake(a) ==
    /\ pc[a] = "idle"
    /\ phase \notin Terminal \cup {"none"}
    /\ due # "later"
    /\ To(a, "claim", [Rest EXCEPT !.want = trigger])
    /\ ReadRow(a)

\* reconcileGitHubPullRequestState reads the pull request and its mapping.
Watch(a) ==
    /\ pc[a] = "idle"
    /\ open \/ mapNum # 0
    /\ To(a, "scan", [Rest EXCEPT !.want = IF open THEN "ensure" ELSE "close", !.fact = fact,
                                  !.num = mapNum, !.state = mapState])
    /\ Quiet

\* ... and looks at GitHub.  The mapping of an open pull request follows what is
\* seen there, unless a close job must be superseded first.
Scan(a) ==
    \E n \in 0 .. MaxShadows :
        /\ pc[a] = "scan"
        /\ Observed(me[a].num, n)
        /\ Quiet
        /\ IF me[a].want = "ensure" /\ n # 0 /\ (phase = "none" \/ trigger = "ensure")
           THEN To(a, IF me[a].num # 0 /\ me[a].state = StateOf(n) THEN "idle" ELSE "upsert",
                   [me[a] EXCEPT !.num = n, !.state = StateOf(n)])
           ELSE To(a, "insert",
                   [me[a] EXCEPT !.num = 0, !.state = "none",
                                 !.repair = \/ me[a].want = "ensure"
                                            \/ StateOf(n) = "open"
                                            \/ me[a].state # "closed"])

Upsert(a) ==
    /\ pc[a] = "upsert"
    /\ mapNum' = me[a].num
    /\ mapState' = me[a].state
    /\ stray' = (stray \/ trigger = "close")
    /\ To(a, "idle", Rest)
    /\ UNCHANGED <<pull, row, current, shadow, Bounds>>

\* Repair of a finished job: it is queued again, unless it has changed.
Requeue(a) ==
    LET hit == trigger = me[a].want /\ phase = "projected" /\ attempt = me[a].seen
    IN  /\ pc[a] = "requeue"
        /\ Queue(hit, trigger, hash)
        /\ To(a, IF hit THEN "requeued" ELSE "idle", me[a])

ReadRequeued(a) ==
    /\ pc[a] = "requeued"
    /\ To(a, IF phase \in Terminal THEN "idle" ELSE "claim", [Seen(a) EXCEPT !.want = trigger])
    /\ ReadRow(a)

-----------------------------------------------------------------------------

Step(a) ==
    \/ Insert(a) \/ ReadJob(a) \/ Supersede(a) \/ Reopen(a) \/ ReadReopened(a)
    \/ Refresh(a) \/ Reread(a) \/ Requeue(a) \/ ReadRequeued(a) \/ Claim(a)
    \/ Begin(a) \/ Observe(a) \/ Check(a) \/ Write(a) \/ WriteRefused(a)
    \/ Finish(a) \/ Fail(a) \/ TimeOut(a) \/ Mark(a) \/ Scan(a) \/ Upsert(a)

Fault(a) == WriteLost(a) \/ Deny(a) \/ Break(a) \/ Crash(a)

Next ==
    \/ ClosePR \/ ReopenPR \/ Expire
    \/ \E f \in Facts : EditPR(f)
    \/ \E a \in Requests : AskEnsure(a) \/ \E m \in BOOLEAN : AskClose(a, m)
    \/ \E a \in Schedulers : Wake(a)
    \/ \E a \in Watchers : Watch(a)
    \/ \E a \in Actors : Step(a) \/ Fault(a)

\* Time passes, schedulers and watch rounds keep running, started work goes on.
Fairness ==
    /\ WF_vars(Expire)
    /\ \A a \in Schedulers : WF_vars(Wake(a))
    /\ \A a \in Watchers : WF_vars(Watch(a))
    /\ \A a \in Actors : WF_vars(Step(a))

Spec == Init /\ [][Next]_vars
FairSpec == Spec /\ Fairness

-----------------------------------------------------------------------------
(* Properties.                                                              *)

\* A finished close job is a receipt: the pull request's shadow is closed on
\* GitHub and recorded so, whoever superseded, retried or interrupted it, unless a
\* watch round that looked before the close wrote the mapping after the close read
\* it (reconcileGitHubPullRequestState has no fence; a later round repairs this).
CloseReceipt ==
    trigger = "close" /\ phase = "projected" /\ mapNum # 0 /\ ~stray =>
        mapState = "closed" /\ shadow[mapNum] = "closed"

\* Only a new trigger or a changed fact gives attempts back to an unfinished job:
\* no duplicate dispatch or watch round resets its backoff.
BackoffKept ==
    [][attempt' < attempt => \/ trigger' # trigger
                             \/ hash' # hash
                             \/ phase \in Terminal]_vars

\* finishGitHubProjection: "a provider response arriving after close must never commit
\* a stale open mapping".
NoStaleOpen == [][mapState' = "open" /\ mapState # "open" => open]_vars

\* enqueueGitHubProjection: "duplicate dispatch never resets attempts or backoff".  A
\* job gets its attempts back for a new trigger or fact, or, when it had succeeded,
\* for a repair.
DuplicateKeeps ==
    [][attempt' < attempt => \/ trigger' # trigger
                             \/ hash' # hash
                             \/ phase = "projected"]_vars

\* A closed pull request that has a mapping gets its shadow closed, unless it
\* reopens or the job's attempts are used up.
ClosedRetires ==
    ~open /\ mapNum # 0 ~>
        \/ open
        \/ phase = "failed"
        \/ mapState = "closed" /\ shadow[mapNum] = "closed"

\* An open pull request gets a mapping, unless it closes or the attempts are used up.
OpenMapped == open ~> ~open \/ phase = "failed" \/ mapNum # 0

=============================================================================
