---------------------------- MODULE GitStoreGate ----------------------------
(***************************************************************************)
(* Admission to the primary's Git storage (internal/gitstore).  Writers     *)
(* announce the repositories they touch, which keeps maintenance away, and  *)
(* share a weighted semaphore that a snapshot capture takes as a whole.     *)
(* Maintenance never waits: it starts only when nobody is in its way, and a *)
(* later arrival cancels it and waits for its end.                          *)
(*                                                                          *)
(* A push is admitted for its repository, takes the repository lock and     *)
(* then a mutation lease (githttp).  A service call takes a mutation lease  *)
(* of its own and may start work that asks for another one in the same      *)
(* context; that work shares the lease and may outlive the call's part.     *)
(***************************************************************************)
EXTENDS Integers, FiniteSets, Sequences

CONSTANTS
    Pushes,      \* requests that run git-receive-pack
    Calls,       \* service calls that mutate storage
    Captures,    \* snapshot captures
    Maintainer,  \* the maintenance worker, as a holder of the semaphore
    Repos,       \* repositories
    NoRepo,      \* "", the name of a run over all repositories
    NoTask,      \* nobody
    Scopes       \* the sets of names callers pass, {} when the scope is unknown

Writers == Pushes \cup Calls
Tasks == Writers \cup Captures

\* What is held of the semaphore: a permit goes by the name of the request that
\* asked for it, or of the request's inner mutation.
Inner(w) == <<w>>
Permits == Writers \cup {Inner(w) : w \in Writers}
Askers == Permits \cup Captures

ASSUME TasksAssumption ==
    /\ Pushes \cap Calls = {}
    /\ Permits \cap Captures = {}
    /\ \A w \in Writers : Inner(w) \notin Writers
    /\ Maintainer \notin Askers
    /\ NoTask \notin Askers \cup {Maintainer}

ASSUME ScopesAssumption ==
    /\ IsFiniteSet(Tasks)
    /\ NoRepo \notin Repos
    /\ Scopes \subseteq SUBSET Repos

VARIABLES
    all,         \* repositoryMaintenanceAccess.all
    repos,       \* repositoryMaintenanceAccess.repos, 0 for a missing name
    running,     \* repositoryMaintenanceAccess.running
    sem,         \* Store.captureSem: its holders and its waiters in order
    lock,        \* who holds each repository's lock
    refs,        \* mutationLease.refs of the lease on each permit
    main,        \* where each request stands, and the access it holds
    sub          \* where its inner mutation stands, and the access that holds

vars == <<all, repos, running, sem, lock, refs, main, sub>>

\* An access that is not held.  It is no member of Scopes.
NoScope == {NoRepo}

At(pc, scope) == [pc |-> pc, scope |-> scope]
Out == At("out", NoScope)
Points == {"out", "entering", "draining", "queued", "admitted", "working", "over"}
Point == [pc : Points, scope : Scopes \cup {{}, NoScope}]

Idle == [on |-> FALSE, repo |-> NoRepo, cancelled |-> FALSE]
Run == [on : BOOLEAN, repo : Repos \cup {NoRepo}, cancelled : BOOLEAN]

TypeOK ==
    /\ all \in Nat
    /\ repos \in [Repos -> Nat]
    /\ running \in Run
    /\ sem \in [shared : SUBSET (Permits \cup {Maintainer}), exclusive : Captures \cup {NoTask},
                queue : Seq(Askers)]
    /\ lock \in [Repos -> Pushes \cup {NoTask}]
    /\ refs \in [Permits -> 0 .. 2]
    /\ main \in [Tasks -> Point]
    /\ sub \in [Writers -> Point]

Init ==
    /\ all = 0
    /\ repos = [r \in Repos |-> 0]
    /\ running = Idle
    /\ sem = [shared |-> {}, exclusive |-> NoTask, queue |-> <<>>]
    /\ lock = [r \in Repos |-> NoTask]
    /\ refs = [l \in Permits |-> 0]
    /\ main = [t \in Tasks |-> Out]
    /\ sub = [w \in Writers |-> Out]

-----------------------------------------------------------------------------
(* semaphore.Weighted: a writer holds weight 1, a capture the whole weight; *)
(* waiters are served strictly in order.                                    *)

Fits(s, t) == s.exclusive = NoTask /\ (t \in Captures => s.shared = {})

Granted(s, t) ==
    IF t \in Captures THEN [s EXCEPT !.exclusive = t]
    ELSE [s EXCEPT !.shared = @ \cup {t}]

\* How many waiters at the head of the queue are writers.
Leading(q) ==
    CHOOSE n \in 0 .. Len(q) :
        /\ \A i \in 1 .. n : q[i] \notin Captures
        /\ n = Len(q) \/ q[n + 1] \in Captures

\* notifyWaiters: the head of the queue goes in, with the writers next to it.
Notified(s) ==
    IF s.queue = <<>> \/ ~Fits(s, Head(s.queue)) THEN s
    ELSE IF Head(s.queue) \in Captures
         THEN [Granted(s, Head(s.queue)) EXCEPT !.queue = Tail(@)]
         ELSE LET n == Leading(s.queue) IN
              [s EXCEPT !.shared = @ \cup {s.queue[i] : i \in 1 .. n},
                        !.queue = SubSeq(@, n + 1, Len(@))]

\* Acquire, up to the wait.
Asked(s, t) ==
    IF s.queue = <<>> /\ Fits(s, t) THEN Granted(s, t)
    ELSE [s EXCEPT !.queue = Append(@, t)]

\* list.Remove: a waiter leaves its place in the queue.
Without(q, t) ==
    IF \A i \in 1 .. Len(q) : q[i] # t THEN q
    ELSE LET p == CHOOSE p \in 1 .. Len(q) : q[p] = t
         IN  [i \in 1 .. Len(q) - 1 |-> q[IF i < p THEN i ELSE i + 1]]

\* Release, and the end of an Acquire whose context is done.
Released(s, t) ==
    Notified([shared |-> s.shared \ {t},
              exclusive |-> IF s.exclusive = t THEN NoTask ELSE s.exclusive,
              queue |-> Without(s.queue, t)])

Holds(t) == t \in sem.shared \/ sem.exclusive = t

-----------------------------------------------------------------------------
(* repositoryMaintenanceAccess.                                             *)

One(p) == IF p THEN 1 ELSE 0

Admit(s) ==
    /\ all' = all + One(s = {})
    /\ repos' = [r \in Repos |-> repos[r] + One(r \in s)]

\* The release functions of one or two accesses.
Dismiss(s, u) ==
    /\ all' = all - One(s = {}) - One(u = {})
    /\ repos' = [r \in Repos |-> repos[r] - One(r \in s) - One(r \in u)]

\* The running maintenance touches what the caller is about to use.
InTheWay(s) ==
    running.on /\ (s = {} \/ running.repo = NoRepo \/ running.repo \in s)

Move(f, t, pc) == [f EXCEPT ![t].pc = pc]

\* BeginMaintenanceAccess, one turn of its loop: cancel the run and wait ...
CancelRun(s) == InTheWay(s) /\ running' = [running EXCEPT !.cancelled = TRUE]

\* ... or be counted.
Counted(s) == ~InTheWay(s) /\ Admit(s)

KeepAccess == UNCHANGED <<all, repos, running>>

-----------------------------------------------------------------------------
(* Requests.                                                                *)

\* Pushes name one repository; captures and the largest calls none.
Start(t, s) ==
    /\ main[t].pc = "out"
    /\ t \in Writers => sub[t].pc = "out"
    /\ t \in Pushes => Cardinality(s) = 1
    /\ t \in Captures => s = {}
    /\ main' = [main EXCEPT ![t] = At("entering", s)]
    /\ KeepAccess
    /\ UNCHANGED <<sem, lock, refs, sub>>

Drain(t) ==
    /\ main[t].pc = "entering"
    /\ CancelRun(main[t].scope)
    /\ main' = Move(main, t, "draining")
    /\ UNCHANGED <<all, repos, sem, lock, refs, sub>>

\* admitMaintenance, BeginMutation and WithSnapshotCapture: a push goes on to
\* the repository lock, the others to the semaphore.
Enter(t) ==
    /\ main[t].pc = "entering"
    /\ Counted(main[t].scope)
    /\ IF t \in Pushes
       THEN main' = Move(main, t, "admitted") /\ UNCHANGED sem
       ELSE main' = Move(main, t, "queued") /\ sem' = Asked(sem, t)
    /\ UNCHANGED <<running, lock, refs, sub>>

\* Acquire returns.
Wake(t) ==
    /\ main[t].pc = "queued"
    /\ Holds(t)
    /\ main' = Move(main, t, "working")
    /\ refs' = IF t \in Calls THEN [refs EXCEPT ![t] = 1] ELSE refs
    /\ KeepAccess
    /\ UNCHANGED <<sem, lock, sub>>

\* WithRepoLock.
Lock(p) ==
    \E r \in main[p].scope :
        /\ main[p].pc = "admitted"
        /\ lock[r] = NoTask
        /\ lock' = [lock EXCEPT ![r] = p]
        /\ main' = Move(main, p, "working")
        /\ KeepAccess
        /\ UNCHANGED <<sem, refs, sub>>

\* The push's mutation, or the first nested one of a call.
StartInner(w, s) ==
    /\ main[w].pc = "working"
    /\ sub[w].pc = "out"
    /\ w \in Pushes => s = main[w].scope
    /\ sub' = [sub EXCEPT ![w] = At("entering", s)]
    /\ KeepAccess
    /\ UNCHANGED <<sem, lock, refs, main>>

DrainInner(w) ==
    /\ sub[w].pc = "entering"
    /\ CancelRun(sub[w].scope)
    /\ sub' = Move(sub, w, "draining")
    /\ UNCHANGED <<all, repos, sem, lock, refs, main>>

\* Mutant: a nested mutation asks for a permit of its own.
EnterInnerAnew(w) ==
    /\ sub[w].pc = "entering"
    /\ Counted(sub[w].scope)
    /\ sem' = Asked(sem, Inner(w))
    /\ sub' = Move(sub, w, "queued")
    /\ UNCHANGED <<running, lock, refs, main>>

\* BeginMutation in a context that may carry the request's lease: it is shared
\* while it lives, and a new permit is asked for otherwise.
EnterInner(w) ==
    /\ sub[w].pc = "entering"
    /\ Counted(sub[w].scope)
    /\ IF refs[w] > 0
       THEN /\ refs' = [refs EXCEPT ![w] = @ + 1]
            /\ sub' = Move(sub, w, "working")
            /\ UNCHANGED sem
       ELSE /\ sem' = Asked(sem, Inner(w))
            /\ sub' = Move(sub, w, "queued")
            /\ UNCHANGED refs
    /\ UNCHANGED <<running, lock, main>>

WakeInner(w) ==
    /\ sub[w].pc = "queued"
    /\ Holds(Inner(w))
    /\ sub' = Move(sub, w, "working")
    /\ refs' = [refs EXCEPT ![Inner(w)] = 1]
    /\ KeepAccess
    /\ UNCHANGED <<sem, lock, main>>

\* Mutant: the call's own release gives the permit back.
LastRefOfCall(l) == refs[l] \in 1 .. 2

LastRef(l) == refs[l] = 1

\* A call ends its part.  The lease and the access it was taken with live on
\* while nested work shares it.
EndCall(c) ==
    /\ main[c].pc = "working"
    /\ refs' = [refs EXCEPT ![c] = @ - 1]
    /\ IF LastRef(c)
       THEN /\ Dismiss(main[c].scope, NoScope)
            /\ sem' = Released(sem, c)
            /\ main' = [main EXCEPT ![c] = IF sub[c].pc = "out" THEN Out ELSE At("over", NoScope)]
       ELSE /\ main' = Move(main, c, "over")
            /\ UNCHANGED <<all, repos, sem>>
    /\ UNCHANGED <<running, lock, sub>>

\* After its mutation a push unlocks; a call whose own part is over is done.
After(w) ==
    IF w \in Pushes THEN Move(main, w, "over")
    ELSE IF main[w].pc = "over" THEN [main EXCEPT ![w] = Out]
    ELSE main

\* The permit of the lease that the inner mutation works under: its own, or the
\* one it shares with the request, whose access ends with the last of the two.
LeaseOf(w) == IF refs[Inner(w)] > 0 THEN Inner(w) ELSE w

EndInner(w) ==
    LET l == LeaseOf(w)
    IN  /\ sub[w].pc = "working"
        /\ refs' = [refs EXCEPT ![l] = @ - 1]
        /\ IF LastRef(l)
           THEN /\ Dismiss(sub[w].scope, IF l = w THEN main[w].scope ELSE NoScope)
                /\ sem' = Released(sem, l)
           ELSE /\ Dismiss(sub[w].scope, NoScope)
                /\ UNCHANGED sem
        /\ sub' = [sub EXCEPT ![w] = Out]
        /\ main' = After(w)
        /\ UNCHANGED <<running, lock>>

\* A push leaves the lock and its admission behind.  (The repair of HEAD that
\* follows takes the lock and a lease once more, under the same admission.)
EndPush(p) ==
    /\ main[p].pc = "over"
    /\ lock' = [r \in Repos |-> IF lock[r] = p THEN NoTask ELSE lock[r]]
    /\ Dismiss(main[p].scope, NoScope)
    /\ main' = [main EXCEPT ![p] = Out]
    /\ UNCHANGED <<running, sem, refs, sub>>

EndCapture(c) ==
    /\ main[c].pc = "working"
    /\ Dismiss(main[c].scope, NoScope)
    /\ sem' = Released(sem, c)
    /\ main' = [main EXCEPT ![c] = Out]
    /\ UNCHANGED <<running, lock, refs, sub>>

\* Mutant: giving up a wait for a run releases an access that was never counted.
GiveUpUncounted(t) ==
    /\ main[t].pc \in {"draining", "queued"}
    /\ Dismiss(main[t].scope, NoScope)
    /\ sem' = Released(sem, t)
    /\ main' = [main EXCEPT ![t] = Out]
    /\ UNCHANGED <<running, lock, refs, sub>>

\* The context ends while a request waits for a run or for the semaphore.
GiveUp(t) ==
    /\ main[t].pc \in {"draining", "queued"}
    /\ IF main[t].pc = "queued"
       THEN Dismiss(main[t].scope, NoScope) /\ sem' = Released(sem, t)
       ELSE UNCHANGED <<all, repos, sem>>
    /\ main' = [main EXCEPT ![t] = Out]
    /\ UNCHANGED <<running, lock, refs, sub>>

\* Mutant: a BeginMutation that gives up keeps its access.
GiveUpInnerCounted(w) ==
    /\ sub[w].pc \in {"draining", "queued"}
    /\ sem' = IF sub[w].pc = "queued" THEN Released(sem, Inner(w)) ELSE sem
    /\ sub' = [sub EXCEPT ![w] = Out]
    /\ main' = After(w)
    /\ KeepAccess
    /\ UNCHANGED <<lock, refs>>

GiveUpInner(w) ==
    /\ sub[w].pc \in {"draining", "queued"}
    /\ IF sub[w].pc = "queued"
       THEN Dismiss(sub[w].scope, NoScope) /\ sem' = Released(sem, Inner(w))
       ELSE UNCHANGED <<all, repos, sem>>
    /\ sub' = [sub EXCEPT ![w] = Out]
    /\ main' = After(w)
    /\ UNCHANGED <<running, lock, refs>>

-----------------------------------------------------------------------------
(* Maintenance of one repository, or of all of them (artifact retirement).  *)

\* Mutant: only the repository's own count is looked at.
BusyScoped(name) ==
    running.on \/ IF name = NoRepo THEN \E r \in Repos : repos[r] # 0 ELSE repos[name] # 0

Busy(name) ==
    \/ running.on
    \/ all # 0
    \/ IF name = NoRepo THEN \E r \in Repos : repos[r] # 0 ELSE repos[name] # 0

StartRun(name) ==
    /\ ~Busy(name)
    /\ sem.queue = <<>> /\ Fits(sem, Maintainer)
    /\ sem' = Granted(sem, Maintainer)
    /\ running' = [on |-> TRUE, repo |-> name, cancelled |-> FALSE]
    /\ UNCHANGED <<all, repos, lock, refs, main, sub>>

Woken(f) == [t \in DOMAIN f |-> IF f[t].pc = "draining" THEN At("entering", f[t].scope) ELSE f[t]]

\* The run ends, by itself, by its deadline or because it was cancelled, and
\* everyone who waited for it tries again.
EndRun ==
    /\ running.on
    /\ running' = Idle
    /\ sem' = Released(sem, Maintainer)
    /\ main' = Woken(main)
    /\ sub' = Woken(sub)
    /\ UNCHANGED <<all, repos, lock, refs>>

-----------------------------------------------------------------------------

Proceed(t) ==
    \/ Wake(t) \/ Drain(t)
    \/ t \in Captures /\ EndCapture(t)
    \/ t \in Pushes /\ (EndPush(t) \/ \E s \in Scopes : StartInner(t, s))
ProceedInner(w) == DrainInner(w) \/ WakeInner(w) \/ EndInner(w)

Next ==
    \/ \E t \in Tasks :
          \/ Drain(t) \/ Enter(t) \/ Wake(t) \/ GiveUp(t)
          \/ \E s \in Scopes \cup {{}} : Start(t, s)
    \/ \E w \in Writers :
          \/ DrainInner(w) \/ EnterInner(w) \/ WakeInner(w) \/ EndInner(w) \/ GiveUpInner(w)
          \/ \E s \in Scopes : StartInner(w, s)
    \/ \E p \in Pushes : Lock(p) \/ EndPush(p)
    \/ \E c \in Calls : EndCall(c)
    \/ \E c \in Captures : EndCapture(c)
    \/ \E name \in Repos \cup {NoRepo} : StartRun(name)
    \/ EndRun

Spec == Init /\ [][Next]_vars

(***************************************************************************)
(* Fairness.  Goroutines that can move do, and work inside the gate ends.   *)
(* Runs start on a timer and locks are handed over in order of arrival, so  *)
(* whoever finds the gate open again and again gets through it.  A call     *)
(* waits for a nested mutation it has started and starts finitely many of   *)
(* them; one that ends sooner is allowed for but not counted on.  No        *)
(* request is assumed to start, to give up, or to start inner work.         *)
(***************************************************************************)
Fairness ==
    /\ WF_vars(EndRun)
    /\ \A t \in Tasks : WF_vars(Proceed(t)) /\ SF_vars(Enter(t))
    /\ \A w \in Writers : WF_vars(ProceedInner(w)) /\ SF_vars(EnterInner(w))
    /\ \A c \in Calls : SF_vars(sub[c].pc = "out" /\ EndCall(c))
    /\ \A p \in Pushes : SF_vars(Lock(p))

FairSpec == Spec /\ Fairness

-----------------------------------------------------------------------------
(* Properties.                                                              *)

Mutating(w) == sub[w].pc = "working" \/ (w \in Calls /\ main[w].pc = "working")

\* WithSnapshotCapture: while a capture observes and pins a repository, no
\* mutation is under way, also none that outlives the call whose lease it
\* shares, and no maintenance is running.
CaptureAlone ==
    \A c \in Captures : main[c].pc = "working" =>
        /\ \A w \in Writers : ~Mutating(w)
        /\ \A d \in Captures \ {c} : main[d].pc # "working"
        /\ ~running.on

\* The access a request or its inner work has been counted with.
Inside(p) == p.scope # NoScope /\ p.pc \in {"queued", "admitted", "working", "over"}
Accesses == {<<"main", t>> : t \in {t \in Tasks : Inside(main[t])}}
            \cup {<<"sub", w>> : w \in {w \in Writers : Inside(sub[w])}}
ScopeOf(a) == IF a[1] = "main" THEN main[a[2]].scope ELSE sub[a[2]].scope

\* BeginMaintenanceAccess: nobody is inside a repository that is maintained.
MaintenanceAlone == \A a \in Accesses : ~InTheWay(ScopeOf(a))

\* The counts maintenance consults are those of the requests inside, whichever
\* of them shared leases, gave up or ended out of order.
AccessExact ==
    /\ all = Cardinality({a \in Accesses : ScopeOf(a) = {}})
    /\ \A r \in Repos : repos[r] = Cardinality({a \in Accesses : r \in ScopeOf(a)})

\* Nobody waits for ever: every request gets through the gate and out of it,
\* though a capture queues between a call and the nested mutation the call waits
\* for, pushes hold repository locks and maintenance comes and goes.
EveryoneLeaves == \A t \in Tasks : main[t].pc # "out" ~> main[t].pc = "out"

=============================================================================
