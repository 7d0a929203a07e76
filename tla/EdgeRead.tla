------------------------------ MODULE EdgeRead ------------------------------
(***************************************************************************)
(* A Git read at an Edge (internal/edge/read.go): the request asks the       *)
(* primary for a plan, copies the exact view the plan names, and asks the    *)
(* primary again before any byte is served.  The primary's side of the two   *)
(* calls (internal/replication/read.go, internal/service/replication_read.go)*)
(* is part of the module; the Edge's mirror is the abstract ViewStore.       *)
(*                                                                           *)
(* Edge and primary share one clock.  Who may read is one Boolean: the       *)
(* credential, the permission and the repository's state are all resolved    *)
(* afresh by every call.                                                     *)
(***************************************************************************)
EXTENDS Integers, Sequences, FiniteSets

CONSTANTS
    Snapshots,    \* states of the repository's refs
    First,        \* the state at the start
    Contains,     \* Contains[s]: the objects of snapshot s
    Objects,      \* objects a fetch may want
    Requests,     \* HTTP requests at the Edge
    Concurrency,  \* ReadRuntimeConfig.Concurrency
    Backlog,      \* requests admitted beyond the concurrency
    RecentViews,  \* ReadRuntimeConfig.RecentViews
    RecentWindow, \* ReadRuntimeConfig.RecentWindow
    TTL,          \* PrimaryReadAuthority.ttl
    Margin,       \* a plan this close to its end is renewed
    MaxPushes,    \* bound: pushes
    MaxRevokes,   \* bound: changes of the permission
    MaxTime,      \* bound: the clock
    NoView, NoObject

ASSUME SnapshotAssumption ==
    /\ First \in Snapshots
    /\ NoView \notin Snapshots
    /\ NoObject \notin Objects
    /\ Contains \in [Snapshots -> SUBSET Objects]

ASSUME LimitAssumption ==
    /\ Concurrency \in Nat \ {0} /\ Backlog \in Nat
    /\ RecentViews \in Nat \ {0} /\ RecentWindow \in Nat \ {0}
    /\ TTL \in Nat \ {0} /\ Margin \in Nat /\ Margin < TTL
    /\ MaxPushes \in Nat /\ MaxRevokes \in Nat /\ MaxTime \in Nat

VARIABLES
    head,      \* the primary's refs
    granted,   \* whether the user may read now
    retained,  \* the primary's retained snapshots
    now,       \* the clock
    avail,     \* the Edge's complete views
    held,      \* the view each request has a lease on
    recent,    \* ReadRuntime.recent for the repository
    req,       \* each request
    pushes, revokes,  \* bounds
    heads,     \* history: the primary's states since the request was admitted
    vouched,   \* history: the user could read at some moment since the lease
    revokedAt  \* history: when the user lost the permission, if it is lost

vars == <<head, granted, retained, now, avail, held, recent, req, pushes, revokes,
          heads, vouched, revokedAt>>

Views == Snapshots
Owners == Requests
Store == INSTANCE ViewStore

\* Where a request is while the primary prepares its plan, and all of its points.
Preparing == {"observing", "retaining", "keeping", "stamping", "confirming", "answered"}
Points == Preparing \cup {"idle", "queued", "copying", "inspecting", "deciding",
                         "revalidating", "checking", "serving"}

\* Which prepare a request is in: for a remembered view, for the primary's current
\* one, for a fetch from the view just discovered, or for a plan about to expire.
Stages == {"candidate", "discover", "confirm", "renew"}

\* asked is the snapshot named in the call to the primary, if any, aim the one its
\* plan names, until the end of the plan, and cands the candidates not tried yet.
Requested == [pc : Points, kind : {"discover", "fetch"}, want : Objects \cup {NoObject},
              stage : Stages, asked : Snapshots \cup {NoView}, aim : Snapshots \cup {NoView},
              until : Nat, cands : Seq(Snapshots)]

Idle == [pc |-> "idle", kind |-> "discover", want |-> NoObject, stage |-> "discover",
         asked |-> NoView, aim |-> NoView, until |-> 0, cands |-> <<>>]

Entries == [snapshot : Snapshots, seen : Nat]

TypeOK ==
    /\ head \in Snapshots
    /\ granted \in BOOLEAN
    /\ retained \subseteq Snapshots
    /\ now \in Nat
    /\ Store!TypeOK
    /\ recent \in Seq(Entries)
    /\ req \in [Requests -> Requested]
    /\ pushes \in Nat /\ revokes \in Nat
    /\ heads \in [Requests -> SUBSET Snapshots]
    /\ vouched \in [Requests -> BOOLEAN]
    /\ revokedAt \in Nat

Init ==
    /\ head = First
    /\ granted = TRUE
    /\ retained = {}
    /\ now = 0
    /\ Store!Init
    /\ recent = <<>>
    /\ req = [r \in Requests |-> Idle]
    /\ pushes = 0 /\ revokes = 0
    /\ heads = [r \in Requests |-> {}]
    /\ vouched = [r \in Requests |-> FALSE]
    /\ revokedAt = 0

At(r, pc) == req[r].pc = pc
Goto(r, pc) == req' = [req EXCEPT ![r].pc = pc]

\* Mutant: a plan is checked for its form only.
WellFormed(r) == req[r].until > 0

\* ReadPlan.ValidateFor: the part that changes with time.
Valid(r) == now < req[r].until

History == <<heads, vouched, revokedAt>>
Primary == <<head, granted, pushes, revokes>>

-----------------------------------------------------------------------------
(* Admission and the choice of a view: ServeHTTP, selectView.               *)

\* The remembered views inside the window.
Fresh == SelectSeq(recent, LAMBDA e : now - e.seen < RecentWindow)

\* What to prepare next: a candidate while there are any, then the current view.
Try(r, kind, want, cands) ==
    req' = [req EXCEPT ![r] =
              IF cands = <<>>
              THEN [pc |-> "observing", kind |-> kind, want |-> want, stage |-> "discover",
                    asked |-> NoView, aim |-> NoView, until |-> 0, cands |-> <<>>]
              ELSE [pc |-> "observing", kind |-> kind, want |-> want, stage |-> "candidate",
                    asked |-> Head(cands), aim |-> NoView, until |-> 0, cands |-> Tail(cands)]]

\* Mutant: a discovery is answered by a remembered view too.
HintsForAll(kind) == [i \in 1 .. Len(Fresh) |-> Fresh[i].snapshot]

\* candidates: a fetch tries the views remembered inside the window.
Hints(kind) == IF kind = "fetch" THEN [i \in 1 .. Len(Fresh) |-> Fresh[i].snapshot] ELSE <<>>

\* Beyond the admission queue a request is answered at once, which changes nothing.
Admit(r, kind, want) ==
    /\ At(r, "idle")
    /\ Cardinality({q \in Requests : ~At(q, "idle")}) < Concurrency + Backlog
    /\ req' = [req EXCEPT ![r] = [Idle EXCEPT !.pc = "queued", !.kind = kind, !.want = want]]
    /\ heads' = [heads EXCEPT ![r] = {head}]
    /\ UNCHANGED <<Primary, retained, now, avail, held, recent, vouched, revokedAt>>

TakeSlot(r) ==
    /\ At(r, "queued")
    /\ Cardinality({q \in Requests : req[q].pc \notin {"idle", "queued"}}) < Concurrency
    /\ recent' = IF req[r].kind = "fetch" THEN Fresh ELSE recent
    /\ Try(r, req[r].kind, req[r].want, Hints(req[r].kind))
    /\ UNCHANGED <<Primary, retained, now, avail, held, History>>

-----------------------------------------------------------------------------
(* prepare, at the primary: authenticate, PrepareRead, authenticate again,  *)
(* RevalidateRead.                                                          *)

\* A discovery takes the snapshot that was observed, a fetch the one it names.
Observed(r) == IF req[r].asked = NoView THEN head ELSE req[r].asked

\* Under the capture barrier: authorize, and observe the refs.
Observe(r) ==
    /\ At(r, "observing")
    /\ granted
    /\ req' = [req EXCEPT ![r].pc = "retaining", ![r].aim = Observed(r)]
    /\ UNCHANGED <<Primary, retained, now, avail, held, recent, History>>

\* The first Acquire, with the barrier open again: the snapshot is still retained.
Retained(r) ==
    /\ At(r, "retaining")
    /\ req[r].aim \in retained
    /\ Goto(r, "stamping")
    /\ UNCHANGED <<Primary, retained, now, avail, held, recent, History>>

\* It is not: under the barrier anew, a discovery is authorized again and the refs
\* of that moment are pinned.  A fetch is never given another snapshot.
Pin(r) ==
    /\ At(r, "retaining")
    /\ req[r].aim \notin retained
    /\ req[r].asked = NoView
    /\ granted
    /\ req' = [req EXCEPT ![r].pc = "keeping", ![r].aim = head]
    /\ UNCHANGED <<Primary, retained, now, avail, held, recent, History>>

\* The pinned snapshot is found retained by now, or retained from the pin.
RetainPin(r) ==
    /\ At(r, "keeping")
    /\ retained' = retained \cup {req[r].aim}
    /\ Goto(r, "stamping")
    /\ UNCHANGED <<Primary, now, avail, held, recent, History>>

\* The plan's lifetime starts when the snapshot is there.
Stamp(r) ==
    /\ At(r, "stamping")
    /\ req' = [req EXCEPT ![r].pc = "confirming", ![r].until = now + TTL]
    /\ UNCHANGED <<Primary, retained, now, avail, held, recent, History>>

\* RevalidateRead's use-time check.
Authorized(r) == Valid(r) /\ granted /\ req[r].aim \in retained

\* Authentication afresh and RevalidateRead, before the plan is sent.
Confirm(r) ==
    /\ At(r, "confirming")
    /\ Authorized(r)
    /\ Goto(r, "answered")
    /\ UNCHANGED <<Primary, retained, now, avail, held, recent, History>>

\* The plan arrives: it is valid, and for the snapshot that was asked for, if any.
Receive(r) ==
    /\ At(r, "answered")
    /\ Valid(r)
    /\ req[r].asked \in {NoView, req[r].aim}
    /\ Goto(r, CASE req[r].stage \in {"candidate", "discover"} -> "copying"
                 [] req[r].stage = "confirm" -> "deciding"
                 [] OTHER -> "revalidating")
    /\ UNCHANGED <<Primary, retained, now, avail, held, recent, History>>

-----------------------------------------------------------------------------
(* materialize, and the second decision: ServeHTTP.                         *)

Satisfies(r, s) == req[r].want = NoObject \/ req[r].want \in Contains[s]

\* EnsureSnapshot: a lease on the exact view, copied or there already.
Ensure(r) ==
    /\ At(r, "copying")
    /\ Store!Lease(r, req[r].aim)
    /\ Goto(r, "inspecting")
    /\ vouched' = [vouched EXCEPT ![r] = granted]
    /\ UNCHANGED <<Primary, retained, now, recent, heads, revokedAt>>

\* Mutant: only a remembered view is searched for the wanted object.
ContainedInHint(r) == req[r].stage = "candidate" => Satisfies(r, req[r].aim)

\* ContainsObjects: the view has every wanted object.
Contained(r) == Satisfies(r, req[r].aim)

\* A fetch that had to discover its view asks for a plan of its own.
Select(r) ==
    /\ At(r, "inspecting")
    /\ Contained(r)
    /\ req' = IF req[r].kind = "fetch" /\ req[r].stage = "discover"
              THEN [req EXCEPT ![r].pc = "observing", ![r].stage = "confirm", ![r].asked = req[r].aim]
              ELSE [req EXCEPT ![r].pc = "deciding"]
    /\ UNCHANGED <<Primary, retained, now, avail, held, recent, History>>

\* A candidate without them is released: try the next.
NotHere(r) ==
    /\ At(r, "inspecting")
    /\ ~Contained(r)
    /\ req[r].stage = "candidate"
    /\ Store!Return(r)
    /\ Try(r, req[r].kind, req[r].want, req[r].cands)
    /\ vouched' = [vouched EXCEPT ![r] = FALSE]
    /\ UNCHANGED <<Primary, retained, now, recent, heads, revokedAt>>

\* Mutant: a plan that is not about to expire is good enough after the copy.
DecidedByPlan(r) ==
    IF now >= req[r].until - Margin
    THEN [req EXCEPT ![r].pc = "observing", ![r].stage = "renew", ![r].asked = req[r].aim]
    ELSE [req EXCEPT ![r].pc = "checking"]

Decided(r) ==
    IF now >= req[r].until - Margin
    THEN [req EXCEPT ![r].pc = "observing", ![r].stage = "renew", ![r].asked = req[r].aim]
    ELSE [req EXCEPT ![r].pc = "revalidating"]

\* A plan about to expire is replaced by a new decision about the same view.
Decide(r) ==
    /\ At(r, "deciding")
    /\ req' = Decided(r)
    /\ UNCHANGED <<Primary, retained, now, avail, held, recent, History>>

\* The primary's RevalidateRead, after the copy.
Revalidate(r) ==
    /\ At(r, "revalidating")
    /\ Authorized(r)
    /\ Goto(r, "checking")
    /\ UNCHANGED <<Primary, retained, now, avail, held, recent, History>>

\* The most recent first, each snapshot once, at most RecentViews of them.
Remembered(s) ==
    LET others == SelectSeq(recent, LAMBDA e : e.snapshot # s /\ now - e.seen < RecentWindow)
        kept == IF Len(others) < RecentViews THEN Len(others) ELSE RecentViews - 1
    IN  <<[snapshot |-> s, seen |-> now]>> \o SubSeq(others, 1, kept)

\* The plan is checked once more, a discovery is remembered and Git starts.
Serve(r) ==
    /\ At(r, "checking")
    /\ Valid(r)
    /\ recent' = IF req[r].kind = "discover" THEN Remembered(req[r].aim) ELSE recent
    /\ Goto(r, "serving")
    /\ UNCHANGED <<Primary, retained, now, avail, held, History>>

-----------------------------------------------------------------------------
(* The ways out: a denial, a view that is unavailable, a plan that expired, *)
(* the deadline of the request.  Each return releases what it must itself.  *)

Gone(r) ==
    /\ req' = [req EXCEPT ![r] = Idle]
    /\ heads' = [heads EXCEPT ![r] = {}]
    /\ vouched' = [vouched EXCEPT ![r] = FALSE]
    /\ UNCHANGED <<Primary, retained, now, recent, revokedAt>>

\* Before there is a view: no slot, no plan, no copy.
Refuse(r) ==
    /\ \/ At(r, "queued")
       \/ req[r].pc \in Preparing \cup {"copying"} /\ req[r].stage \in {"candidate", "discover"}
    /\ Gone(r)
    /\ UNCHANGED <<avail, held>>

\* materialize: the view cannot be searched, or the current one lacks an object.
Reject(r) ==
    /\ At(r, "inspecting")
    /\ Store!Return(r)
    /\ Gone(r)

\* Mutant: the error of the second prepare is returned with the view still leased.
RefuseOnly(r) ==
    /\ req[r].pc \in Preparing /\ req[r].stage = "confirm"
    /\ Gone(r)
    /\ UNCHANGED <<avail, held>>

\* selectView: no plan for the fetch from the view just discovered.
Withdraw(r) ==
    /\ req[r].pc \in Preparing /\ req[r].stage = "confirm"
    /\ Store!Return(r)
    /\ Gone(r)

\* ServeHTTP, once selectView has returned the view: the deferred release.
Abort(r) ==
    /\ \/ req[r].pc \in {"deciding", "revalidating", "checking"}
       \/ req[r].pc \in Preparing /\ req[r].stage = "renew"
    /\ Store!Return(r)
    /\ Gone(r)

\* The same release when Git is done.
Finish(r) ==
    /\ At(r, "serving")
    /\ Store!Return(r)
    /\ Gone(r)

-----------------------------------------------------------------------------
(* Around the requests.                                                     *)

\* A push moves the primary's refs.
Push(s) ==
    /\ pushes < MaxPushes
    /\ s # head
    /\ head' = s
    /\ pushes' = pushes + 1
    /\ heads' = [r \in Requests |-> IF At(r, "idle") THEN {} ELSE heads[r] \cup {s}]
    /\ UNCHANGED <<granted, retained, now, avail, held, recent, req, revokes, vouched, revokedAt>>

Revoke ==
    /\ granted
    /\ revokes < MaxRevokes
    /\ granted' = FALSE
    /\ revokes' = revokes + 1
    /\ revokedAt' = now
    /\ UNCHANGED <<head, retained, now, avail, held, recent, req, pushes, heads, vouched>>

Grant ==
    /\ ~granted
    /\ revokes < MaxRevokes
    /\ granted' = TRUE
    /\ revokes' = revokes + 1
    /\ vouched' = [r \in Requests |-> held[r] # NoView]
    /\ revokedAt' = 0
    /\ UNCHANGED <<head, retained, now, avail, held, recent, req, pushes, heads>>

\* The primary's retention.
Prune(s) ==
    /\ s \in retained
    /\ retained' = retained \ {s}
    /\ UNCHANGED <<Primary, now, avail, held, recent, req, History>>

\* The mirror copies a retained view, or collects an idle one.
Copy(s) ==
    /\ s \in retained \ avail
    /\ \E r \in Requests : At(r, "copying") /\ req[r].aim = s
    /\ avail' = avail \cup {s}
    /\ UNCHANGED <<Primary, retained, now, held, recent, req, History>>

Collect(s) ==
    /\ s \in avail \ Store!InUse
    /\ avail' = avail \ {s}
    /\ UNCHANGED <<Primary, retained, now, held, recent, req, History>>

Tick ==
    /\ now < MaxTime
    /\ now' = now + 1
    /\ UNCHANGED <<Primary, retained, avail, held, recent, req, History>>

Handle(r) ==
    \/ Admit(r, "discover", NoObject)
    \/ \E o \in Objects : Admit(r, "fetch", o)
    \/ TakeSlot(r) \/ Observe(r) \/ Retained(r) \/ Pin(r) \/ RetainPin(r) \/ Stamp(r)
    \/ Confirm(r) \/ Receive(r) \/ Ensure(r) \/ Select(r) \/ NotHere(r) \/ Decide(r)
    \/ Revalidate(r) \/ Serve(r)
    \/ Refuse(r) \/ Reject(r) \/ Withdraw(r) \/ Abort(r) \/ Finish(r)

Next ==
    \/ \E r \in Requests : Handle(r)
    \/ \E s \in Snapshots : Push(s) \/ Prune(s) \/ Copy(s) \/ Collect(s)
    \/ Revoke \/ Grant \/ Tick

Spec == Init /\ [][Next]_vars

-----------------------------------------------------------------------------
(* Properties.                                                              *)

\* ServeHTTP: what is served was authorized after the copy of the view, however
\* long the copy took; the decision made before it is never enough.
AuthorizedAfterCopy ==
    \A r \in Requests : At(r, "serving") => vouched[r]

\* ReadPlan: a lost permission stops new answers within the plan's lifetime.
RevocationBounded ==
    [][\A r \in Requests : ~At(r, "serving") /\ At(r, "serving")' => granted \/ now < revokedAt + TTL]_vars

\* selectView: a discovery answers with a state the primary's refs had while the
\* request was there, though it may be retained, copied and decided again.
DiscoveryCurrent ==
    \A r \in Requests :
        At(r, "serving") /\ req[r].kind = "discover" => req[r].aim \in heads[r]

\* materialize: Git reads the leased view of the plan, complete, with the wanted
\* object, to the end.
ServedExactly ==
    \A r \in Requests :
        At(r, "serving") => /\ held[r] = req[r].aim
                            /\ held[r] \in avail
                            /\ Satisfies(r, held[r])

\* ServeHTTP, selectView, materialize: each of the handler's returns, and each move
\* to the next candidate, gives back the lease taken until then, so a view is kept
\* from collection only by a request that will release it.
NoLeaseLeft ==
    \A r \in Requests :
        \/ req[r].pc \in {"idle", "queued", "copying"}
        \/ req[r].pc \in Preparing /\ req[r].stage \in {"candidate", "discover"}
        => held[r] = NoView

=============================================================================
