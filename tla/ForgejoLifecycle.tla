------------------------- MODULE ForgejoLifecycle -------------------------
(***************************************************************************)
(* One pull request whose open or closed state is kept twice: in the       *)
(* native row and in the mapped Forgejo pull request.  People change both  *)
(* sides.  A native close is dispatched to the provider after its          *)
(* transaction; a native reopen records a pending intent that a worker     *)
(* later confirms against the provider; a provider close comes back as a   *)
(* signed webhook that may be late, repeated or out of order.  A merge may *)
(* be made on either side.                                                 *)
(*                                                                         *)
(* What orders the two sides is a generation (one per native reopen), the  *)
(* pending intent and a watermark: the provider time of the last lifecycle *)
(* fact taken over.  Provider times never go back, but two changes may     *)
(* carry the same truncated time.  Time 0 stands for the absent watermark. *)
(***************************************************************************)
EXTENDS Integers, FiniteSets

CONSTANTS
  Handlers,   \* requests that process a close webhook
  Workers,    \* synchronous dispatches and job runs that project the PR
  MaxGen,     \* bound on native reopens
  MaxTime,    \* bound on provider times
  MaxLife,    \* bound on how often the provider's pull request is opened
  MaxClosers  \* bound on native close dispatches in flight

ASSUME BoundsAssumption ==
  MaxGen \in Nat /\ MaxTime \in Nat \ {0} /\ MaxLife \in Nat /\ MaxClosers \in Nat

VARIABLES
  pr,        \* the native row: state, merged, gen, pending, at
  binding,   \* state column of the projection row
  provider,  \* the Forgejo pull request: state, at (updated_at), life
  events,    \* close webhooks emitted so far; any may be delivered, again
  handler,   \* per handler: what it has read
  worker,    \* per worker: the row it observed and the snapshot it took
  closers,   \* native close dispatches before their PATCH, and after it
  seen       \* history: what was confirmed and seen, for the properties

vars == <<pr, binding, provider, events, handler, worker, closers, seen>>

Times == 0..MaxTime
PullRequests == [state: {"open", "closed"}, merged: BOOLEAN, gen: 0..MaxGen,
                 pending: BOOLEAN, at: Times]
Snapshots == [state: {"open", "closed", "merged"}, at: Times, life: 0..MaxLife]
\* What the checks under the lock compare of an observed open row.
Intents == [gen: 0..MaxGen, pending: BOOLEAN, at: Times]
CloseEvents == [at: Times, life: 0..MaxLife]

\* A handler or a worker without work.
Idle == [pc |-> "idle"]

TypeOK ==
  /\ pr \in PullRequests
  /\ binding \in {"open", "closed"}
  /\ provider \in Snapshots
  /\ events \subseteq CloseEvents
  /\ handler \in [Handlers -> {Idle} \cup [pc: {"row", "readback"}, gen: 0..MaxGen, event: CloseEvents]]
  /\ worker \in [Workers -> {Idle} \cup [pc: {"observed"}, pr: Intents]
                            \cup [pc: {"looked", "ensured"}, pr: Intents, snap: Snapshots]]
  /\ closers \in [{"patching", "marking"} -> 0..MaxClosers]
  /\ closers["patching"] + closers["marking"] <= MaxClosers
  /\ seen \in [life: 0..MaxLife, gen: 0..MaxGen, open: BOOLEAN, closed: BOOLEAN]

\* A projected pull request, open on both sides, never reopened.
Init ==
  /\ pr = [state |-> "open", merged |-> FALSE, gen |-> 0, pending |-> FALSE, at |-> 0]
  /\ binding = "open"
  /\ provider = [state |-> "open", at |-> 1, life |-> 0]
  /\ events = {}
  /\ handler = [h \in Handlers |-> Idle]
  /\ worker = [w \in Workers |-> Idle]
  /\ closers = [phase \in {"patching", "marking"} |-> 0]
  /\ seen = [life |-> 0, gen |-> 0, open |-> FALSE, closed |-> FALSE]

(***************************************************************************)
(* History, kept while a property may ask for it.  seen.open: the provider *)
(* was open at some moment of the generation whose intent waits.           *)
(* seen.closed: it was closed at some moment since the last intent was     *)
(* confirmed.  seen.gen, seen.life: the last confirmed generation, and the *)
(* provider life that confirmed it.  A merge ends the history.             *)
(***************************************************************************)
NothingSeen == [life |-> 0, gen |-> 0, open |-> FALSE, closed |-> FALSE]

Watch(confirmed) ==
  LET sameGen == pr'.gen = pr.gen
      consumed == pr.pending /\ ~pr'.pending
      life == IF consumed THEN confirmed.life ELSE seen.life
  IN seen' = IF pr'.merged THEN NothingSeen ELSE
             [life   |-> IF pr'.pending THEN 0 ELSE life,
              gen    |-> IF consumed THEN pr.gen ELSE seen.gen,
              open   |-> pr'.pending /\ (provider'.state = "open" \/ (sameGen /\ seen.open)),
              closed |-> ~pr'.pending /\ (provider'.state = "closed" \/ (~consumed /\ seen.closed))]

---------------------------------------------------------------------------
(***************************************************************************)
(* The provider.  SetProvider is one accepted state change: its time is    *)
(* the same as the last one or later, and a close emits a webhook.         *)
(***************************************************************************)
SetProvider(s) ==
  /\ provider.state # "merged"
  /\ \E t \in {provider.at, provider.at + 1} \cap Times:
       LET opened == s = "open" /\ provider.state = "closed"
           closes == s = "closed" /\ provider.state = "open"
       IN /\ opened => provider.life < MaxLife
          /\ provider' = [state |-> s, at |-> t,
                          life |-> IF opened THEN provider.life + 1 ELSE provider.life]
          /\ events' = IF closes THEN events \cup {[at |-> t, life |-> provider.life]} ELSE events

\* A person closes, reopens, edits or merges the pull request on Forgejo.
PersonChanges ==
  /\ \E s \in {"open", "closed", "merged"}: SetProvider(s)
  /\ UNCHANGED <<pr, binding, handler, worker, closers>>
  /\ Watch(provider)

---------------------------------------------------------------------------
(***************************************************************************)
(* The native side.                                                        *)
(***************************************************************************)
\* updatePRLifecycleTx with state closed, from REST or GraphQL.  A pending
\* intent stays.  Only a real transition is dispatched, after the commit and
\* outside the lock.
NativeClose ==
  /\ pr.state = "open"
  /\ closers["patching"] + closers["marking"] < MaxClosers
  /\ pr' = [pr EXCEPT !.state = "closed"]
  /\ closers' = [closers EXCEPT !["patching"] = @ + 1]
  /\ UNCHANGED <<binding, provider, events, handler, worker>>
  /\ Watch(provider)

\* updatePRLifecycleTx with state open: a new generation and its intent.
Reopened(p) == [p EXCEPT !.state = "open", !.gen = @ + 1, !.pending = TRUE]

NativeReopen ==
  /\ pr.state = "closed" /\ ~pr.merged /\ pr.gen < MaxGen
  /\ pr' = Reopened(pr)
  /\ UNCHANGED <<binding, provider, events, handler, worker, closers>>
  /\ Watch(provider)

\* DispatchPullRequestClosedIntegrations reads row and binding again, and
\* closeExternalPullRequestProjection PATCHes.  The PATCH carries no generation.
PatchClosed ==
  /\ closers["patching"] > 0
  /\ ~pr.merged /\ binding = "open"
  /\ SetProvider("closed")
  /\ closers' = [closers EXCEPT !["patching"] = @ - 1, !["marking"] = @ + 1]
  /\ UNCHANGED <<pr, binding, handler, worker>>
  /\ Watch(provider)

\* The dispatch records what the PATCH did, whatever the binding is now.
MarkBindingClosed ==
  /\ closers["marking"] > 0
  /\ binding' = "closed"
  /\ closers' = [closers EXCEPT !["marking"] = @ - 1]
  /\ UNCHANGED <<pr, provider, events, handler, worker>>
  /\ Watch(provider)

\* Nothing is left to close, the PATCH or the update fails, or the process stops:
\* at most a warning.
CloseDispatchEnds(phase) ==
  /\ closers[phase] > 0
  /\ closers' = [closers EXCEPT ![phase] = @ - 1]
  /\ UNCHANGED <<pr, binding, provider, events, handler, worker>>
  /\ Watch(provider)

Merged(p) == [p EXCEPT !.state = "closed", !.merged = TRUE]

\* mergePRRecordWithActor: the row was open when the request read it, Git has
\* merged, and the row is written without another look at it.  It may have been
\* closed or reopened since.  The binding stays as it is.
NativeMerge ==
  /\ ~pr.merged
  /\ pr' = Merged(pr)
  /\ UNCHANGED <<binding, provider, events, handler, worker, closers>>
  /\ Watch(provider)

\* markAGSPRMergedKeepProviderOpen: Forgejo's base has the head already, the open
\* row is merged under its lock and the binding kept open for the provider.
AcknowledgeMerge ==
  /\ pr.state = "open"
  /\ pr' = Merged(pr)
  /\ UNCHANGED <<binding, provider, events, handler, worker, closers>>
  /\ Watch(provider)

---------------------------------------------------------------------------
(***************************************************************************)
(* Workers: the dispatch of the request that reopened the pull request and *)
(* the runs of the projection job.  Each works from a row read earlier.    *)
(***************************************************************************)
Observe(w) ==
  /\ worker[w] = Idle
  /\ pr.state = "open"
  /\ worker' = [worker EXCEPT ![w] = [pc |-> "observed",
                     pr |-> [gen |-> pr.gen, pending |-> pr.pending, at |-> pr.at]]]
  /\ UNCHANGED <<pr, binding, provider, events, handler, closers>>
  /\ Watch(provider)

\* reopenForgejoProjection, up to its exact GET outside the lock.
LookBefore(w) ==
  /\ worker[w].pc = "observed"
  /\ binding = "closed" \/ worker[w].pr.pending
  /\ provider.state # "merged"
  /\ worker' = [worker EXCEPT ![w] = [pc |-> "looked", pr |-> @.pr, snap |-> provider]]
  /\ UNCHANGED <<pr, binding, provider, events, handler, closers>>
  /\ Watch(provider)

\* EnsurePullRequest finds the open mapped pull request, and
\* prepareForgejoProjectionConfirmation reads it back.  With the mapped one closed
\* it opens a second one, which recordForgejoProjectionTx refuses because it is not
\* the mapped one: row and binding stay, and the worker gives up.
Ensure(w) ==
  /\ worker[w].pc = "observed"
  /\ provider.state = "open"
  /\ worker' = [worker EXCEPT ![w] = [pc |-> "ensured", pr |-> @.pr, snap |-> provider]]
  /\ UNCHANGED <<pr, binding, provider, events, handler, closers>>
  /\ Watch(provider)

\* Mutants: any generation is accepted; a merged row is accepted.
SameFactAnyGen(current, observed) == ~current.merged /\ current.state = "open"
SameFactIfMerged(current, observed) == current.gen = observed.gen

\* validateForgejoProjectionFact: the row is still the open one that was observed.
SameFact(current, observed) ==
  ~current.merged /\ current.state = "open" /\ current.gen = observed.gen

\* Mutant: an intent that is already confirmed is accepted.
SameIntentDone(current, observed) == observed.pending

\* validateForgejoReopenIntent: the observed intent still waits.
SameIntent(current, observed) ==
  current.pending /\ observed.pending /\ current.at = observed.at

\* The watermark of a snapshot may not lie before the recorded one.
NotRegressed(current, snap) == snap.at >= current.at

Confirmed(p, snap) == [p EXCEPT !.pending = FALSE, !.at = snap.at]

\* The locked part of reopenForgejoProjection when the provider was open
\* before: nothing is written there.
ConfirmOpen(w) ==
  /\ worker[w].pc = "looked" /\ worker[w].snap.state = "open"
  /\ SameFact(pr, worker[w].pr) /\ SameIntent(pr, worker[w].pr)
  /\ NotRegressed(pr, worker[w].snap)
  /\ pr' = Confirmed(pr, worker[w].snap)
  /\ binding' = "open"
  /\ worker' = [worker EXCEPT ![w] = Idle]
  /\ UNCHANGED <<provider, events, handler, closers>>
  /\ Watch(worker[w].snap)

\* The locked part when it was closed: PATCH open, exact GET, commit.
PatchOpen(w) ==
  /\ worker[w].pc = "looked" /\ worker[w].snap.state = "closed"
  /\ SameFact(pr, worker[w].pr) /\ SameIntent(pr, worker[w].pr)
  /\ SetProvider("open")
  /\ NotRegressed(pr, provider')
  /\ pr' = Confirmed(pr, provider')
  /\ binding' = "open"
  /\ worker' = [worker EXCEPT ![w] = Idle]
  /\ UNCHANGED <<handler, closers>>
  /\ Watch(provider')

\* The PATCH went through, the readback or the commit did not.
PatchOpenRollsBack(w) ==
  /\ worker[w].pc = "looked" /\ worker[w].snap.state = "closed"
  /\ SameFact(pr, worker[w].pr) /\ SameIntent(pr, worker[w].pr)
  /\ SetProvider("open")
  /\ worker' = [worker EXCEPT ![w] = Idle]
  /\ UNCHANGED <<pr, binding, handler, closers>>
  /\ Watch(provider)

\* recordForgejoProjectionTx: an intent is consumed only with a snapshot the
\* worker took because it had observed the intent.
Record(w) ==
  /\ worker[w].pc = "ensured"
  /\ SameFact(pr, worker[w].pr)
  /\ IF pr.pending
       THEN /\ SameIntent(pr, worker[w].pr)
            /\ NotRegressed(pr, worker[w].snap)
            /\ pr' = Confirmed(pr, worker[w].snap)
       ELSE pr' = pr
  /\ binding' = "open"
  /\ worker' = [worker EXCEPT ![w] = Idle]
  /\ UNCHANGED <<provider, events, handler, closers>>
  /\ Watch(worker[w].snap)

\* Every other outcome: a check refuses, a call fails, the process stops.
GiveUp(w) ==
  /\ worker[w] # Idle
  /\ worker' = [worker EXCEPT ![w] = Idle]
  /\ UNCHANGED <<pr, binding, provider, events, handler, closers>>
  /\ Watch(provider)

---------------------------------------------------------------------------
(***************************************************************************)
(* Webhooks.                                                               *)
(***************************************************************************)
\* Mutant: an event at the watermark closes an open row.
StaleStrictly(e, p) == e.at < p.at

\* An event that lies before the watermark is stale; one at the watermark
\* repairs a closed row but does not beat an open one.
Stale(e, p) == e.at < p.at \/ (e.at = p.at /\ p.state # "closed")

\* readProjectionClose up to the readback.  A pending intent is an error and
\* a stale event a no-op: neither leaves a trace.
ReadRow(h, e) ==
  /\ handler[h] = Idle
  /\ ~pr.merged /\ ~pr.pending /\ ~Stale(e, pr)
  /\ handler' = [handler EXCEPT ![h] = [pc |-> "row", gen |-> pr.gen, event |-> e]]
  /\ UNCHANGED <<pr, binding, provider, events, worker, closers>>
  /\ Watch(provider)

\* The exact GET: closed, and not older than the event.
ReadBack(h) ==
  /\ handler[h].pc = "row"
  /\ provider.state = "closed" /\ handler[h].event.at <= provider.at
  /\ handler' = [handler EXCEPT ![h].pc = "readback"]
  /\ UNCHANGED <<pr, binding, provider, events, worker, closers>>
  /\ Watch(provider)

\* Mutant: only the event's time is checked again.
StillClosesByTime(h) == ~pr.merged /\ ~Stale(handler[h].event, pr)

\* The re-check of MarkPullRequestClosedFromProjection under the locks.
StillCloses(h) ==
  /\ ~pr.merged /\ ~pr.pending
  /\ pr.gen = handler[h].gen
  /\ ~Stale(handler[h].event, pr)

\* MarkPullRequestClosedFromProjection: row, watermark and binding in one transaction.
ApplyClose(h) ==
  /\ handler[h].pc = "readback"
  /\ StillCloses(h)
  /\ pr' = [pr EXCEPT !.state = "closed",
                      !.at = IF handler[h].event.at > @ THEN handler[h].event.at ELSE @]
  /\ binding' = "closed"
  /\ handler' = [handler EXCEPT ![h] = Idle]
  /\ UNCHANGED <<provider, events, worker, closers>>
  /\ Watch(provider)

\* Refused, failed or interrupted; the webhook may be delivered again.
DropClose(h) ==
  /\ handler[h] # Idle
  /\ handler' = [handler EXCEPT ![h] = Idle]
  /\ UNCHANGED <<pr, binding, provider, events, worker, closers>>
  /\ Watch(provider)

\* MarkPullRequestMergedFromProjection: the merge webhook overrides every
\* generation and intent, and closes the bindings.  On a row that is merged
\* already it leaves row and binding as they are.
ApplyMerge ==
  /\ provider.state = "merged" /\ ~pr.merged
  /\ pr' = Merged(pr)
  /\ binding' = "closed"
  /\ UNCHANGED <<provider, events, handler, worker, closers>>
  /\ Watch(provider)

---------------------------------------------------------------------------
Next ==
  \/ PersonChanges
  \/ NativeClose \/ NativeReopen \/ NativeMerge \/ AcknowledgeMerge
  \/ PatchClosed \/ MarkBindingClosed
  \/ \E phase \in {"patching", "marking"}: CloseDispatchEnds(phase)
  \/ \E w \in Workers: Observe(w) \/ LookBefore(w) \/ Ensure(w)
  \/ \E w \in Workers: ConfirmOpen(w) \/ PatchOpen(w) \/ PatchOpenRollsBack(w)
  \/ \E w \in Workers: Record(w) \/ GiveUp(w)
  \/ \E h \in Handlers, e \in events: ReadRow(h, e)
  \/ \E h \in Handlers: ReadBack(h) \/ ApplyClose(h) \/ DropClose(h)
  \/ ApplyMerge

Spec == Init /\ [][Next]_vars

---------------------------------------------------------------------------
(***************************************************************************)
(* Properties.                                                             *)
(***************************************************************************)
\* A merge is final, on whichever side it was made: no worker, handler, dispatch
\* or request that was under way then brings the row back, and a binding that is
\* closed after it, by the merge webhook or by a dispatch, is never opened again.
MergedIsFinal ==
  [][pr.merged => /\ pr'.merged /\ pr'.state = "closed"
                  /\ binding = "closed" => binding' = "closed"]_vars

\* What a handler read before a native reopen never closes the reopened pull
\* request: a webhook closes an open row only when no reopen waits for its
\* confirmation and the provider was closed at some moment since the last
\* one was confirmed.
CloseReadBack ==
  [][\A h \in Handlers:
       ApplyClose(h) /\ pr.state = "open" => ~pr.pending /\ seen.closed]_vars

\* A close webhook of an earlier life of the provider's pull request never
\* closes the row that a later life confirmed, however late it is delivered
\* and whether or not the two changes carry the same time.
CloseEventCurrent ==
  [][\A h \in Handlers:
       ApplyClose(h) /\ pr.state = "open" => handler[h].event.life >= seen.life]_vars

\* An intent is consumed only when the provider was open at some moment of
\* the generation that recorded it; a snapshot taken for an earlier reopen
\* does not count.
ReopenConfirmed ==
  [][pr.pending /\ ~pr'.pending => seen.open \/ provider'.state = "open"]_vars

\* Of all workers that observed an intent, at most one reopens the provider
\* and completes it: once a generation is confirmed no worker opens a
\* provider pull request that was closed since.
OneReopenPerIntent ==
  [][\A w \in Workers: PatchOpen(w) \/ PatchOpenRollsBack(w) => seen.gen < pr.gen]_vars

===========================================================================
