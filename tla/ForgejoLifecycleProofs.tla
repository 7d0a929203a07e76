---------------------- MODULE ForgejoLifecycleProofs ----------------------
(***************************************************************************)
(* Theorems about ForgejoLifecycle, for any number of handlers and workers *)
(* and any bounds.  The inductive invariant says what each reading taken   *)
(* outside the row's lock still tells when it is used.                     *)
(***************************************************************************)
EXTENDS ForgejoLifecycle, TLAPS

Seen == [life: 0..MaxLife, gen: 0..MaxGen, open: BOOLEAN, closed: BOOLEAN]

\* However a pull request was merged, its row is closed.
MergedInv == pr.merged => pr.state = "closed"

\* An intent that waits belongs to a generation that was never confirmed.
GenInv ==
  /\ seen.gen <= pr.gen
  /\ pr.pending => seen.gen < pr.gen

\* What a worker observed: a generation the row has reached, and a snapshot
\* that was open in that generation while its intent waits, not later than the
\* provider, and not before any close of an earlier life.
WorkerInv ==
  \A w \in Workers:
    /\ worker[w] # Idle => worker[w].pr.gen <= pr.gen
    /\ worker[w].pc = "ensured" => worker[w].snap.state = "open"
    /\ worker[w].pc \in {"looked", "ensured"} =>
         /\ worker[w].snap.life <= provider.life /\ worker[w].snap.at <= provider.at
         /\ worker[w].snap.state = "open" /\ worker[w].pr.gen = pr.gen
              /\ pr.pending /\ ~pr.merged => seen.open
         /\ \A e \in events: e.life < worker[w].snap.life => e.at <= worker[w].snap.at

\* What a handler read: while its generation lasts no intent waits, and the
\* closed provider it read back was closed after the last confirmation.
HandlerInv ==
  \A h \in Handlers: handler[h] # Idle =>
    /\ handler[h].event \in events
    /\ handler[h].gen <= pr.gen
    /\ handler[h].gen = pr.gen => ~pr.pending
    /\ handler[h].pc = "readback" /\ handler[h].gen = pr.gen /\ ~pr.merged => seen.closed

\* Closes of lives before the confirmed one lie at or before the watermark.
EventInv ==
  /\ seen.life <= provider.life
  /\ \A e \in events:
       /\ e.life <= provider.life /\ e.at <= provider.at
       /\ e.life < seen.life => e.at <= pr.at

LifecycleInv ==
  TypeOK /\ MergedInv /\ GenInv /\ WorkerInv /\ HandlerInv /\ EventInv

---------------------------------------------------------------------------
LEMMA TypeInit == Init => TypeOK
  BY BoundsAssumption DEF Init, TypeOK, PullRequests, Snapshots, Times, Idle, CloseEvents,
       Intents

\* What the updates of the row change and leave alone.
LEMMA ReopenedFacts ==
  ASSUME NEW p \in PullRequests, p.gen < MaxGen
  PROVE  /\ Reopened(p) \in PullRequests
         /\ Reopened(p).state = "open" /\ Reopened(p).merged = p.merged
         /\ Reopened(p).gen = p.gen + 1 /\ Reopened(p).pending /\ Reopened(p).at = p.at
<1>1. p.gen \in 0..MaxGen
  BY DEF PullRequests
<1> DEFINE g == p.gen + 1
<1>2. g \in 0..MaxGen
  BY <1>1, BoundsAssumption
<1> HIDE DEF g
<1>3. [p EXCEPT !.state = "open", !.gen = g, !.pending = TRUE] \in PullRequests
  BY <1>2 DEF PullRequests
<1>4. Reopened(p) \in PullRequests
  BY <1>3 DEF g, Reopened
<1>5. QED
  BY <1>4 DEF Reopened, PullRequests

LEMMA ConfirmedFacts ==
  ASSUME NEW p \in PullRequests, NEW snap \in Snapshots
  PROVE  /\ Confirmed(p, snap) \in PullRequests
         /\ Confirmed(p, snap).state = p.state /\ Confirmed(p, snap).merged = p.merged
         /\ Confirmed(p, snap).gen = p.gen
         /\ ~Confirmed(p, snap).pending /\ Confirmed(p, snap).at = snap.at
<1>1. snap.at \in Times
  BY DEF Snapshots
<1>2. Confirmed(p, snap) \in PullRequests
  BY <1>1 DEF Confirmed, PullRequests
<1>3. QED
  BY <1>2 DEF Confirmed, PullRequests

\* The history keeps its type.
LEMMA WatchType ==
  ASSUME TypeOK, pr' \in PullRequests, provider' \in Snapshots,
         NEW snap \in Snapshots, Watch(snap)
  PROVE  seen' \in Seen
  BY BoundsAssumption DEF Seen, TypeOK, PullRequests, Snapshots, NothingSeen, Watch

LEMMA MergedFacts ==
  ASSUME NEW p \in PullRequests
  PROVE  Merged(p) \in PullRequests
  BY DEF Merged, PullRequests

LEMMA TypeStep == TypeOK /\ [Next]_vars => TypeOK'
<1> SUFFICES ASSUME TypeOK, [Next]_vars PROVE TypeOK'
  OBVIOUS
<1> USE BoundsAssumption
<1>1. CASE PersonChanges
  BY <1>1 DEF TypeOK, PullRequests, Snapshots, Times, Idle, CloseEvents, Intents,
       NothingSeen, Watch, PersonChanges, SetProvider
<1>2. CASE NativeClose
  BY <1>2 DEF TypeOK, PullRequests, Snapshots, Times, Idle, CloseEvents, Intents,
       NothingSeen, Watch, NativeClose
<1>3. CASE NativeReopen
  <2>1. pr' \in PullRequests
    BY <1>3, ReopenedFacts DEF NativeReopen, TypeOK
  <2>2. seen' \in Seen
    BY <1>3, <2>1, WatchType DEF NativeReopen, TypeOK, Seen
  <2>3. QED
    BY <1>3, <2>1, <2>2 DEF NativeReopen, TypeOK, Seen
<1>4. CASE PatchClosed
  BY <1>4 DEF TypeOK, PullRequests, Snapshots, Times, Idle, CloseEvents, Intents,
       NothingSeen, Watch, PatchClosed, SetProvider
<1>5. CASE MarkBindingClosed
  BY <1>5 DEF TypeOK, PullRequests, Snapshots, Times, Idle, CloseEvents, Intents,
       NothingSeen, Watch, MarkBindingClosed
<1>6. ASSUME NEW phase \in {"patching", "marking"}, CloseDispatchEnds(phase) PROVE TypeOK'
  BY <1>6 DEF TypeOK, PullRequests, Snapshots, Times, Idle, CloseEvents, Intents,
       NothingSeen, Watch, CloseDispatchEnds
<1>7. ASSUME NEW w \in Workers, Observe(w) PROVE TypeOK'
  BY <1>7 DEF TypeOK, PullRequests, Snapshots, Times, Idle, CloseEvents, Intents,
       NothingSeen, Watch, Observe
<1>8. ASSUME NEW w \in Workers, LookBefore(w) PROVE TypeOK'
  BY <1>8 DEF TypeOK, PullRequests, Snapshots, Times, Idle, CloseEvents, Intents,
       NothingSeen, Watch, LookBefore
<1>9. ASSUME NEW w \in Workers, Ensure(w) PROVE TypeOK'
  BY <1>9 DEF TypeOK, PullRequests, Snapshots, Times, Idle, CloseEvents, Intents,
       NothingSeen, Watch, Ensure
<1>10. ASSUME NEW w \in Workers, ConfirmOpen(w) PROVE TypeOK'
  <2>1. pr \in PullRequests /\ worker[w].snap \in Snapshots
    BY <1>10 DEF ConfirmOpen, TypeOK, Idle
  <2>2. pr' \in PullRequests
    BY <1>10, <2>1, ConfirmedFacts DEF ConfirmOpen
  <2>3. seen' \in Seen
    BY <1>10, <2>1, <2>2, WatchType DEF ConfirmOpen, TypeOK, Seen
  <2>4. QED
    BY <1>10, <2>2, <2>3 DEF ConfirmOpen, TypeOK, Seen
<1>11. ASSUME NEW w \in Workers, PatchOpen(w) PROVE TypeOK'
  <2>1. provider' \in Snapshots /\ events' \subseteq CloseEvents
    BY <1>11 DEF PatchOpen, SetProvider, TypeOK, Snapshots, CloseEvents, Times
  <2>2. pr' \in PullRequests
    BY <1>11, <2>1, ConfirmedFacts DEF PatchOpen, TypeOK
  <2>3. seen' \in Seen
    BY <1>11, <2>1, <2>2, WatchType DEF PatchOpen, TypeOK, Seen
  <2>4. QED
    BY <1>11, <2>1, <2>2, <2>3 DEF PatchOpen, TypeOK, Seen
<1>12. ASSUME NEW w \in Workers, PatchOpenRollsBack(w) PROVE TypeOK'
  BY <1>12 DEF TypeOK, PullRequests, Snapshots, Times, Idle, CloseEvents, Intents,
       NothingSeen, Watch, PatchOpenRollsBack, SetProvider
<1>13. ASSUME NEW w \in Workers, Record(w) PROVE TypeOK'
  <2>1. pr \in PullRequests /\ worker[w].snap \in Snapshots
    BY <1>13 DEF Record, TypeOK, Idle
  <2>2. pr' \in PullRequests
    BY <1>13, <2>1, ConfirmedFacts DEF Record
  <2>3. seen' \in Seen
    BY <1>13, <2>1, <2>2, WatchType DEF Record, TypeOK, Seen
  <2>4. QED
    BY <1>13, <2>2, <2>3 DEF Record, TypeOK, Seen
<1>14. ASSUME NEW w \in Workers, GiveUp(w) PROVE TypeOK'
  BY <1>14 DEF TypeOK, PullRequests, Snapshots, Times, Idle, CloseEvents, Intents,
       NothingSeen, Watch, GiveUp
<1>15. ASSUME NEW h \in Handlers, NEW e \in events, ReadRow(h, e) PROVE TypeOK'
  BY <1>15 DEF TypeOK, PullRequests, Snapshots, Times, Idle, CloseEvents, Intents,
       NothingSeen, Watch, ReadRow
<1>16. ASSUME NEW h \in Handlers, ReadBack(h) PROVE TypeOK'
  BY <1>16 DEF TypeOK, PullRequests, Snapshots, Times, Idle, CloseEvents, Intents,
       NothingSeen, Watch, ReadBack
<1>17. ASSUME NEW h \in Handlers, ApplyClose(h) PROVE TypeOK'
  <2> DEFINE t == IF handler[h].event.at > pr.at THEN handler[h].event.at ELSE pr.at
  <2>1. pr \in PullRequests /\ t \in Times
    BY <1>17 DEF ApplyClose, TypeOK, Idle, CloseEvents, PullRequests
  <2>2. pr' = [pr EXCEPT !.state = "closed", !.at = t]
    BY <1>17 DEF ApplyClose
  <2> HIDE DEF t
  <2>3. pr' \in PullRequests
    BY <2>1, <2>2 DEF PullRequests
  <2>4. seen' \in Seen
    BY <1>17, <2>3, WatchType DEF ApplyClose, TypeOK, Seen
  <2>5. QED
    BY <1>17, <2>3, <2>4 DEF ApplyClose, TypeOK, Seen
<1>18. ASSUME NEW h \in Handlers, DropClose(h) PROVE TypeOK'
  BY <1>18 DEF TypeOK, PullRequests, Snapshots, Times, Idle, CloseEvents, Intents,
       NothingSeen, Watch, DropClose
<1>19. CASE ApplyMerge
  <2>1. pr' \in PullRequests
    BY <1>19, MergedFacts DEF ApplyMerge, TypeOK
  <2>2. seen' \in Seen
    BY <1>19, <2>1, WatchType DEF ApplyMerge, TypeOK, Seen
  <2>3. QED
    BY <1>19, <2>1, <2>2 DEF ApplyMerge, TypeOK, Seen
<1>20. CASE NativeMerge
  <2>1. pr' \in PullRequests
    BY <1>20, MergedFacts DEF NativeMerge, TypeOK
  <2>2. seen' \in Seen
    BY <1>20, <2>1, WatchType DEF NativeMerge, TypeOK, Seen
  <2>3. QED
    BY <1>20, <2>1, <2>2 DEF NativeMerge, TypeOK, Seen
<1>21. CASE AcknowledgeMerge
  <2>1. pr' \in PullRequests
    BY <1>21, MergedFacts DEF AcknowledgeMerge, TypeOK
  <2>2. seen' \in Seen
    BY <1>21, <2>1, WatchType DEF AcknowledgeMerge, TypeOK, Seen
  <2>3. QED
    BY <1>21, <2>1, <2>2 DEF AcknowledgeMerge, TypeOK, Seen
<1>22. CASE UNCHANGED vars
  BY <1>22 DEF TypeOK, PullRequests, Snapshots, Times, Idle, CloseEvents, Intents,
       NothingSeen, Watch, vars
<1>. QED
  BY <1>1, <1>2, <1>3, <1>4, <1>5, <1>6, <1>7, <1>8, <1>9, <1>10, <1>11, <1>12, <1>13,
       <1>14, <1>15, <1>16, <1>17, <1>18, <1>19, <1>20, <1>21, <1>22 DEF Next

LEMMA MergedStep == TypeOK /\ MergedInv /\ [Next]_vars => MergedInv'
<1> SUFFICES ASSUME TypeOK, MergedInv, [Next]_vars PROVE MergedInv'
  OBVIOUS
<1> USE BoundsAssumption
<1>1. CASE PersonChanges
  BY <1>1 DEF TypeOK, PullRequests, Snapshots, Times, Idle, CloseEvents, Intents,
       MergedInv, PersonChanges, SetProvider
<1>2. CASE NativeClose
  BY <1>2 DEF TypeOK, PullRequests, Snapshots, Times, Idle, CloseEvents, Intents,
       MergedInv, NativeClose
<1>3. CASE NativeReopen
  BY <1>3 DEF TypeOK, PullRequests, Snapshots, Times, Idle, CloseEvents, Intents,
       MergedInv, NativeReopen, Reopened
<1>4. CASE PatchClosed
  BY <1>4 DEF TypeOK, PullRequests, Snapshots, Times, Idle, CloseEvents, Intents,
       MergedInv, PatchClosed, SetProvider
<1>5. CASE MarkBindingClosed
  BY <1>5 DEF TypeOK, PullRequests, Snapshots, Times, Idle, CloseEvents, Intents,
       MergedInv, MarkBindingClosed
<1>6. ASSUME NEW phase \in {"patching", "marking"}, CloseDispatchEnds(phase) PROVE MergedInv'
  BY <1>6 DEF TypeOK, PullRequests, Snapshots, Times, Idle, CloseEvents, Intents,
       MergedInv, CloseDispatchEnds
<1>7. ASSUME NEW w \in Workers, Observe(w) PROVE MergedInv'
  BY <1>7 DEF TypeOK, PullRequests, Snapshots, Times, Idle, CloseEvents, Intents,
       MergedInv, Observe
<1>8. ASSUME NEW w \in Workers, LookBefore(w) PROVE MergedInv'
  BY <1>8 DEF TypeOK, PullRequests, Snapshots, Times, Idle, CloseEvents, Intents,
       MergedInv, LookBefore
<1>9. ASSUME NEW w \in Workers, Ensure(w) PROVE MergedInv'
  BY <1>9 DEF TypeOK, PullRequests, Snapshots, Times, Idle, CloseEvents, Intents,
       MergedInv, Ensure
<1>10. ASSUME NEW w \in Workers, ConfirmOpen(w) PROVE MergedInv'
  BY <1>10 DEF TypeOK, PullRequests, Snapshots, Times, Idle, CloseEvents, Intents,
       MergedInv, ConfirmOpen, Confirmed, SameFact, SameIntent, NotRegressed
<1>11. ASSUME NEW w \in Workers, PatchOpen(w) PROVE MergedInv'
  BY <1>11 DEF TypeOK, PullRequests, Snapshots, Times, Idle, CloseEvents, Intents,
       MergedInv, PatchOpen, SetProvider, Confirmed, SameFact, SameIntent,
       NotRegressed
<1>12. ASSUME NEW w \in Workers, PatchOpenRollsBack(w) PROVE MergedInv'
  BY <1>12 DEF TypeOK, PullRequests, Snapshots, Times, Idle, CloseEvents, Intents,
       MergedInv, PatchOpenRollsBack, SetProvider
<1>13. ASSUME NEW w \in Workers, Record(w) PROVE MergedInv'
  BY <1>13 DEF TypeOK, PullRequests, Snapshots, Times, Idle, CloseEvents, Intents,
       MergedInv, Record, Confirmed, SameFact, SameIntent, NotRegressed
<1>14. ASSUME NEW w \in Workers, GiveUp(w) PROVE MergedInv'
  BY <1>14 DEF TypeOK, PullRequests, Snapshots, Times, Idle, CloseEvents, Intents,
       MergedInv, GiveUp
<1>15. ASSUME NEW h \in Handlers, NEW e \in events, ReadRow(h, e) PROVE MergedInv'
  BY <1>15 DEF TypeOK, PullRequests, Snapshots, Times, Idle, CloseEvents, Intents,
       MergedInv, ReadRow
<1>16. ASSUME NEW h \in Handlers, ReadBack(h) PROVE MergedInv'
  BY <1>16 DEF TypeOK, PullRequests, Snapshots, Times, Idle, CloseEvents, Intents,
       MergedInv, ReadBack
<1>17. ASSUME NEW h \in Handlers, ApplyClose(h) PROVE MergedInv'
  BY <1>17 DEF TypeOK, PullRequests, Snapshots, Times, Idle, CloseEvents, Intents,
       MergedInv, ApplyClose, StillCloses
<1>18. ASSUME NEW h \in Handlers, DropClose(h) PROVE MergedInv'
  BY <1>18 DEF TypeOK, PullRequests, Snapshots, Times, Idle, CloseEvents, Intents,
       MergedInv, DropClose
<1>19. CASE ApplyMerge
  BY <1>19 DEF TypeOK, PullRequests, Snapshots, Times, Idle, CloseEvents, Intents,
       MergedInv, ApplyMerge, Merged
<1>20. CASE NativeMerge
  BY <1>20 DEF TypeOK, PullRequests, Snapshots, Times, Idle, CloseEvents, Intents,
       MergedInv, NativeMerge, Merged
<1>21. CASE AcknowledgeMerge
  BY <1>21 DEF TypeOK, PullRequests, Snapshots, Times, Idle, CloseEvents, Intents,
       MergedInv, AcknowledgeMerge, Merged
<1>22. CASE UNCHANGED vars
  BY <1>22 DEF TypeOK, PullRequests, Snapshots, Times, Idle, CloseEvents, Intents,
       MergedInv, vars
<1>. QED
  BY <1>1, <1>2, <1>3, <1>4, <1>5, <1>6, <1>7, <1>8, <1>9, <1>10, <1>11, <1>12, <1>13,
       <1>14, <1>15, <1>16, <1>17, <1>18, <1>19, <1>20, <1>21, <1>22 DEF Next

LEMMA GenStep == TypeOK /\ GenInv /\ [Next]_vars => GenInv'
<1> SUFFICES ASSUME TypeOK, GenInv, [Next]_vars PROVE GenInv'
  OBVIOUS
<1> USE BoundsAssumption
<1>1. CASE PersonChanges
  BY <1>1 DEF TypeOK, PullRequests, Snapshots, Times, Idle, CloseEvents, Intents,
       NothingSeen, Watch, GenInv, PersonChanges, SetProvider
<1>2. CASE NativeClose
  BY <1>2 DEF TypeOK, PullRequests, Snapshots, Times, Idle, CloseEvents, Intents,
       NothingSeen, Watch, GenInv, NativeClose
<1>3. CASE NativeReopen
  BY <1>3 DEF TypeOK, PullRequests, Snapshots, Times, Idle, CloseEvents, Intents,
       NothingSeen, Watch, GenInv, NativeReopen, Reopened
<1>4. CASE PatchClosed
  BY <1>4 DEF TypeOK, PullRequests, Snapshots, Times, Idle, CloseEvents, Intents,
       NothingSeen, Watch, GenInv, PatchClosed, SetProvider
<1>5. CASE MarkBindingClosed
  BY <1>5 DEF TypeOK, PullRequests, Snapshots, Times, Idle, CloseEvents, Intents,
       NothingSeen, Watch, GenInv, MarkBindingClosed
<1>6. ASSUME NEW phase \in {"patching", "marking"}, CloseDispatchEnds(phase) PROVE GenInv'
  BY <1>6 DEF TypeOK, PullRequests, Snapshots, Times, Idle, CloseEvents, Intents,
       NothingSeen, Watch, GenInv, CloseDispatchEnds
<1>7. ASSUME NEW w \in Workers, Observe(w) PROVE GenInv'
  BY <1>7 DEF TypeOK, PullRequests, Snapshots, Times, Idle, CloseEvents, Intents,
       NothingSeen, Watch, GenInv, Observe
<1>8. ASSUME NEW w \in Workers, LookBefore(w) PROVE GenInv'
  BY <1>8 DEF TypeOK, PullRequests, Snapshots, Times, Idle, CloseEvents, Intents,
       NothingSeen, Watch, GenInv, LookBefore
<1>9. ASSUME NEW w \in Workers, Ensure(w) PROVE GenInv'
  BY <1>9 DEF TypeOK, PullRequests, Snapshots, Times, Idle, CloseEvents, Intents,
       NothingSeen, Watch, GenInv, Ensure
<1>10. ASSUME NEW w \in Workers, ConfirmOpen(w) PROVE GenInv'
  BY <1>10 DEF TypeOK, PullRequests, Snapshots, Times, Idle, CloseEvents, Intents,
       NothingSeen, Watch, GenInv, ConfirmOpen, Confirmed, SameFact, SameIntent,
       NotRegressed
<1>11. ASSUME NEW w \in Workers, PatchOpen(w) PROVE GenInv'
  BY <1>11 DEF TypeOK, PullRequests, Snapshots, Times, Idle, CloseEvents, Intents,
       NothingSeen, Watch, GenInv, PatchOpen, SetProvider, Confirmed, SameFact, SameIntent,
       NotRegressed
<1>12. ASSUME NEW w \in Workers, PatchOpenRollsBack(w) PROVE GenInv'
  BY <1>12 DEF TypeOK, PullRequests, Snapshots, Times, Idle, CloseEvents, Intents,
       NothingSeen, Watch, GenInv, PatchOpenRollsBack, SetProvider
<1>13. ASSUME NEW w \in Workers, Record(w) PROVE GenInv'
  <2>1. CASE pr.pending
    <3>1. pr \in PullRequests /\ worker[w].snap \in Snapshots /\ pr' = Confirmed(pr, worker[w].snap)
      BY <1>13, <2>1 DEF Record, TypeOK, Idle
    <3>2. QED
      BY <1>13, <2>1, <3>1, ConfirmedFacts DEF TypeOK, PullRequests, Snapshots, Times,
           Idle, CloseEvents, Intents, NothingSeen, Watch, GenInv, Record, SameFact, SameIntent,
           NotRegressed
  <2>2. CASE ~pr.pending
    <3>1. pr' = pr /\ UNCHANGED <<provider, events, handler>>
      BY <1>13, <2>2 DEF Record
    <3>2. QED
      BY <1>13, <2>2, <3>1 DEF TypeOK, PullRequests, Snapshots, Times, Idle, CloseEvents,
           Intents, NothingSeen, Watch, GenInv, Record, SameFact, SameIntent, NotRegressed
  <2>3. QED
    BY <2>1, <2>2
<1>14. ASSUME NEW w \in Workers, GiveUp(w) PROVE GenInv'
  BY <1>14 DEF TypeOK, PullRequests, Snapshots, Times, Idle, CloseEvents, Intents,
       NothingSeen, Watch, GenInv, GiveUp
<1>15. ASSUME NEW h \in Handlers, NEW e \in events, ReadRow(h, e) PROVE GenInv'
  BY <1>15 DEF TypeOK, PullRequests, Snapshots, Times, Idle, CloseEvents, Intents,
       NothingSeen, Watch, GenInv, ReadRow
<1>16. ASSUME NEW h \in Handlers, ReadBack(h) PROVE GenInv'
  BY <1>16 DEF TypeOK, PullRequests, Snapshots, Times, Idle, CloseEvents, Intents,
       NothingSeen, Watch, GenInv, ReadBack
<1>17. ASSUME NEW h \in Handlers, ApplyClose(h) PROVE GenInv'
  BY <1>17 DEF TypeOK, PullRequests, Snapshots, Times, Idle, CloseEvents, Intents,
       NothingSeen, Watch, GenInv, ApplyClose, StillCloses
<1>18. ASSUME NEW h \in Handlers, DropClose(h) PROVE GenInv'
  BY <1>18 DEF TypeOK, PullRequests, Snapshots, Times, Idle, CloseEvents, Intents,
       NothingSeen, Watch, GenInv, DropClose
<1>19. CASE ApplyMerge
  BY <1>19 DEF TypeOK, PullRequests, Snapshots, Times, Idle, CloseEvents, Intents,
       NothingSeen, Watch, GenInv, ApplyMerge, Merged
<1>20. CASE NativeMerge
  BY <1>20 DEF TypeOK, PullRequests, Snapshots, Times, Idle, CloseEvents, Intents,
       NothingSeen, Watch, GenInv, NativeMerge, Merged
<1>21. CASE AcknowledgeMerge
  BY <1>21 DEF TypeOK, PullRequests, Snapshots, Times, Idle, CloseEvents, Intents,
       NothingSeen, Watch, GenInv, AcknowledgeMerge, Merged
<1>22. CASE UNCHANGED vars
  BY <1>22 DEF TypeOK, PullRequests, Snapshots, Times, Idle, CloseEvents, Intents,
       NothingSeen, Watch, GenInv, vars
<1>. QED
  BY <1>1, <1>2, <1>3, <1>4, <1>5, <1>6, <1>7, <1>8, <1>9, <1>10, <1>11, <1>12, <1>13,
       <1>14, <1>15, <1>16, <1>17, <1>18, <1>19, <1>20, <1>21, <1>22 DEF Next

LEMMA HandlerStep == TypeOK /\ HandlerInv /\ [Next]_vars => HandlerInv'
<1> SUFFICES ASSUME TypeOK, HandlerInv, [Next]_vars PROVE HandlerInv'
  OBVIOUS
<1> USE BoundsAssumption
<1>1. CASE PersonChanges
  BY <1>1 DEF TypeOK, PullRequests, Snapshots, Times, Idle, CloseEvents, Intents,
       NothingSeen, Watch, HandlerInv, PersonChanges, SetProvider
<1>2. CASE NativeClose
  BY <1>2 DEF TypeOK, PullRequests, Snapshots, Times, Idle, CloseEvents, Intents,
       NothingSeen, Watch, HandlerInv, NativeClose
<1>3. CASE NativeReopen
  <2>1. pr' \in PullRequests /\ pr'.gen = pr.gen + 1 /\ pr.gen \in Nat
    BY <1>3, ReopenedFacts DEF NativeReopen, TypeOK, PullRequests
  <2>2. UNCHANGED <<handler, events>>
    BY <1>3 DEF NativeReopen
  <2>3. \A g \in Handlers: handler[g] # Idle => handler[g].gen \in Nat
    BY DEF TypeOK
  <2>4. QED
    BY <2>1, <2>2, <2>3 DEF HandlerInv
<1>4. CASE PatchClosed
  BY <1>4 DEF TypeOK, PullRequests, Snapshots, Times, Idle, CloseEvents, Intents,
       NothingSeen, Watch, HandlerInv, PatchClosed, SetProvider
<1>5. CASE MarkBindingClosed
  BY <1>5 DEF TypeOK, PullRequests, Snapshots, Times, Idle, CloseEvents, Intents,
       NothingSeen, Watch, HandlerInv, MarkBindingClosed
<1>6. ASSUME NEW phase \in {"patching", "marking"}, CloseDispatchEnds(phase) PROVE HandlerInv'
  BY <1>6 DEF TypeOK, PullRequests, Snapshots, Times, Idle, CloseEvents, Intents,
       NothingSeen, Watch, HandlerInv, CloseDispatchEnds
<1>7. ASSUME NEW w \in Workers, Observe(w) PROVE HandlerInv'
  BY <1>7 DEF TypeOK, PullRequests, Snapshots, Times, Idle, CloseEvents, Intents,
       NothingSeen, Watch, HandlerInv, Observe
<1>8. ASSUME NEW w \in Workers, LookBefore(w) PROVE HandlerInv'
  BY <1>8 DEF TypeOK, PullRequests, Snapshots, Times, Idle, CloseEvents, Intents,
       NothingSeen, Watch, HandlerInv, LookBefore
<1>9. ASSUME NEW w \in Workers, Ensure(w) PROVE HandlerInv'
  BY <1>9 DEF TypeOK, PullRequests, Snapshots, Times, Idle, CloseEvents, Intents,
       NothingSeen, Watch, HandlerInv, Ensure
<1>10. ASSUME NEW w \in Workers, ConfirmOpen(w) PROVE HandlerInv'
  BY <1>10 DEF TypeOK, PullRequests, Snapshots, Times, Idle, CloseEvents, Intents,
       NothingSeen, Watch, HandlerInv, ConfirmOpen, Confirmed, SameFact, SameIntent,
       NotRegressed
<1>11. ASSUME NEW w \in Workers, PatchOpen(w) PROVE HandlerInv'
  BY <1>11 DEF TypeOK, PullRequests, Snapshots, Times, Idle, CloseEvents, Intents,
       NothingSeen, Watch, HandlerInv, PatchOpen, SetProvider, Confirmed, SameFact,
       SameIntent, NotRegressed
<1>12. ASSUME NEW w \in Workers, PatchOpenRollsBack(w) PROVE HandlerInv'
  BY <1>12 DEF TypeOK, PullRequests, Snapshots, Times, Idle, CloseEvents, Intents,
       NothingSeen, Watch, HandlerInv, PatchOpenRollsBack, SetProvider
<1>13. ASSUME NEW w \in Workers, Record(w) PROVE HandlerInv'
  <2>1. CASE pr.pending
    <3>1. pr \in PullRequests /\ worker[w].snap \in Snapshots /\ pr' = Confirmed(pr, worker[w].snap)
      BY <1>13, <2>1 DEF Record, TypeOK, Idle
    <3>2. pr'.gen = pr.gen /\ UNCHANGED <<handler, events>>
      BY <1>13, <3>1, ConfirmedFacts DEF Record
    <3>3. \A g \in Handlers: handler[g] # Idle => handler[g].gen # pr.gen
      BY <2>1 DEF HandlerInv
    <3>4. QED
      BY <3>2, <3>3 DEF HandlerInv
  <2>2. CASE ~pr.pending
    <3>1. pr' = pr /\ UNCHANGED <<provider, events, handler>>
      BY <1>13, <2>2 DEF Record
    <3>2. QED
      BY <1>13, <2>2, <3>1 DEF TypeOK, PullRequests, Snapshots, Times, Idle, CloseEvents,
           Intents, NothingSeen, Watch, HandlerInv, Record, SameFact, SameIntent, NotRegressed
  <2>3. QED
    BY <2>1, <2>2
<1>14. ASSUME NEW w \in Workers, GiveUp(w) PROVE HandlerInv'
  BY <1>14 DEF TypeOK, PullRequests, Snapshots, Times, Idle, CloseEvents, Intents,
       NothingSeen, Watch, HandlerInv, GiveUp
<1>15. ASSUME NEW h \in Handlers, NEW e \in events, ReadRow(h, e) PROVE HandlerInv'
  BY <1>15 DEF TypeOK, PullRequests, Snapshots, Times, Idle, CloseEvents, Intents,
       NothingSeen, Watch, HandlerInv, ReadRow
<1>16. ASSUME NEW h \in Handlers, ReadBack(h) PROVE HandlerInv'
  <2> SUFFICES ASSUME NEW g \in Handlers PROVE HandlerInv!(g)'
    BY DEF HandlerInv
  <2>1. CASE g = h
    <3>1. /\ handler[h] # Idle
          /\ handler'[h].gen = handler[h].gen /\ handler'[h].event = handler[h].event
      BY <1>16 DEF ReadBack, TypeOK, Idle
    <3>2. UNCHANGED <<pr, events>> /\ (~pr.pending /\ ~pr.merged => seen'.closed)
      BY <1>16 DEF ReadBack, Watch
    <3>3. QED
      BY <2>1, <3>1, <3>2 DEF HandlerInv
  <2>2. CASE g # h
    BY <1>16, <2>2 DEF TypeOK, PullRequests, Snapshots, Times, Idle, CloseEvents, Intents,
         NothingSeen, Watch, HandlerInv, ReadBack
  <2>3. QED
    BY <2>1, <2>2
<1>17. ASSUME NEW h \in Handlers, ApplyClose(h) PROVE HandlerInv'
  BY <1>17 DEF TypeOK, PullRequests, Snapshots, Times, Idle, CloseEvents, Intents,
       NothingSeen, Watch, HandlerInv, ApplyClose, StillCloses
<1>18. ASSUME NEW h \in Handlers, DropClose(h) PROVE HandlerInv'
  BY <1>18 DEF TypeOK, PullRequests, Snapshots, Times, Idle, CloseEvents, Intents,
       NothingSeen, Watch, HandlerInv, DropClose
<1>19. CASE ApplyMerge
  BY <1>19 DEF TypeOK, PullRequests, Snapshots, Times, Idle, CloseEvents, Intents,
       NothingSeen, Watch, HandlerInv, ApplyMerge, Merged
<1>20. CASE NativeMerge
  BY <1>20 DEF TypeOK, PullRequests, Snapshots, Times, Idle, CloseEvents, Intents,
       NothingSeen, Watch, HandlerInv, NativeMerge, Merged
<1>21. CASE AcknowledgeMerge
  BY <1>21 DEF TypeOK, PullRequests, Snapshots, Times, Idle, CloseEvents, Intents,
       NothingSeen, Watch, HandlerInv, AcknowledgeMerge, Merged
<1>22. CASE UNCHANGED vars
  BY <1>22 DEF TypeOK, PullRequests, Snapshots, Times, Idle, CloseEvents, Intents,
       NothingSeen, Watch, HandlerInv, vars
<1>. QED
  BY <1>1, <1>2, <1>3, <1>4, <1>5, <1>6, <1>7, <1>8, <1>9, <1>10, <1>11, <1>12, <1>13,
       <1>14, <1>15, <1>16, <1>17, <1>18, <1>19, <1>20, <1>21, <1>22 DEF Next

LEMMA EventStep == TypeOK /\ EventInv /\ WorkerInv /\ [Next]_vars => EventInv'
<1> SUFFICES ASSUME TypeOK, EventInv, WorkerInv, [Next]_vars PROVE EventInv'
  OBVIOUS
<1> USE BoundsAssumption
<1>1. CASE PersonChanges
  BY <1>1 DEF TypeOK, PullRequests, Snapshots, Times, Idle, CloseEvents, Intents,
       NothingSeen, Watch, EventInv, WorkerInv, PersonChanges, SetProvider
<1>2. CASE NativeClose
  BY <1>2 DEF TypeOK, PullRequests, Snapshots, Times, Idle, CloseEvents, Intents,
       NothingSeen, Watch, EventInv, WorkerInv, NativeClose
<1>3. CASE NativeReopen
  BY <1>3 DEF TypeOK, PullRequests, Snapshots, Times, Idle, CloseEvents, Intents,
       NothingSeen, Watch, EventInv, WorkerInv, NativeReopen, Reopened
<1>4. CASE PatchClosed
  BY <1>4 DEF TypeOK, PullRequests, Snapshots, Times, Idle, CloseEvents, Intents,
       NothingSeen, Watch, EventInv, WorkerInv, PatchClosed, SetProvider
<1>5. CASE MarkBindingClosed
  BY <1>5 DEF TypeOK, PullRequests, Snapshots, Times, Idle, CloseEvents, Intents,
       NothingSeen, Watch, EventInv, WorkerInv, MarkBindingClosed
<1>6. ASSUME NEW phase \in {"patching", "marking"}, CloseDispatchEnds(phase) PROVE EventInv'
  BY <1>6 DEF TypeOK, PullRequests, Snapshots, Times, Idle, CloseEvents, Intents,
       NothingSeen, Watch, EventInv, WorkerInv, CloseDispatchEnds
<1>7. ASSUME NEW w \in Workers, Observe(w) PROVE EventInv'
  BY <1>7 DEF TypeOK, PullRequests, Snapshots, Times, Idle, CloseEvents, Intents,
       NothingSeen, Watch, EventInv, WorkerInv, Observe
<1>8. ASSUME NEW w \in Workers, LookBefore(w) PROVE EventInv'
  BY <1>8 DEF TypeOK, PullRequests, Snapshots, Times, Idle, CloseEvents, Intents,
       NothingSeen, Watch, EventInv, WorkerInv, LookBefore
<1>9. ASSUME NEW w \in Workers, Ensure(w) PROVE EventInv'
  BY <1>9 DEF TypeOK, PullRequests, Snapshots, Times, Idle, CloseEvents, Intents,
       NothingSeen, Watch, EventInv, WorkerInv, Ensure
<1>10. ASSUME NEW w \in Workers, ConfirmOpen(w) PROVE EventInv'
  BY <1>10 DEF TypeOK, PullRequests, Snapshots, Times, Idle, CloseEvents, Intents,
       NothingSeen, Watch, EventInv, WorkerInv, ConfirmOpen, Confirmed, SameFact,
       SameIntent, NotRegressed
<1>11. ASSUME NEW w \in Workers, PatchOpen(w) PROVE EventInv'
  BY <1>11 DEF TypeOK, PullRequests, Snapshots, Times, Idle, CloseEvents, Intents,
       NothingSeen, Watch, EventInv, WorkerInv, PatchOpen, SetProvider, Confirmed, SameFact,
       SameIntent, NotRegressed
<1>12. ASSUME NEW w \in Workers, PatchOpenRollsBack(w) PROVE EventInv'
  BY <1>12 DEF TypeOK, PullRequests, Snapshots, Times, Idle, CloseEvents, Intents,
       NothingSeen, Watch, EventInv, WorkerInv, PatchOpenRollsBack, SetProvider
<1>13. ASSUME NEW w \in Workers, Record(w) PROVE EventInv'
  BY <1>13 DEF TypeOK, PullRequests, Snapshots, Times, Idle, CloseEvents, Intents,
       NothingSeen, Watch, EventInv, WorkerInv, Record, Confirmed, SameFact, SameIntent,
       NotRegressed
<1>14. ASSUME NEW w \in Workers, GiveUp(w) PROVE EventInv'
  BY <1>14 DEF TypeOK, PullRequests, Snapshots, Times, Idle, CloseEvents, Intents,
       NothingSeen, Watch, EventInv, WorkerInv, GiveUp
<1>15. ASSUME NEW h \in Handlers, NEW e \in events, ReadRow(h, e) PROVE EventInv'
  BY <1>15 DEF TypeOK, PullRequests, Snapshots, Times, Idle, CloseEvents, Intents,
       NothingSeen, Watch, EventInv, WorkerInv, ReadRow
<1>16. ASSUME NEW h \in Handlers, ReadBack(h) PROVE EventInv'
  BY <1>16 DEF TypeOK, PullRequests, Snapshots, Times, Idle, CloseEvents, Intents,
       NothingSeen, Watch, EventInv, WorkerInv, ReadBack
<1>17. ASSUME NEW h \in Handlers, ApplyClose(h) PROVE EventInv'
  BY <1>17 DEF TypeOK, PullRequests, Snapshots, Times, Idle, CloseEvents, Intents,
       NothingSeen, Watch, EventInv, WorkerInv, ApplyClose, StillCloses
<1>18. ASSUME NEW h \in Handlers, DropClose(h) PROVE EventInv'
  BY <1>18 DEF TypeOK, PullRequests, Snapshots, Times, Idle, CloseEvents, Intents,
       NothingSeen, Watch, EventInv, WorkerInv, DropClose
<1>19. CASE ApplyMerge
  BY <1>19 DEF TypeOK, PullRequests, Snapshots, Times, Idle, CloseEvents, Intents,
       NothingSeen, Watch, EventInv, WorkerInv, ApplyMerge, Merged
<1>20. CASE NativeMerge
  BY <1>20 DEF TypeOK, PullRequests, Snapshots, Times, Idle, CloseEvents, Intents,
       NothingSeen, Watch, EventInv, WorkerInv, NativeMerge, Merged
<1>21. CASE AcknowledgeMerge
  BY <1>21 DEF TypeOK, PullRequests, Snapshots, Times, Idle, CloseEvents, Intents,
       NothingSeen, Watch, EventInv, WorkerInv, AcknowledgeMerge, Merged
<1>22. CASE UNCHANGED vars
  BY <1>22 DEF TypeOK, PullRequests, Snapshots, Times, Idle, CloseEvents, Intents,
       NothingSeen, Watch, EventInv, WorkerInv, vars
<1>. QED
  BY <1>1, <1>2, <1>3, <1>4, <1>5, <1>6, <1>7, <1>8, <1>9, <1>10, <1>11, <1>12, <1>13,
       <1>14, <1>15, <1>16, <1>17, <1>18, <1>19, <1>20, <1>21, <1>22 DEF Next

LEMMA WorkerStep == TypeOK /\ EventInv /\ WorkerInv /\ [Next]_vars => WorkerInv'
<1> SUFFICES ASSUME TypeOK, EventInv, WorkerInv, [Next]_vars PROVE WorkerInv'
  OBVIOUS
<1> USE BoundsAssumption
<1>1. CASE PersonChanges
  BY <1>1 DEF TypeOK, PullRequests, Snapshots, Times, Idle, CloseEvents, Intents,
       NothingSeen, Watch, EventInv, WorkerInv, PersonChanges, SetProvider
<1>2. CASE NativeClose
  BY <1>2 DEF TypeOK, PullRequests, Snapshots, Times, Idle, CloseEvents, Intents,
       NothingSeen, Watch, EventInv, WorkerInv, NativeClose
<1>3. CASE NativeReopen
  BY <1>3 DEF TypeOK, PullRequests, Snapshots, Times, Idle, CloseEvents, Intents,
       NothingSeen, Watch, EventInv, WorkerInv, NativeReopen, Reopened
<1>4. CASE PatchClosed
  BY <1>4 DEF TypeOK, PullRequests, Snapshots, Times, Idle, CloseEvents, Intents,
       NothingSeen, Watch, EventInv, WorkerInv, PatchClosed, SetProvider
<1>5. CASE MarkBindingClosed
  BY <1>5 DEF TypeOK, PullRequests, Snapshots, Times, Idle, CloseEvents, Intents,
       NothingSeen, Watch, EventInv, WorkerInv, MarkBindingClosed
<1>6. ASSUME NEW phase \in {"patching", "marking"}, CloseDispatchEnds(phase) PROVE WorkerInv'
  BY <1>6 DEF TypeOK, PullRequests, Snapshots, Times, Idle, CloseEvents, Intents,
       NothingSeen, Watch, EventInv, WorkerInv, CloseDispatchEnds
<1>7. ASSUME NEW w \in Workers, Observe(w) PROVE WorkerInv'
  BY <1>7 DEF TypeOK, PullRequests, Snapshots, Times, Idle, CloseEvents, Intents,
       NothingSeen, Watch, EventInv, WorkerInv, Observe
<1>8. ASSUME NEW w \in Workers, LookBefore(w) PROVE WorkerInv'
  <2> SUFFICES ASSUME NEW v \in Workers PROVE WorkerInv!(v)'
    BY DEF WorkerInv
  <2>1. CASE v = w
    <3>1. /\ worker'[w].pc = "looked" /\ worker'[w].pr = worker[w].pr /\ worker'[w].snap = provider
          /\ worker[w] # Idle
      BY <1>8 DEF LookBefore, TypeOK, Idle
    <3>2. /\ UNCHANGED <<pr, provider, events>>
          /\ provider.state = "open" /\ pr.pending /\ ~pr.merged => seen'.open
      BY <1>8 DEF LookBefore, Watch
    <3>3. QED
      BY <2>1, <3>1, <3>2 DEF WorkerInv, EventInv, TypeOK, Snapshots, Times
  <2>2. CASE v # w
    BY <1>8, <2>2 DEF TypeOK, PullRequests, Snapshots, Times, Idle, CloseEvents, Intents,
         NothingSeen, Watch, EventInv, WorkerInv, LookBefore
  <2>3. QED
    BY <2>1, <2>2
<1>9. ASSUME NEW w \in Workers, Ensure(w) PROVE WorkerInv'
  <2> SUFFICES ASSUME NEW v \in Workers PROVE WorkerInv!(v)'
    BY DEF WorkerInv
  <2>1. CASE v = w
    <3>1. /\ worker'[w].pc = "ensured" /\ worker'[w].pr = worker[w].pr /\ worker'[w].snap = provider
          /\ worker[w] # Idle /\ provider.state = "open"
      BY <1>9 DEF Ensure, TypeOK, Idle
    <3>2. /\ UNCHANGED <<pr, provider, events>>
          /\ provider.state = "open" /\ pr.pending /\ ~pr.merged => seen'.open
      BY <1>9 DEF Ensure, Watch
    <3>3. QED
      BY <2>1, <3>1, <3>2 DEF WorkerInv, EventInv, TypeOK, Snapshots, Times
  <2>2. CASE v # w
    BY <1>9, <2>2 DEF TypeOK, PullRequests, Snapshots, Times, Idle, CloseEvents, Intents,
         NothingSeen, Watch, EventInv, WorkerInv, Ensure
  <2>3. QED
    BY <2>1, <2>2
<1>10. ASSUME NEW w \in Workers, ConfirmOpen(w) PROVE WorkerInv'
  BY <1>10 DEF TypeOK, PullRequests, Snapshots, Times, Idle, CloseEvents, Intents,
       NothingSeen, Watch, EventInv, WorkerInv, ConfirmOpen, Confirmed, SameFact,
       SameIntent, NotRegressed
<1>11. ASSUME NEW w \in Workers, PatchOpen(w) PROVE WorkerInv'
  BY <1>11 DEF TypeOK, PullRequests, Snapshots, Times, Idle, CloseEvents, Intents,
       NothingSeen, Watch, EventInv, WorkerInv, PatchOpen, SetProvider, Confirmed, SameFact,
       SameIntent, NotRegressed
<1>12. ASSUME NEW w \in Workers, PatchOpenRollsBack(w) PROVE WorkerInv'
  BY <1>12 DEF TypeOK, PullRequests, Snapshots, Times, Idle, CloseEvents, Intents,
       NothingSeen, Watch, EventInv, WorkerInv, PatchOpenRollsBack, SetProvider
<1>13. ASSUME NEW w \in Workers, Record(w) PROVE WorkerInv'
  <2>1. CASE pr.pending
    <3>1. pr \in PullRequests /\ worker[w].snap \in Snapshots /\ pr' = Confirmed(pr, worker[w].snap)
      BY <1>13, <2>1 DEF Record, TypeOK, Idle
    <3>2. QED
      BY <1>13, <2>1, <3>1, ConfirmedFacts DEF TypeOK, PullRequests, Snapshots, Times,
           Idle, CloseEvents, Intents, NothingSeen, Watch, EventInv, WorkerInv, Record, SameFact,
           SameIntent, NotRegressed
  <2>2. CASE ~pr.pending
    <3>1. pr' = pr /\ UNCHANGED <<provider, events, handler>>
      BY <1>13, <2>2 DEF Record
    <3>2. QED
      BY <1>13, <2>2, <3>1 DEF TypeOK, PullRequests, Snapshots, Times, Idle, CloseEvents,
           Intents, NothingSeen, Watch, EventInv, WorkerInv, Record, SameFact, SameIntent,
           NotRegressed
  <2>3. QED
    BY <2>1, <2>2
<1>14. ASSUME NEW w \in Workers, GiveUp(w) PROVE WorkerInv'
  BY <1>14 DEF TypeOK, PullRequests, Snapshots, Times, Idle, CloseEvents, Intents,
       NothingSeen, Watch, EventInv, WorkerInv, GiveUp
<1>15. ASSUME NEW h \in Handlers, NEW e \in events, ReadRow(h, e) PROVE WorkerInv'
  BY <1>15 DEF TypeOK, PullRequests, Snapshots, Times, Idle, CloseEvents, Intents,
       NothingSeen, Watch, EventInv, WorkerInv, ReadRow
<1>16. ASSUME NEW h \in Handlers, ReadBack(h) PROVE WorkerInv'
  BY <1>16 DEF TypeOK, PullRequests, Snapshots, Times, Idle, CloseEvents, Intents,
       NothingSeen, Watch, EventInv, WorkerInv, ReadBack
<1>17. ASSUME NEW h \in Handlers, ApplyClose(h) PROVE WorkerInv'
  BY <1>17 DEF TypeOK, PullRequests, Snapshots, Times, Idle, CloseEvents, Intents,
       NothingSeen, Watch, EventInv, WorkerInv, ApplyClose, StillCloses
<1>18. ASSUME NEW h \in Handlers, DropClose(h) PROVE WorkerInv'
  BY <1>18 DEF TypeOK, PullRequests, Snapshots, Times, Idle, CloseEvents, Intents,
       NothingSeen, Watch, EventInv, WorkerInv, DropClose
<1>19. CASE ApplyMerge
  BY <1>19 DEF TypeOK, PullRequests, Snapshots, Times, Idle, CloseEvents, Intents,
       NothingSeen, Watch, EventInv, WorkerInv, ApplyMerge, Merged
<1>20. CASE NativeMerge
  BY <1>20 DEF TypeOK, PullRequests, Snapshots, Times, Idle, CloseEvents, Intents,
       NothingSeen, Watch, EventInv, WorkerInv, NativeMerge, Merged
<1>21. CASE AcknowledgeMerge
  BY <1>21 DEF TypeOK, PullRequests, Snapshots, Times, Idle, CloseEvents, Intents,
       NothingSeen, Watch, EventInv, WorkerInv, AcknowledgeMerge, Merged
<1>22. CASE UNCHANGED vars
  BY <1>22 DEF TypeOK, PullRequests, Snapshots, Times, Idle, CloseEvents, Intents,
       NothingSeen, Watch, EventInv, WorkerInv, vars
<1>. QED
  BY <1>1, <1>2, <1>3, <1>4, <1>5, <1>6, <1>7, <1>8, <1>9, <1>10, <1>11, <1>12, <1>13,
       <1>14, <1>15, <1>16, <1>17, <1>18, <1>19, <1>20, <1>21, <1>22 DEF Next

---------------------------------------------------------------------------
\* The invariant holds in every reachable state of the lifecycle.
THEOREM LifecycleInvariant == Spec => []LifecycleInv
<1>1. Init => LifecycleInv
  <2>1. Init => MergedInv /\ GenInv /\ WorkerInv /\ HandlerInv /\ EventInv
    BY BoundsAssumption DEF Init, MergedInv, GenInv, WorkerInv, HandlerInv,
         EventInv, Idle
  <2>2. QED
    BY <2>1, TypeInit DEF LifecycleInv
<1>2. LifecycleInv /\ [Next]_vars => LifecycleInv'
  BY TypeStep, MergedStep, GenStep, WorkerStep, HandlerStep, EventStep DEF LifecycleInv
<1>3. QED
  BY <1>1, <1>2, PTL DEF Spec

\* Every variable keeps its type.
THEOREM LifecycleTypeCorrect == Spec => []TypeOK
<1>1. LifecycleInv => TypeOK
  BY DEF LifecycleInv
<1>2. QED
  BY <1>1, LifecycleInvariant, PTL

\* A merge by the webhook, by the native request or by the acknowledgement stays:
\* nothing under way when it comes brings the row back, and no worker opens a
\* binding that is closed after it.
THEOREM MergesStay == Spec => MergedIsFinal
<1>1. LifecycleInv /\ [Next]_vars =>
        [pr.merged => /\ pr'.merged /\ pr'.state = "closed"
                      /\ binding = "closed" => binding' = "closed"]_vars
  <2> SUFFICES ASSUME LifecycleInv, Next, pr.merged
               PROVE  /\ pr'.merged /\ pr'.state = "closed"
                      /\ binding = "closed" => binding' = "closed"
    BY DEF vars
  <2>1. pr.state = "closed" /\ pr \in PullRequests
    BY DEF LifecycleInv, MergedInv, TypeOK
  <2>2. CASE UNCHANGED pr /\ (UNCHANGED binding \/ binding' = "closed")
    BY <2>1, <2>2
  <2>3. \/ PersonChanges \/ PatchClosed \/ MarkBindingClosed
        \/ \E phase \in {"patching", "marking"}: CloseDispatchEnds(phase)
        \/ \E w \in Workers: Observe(w) \/ LookBefore(w) \/ Ensure(w) \/ GiveUp(w)
        \/ \E h \in Handlers, e \in events: ReadRow(h, e)
        \/ \E h \in Handlers: ReadBack(h) \/ DropClose(h)
    BY <2>1 DEF Next, NativeClose, NativeReopen, NativeMerge, AcknowledgeMerge, ConfirmOpen,
         PatchOpen, PatchOpenRollsBack, Record, SameFact, ApplyClose, StillCloses,
         ApplyMerge
  <2>4. UNCHANGED pr /\ (UNCHANGED binding \/ binding' = "closed")
    BY <2>3 DEF PersonChanges, PatchClosed, MarkBindingClosed, CloseDispatchEnds, Observe,
         LookBefore, Ensure, GiveUp, ReadRow, ReadBack, DropClose
  <2>5. QED
    BY <2>2, <2>4
<1>2. QED
  BY <1>1, LifecycleInvariant, PTL DEF Spec, MergedIsFinal

\* readProjectionClose and MarkPullRequestClosedFromProjection: a close read
\* before a reopen is not applied after it.
THEOREM ClosesAreReadBack == Spec => CloseReadBack
<1>1. LifecycleInv /\ [Next]_vars =>
        [\A h \in Handlers: ApplyClose(h) /\ pr.state = "open" => ~pr.pending /\ seen.closed]_vars
  <2> SUFFICES ASSUME LifecycleInv, NEW h \in Handlers, ApplyClose(h)
               PROVE  ~pr.pending /\ seen.closed
    OBVIOUS
  <2>1. handler[h] # Idle /\ handler[h].pc = "readback" /\ handler[h].gen = pr.gen /\ ~pr.merged
    BY DEF ApplyClose, StillCloses, Idle
  <2>2. QED
    BY <2>1 DEF LifecycleInv, HandlerInv
<1>2. QED
  BY <1>1, LifecycleInvariant, PTL DEF Spec, CloseReadBack

\* A close webhook of an earlier life never closes the row a later life
\* confirmed, also when both carry the same provider time.
THEOREM CloseEventsAreCurrent == Spec => CloseEventCurrent
<1>1. LifecycleInv /\ [Next]_vars =>
        [\A h \in Handlers: ApplyClose(h) /\ pr.state = "open" => handler[h].event.life >= seen.life]_vars
  <2> SUFFICES ASSUME LifecycleInv, NEW h \in Handlers, ApplyClose(h), pr.state = "open"
               PROVE  handler[h].event.life >= seen.life
    OBVIOUS
  <2>1. handler[h] # Idle /\ ~Stale(handler[h].event, pr)
    BY DEF ApplyClose, StillCloses, Idle
  <2>2. handler[h].event \in events /\ handler[h].event \in CloseEvents
    BY <2>1 DEF LifecycleInv, HandlerInv, TypeOK
  <2>3. QED
    BY <2>1, <2>2 DEF LifecycleInv, EventInv, Stale, TypeOK, CloseEvents, PullRequests,
         Times
<1>2. QED
  BY <1>1, LifecycleInvariant, PTL DEF Spec, CloseEventCurrent

\* confirmForgejoReopenTx: an intent is consumed only when the provider was
\* open at some moment of its own generation.
THEOREM ReopensAreConfirmed == Spec => ReopenConfirmed
<1>1. LifecycleInv /\ [Next]_vars =>
        [pr.pending /\ ~pr'.pending => seen.open \/ provider'.state = "open"]_vars
  <2> SUFFICES ASSUME LifecycleInv, Next, pr.pending, ~pr'.pending
               PROVE  seen.open \/ provider'.state = "open"
    BY DEF vars
  <2>1. ASSUME NEW w \in Workers, ConfirmOpen(w) PROVE seen.open
    BY <2>1 DEF ConfirmOpen, SameFact, LifecycleInv, WorkerInv
  <2>2. ASSUME NEW w \in Workers, PatchOpen(w) PROVE provider'.state = "open"
    BY <2>2 DEF PatchOpen, SetProvider
  <2>3. ASSUME NEW w \in Workers, Record(w) PROVE seen.open
    BY <2>3 DEF Record, SameFact, LifecycleInv, WorkerInv
  <2>4. QED
    BY <2>1, <2>2, <2>3, ReopenedFacts
    DEF Next, LifecycleInv, TypeOK, PullRequests, PersonChanges, NativeClose, NativeReopen,
        NativeMerge, AcknowledgeMerge, Merged, PatchClosed, MarkBindingClosed, CloseDispatchEnds,
        Observe, LookBefore, Ensure, PatchOpenRollsBack, GiveUp, ReadRow, ReadBack, ApplyClose,
        DropClose, ApplyMerge
<1>2. QED
  BY <1>1, LifecycleInvariant, PTL DEF Spec, ReopenConfirmed

\* reopenForgejoProjection: of the workers that observed one intent at most
\* one reopens the provider and completes it.
THEOREM OneReopen == Spec => OneReopenPerIntent
<1>1. LifecycleInv /\ [Next]_vars =>
        [\A w \in Workers: PatchOpen(w) \/ PatchOpenRollsBack(w) => seen.gen < pr.gen]_vars
  BY DEF LifecycleInv, GenInv, PatchOpen, PatchOpenRollsBack, SameIntent
<1>2. QED
  BY <1>1, LifecycleInvariant, PTL DEF Spec, OneReopenPerIntent

===========================================================================
