--------------------------- MODULE EdgeReadProofs ---------------------------
(***************************************************************************)
(* Theorems about EdgeRead, for every history of the repository, any number *)
(* of requests and any limits, windows and lifetimes.  The inductive        *)
(* invariant says, for each point of the handler, which view a request has  *)
(* leased, where the snapshot it aims at comes from and what its plan still  *)
(* vouches for.                                                             *)
(***************************************************************************)
EXTENDS EdgeRead, TLAPS

\* The fields of a request.  What it may aim at comes out of the filtered list
\* of remembered views and is left open.
Shaped(q) ==
    /\ DOMAIN q = {"pc", "kind", "want", "stage", "asked", "aim", "until", "cands"}
    /\ q.pc \in Points
    /\ q.kind \in {"discover", "fetch"}
    /\ q.stage \in Stages
    /\ q.until \in Nat
    /\ q.pc = "keeping" => q.aim \in Snapshots

ReqInv ==
    /\ DOMAIN req = Requests
    /\ \A r \in Requests : Shaped(req[r])

\* The types of everything but the two sequences.
TypeInv ==
    /\ head \in Snapshots
    /\ granted \in BOOLEAN
    /\ retained \subseteq Snapshots
    /\ now \in Nat
    /\ Store!TypeOK
    /\ ReqInv
    /\ heads \in [Requests -> SUBSET Snapshots]
    /\ vouched \in [Requests -> BOOLEAN]
    /\ revokedAt \in Nat

\* Where a request has a view: from EnsureSnapshot to one of the releases.
Copied(r) ==
    \/ req[r].pc \in {"inspecting", "deciding", "revalidating", "checking", "serving"}
    \/ req[r].pc \in Preparing /\ req[r].stage \in {"confirm", "renew"}

\* The lease is that of the view aimed at, and the calls made with it ask for that
\* view; once it has been searched it has the wanted object.
LeaseInv ==
    \A r \in Requests :
        /\ held[r] # NoView => held[r] \in avail
        /\ Copied(r) => /\ held[r] # NoView
                        /\ held[r] = req[r].aim
                        /\ req[r].pc \in Preparing => req[r].asked = req[r].aim
                        /\ req[r].pc # "inspecting" => Satisfies(r, req[r].aim)
        /\ ~Copied(r) => held[r] = NoView

\* A discovery aims at what it observed, from the observation on.
Aimed(r) ==
    \/ req[r].pc \notin {"idle", "queued", "observing"}
    \/ req[r].pc = "observing" /\ req[r].stage = "renew"

DiscoverInv ==
    \A r \in Requests :
        /\ req[r].pc # "idle" => head \in heads[r]
        /\ req[r].kind = "discover" => /\ req[r].stage \in {"discover", "renew"}
                                       /\ req[r].stage = "discover" => req[r].asked = NoView
                                       /\ Aimed(r) => req[r].aim \in heads[r]
        /\ req[r].pc \in {"idle", "queued"} => req[r].stage = "discover"

\* While the permission lasts, everyone with a lease is vouched for.
VouchInv ==
    \A r \in Requests :
        /\ granted /\ held[r] # NoView => vouched[r]
        /\ req[r].pc \in {"checking", "serving"} => vouched[r]

\* No plan outlives its time, and none that passed the last call outlives the
\* permission by more than that.
PlanInv ==
    \A r \in Requests :
        /\ req[r].until <= now + TTL
        /\ req[r].pc = "checking" /\ ~granted => req[r].until <= revokedAt + TTL

EdgeInv == TypeInv /\ LeaseInv /\ DiscoverInv /\ VouchInv /\ PlanInv

-----------------------------------------------------------------------------
LEMMA EdgeInit == Init => EdgeInv
  BY SnapshotAssumption, LimitAssumption DEF Init, EdgeInv, TypeInv, Shaped, Points, Stages,
       Idle,
     ReqInv, Store!Init, Store!TypeOK, Owners, Views, LeaseInv, Copied, Preparing, DiscoverInv, Aimed,
     VouchInv, PlanInv

LEMMA TypeStep == TypeInv /\ [Next]_vars => TypeInv'
<1> SUFFICES ASSUME TypeInv, [Next]_vars PROVE TypeInv'
  OBVIOUS
<1> USE SnapshotAssumption, LimitAssumption
<1>1. ASSUME NEW r \in Requests, Admit(r, "discover", NoObject) PROVE TypeInv'
  BY <1>1 DEF TypeInv, ReqInv, Shaped, Points, Preparing, Stages, Store!TypeOK, Owners, Views,
       At, Admit, Idle, Primary
<1>2. ASSUME NEW r \in Requests, NEW o \in Objects, Admit(r, "fetch", o) PROVE TypeInv'
  BY <1>2 DEF TypeInv, ReqInv, Shaped, Points, Preparing, Stages, Store!TypeOK, Owners, Views,
       At, Admit, Idle, Primary
<1>3. ASSUME NEW r \in Requests, TakeSlot(r) PROVE TypeInv'
  BY <1>3 DEF TypeInv, ReqInv, Shaped, Points, Preparing, Stages, Store!TypeOK, Owners, Views,
       At, TakeSlot, Try, Hints, Primary, History
<1>4. ASSUME NEW r \in Requests, Observe(r) PROVE TypeInv'
  BY <1>4 DEF TypeInv, ReqInv, Shaped, Points, Preparing, Stages, Store!TypeOK, Owners, Views,
       At, Observe, Primary, History, Observed
<1>5. ASSUME NEW r \in Requests, Retained(r) PROVE TypeInv'
  BY <1>5 DEF TypeInv, ReqInv, Shaped, Points, Preparing, Stages, Store!TypeOK, Owners, Views,
       At, Retained, Goto, Primary, History
<1>6. ASSUME NEW r \in Requests, Pin(r) PROVE TypeInv'
  BY <1>6 DEF TypeInv, ReqInv, Shaped, Points, Preparing, Stages, Store!TypeOK, Owners, Views,
       At, Pin, Primary, History
<1>7. ASSUME NEW r \in Requests, RetainPin(r) PROVE TypeInv'
  BY <1>7 DEF TypeInv, ReqInv, Shaped, Points, Preparing, Stages, Store!TypeOK, Owners, Views,
       At, RetainPin, Goto, Primary, History
<1>8. ASSUME NEW r \in Requests, Stamp(r) PROVE TypeInv'
  BY <1>8 DEF TypeInv, ReqInv, Shaped, Points, Preparing, Stages, Store!TypeOK, Owners, Views,
       At, Stamp, Primary, History
<1>9. ASSUME NEW r \in Requests, Confirm(r) PROVE TypeInv'
  BY <1>9 DEF TypeInv, ReqInv, Shaped, Points, Preparing, Stages, Store!TypeOK, Owners, Views,
       At, Confirm, Primary, History, Authorized, Goto, Valid
<1>10. ASSUME NEW r \in Requests, Receive(r) PROVE TypeInv'
  BY <1>10 DEF TypeInv, ReqInv, Shaped, Points, Preparing, Stages, Store!TypeOK, Owners, Views,
       At, Receive, Primary, History, Goto, Valid
<1>11. ASSUME NEW r \in Requests, Ensure(r) PROVE TypeInv'
  BY <1>11 DEF TypeInv, ReqInv, Shaped, Points, Preparing, Stages, Store!TypeOK, Owners, Views,
       At, Ensure, Goto, Primary, Store!Lease
<1>12. ASSUME NEW r \in Requests, Select(r) PROVE TypeInv'
  BY <1>12 DEF TypeInv, ReqInv, Shaped, Points, Preparing, Stages, Store!TypeOK, Owners, Views,
       At, Select, Contained, Primary, History
<1>13. ASSUME NEW r \in Requests, NotHere(r) PROVE TypeInv'
  BY <1>13 DEF TypeInv, ReqInv, Shaped, Points, Preparing, Stages, Store!TypeOK, Owners, Views,
       At, NotHere, Primary, Store!Return, Try
<1>14. ASSUME NEW r \in Requests, Decide(r) PROVE TypeInv'
  BY <1>14 DEF TypeInv, ReqInv, Shaped, Points, Preparing, Stages, Store!TypeOK, Owners, Views,
       At, Decide, Primary, History, Decided
<1>15. ASSUME NEW r \in Requests, Revalidate(r) PROVE TypeInv'
  BY <1>15 DEF TypeInv, ReqInv, Shaped, Points, Preparing, Stages, Store!TypeOK, Owners, Views,
       At, Revalidate, Primary, History, Authorized, Goto, Valid
<1>16. ASSUME NEW r \in Requests, Serve(r) PROVE TypeInv'
  BY <1>16 DEF TypeInv, ReqInv, Shaped, Points, Preparing, Stages, Store!TypeOK, Owners, Views,
       At, Serve, Primary, History, Goto, Valid
<1>17. ASSUME NEW r \in Requests, Refuse(r) PROVE TypeInv'
  BY <1>17 DEF TypeInv, ReqInv, Shaped, Points, Preparing, Stages, Store!TypeOK, Owners, Views,
       At, Refuse, Gone, Idle, Primary
<1>18. ASSUME NEW r \in Requests, Reject(r) PROVE TypeInv'
  BY <1>18 DEF TypeInv, ReqInv, Shaped, Points, Preparing, Stages, Store!TypeOK, Owners, Views,
       At, Reject, Gone, Idle, Primary, Store!Return
<1>19. ASSUME NEW r \in Requests, Withdraw(r) PROVE TypeInv'
  BY <1>19 DEF TypeInv, ReqInv, Shaped, Points, Preparing, Stages, Store!TypeOK, Owners, Views,
       At, Withdraw, Gone, Idle, Primary, Store!Return
<1>20. ASSUME NEW r \in Requests, Abort(r) PROVE TypeInv'
  BY <1>20 DEF TypeInv, ReqInv, Shaped, Points, Preparing, Stages, Store!TypeOK, Owners, Views,
       At, Abort, Gone, Idle, Primary, Store!Return
<1>21. ASSUME NEW r \in Requests, Finish(r) PROVE TypeInv'
  BY <1>21 DEF TypeInv, ReqInv, Shaped, Points, Preparing, Stages, Store!TypeOK, Owners, Views,
       At, Finish, Gone, Idle, Primary, Store!Return
<1>22. ASSUME NEW s \in Snapshots, Push(s) PROVE TypeInv'
  BY <1>22 DEF TypeInv, ReqInv, Shaped, Points, Preparing, Stages, Store!TypeOK, Owners, Views,
       At, Push, Primary, History
<1>23. ASSUME NEW s \in Snapshots, Prune(s) PROVE TypeInv'
  BY <1>23 DEF TypeInv, ReqInv, Shaped, Points, Preparing, Stages, Store!TypeOK, Owners, Views,
       At, Prune, Primary, History
<1>24. ASSUME NEW s \in Snapshots, Copy(s) PROVE TypeInv'
  BY <1>24 DEF TypeInv, ReqInv, Shaped, Points, Preparing, Stages, Store!TypeOK, Owners, Views,
       At, Copy, Primary, History
<1>25. ASSUME NEW s \in Snapshots, Collect(s) PROVE TypeInv'
  BY <1>25 DEF TypeInv, ReqInv, Shaped, Points, Preparing, Stages, Store!TypeOK, Owners, Views,
       At, Collect, Primary, History, Store!InUse
<1>26. CASE Revoke
  BY <1>26 DEF TypeInv, ReqInv, Shaped, Points, Preparing, Stages, Store!TypeOK, Owners, Views,
       At, Revoke
<1>27. CASE Grant
  BY <1>27 DEF TypeInv, ReqInv, Shaped, Points, Preparing, Stages, Store!TypeOK, Owners, Views,
       At, Grant
<1>28. CASE Tick
  BY <1>28 DEF TypeInv, ReqInv, Shaped, Points, Preparing, Stages, Store!TypeOK, Owners, Views,
       At, Tick, Primary, History
<1>29. CASE UNCHANGED vars
  BY <1>29 DEF TypeInv, ReqInv, Shaped, Points, Preparing, Stages, Store!TypeOK, Owners, Views,
       At, vars
<1> QED
  BY <1>1, <1>2, <1>3, <1>4, <1>5, <1>6, <1>7, <1>8, <1>9, <1>10, <1>11, <1>12, <1>13, <1>14,
       <1>15, <1>16, <1>17, <1>18, <1>19, <1>20, <1>21, <1>22, <1>23, <1>24, <1>25, <1>26,
       <1>27, <1>28, <1>29 DEF Next, Handle

\* With a slot a request starts over on a plan, whatever the remembered views say.
LEMMA SlotTaken ==
  ASSUME TypeInv, NEW r \in Requests, TakeSlot(r)
  PROVE  /\ req' = [req EXCEPT ![r] = req'[r]]
         /\ req'[r].pc = "observing" /\ req'[r].stage \in {"discover", "candidate"}
         /\ req'[r].until = 0
         /\ UNCHANGED <<head, granted, retained, now, avail, held, heads, vouched, revokedAt>>
  BY DEF TypeInv, ReqInv, TakeSlot, Try, Primary, History

LEMMA LeaseStep == TypeInv /\ LeaseInv /\ [Next]_vars => LeaseInv'
<1> SUFFICES ASSUME TypeInv, LeaseInv, [Next]_vars PROVE LeaseInv'
  OBVIOUS
<1> USE SnapshotAssumption, LimitAssumption
<1>1. ASSUME NEW r \in Requests, Admit(r, "discover", NoObject) PROVE LeaseInv'
  BY <1>1 DEF TypeInv, ReqInv, Shaped, Points, Preparing, Stages, Store!TypeOK, Owners, Views,
       At, LeaseInv, Copied, Satisfies, Admit, Idle, Primary
<1>2. ASSUME NEW r \in Requests, NEW o \in Objects, Admit(r, "fetch", o) PROVE LeaseInv'
  BY <1>2 DEF TypeInv, ReqInv, Shaped, Points, Preparing, Stages, Store!TypeOK, Owners, Views,
       At, LeaseInv, Copied, Satisfies, Admit, Idle, Primary
<1>3. ASSUME NEW r \in Requests, TakeSlot(r) PROVE LeaseInv'
  BY <1>3, SlotTaken DEF TypeInv, ReqInv, Shaped, Points, Preparing, Stages, Store!TypeOK,
       Owners, Views, At, LeaseInv, Copied, Satisfies, TakeSlot
<1>4. ASSUME NEW r \in Requests, Observe(r) PROVE LeaseInv'
  BY <1>4 DEF TypeInv, ReqInv, Shaped, Points, Preparing, Stages, Store!TypeOK, Owners, Views,
       At, LeaseInv, Copied, Satisfies, Observe, Primary, History, Observed
<1>5. ASSUME NEW r \in Requests, Retained(r) PROVE LeaseInv'
  BY <1>5 DEF TypeInv, ReqInv, Shaped, Points, Preparing, Stages, Store!TypeOK, Owners, Views,
       At, LeaseInv, Copied, Satisfies, Retained, Goto, Primary, History
<1>6. ASSUME NEW r \in Requests, Pin(r) PROVE LeaseInv'
  BY <1>6 DEF TypeInv, ReqInv, Shaped, Points, Preparing, Stages, Store!TypeOK, Owners, Views,
       At, LeaseInv, Copied, Satisfies, Pin, Primary, History
<1>7. ASSUME NEW r \in Requests, RetainPin(r) PROVE LeaseInv'
  BY <1>7 DEF TypeInv, ReqInv, Shaped, Points, Preparing, Stages, Store!TypeOK, Owners, Views,
       At, LeaseInv, Copied, Satisfies, RetainPin, Goto, Primary, History
<1>8. ASSUME NEW r \in Requests, Stamp(r) PROVE LeaseInv'
  BY <1>8 DEF TypeInv, ReqInv, Shaped, Points, Preparing, Stages, Store!TypeOK, Owners, Views,
       At, LeaseInv, Copied, Satisfies, Stamp, Primary, History
<1>9. ASSUME NEW r \in Requests, Confirm(r) PROVE LeaseInv'
  BY <1>9 DEF TypeInv, ReqInv, Shaped, Points, Preparing, Stages, Store!TypeOK, Owners, Views,
       At, LeaseInv, Copied, Satisfies, Confirm, Primary, History, Authorized, Goto, Valid
<1>10. ASSUME NEW r \in Requests, Receive(r) PROVE LeaseInv'
  BY <1>10 DEF TypeInv, ReqInv, Shaped, Points, Preparing, Stages, Store!TypeOK, Owners, Views,
       At, LeaseInv, Copied, Satisfies, Receive, Primary, History, Goto, Valid
<1>11. ASSUME NEW r \in Requests, Ensure(r) PROVE LeaseInv'
  BY <1>11 DEF TypeInv, ReqInv, Shaped, Points, Preparing, Stages, Store!TypeOK, Owners, Views,
       At, LeaseInv, Copied, Satisfies, Ensure, Goto, Primary, Store!Lease
<1>12. ASSUME NEW r \in Requests, Select(r) PROVE LeaseInv'
  BY <1>12 DEF TypeInv, ReqInv, Shaped, Points, Preparing, Stages, Store!TypeOK, Owners, Views,
       At, LeaseInv, Copied, Satisfies, Select, Contained, Primary, History
<1>13. ASSUME NEW r \in Requests, NotHere(r) PROVE LeaseInv'
  BY <1>13 DEF TypeInv, ReqInv, Shaped, Points, Preparing, Stages, Store!TypeOK, Owners, Views,
       At, LeaseInv, Copied, Satisfies, NotHere, Primary, Store!Return, Try
<1>14. ASSUME NEW r \in Requests, Decide(r) PROVE LeaseInv'
  BY <1>14 DEF TypeInv, ReqInv, Shaped, Points, Preparing, Stages, Store!TypeOK, Owners, Views,
       At, LeaseInv, Copied, Satisfies, Decide, Primary, History, Decided
<1>15. ASSUME NEW r \in Requests, Revalidate(r) PROVE LeaseInv'
  BY <1>15 DEF TypeInv, ReqInv, Shaped, Points, Preparing, Stages, Store!TypeOK, Owners, Views,
       At, LeaseInv, Copied, Satisfies, Revalidate, Primary, History, Authorized, Goto, Valid
<1>16. ASSUME NEW r \in Requests, Serve(r) PROVE LeaseInv'
  BY <1>16 DEF TypeInv, ReqInv, Shaped, Points, Preparing, Stages, Store!TypeOK, Owners, Views,
       At, LeaseInv, Copied, Satisfies, Serve, Primary, History, Goto, Valid
<1>17. ASSUME NEW r \in Requests, Refuse(r) PROVE LeaseInv'
  BY <1>17 DEF TypeInv, ReqInv, Shaped, Points, Preparing, Stages, Store!TypeOK, Owners, Views,
       At, LeaseInv, Copied, Satisfies, Refuse, Gone, Idle, Primary
<1>18. ASSUME NEW r \in Requests, Reject(r) PROVE LeaseInv'
  BY <1>18 DEF TypeInv, ReqInv, Shaped, Points, Preparing, Stages, Store!TypeOK, Owners, Views,
       At, LeaseInv, Copied, Satisfies, Reject, Gone, Idle, Primary, Store!Return
<1>19. ASSUME NEW r \in Requests, Withdraw(r) PROVE LeaseInv'
  BY <1>19 DEF TypeInv, ReqInv, Shaped, Points, Preparing, Stages, Store!TypeOK, Owners, Views,
       At, LeaseInv, Copied, Satisfies, Withdraw, Gone, Idle, Primary, Store!Return
<1>20. ASSUME NEW r \in Requests, Abort(r) PROVE LeaseInv'
  BY <1>20 DEF TypeInv, ReqInv, Shaped, Points, Preparing, Stages, Store!TypeOK, Owners, Views,
       At, LeaseInv, Copied, Satisfies, Abort, Gone, Idle, Primary, Store!Return
<1>21. ASSUME NEW r \in Requests, Finish(r) PROVE LeaseInv'
  BY <1>21 DEF TypeInv, ReqInv, Shaped, Points, Preparing, Stages, Store!TypeOK, Owners, Views,
       At, LeaseInv, Copied, Satisfies, Finish, Gone, Idle, Primary, Store!Return
<1>22. ASSUME NEW s \in Snapshots, Push(s) PROVE LeaseInv'
  BY <1>22 DEF TypeInv, ReqInv, Shaped, Points, Preparing, Stages, Store!TypeOK, Owners, Views,
       At, LeaseInv, Copied, Satisfies, Push, Primary, History
<1>23. ASSUME NEW s \in Snapshots, Prune(s) PROVE LeaseInv'
  BY <1>23 DEF TypeInv, ReqInv, Shaped, Points, Preparing, Stages, Store!TypeOK, Owners, Views,
       At, LeaseInv, Copied, Satisfies, Prune, Primary, History
<1>24. ASSUME NEW s \in Snapshots, Copy(s) PROVE LeaseInv'
  BY <1>24 DEF TypeInv, ReqInv, Shaped, Points, Preparing, Stages, Store!TypeOK, Owners, Views,
       At, LeaseInv, Copied, Satisfies, Copy, Primary, History
<1>25. ASSUME NEW s \in Snapshots, Collect(s) PROVE LeaseInv'
  BY <1>25 DEF TypeInv, ReqInv, Shaped, Points, Preparing, Stages, Store!TypeOK, Owners, Views,
       At, LeaseInv, Copied, Satisfies, Collect, Primary, History, Store!InUse
<1>26. CASE Revoke
  BY <1>26 DEF TypeInv, ReqInv, Shaped, Points, Preparing, Stages, Store!TypeOK, Owners, Views,
       At, LeaseInv, Copied, Satisfies, Revoke
<1>27. CASE Grant
  BY <1>27 DEF TypeInv, ReqInv, Shaped, Points, Preparing, Stages, Store!TypeOK, Owners, Views,
       At, LeaseInv, Copied, Satisfies, Grant
<1>28. CASE Tick
  BY <1>28 DEF TypeInv, ReqInv, Shaped, Points, Preparing, Stages, Store!TypeOK, Owners, Views,
       At, LeaseInv, Copied, Satisfies, Tick, Primary, History
<1>29. CASE UNCHANGED vars
  BY <1>29 DEF TypeInv, ReqInv, Shaped, Points, Preparing, Stages, Store!TypeOK, Owners, Views,
       At, LeaseInv, Copied, Satisfies, vars
<1> QED
  BY <1>1, <1>2, <1>3, <1>4, <1>5, <1>6, <1>7, <1>8, <1>9, <1>10, <1>11, <1>12, <1>13, <1>14,
       <1>15, <1>16, <1>17, <1>18, <1>19, <1>20, <1>21, <1>22, <1>23, <1>24, <1>25, <1>26,
       <1>27, <1>28, <1>29 DEF Next, Handle

LEMMA DiscoverStep == TypeInv /\ LeaseInv /\ DiscoverInv /\ [Next]_vars => DiscoverInv'
<1> SUFFICES ASSUME TypeInv, LeaseInv, DiscoverInv, [Next]_vars PROVE DiscoverInv'
  OBVIOUS
<1> USE SnapshotAssumption, LimitAssumption
<1>1. ASSUME NEW r \in Requests, Admit(r, "discover", NoObject) PROVE DiscoverInv'
  BY <1>1 DEF TypeInv, ReqInv, Shaped, Points, Preparing, Stages, Store!TypeOK, Owners, Views,
       At, LeaseInv, Copied, DiscoverInv, Aimed, Admit, Idle, Primary
<1>2. ASSUME NEW r \in Requests, NEW o \in Objects, Admit(r, "fetch", o) PROVE DiscoverInv'
  BY <1>2 DEF TypeInv, ReqInv, Shaped, Points, Preparing, Stages, Store!TypeOK, Owners, Views,
       At, LeaseInv, Copied, DiscoverInv, Aimed, Admit, Idle, Primary
<1>3. ASSUME NEW r \in Requests, TakeSlot(r) PROVE DiscoverInv'
  BY <1>3 DEF TypeInv, ReqInv, Shaped, Points, Preparing, Stages, Store!TypeOK,
       Owners, Views, At, LeaseInv, Copied, DiscoverInv, Aimed, TakeSlot, Try, Hints, Primary, History
<1>4. ASSUME NEW r \in Requests, Observe(r) PROVE DiscoverInv'
  BY <1>4 DEF TypeInv, ReqInv, Shaped, Points, Preparing, Stages, Store!TypeOK, Owners, Views,
       At, LeaseInv, Copied, DiscoverInv, Aimed, Observe, Primary, History, Observed
<1>5. ASSUME NEW r \in Requests, Retained(r) PROVE DiscoverInv'
  BY <1>5 DEF TypeInv, ReqInv, Shaped, Points, Preparing, Stages, Store!TypeOK, Owners, Views,
       At, LeaseInv, Copied, DiscoverInv, Aimed, Retained, Goto, Primary, History
<1>6. ASSUME NEW r \in Requests, Pin(r) PROVE DiscoverInv'
  BY <1>6 DEF TypeInv, ReqInv, Shaped, Points, Preparing, Stages, Store!TypeOK, Owners, Views,
       At, LeaseInv, Copied, DiscoverInv, Aimed, Pin, Primary, History
<1>7. ASSUME NEW r \in Requests, RetainPin(r) PROVE DiscoverInv'
  BY <1>7 DEF TypeInv, ReqInv, Shaped, Points, Preparing, Stages, Store!TypeOK, Owners, Views,
       At, LeaseInv, Copied, DiscoverInv, Aimed, RetainPin, Goto, Primary, History
<1>8. ASSUME NEW r \in Requests, Stamp(r) PROVE DiscoverInv'
  BY <1>8 DEF TypeInv, ReqInv, Shaped, Points, Preparing, Stages, Store!TypeOK, Owners, Views,
       At, LeaseInv, Copied, DiscoverInv, Aimed, Stamp, Primary, History
<1>9. ASSUME NEW r \in Requests, Confirm(r) PROVE DiscoverInv'
  BY <1>9 DEF TypeInv, ReqInv, Shaped, Points, Preparing, Stages, Store!TypeOK, Owners, Views,
       At, LeaseInv, Copied, DiscoverInv, Aimed, Confirm, Primary, History, Authorized, Goto,
       Valid
<1>10. ASSUME NEW r \in Requests, Receive(r) PROVE DiscoverInv'
  BY <1>10 DEF TypeInv, ReqInv, Shaped, Points, Preparing, Stages, Store!TypeOK, Owners, Views,
       At, LeaseInv, Copied, DiscoverInv, Aimed, Receive, Primary, History, Goto, Valid
<1>11. ASSUME NEW r \in Requests, Ensure(r) PROVE DiscoverInv'
  BY <1>11 DEF TypeInv, ReqInv, Shaped, Points, Preparing, Stages, Store!TypeOK, Owners, Views,
       At, LeaseInv, Copied, DiscoverInv, Aimed, Ensure, Goto, Primary, Store!Lease
<1>12. ASSUME NEW r \in Requests, Select(r) PROVE DiscoverInv'
  BY <1>12 DEF TypeInv, ReqInv, Shaped, Points, Preparing, Stages, Store!TypeOK, Owners, Views,
       At, LeaseInv, Copied, DiscoverInv, Aimed, Select, Contained, Primary, History
<1>13. ASSUME NEW r \in Requests, NotHere(r) PROVE DiscoverInv'
  BY <1>13 DEF TypeInv, ReqInv, Shaped, Points, Preparing, Stages, Store!TypeOK, Owners, Views,
       At, LeaseInv, Copied, DiscoverInv, Aimed, NotHere, Primary, Store!Return, Try
<1>14. ASSUME NEW r \in Requests, Decide(r) PROVE DiscoverInv'
  BY <1>14 DEF TypeInv, ReqInv, Shaped, Points, Preparing, Stages, Store!TypeOK, Owners, Views,
       At, LeaseInv, Copied, DiscoverInv, Aimed, Decide, Primary, History, Decided
<1>15. ASSUME NEW r \in Requests, Revalidate(r) PROVE DiscoverInv'
  BY <1>15 DEF TypeInv, ReqInv, Shaped, Points, Preparing, Stages, Store!TypeOK, Owners, Views,
       At, LeaseInv, Copied, DiscoverInv, Aimed, Revalidate, Primary, History, Authorized, Goto,
       Valid
<1>16. ASSUME NEW r \in Requests, Serve(r) PROVE DiscoverInv'
  BY <1>16 DEF TypeInv, ReqInv, Shaped, Points, Preparing, Stages, Store!TypeOK, Owners, Views,
       At, LeaseInv, Copied, DiscoverInv, Aimed, Serve, Primary, History, Goto, Valid
<1>17. ASSUME NEW r \in Requests, Refuse(r) PROVE DiscoverInv'
  BY <1>17 DEF TypeInv, ReqInv, Shaped, Points, Preparing, Stages, Store!TypeOK, Owners, Views,
       At, LeaseInv, Copied, DiscoverInv, Aimed, Refuse, Gone, Idle, Primary
<1>18. ASSUME NEW r \in Requests, Reject(r) PROVE DiscoverInv'
  BY <1>18 DEF TypeInv, ReqInv, Shaped, Points, Preparing, Stages, Store!TypeOK, Owners, Views,
       At, LeaseInv, Copied, DiscoverInv, Aimed, Reject, Gone, Idle, Primary, Store!Return
<1>19. ASSUME NEW r \in Requests, Withdraw(r) PROVE DiscoverInv'
  BY <1>19 DEF TypeInv, ReqInv, Shaped, Points, Preparing, Stages, Store!TypeOK, Owners, Views,
       At, LeaseInv, Copied, DiscoverInv, Aimed, Withdraw, Gone, Idle, Primary, Store!Return
<1>20. ASSUME NEW r \in Requests, Abort(r) PROVE DiscoverInv'
  BY <1>20 DEF TypeInv, ReqInv, Shaped, Points, Preparing, Stages, Store!TypeOK, Owners, Views,
       At, LeaseInv, Copied, DiscoverInv, Aimed, Abort, Gone, Idle, Primary, Store!Return
<1>21. ASSUME NEW r \in Requests, Finish(r) PROVE DiscoverInv'
  BY <1>21 DEF TypeInv, ReqInv, Shaped, Points, Preparing, Stages, Store!TypeOK, Owners, Views,
       At, LeaseInv, Copied, DiscoverInv, Aimed, Finish, Gone, Idle, Primary, Store!Return
<1>22. ASSUME NEW s \in Snapshots, Push(s) PROVE DiscoverInv'
  BY <1>22 DEF TypeInv, ReqInv, Shaped, Points, Preparing, Stages, Store!TypeOK, Owners, Views,
       At, LeaseInv, Copied, DiscoverInv, Aimed, Push, Primary, History
<1>23. ASSUME NEW s \in Snapshots, Prune(s) PROVE DiscoverInv'
  BY <1>23 DEF TypeInv, ReqInv, Shaped, Points, Preparing, Stages, Store!TypeOK, Owners, Views,
       At, LeaseInv, Copied, DiscoverInv, Aimed, Prune, Primary, History
<1>24. ASSUME NEW s \in Snapshots, Copy(s) PROVE DiscoverInv'
  BY <1>24 DEF TypeInv, ReqInv, Shaped, Points, Preparing, Stages, Store!TypeOK, Owners, Views,
       At, LeaseInv, Copied, DiscoverInv, Aimed, Copy, Primary, History
<1>25. ASSUME NEW s \in Snapshots, Collect(s) PROVE DiscoverInv'
  BY <1>25 DEF TypeInv, ReqInv, Shaped, Points, Preparing, Stages, Store!TypeOK, Owners, Views,
       At, LeaseInv, Copied, DiscoverInv, Aimed, Collect, Primary, History, Store!InUse
<1>26. CASE Revoke
  BY <1>26 DEF TypeInv, ReqInv, Shaped, Points, Preparing, Stages, Store!TypeOK, Owners, Views,
       At, LeaseInv, Copied, DiscoverInv, Aimed, Revoke
<1>27. CASE Grant
  BY <1>27 DEF TypeInv, ReqInv, Shaped, Points, Preparing, Stages, Store!TypeOK, Owners, Views,
       At, LeaseInv, Copied, DiscoverInv, Aimed, Grant
<1>28. CASE Tick
  BY <1>28 DEF TypeInv, ReqInv, Shaped, Points, Preparing, Stages, Store!TypeOK, Owners, Views,
       At, LeaseInv, Copied, DiscoverInv, Aimed, Tick, Primary, History
<1>29. CASE UNCHANGED vars
  BY <1>29 DEF TypeInv, ReqInv, Shaped, Points, Preparing, Stages, Store!TypeOK, Owners, Views,
       At, LeaseInv, Copied, DiscoverInv, Aimed, vars
<1> QED
  BY <1>1, <1>2, <1>3, <1>4, <1>5, <1>6, <1>7, <1>8, <1>9, <1>10, <1>11, <1>12, <1>13, <1>14,
       <1>15, <1>16, <1>17, <1>18, <1>19, <1>20, <1>21, <1>22, <1>23, <1>24, <1>25, <1>26,
       <1>27, <1>28, <1>29 DEF Next, Handle

LEMMA VouchStep == TypeInv /\ LeaseInv /\ VouchInv /\ [Next]_vars => VouchInv'
<1> SUFFICES ASSUME TypeInv, LeaseInv, VouchInv, [Next]_vars PROVE VouchInv'
  OBVIOUS
<1> USE SnapshotAssumption, LimitAssumption
<1>1. ASSUME NEW r \in Requests, Admit(r, "discover", NoObject) PROVE VouchInv'
  BY <1>1 DEF TypeInv, ReqInv, Shaped, Points, Preparing, Stages, Store!TypeOK, Owners, Views,
       At, LeaseInv, Copied, VouchInv, Admit, Idle, Primary
<1>2. ASSUME NEW r \in Requests, NEW o \in Objects, Admit(r, "fetch", o) PROVE VouchInv'
  BY <1>2 DEF TypeInv, ReqInv, Shaped, Points, Preparing, Stages, Store!TypeOK, Owners, Views,
       At, LeaseInv, Copied, VouchInv, Admit, Idle, Primary
<1>3. ASSUME NEW r \in Requests, TakeSlot(r) PROVE VouchInv'
  BY <1>3, SlotTaken DEF TypeInv, ReqInv, Shaped, Points, Preparing, Stages, Store!TypeOK,
       Owners, Views, At, LeaseInv, Copied, VouchInv, TakeSlot
<1>4. ASSUME NEW r \in Requests, Observe(r) PROVE VouchInv'
  BY <1>4 DEF TypeInv, ReqInv, Shaped, Points, Preparing, Stages, Store!TypeOK, Owners, Views,
       At, LeaseInv, Copied, VouchInv, Observe, Primary, History, Observed
<1>5. ASSUME NEW r \in Requests, Retained(r) PROVE VouchInv'
  BY <1>5 DEF TypeInv, ReqInv, Shaped, Points, Preparing, Stages, Store!TypeOK, Owners, Views,
       At, LeaseInv, Copied, VouchInv, Retained, Goto, Primary, History
<1>6. ASSUME NEW r \in Requests, Pin(r) PROVE VouchInv'
  BY <1>6 DEF TypeInv, ReqInv, Shaped, Points, Preparing, Stages, Store!TypeOK, Owners, Views,
       At, LeaseInv, Copied, VouchInv, Pin, Primary, History
<1>7. ASSUME NEW r \in Requests, RetainPin(r) PROVE VouchInv'
  BY <1>7 DEF TypeInv, ReqInv, Shaped, Points, Preparing, Stages, Store!TypeOK, Owners, Views,
       At, LeaseInv, Copied, VouchInv, RetainPin, Goto, Primary, History
<1>8. ASSUME NEW r \in Requests, Stamp(r) PROVE VouchInv'
  BY <1>8 DEF TypeInv, ReqInv, Shaped, Points, Preparing, Stages, Store!TypeOK, Owners, Views,
       At, LeaseInv, Copied, VouchInv, Stamp, Primary, History
<1>9. ASSUME NEW r \in Requests, Confirm(r) PROVE VouchInv'
  BY <1>9 DEF TypeInv, ReqInv, Shaped, Points, Preparing, Stages, Store!TypeOK, Owners, Views,
       At, LeaseInv, Copied, VouchInv, Confirm, Primary, History, Authorized, Goto, Valid
<1>10. ASSUME NEW r \in Requests, Receive(r) PROVE VouchInv'
  BY <1>10 DEF TypeInv, ReqInv, Shaped, Points, Preparing, Stages, Store!TypeOK, Owners, Views,
       At, LeaseInv, Copied, VouchInv, Receive, Primary, History, Goto, Valid
<1>11. ASSUME NEW r \in Requests, Ensure(r) PROVE VouchInv'
  BY <1>11 DEF TypeInv, ReqInv, Shaped, Points, Preparing, Stages, Store!TypeOK, Owners, Views,
       At, LeaseInv, Copied, VouchInv, Ensure, Goto, Primary, Store!Lease
<1>12. ASSUME NEW r \in Requests, Select(r) PROVE VouchInv'
  BY <1>12 DEF TypeInv, ReqInv, Shaped, Points, Preparing, Stages, Store!TypeOK, Owners, Views,
       At, LeaseInv, Copied, VouchInv, Select, Contained, Primary, History
<1>13. ASSUME NEW r \in Requests, NotHere(r) PROVE VouchInv'
  BY <1>13 DEF TypeInv, ReqInv, Shaped, Points, Preparing, Stages, Store!TypeOK, Owners, Views,
       At, LeaseInv, Copied, VouchInv, NotHere, Primary, Store!Return, Try
<1>14. ASSUME NEW r \in Requests, Decide(r) PROVE VouchInv'
  BY <1>14 DEF TypeInv, ReqInv, Shaped, Points, Preparing, Stages, Store!TypeOK, Owners, Views,
       At, LeaseInv, Copied, VouchInv, Decide, Primary, History, Decided
<1>15. ASSUME NEW r \in Requests, Revalidate(r) PROVE VouchInv'
  BY <1>15 DEF TypeInv, ReqInv, Shaped, Points, Preparing, Stages, Store!TypeOK, Owners, Views,
       At, LeaseInv, Copied, VouchInv, Revalidate, Primary, History, Authorized, Goto, Valid
<1>16. ASSUME NEW r \in Requests, Serve(r) PROVE VouchInv'
  BY <1>16 DEF TypeInv, ReqInv, Shaped, Points, Preparing, Stages, Store!TypeOK, Owners, Views,
       At, LeaseInv, Copied, VouchInv, Serve, Primary, History, Goto, Valid
<1>17. ASSUME NEW r \in Requests, Refuse(r) PROVE VouchInv'
  BY <1>17 DEF TypeInv, ReqInv, Shaped, Points, Preparing, Stages, Store!TypeOK, Owners, Views,
       At, LeaseInv, Copied, VouchInv, Refuse, Gone, Idle, Primary
<1>18. ASSUME NEW r \in Requests, Reject(r) PROVE VouchInv'
  BY <1>18 DEF TypeInv, ReqInv, Shaped, Points, Preparing, Stages, Store!TypeOK, Owners, Views,
       At, LeaseInv, Copied, VouchInv, Reject, Gone, Idle, Primary, Store!Return
<1>19. ASSUME NEW r \in Requests, Withdraw(r) PROVE VouchInv'
  BY <1>19 DEF TypeInv, ReqInv, Shaped, Points, Preparing, Stages, Store!TypeOK, Owners, Views,
       At, LeaseInv, Copied, VouchInv, Withdraw, Gone, Idle, Primary, Store!Return
<1>20. ASSUME NEW r \in Requests, Abort(r) PROVE VouchInv'
  BY <1>20 DEF TypeInv, ReqInv, Shaped, Points, Preparing, Stages, Store!TypeOK, Owners, Views,
       At, LeaseInv, Copied, VouchInv, Abort, Gone, Idle, Primary, Store!Return
<1>21. ASSUME NEW r \in Requests, Finish(r) PROVE VouchInv'
  BY <1>21 DEF TypeInv, ReqInv, Shaped, Points, Preparing, Stages, Store!TypeOK, Owners, Views,
       At, LeaseInv, Copied, VouchInv, Finish, Gone, Idle, Primary, Store!Return
<1>22. ASSUME NEW s \in Snapshots, Push(s) PROVE VouchInv'
  BY <1>22 DEF TypeInv, ReqInv, Shaped, Points, Preparing, Stages, Store!TypeOK, Owners, Views,
       At, LeaseInv, Copied, VouchInv, Push, Primary, History
<1>23. ASSUME NEW s \in Snapshots, Prune(s) PROVE VouchInv'
  BY <1>23 DEF TypeInv, ReqInv, Shaped, Points, Preparing, Stages, Store!TypeOK, Owners, Views,
       At, LeaseInv, Copied, VouchInv, Prune, Primary, History
<1>24. ASSUME NEW s \in Snapshots, Copy(s) PROVE VouchInv'
  BY <1>24 DEF TypeInv, ReqInv, Shaped, Points, Preparing, Stages, Store!TypeOK, Owners, Views,
       At, LeaseInv, Copied, VouchInv, Copy, Primary, History
<1>25. ASSUME NEW s \in Snapshots, Collect(s) PROVE VouchInv'
  BY <1>25 DEF TypeInv, ReqInv, Shaped, Points, Preparing, Stages, Store!TypeOK, Owners, Views,
       At, LeaseInv, Copied, VouchInv, Collect, Primary, History, Store!InUse
<1>26. CASE Revoke
  BY <1>26 DEF TypeInv, ReqInv, Shaped, Points, Preparing, Stages, Store!TypeOK, Owners, Views,
       At, LeaseInv, Copied, VouchInv, Revoke
<1>27. CASE Grant
  BY <1>27 DEF TypeInv, ReqInv, Shaped, Points, Preparing, Stages, Store!TypeOK, Owners, Views,
       At, LeaseInv, Copied, VouchInv, Grant
<1>28. CASE Tick
  BY <1>28 DEF TypeInv, ReqInv, Shaped, Points, Preparing, Stages, Store!TypeOK, Owners, Views,
       At, LeaseInv, Copied, VouchInv, Tick, Primary, History
<1>29. CASE UNCHANGED vars
  BY <1>29 DEF TypeInv, ReqInv, Shaped, Points, Preparing, Stages, Store!TypeOK, Owners, Views,
       At, LeaseInv, Copied, VouchInv, vars
<1> QED
  BY <1>1, <1>2, <1>3, <1>4, <1>5, <1>6, <1>7, <1>8, <1>9, <1>10, <1>11, <1>12, <1>13, <1>14,
       <1>15, <1>16, <1>17, <1>18, <1>19, <1>20, <1>21, <1>22, <1>23, <1>24, <1>25, <1>26,
       <1>27, <1>28, <1>29 DEF Next, Handle

LEMMA PlanStep == TypeInv /\ PlanInv /\ [Next]_vars => PlanInv'
<1> SUFFICES ASSUME TypeInv, PlanInv, [Next]_vars PROVE PlanInv'
  OBVIOUS
<1> USE SnapshotAssumption, LimitAssumption
<1>1. ASSUME NEW r \in Requests, Admit(r, "discover", NoObject) PROVE PlanInv'
  BY <1>1 DEF TypeInv, ReqInv, Shaped, Points, Preparing, Stages, Store!TypeOK, Owners, Views,
       At, PlanInv, Admit, Idle, Primary
<1>2. ASSUME NEW r \in Requests, NEW o \in Objects, Admit(r, "fetch", o) PROVE PlanInv'
  BY <1>2 DEF TypeInv, ReqInv, Shaped, Points, Preparing, Stages, Store!TypeOK, Owners, Views,
       At, PlanInv, Admit, Idle, Primary
<1>3. ASSUME NEW r \in Requests, TakeSlot(r) PROVE PlanInv'
  BY <1>3, SlotTaken DEF TypeInv, ReqInv, Shaped, Points, Preparing, Stages, Store!TypeOK,
       Owners, Views, At, PlanInv, TakeSlot
<1>4. ASSUME NEW r \in Requests, Observe(r) PROVE PlanInv'
  BY <1>4 DEF TypeInv, ReqInv, Shaped, Points, Preparing, Stages, Store!TypeOK, Owners, Views,
       At, PlanInv, Observe, Primary, History, Observed
<1>5. ASSUME NEW r \in Requests, Retained(r) PROVE PlanInv'
  BY <1>5 DEF TypeInv, ReqInv, Shaped, Points, Preparing, Stages, Store!TypeOK, Owners, Views,
       At, PlanInv, Retained, Goto, Primary, History
<1>6. ASSUME NEW r \in Requests, Pin(r) PROVE PlanInv'
  BY <1>6 DEF TypeInv, ReqInv, Shaped, Points, Preparing, Stages, Store!TypeOK, Owners, Views,
       At, PlanInv, Pin, Primary, History
<1>7. ASSUME NEW r \in Requests, RetainPin(r) PROVE PlanInv'
  BY <1>7 DEF TypeInv, ReqInv, Shaped, Points, Preparing, Stages, Store!TypeOK, Owners, Views,
       At, PlanInv, RetainPin, Goto, Primary, History
<1>8. ASSUME NEW r \in Requests, Stamp(r) PROVE PlanInv'
  BY <1>8 DEF TypeInv, ReqInv, Shaped, Points, Preparing, Stages, Store!TypeOK, Owners, Views,
       At, PlanInv, Stamp, Primary, History
<1>9. ASSUME NEW r \in Requests, Confirm(r) PROVE PlanInv'
  BY <1>9 DEF TypeInv, ReqInv, Shaped, Points, Preparing, Stages, Store!TypeOK, Owners, Views,
       At, PlanInv, Confirm, Primary, History, Authorized, Goto, Valid
<1>10. ASSUME NEW r \in Requests, Receive(r) PROVE PlanInv'
  BY <1>10 DEF TypeInv, ReqInv, Shaped, Points, Preparing, Stages, Store!TypeOK, Owners, Views,
       At, PlanInv, Receive, Primary, History, Goto, Valid
<1>11. ASSUME NEW r \in Requests, Ensure(r) PROVE PlanInv'
  BY <1>11 DEF TypeInv, ReqInv, Shaped, Points, Preparing, Stages, Store!TypeOK, Owners, Views,
       At, PlanInv, Ensure, Goto, Primary, Store!Lease
<1>12. ASSUME NEW r \in Requests, Select(r) PROVE PlanInv'
  BY <1>12 DEF TypeInv, ReqInv, Shaped, Points, Preparing, Stages, Store!TypeOK, Owners, Views,
       At, PlanInv, Select, Contained, Primary, History
<1>13. ASSUME NEW r \in Requests, NotHere(r) PROVE PlanInv'
  BY <1>13 DEF TypeInv, ReqInv, Shaped, Points, Preparing, Stages, Store!TypeOK, Owners, Views,
       At, PlanInv, NotHere, Primary, Store!Return, Try
<1>14. ASSUME NEW r \in Requests, Decide(r) PROVE PlanInv'
  BY <1>14 DEF TypeInv, ReqInv, Shaped, Points, Preparing, Stages, Store!TypeOK, Owners, Views,
       At, PlanInv, Decide, Primary, History, Decided
<1>15. ASSUME NEW r \in Requests, Revalidate(r) PROVE PlanInv'
  BY <1>15 DEF TypeInv, ReqInv, Shaped, Points, Preparing, Stages, Store!TypeOK, Owners, Views,
       At, PlanInv, Revalidate, Primary, History, Authorized, Goto, Valid
<1>16. ASSUME NEW r \in Requests, Serve(r) PROVE PlanInv'
  BY <1>16 DEF TypeInv, ReqInv, Shaped, Points, Preparing, Stages, Store!TypeOK, Owners, Views,
       At, PlanInv, Serve, Primary, History, Goto, Valid
<1>17. ASSUME NEW r \in Requests, Refuse(r) PROVE PlanInv'
  BY <1>17 DEF TypeInv, ReqInv, Shaped, Points, Preparing, Stages, Store!TypeOK, Owners, Views,
       At, PlanInv, Refuse, Gone, Idle, Primary
<1>18. ASSUME NEW r \in Requests, Reject(r) PROVE PlanInv'
  BY <1>18 DEF TypeInv, ReqInv, Shaped, Points, Preparing, Stages, Store!TypeOK, Owners, Views,
       At, PlanInv, Reject, Gone, Idle, Primary, Store!Return
<1>19. ASSUME NEW r \in Requests, Withdraw(r) PROVE PlanInv'
  BY <1>19 DEF TypeInv, ReqInv, Shaped, Points, Preparing, Stages, Store!TypeOK, Owners, Views,
       At, PlanInv, Withdraw, Gone, Idle, Primary, Store!Return
<1>20. ASSUME NEW r \in Requests, Abort(r) PROVE PlanInv'
  BY <1>20 DEF TypeInv, ReqInv, Shaped, Points, Preparing, Stages, Store!TypeOK, Owners, Views,
       At, PlanInv, Abort, Gone, Idle, Primary, Store!Return
<1>21. ASSUME NEW r \in Requests, Finish(r) PROVE PlanInv'
  BY <1>21 DEF TypeInv, ReqInv, Shaped, Points, Preparing, Stages, Store!TypeOK, Owners, Views,
       At, PlanInv, Finish, Gone, Idle, Primary, Store!Return
<1>22. ASSUME NEW s \in Snapshots, Push(s) PROVE PlanInv'
  BY <1>22 DEF TypeInv, ReqInv, Shaped, Points, Preparing, Stages, Store!TypeOK, Owners, Views,
       At, PlanInv, Push, Primary, History
<1>23. ASSUME NEW s \in Snapshots, Prune(s) PROVE PlanInv'
  BY <1>23 DEF TypeInv, ReqInv, Shaped, Points, Preparing, Stages, Store!TypeOK, Owners, Views,
       At, PlanInv, Prune, Primary, History
<1>24. ASSUME NEW s \in Snapshots, Copy(s) PROVE PlanInv'
  BY <1>24 DEF TypeInv, ReqInv, Shaped, Points, Preparing, Stages, Store!TypeOK, Owners, Views,
       At, PlanInv, Copy, Primary, History
<1>25. ASSUME NEW s \in Snapshots, Collect(s) PROVE PlanInv'
  BY <1>25 DEF TypeInv, ReqInv, Shaped, Points, Preparing, Stages, Store!TypeOK, Owners, Views,
       At, PlanInv, Collect, Primary, History, Store!InUse
<1>26. CASE Revoke
  BY <1>26 DEF TypeInv, ReqInv, Shaped, Points, Preparing, Stages, Store!TypeOK, Owners, Views,
       At, PlanInv, Revoke
<1>27. CASE Grant
  BY <1>27 DEF TypeInv, ReqInv, Shaped, Points, Preparing, Stages, Store!TypeOK, Owners, Views,
       At, PlanInv, Grant
<1>28. CASE Tick
  BY <1>28 DEF TypeInv, ReqInv, Shaped, Points, Preparing, Stages, Store!TypeOK, Owners, Views,
       At, PlanInv, Tick, Primary, History
<1>29. CASE UNCHANGED vars
  BY <1>29 DEF TypeInv, ReqInv, Shaped, Points, Preparing, Stages, Store!TypeOK, Owners, Views,
       At, PlanInv, vars
<1> QED
  BY <1>1, <1>2, <1>3, <1>4, <1>5, <1>6, <1>7, <1>8, <1>9, <1>10, <1>11, <1>12, <1>13, <1>14,
       <1>15, <1>16, <1>17, <1>18, <1>19, <1>20, <1>21, <1>22, <1>23, <1>24, <1>25, <1>26,
       <1>27, <1>28, <1>29 DEF Next, Handle

-----------------------------------------------------------------------------
\* ReadRuntime and PrimaryReadAuthority: the invariant holds of every behaviour.
THEOREM EdgeInvariant == Spec => []EdgeInv
<1>1. EdgeInv /\ [Next]_vars => EdgeInv'
  BY TypeStep, LeaseStep, DiscoverStep, VouchStep, PlanStep DEF EdgeInv
<1> QED
  BY EdgeInit, <1>1, PTL DEF Spec

\* ServeHTTP: nothing is served on the strength of the decision made before the copy.
THEOREM ServedAuthorized == Spec => []AuthorizedAfterCopy
<1>1. EdgeInv => AuthorizedAfterCopy
  BY SnapshotAssumption DEF EdgeInv, VouchInv, AuthorizedAfterCopy, At
<1> QED
  BY EdgeInvariant, <1>1, PTL

\* selectView: a discovery answers with a state the refs had during the request.
THEOREM DiscoveryIsCurrent == Spec => []DiscoveryCurrent
<1>1. EdgeInv => DiscoveryCurrent
  BY SnapshotAssumption DEF EdgeInv, DiscoverInv, DiscoveryCurrent, Aimed, At
<1> QED
  BY EdgeInvariant, <1>1, PTL

\* materialize: Git reads the leased, complete view of the plan, with the wanted object.
THEOREM ServesExactly == Spec => []ServedExactly
<1>1. EdgeInv => ServedExactly
  BY SnapshotAssumption DEF EdgeInv, LeaseInv, ServedExactly, Copied, At
<1> QED
  BY EdgeInvariant, <1>1, PTL

\* ServeHTTP: every way out of the handler gives the lease back.
THEOREM LeavesNoLease == Spec => []NoLeaseLeft
<1>1. EdgeInv => NoLeaseLeft
  BY SnapshotAssumption DEF EdgeInv, LeaseInv, NoLeaseLeft, Copied, Preparing
<1> QED
  BY EdgeInvariant, <1>1, PTL

\* The last check of a plan is the only way to serve, and it looks at the clock.
LEMMA OnlyServeServes ==
  ASSUME TypeInv, [Next]_vars, NEW r \in Requests, ~At(r, "serving"), At(r, "serving")'
  PROVE  Serve(r)
<1>1. ASSUME NEW p \in Requests, Admit(p, "discover", NoObject) PROVE Serve(r)
  BY <1>1 DEF TypeInv, ReqInv, Shaped, Points, Preparing, Stages, Store!TypeOK, Owners, Views,
       At, Admit, Idle, Primary
<1>2. ASSUME NEW p \in Requests, NEW o \in Objects, Admit(p, "fetch", o) PROVE Serve(r)
  BY <1>2 DEF TypeInv, ReqInv, Shaped, Points, Preparing, Stages, Store!TypeOK, Owners, Views,
       At, Admit, Idle, Primary
<1>3. ASSUME NEW p \in Requests, TakeSlot(p) PROVE Serve(r)
  BY <1>3, SlotTaken DEF TypeInv, ReqInv, Shaped, Points, Preparing, Stages, Store!TypeOK,
       Owners, Views, At, TakeSlot
<1>4. ASSUME NEW p \in Requests, Observe(p) PROVE Serve(r)
  BY <1>4 DEF TypeInv, ReqInv, Shaped, Points, Preparing, Stages, Store!TypeOK, Owners, Views,
       At, Observe, Primary, History, Observed
<1>5. ASSUME NEW p \in Requests, Retained(p) PROVE Serve(r)
  BY <1>5 DEF TypeInv, ReqInv, Shaped, Points, Preparing, Stages, Store!TypeOK, Owners, Views,
       At, Retained, Goto, Primary, History
<1>6. ASSUME NEW p \in Requests, Pin(p) PROVE Serve(r)
  BY <1>6 DEF TypeInv, ReqInv, Shaped, Points, Preparing, Stages, Store!TypeOK, Owners, Views,
       At, Pin, Primary, History
<1>7. ASSUME NEW p \in Requests, RetainPin(p) PROVE Serve(r)
  BY <1>7 DEF TypeInv, ReqInv, Shaped, Points, Preparing, Stages, Store!TypeOK, Owners, Views,
       At, RetainPin, Goto, Primary, History
<1>8. ASSUME NEW p \in Requests, Stamp(p) PROVE Serve(r)
  BY <1>8 DEF TypeInv, ReqInv, Shaped, Points, Preparing, Stages, Store!TypeOK, Owners, Views,
       At, Stamp, Primary, History
<1>9. ASSUME NEW p \in Requests, Confirm(p) PROVE Serve(r)
  BY <1>9 DEF TypeInv, ReqInv, Shaped, Points, Preparing, Stages, Store!TypeOK, Owners, Views,
       At, Confirm, Primary, History, Authorized, Goto, Valid
<1>10. ASSUME NEW p \in Requests, Receive(p) PROVE Serve(r)
  BY <1>10 DEF TypeInv, ReqInv, Shaped, Points, Preparing, Stages, Store!TypeOK, Owners, Views,
       At, Receive, Primary, History, Goto, Valid
<1>11. ASSUME NEW p \in Requests, Ensure(p) PROVE Serve(r)
  BY <1>11 DEF TypeInv, ReqInv, Shaped, Points, Preparing, Stages, Store!TypeOK, Owners, Views,
       At, Ensure, Goto, Primary, Store!Lease
<1>12. ASSUME NEW p \in Requests, Select(p) PROVE Serve(r)
  BY <1>12 DEF TypeInv, ReqInv, Shaped, Points, Preparing, Stages, Store!TypeOK, Owners, Views,
       At, Select, Contained, Primary, History
<1>13. ASSUME NEW p \in Requests, NotHere(p) PROVE Serve(r)
  BY <1>13 DEF TypeInv, ReqInv, Shaped, Points, Preparing, Stages, Store!TypeOK, Owners, Views,
       At, NotHere, Primary, Store!Return, Try
<1>14. ASSUME NEW p \in Requests, Decide(p) PROVE Serve(r)
  BY <1>14 DEF TypeInv, ReqInv, Shaped, Points, Preparing, Stages, Store!TypeOK, Owners, Views,
       At, Decide, Primary, History, Decided
<1>15. ASSUME NEW p \in Requests, Revalidate(p) PROVE Serve(r)
  BY <1>15 DEF TypeInv, ReqInv, Shaped, Points, Preparing, Stages, Store!TypeOK, Owners, Views,
       At, Revalidate, Primary, History, Authorized, Goto, Valid
<1>16. ASSUME NEW p \in Requests, Serve(p) PROVE Serve(r)
  BY <1>16 DEF TypeInv, ReqInv, Shaped, Points, Preparing, Stages, Store!TypeOK, Owners, Views,
       At, Serve, Primary, History, Goto, Valid
<1>17. ASSUME NEW p \in Requests, Refuse(p) PROVE Serve(r)
  BY <1>17 DEF TypeInv, ReqInv, Shaped, Points, Preparing, Stages, Store!TypeOK, Owners, Views,
       At, Refuse, Gone, Idle, Primary
<1>18. ASSUME NEW p \in Requests, Reject(p) PROVE Serve(r)
  BY <1>18 DEF TypeInv, ReqInv, Shaped, Points, Preparing, Stages, Store!TypeOK, Owners, Views,
       At, Reject, Gone, Idle, Primary, Store!Return
<1>19. ASSUME NEW p \in Requests, Withdraw(p) PROVE Serve(r)
  BY <1>19 DEF TypeInv, ReqInv, Shaped, Points, Preparing, Stages, Store!TypeOK, Owners, Views,
       At, Withdraw, Gone, Idle, Primary, Store!Return
<1>20. ASSUME NEW p \in Requests, Abort(p) PROVE Serve(r)
  BY <1>20 DEF TypeInv, ReqInv, Shaped, Points, Preparing, Stages, Store!TypeOK, Owners, Views,
       At, Abort, Gone, Idle, Primary, Store!Return
<1>21. ASSUME NEW p \in Requests, Finish(p) PROVE Serve(r)
  BY <1>21 DEF TypeInv, ReqInv, Shaped, Points, Preparing, Stages, Store!TypeOK, Owners, Views,
       At, Finish, Gone, Idle, Primary, Store!Return
<1>22. ASSUME NEW s \in Snapshots, Push(s) PROVE Serve(r)
  BY <1>22 DEF TypeInv, ReqInv, Shaped, Points, Preparing, Stages, Store!TypeOK, Owners, Views,
       At, Push, Primary, History
<1>23. ASSUME NEW s \in Snapshots, Prune(s) PROVE Serve(r)
  BY <1>23 DEF TypeInv, ReqInv, Shaped, Points, Preparing, Stages, Store!TypeOK, Owners, Views,
       At, Prune, Primary, History
<1>24. ASSUME NEW s \in Snapshots, Copy(s) PROVE Serve(r)
  BY <1>24 DEF TypeInv, ReqInv, Shaped, Points, Preparing, Stages, Store!TypeOK, Owners, Views,
       At, Copy, Primary, History
<1>25. ASSUME NEW s \in Snapshots, Collect(s) PROVE Serve(r)
  BY <1>25 DEF TypeInv, ReqInv, Shaped, Points, Preparing, Stages, Store!TypeOK, Owners, Views,
       At, Collect, Primary, History, Store!InUse
<1>26. CASE Revoke
  BY <1>26 DEF TypeInv, ReqInv, Shaped, Points, Preparing, Stages, Store!TypeOK, Owners, Views,
       At, Revoke
<1>27. CASE Grant
  BY <1>27 DEF TypeInv, ReqInv, Shaped, Points, Preparing, Stages, Store!TypeOK, Owners, Views,
       At, Grant
<1>28. CASE Tick
  BY <1>28 DEF TypeInv, ReqInv, Shaped, Points, Preparing, Stages, Store!TypeOK, Owners, Views,
       At, Tick, Primary, History
<1>29. CASE UNCHANGED vars
  BY <1>29 DEF TypeInv, ReqInv, Shaped, Points, Preparing, Stages, Store!TypeOK, Owners, Views,
       At, vars
<1> QED
  BY <1>1, <1>2, <1>3, <1>4, <1>5, <1>6, <1>7, <1>8, <1>9, <1>10, <1>11, <1>12, <1>13, <1>14,
       <1>15, <1>16, <1>17, <1>18, <1>19, <1>20, <1>21, <1>22, <1>23, <1>24, <1>25, <1>26,
       <1>27, <1>28, <1>29 DEF Next, Handle

\* ReadPlan: a lost permission stops new answers within the lifetime of a plan.
THEOREM RevocationIsBounded == Spec => RevocationBounded
<1> DEFINE Late == \A r \in Requests :
                     ~At(r, "serving") /\ At(r, "serving")' => granted \/ now < revokedAt + TTL
<1>1. EdgeInv /\ [Next]_vars => [Late]_vars
  <2> SUFFICES ASSUME EdgeInv, [Next]_vars, NEW r \in Requests,
                      ~At(r, "serving"), At(r, "serving")'
               PROVE  granted \/ now < revokedAt + TTL
    OBVIOUS
  <2>1. Serve(r)
    BY OnlyServeServes DEF EdgeInv
  <2> QED
    BY <2>1, LimitAssumption DEF Serve, Valid, At, EdgeInv, PlanInv, TypeInv, ReqInv, Shaped
<1> QED
  BY EdgeInvariant, <1>1, PTL DEF Spec, RevocationBounded

=============================================================================
