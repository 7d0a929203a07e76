-------------------------- MODULE OutboundDelivery --------------------------
(***************************************************************************)
(* The durable outbound queue (internal/service/outbound_delivery.go):      *)
(* rows of outbound_deliveries that pollers and inline callers deliver to   *)
(* Feishu ("untyped") or Multica ("typed") over HTTP.  A delivery reads the  *)
(* row, reads the database clock, claims the row with a compare-and-set     *)
(* that leases it, reloads it, posts, and writes the result under its own   *)
(* claim.  Any of these may be delayed, fail, or be the last thing a         *)
(* process does.  Only typed rows are reclaimed when their lease expires.   *)
(*                                                                          *)
(* Timestamps are kept relative to the present: a lease or a backoff is the *)
(* time it has left, a clock reading is how long ago it was made.           *)
(***************************************************************************)
EXTENDS Integers, FiniteSets

CONSTANTS
    Typed,        \* rows for the idempotent Multica target
    Untyped,      \* rows for Feishu webhooks
    Pollers,      \* processes that run RunOutboundDeliveryWorker
    Callers,      \* requests that deliver or retry one row inline
    Limit,        \* rows one poll selects
    MaxAttempts,  \* OutboundDelivery.MaxAttempts
    Lease,        \* OutboundDeliveryLease
    Backoffs,     \* the durations outboundBackoff chooses from
    MaxStall,     \* bound on the time from a clock reading to the result's write
    MaxFailures   \* bound on crashes and database errors

ASSUME RowsAssumption ==
    /\ Typed \subseteq Nat
    /\ Untyped \subseteq Nat
    /\ Typed \cap Untyped = {}
    /\ IsFiniteSet(Typed)
    /\ IsFiniteSet(Untyped)

Nobody == "nobody"

ASSUME WorkersAssumption ==
    /\ Pollers \cap Callers = {}
    /\ Nobody \notin Pollers \cup Callers
    /\ IsFiniteSet(Pollers)
    /\ IsFiniteSet(Callers)

ASSUME LimitsAssumption ==
    /\ Limit \in Nat \ {0}
    /\ MaxAttempts \in Nat \ {0}
    /\ Lease \in Nat \ {0}
    /\ Backoffs \subseteq Nat \ {0}
    /\ MaxStall \in Nat \ {0}
    /\ MaxFailures \in Nat

VARIABLES
    status,    \* of each row; "none" before it is enqueued, "gone" once collected
    attempts,  \* attempt_count
    owner,     \* lease_owner: the worker whose last claim the row carries
    lease,     \* time left until lease_expires_at, while delivering
    wait,      \* time left until next_attempt_at, in retry_wait
    pc,        \* where each worker stands
    todo,      \* rows the worker still has to deliver in this pass
    row,       \* the row it is delivering
    full,      \* it read the row as a typed claim with no attempts left
    seenLease, \* time left of the lease it read
    age,       \* how long ago it read the clock
    tries,     \* attempt_count of its claim
    answer,    \* the result of its post
    receiver,  \* history: what the receiver has done about each row
    failures   \* crashes and database errors so far

rows == <<status, attempts, owner, lease, wait>>
local == <<todo, row, full, seenLease, age, tries, answer>>
vars == <<rows, pc, local, receiver, failures>>

Rows == Typed \cup Untyped
Workers == Pollers \cup Callers
NoRow == -1

Statuses == {"none", "pending", "delivering", "retry_wait", "delivered", "dead_letter", "gone"}
Terminal == {"delivered", "dead_letter"}
Answers == {"delivered", "retryable", "refused"}

\* Between reading the clock and writing the result.
Timed == {"terminalize", "claim", "reload", "send", "record"}

TypeOK ==
    /\ status \in [Rows -> Statuses]
    /\ attempts \in [Rows -> Nat]
    /\ owner \in [Rows -> Workers \cup {Nobody}]
    /\ lease \in [Rows -> Int]
    /\ wait \in [Rows -> Nat]
    /\ pc \in [Workers -> {"idle", "load", "clock"} \cup Timed]
    /\ todo \in [Workers -> SUBSET Rows]
    /\ row \in [Workers -> Rows \cup {NoRow}]
    /\ full \in [Workers -> BOOLEAN]
    /\ seenLease \in [Workers -> Int]
    /\ age \in [Workers -> Nat]
    /\ tries \in [Workers -> Nat]
    /\ answer \in [Workers -> Answers]
    /\ receiver \in [Rows -> SUBSET {"accepted", "refused"}]
    /\ failures \in Nat

Init ==
    /\ status = [d \in Rows |-> "none"]
    /\ attempts = [d \in Rows |-> 0]
    /\ owner = [d \in Rows |-> Nobody]
    /\ lease = [d \in Rows |-> 0]
    /\ wait = [d \in Rows |-> 0]
    /\ pc = [w \in Workers |-> "idle"]
    /\ todo = [w \in Workers |-> {}]
    /\ row = [w \in Workers |-> NoRow]
    /\ full = [w \in Workers |-> FALSE]
    /\ seenLease = [w \in Workers |-> 0]
    /\ age = [w \in Workers |-> 0]
    /\ tries = [w \in Workers |-> 0]
    /\ answer = [w \in Workers |-> "retryable"]
    /\ receiver = [d \in Rows |-> {}]
    /\ failures = 0

-----------------------------------------------------------------------------
(* Time.                                                                    *)

Elapsed(t, floor) == IF t > floor THEN t - 1 ELSE t

\* No delivery takes longer than MaxStall from its clock reading to its end.
Tick ==
    /\ \A w \in Workers : pc[w] \in Timed => age[w] < MaxStall
    /\ lease' = [d \in Rows |-> IF status[d] = "delivering" THEN Elapsed(lease[d], -MaxStall)
                                ELSE lease[d]]
    /\ wait' = [d \in Rows |-> Elapsed(wait[d], 0)]
    /\ seenLease' = [w \in Workers |-> IF pc[w] = "clock" THEN Elapsed(seenLease[w], 0)
                                       ELSE seenLease[w]]
    /\ age' = [w \in Workers |-> IF pc[w] \in Timed THEN age[w] + 1 ELSE age[w]]
    /\ UNCHANGED <<status, attempts, owner, pc, todo, row, full, tries, answer, receiver, failures>>

-----------------------------------------------------------------------------
(* Enqueueing, selection, garbage collection.                               *)

\* EnqueueOutboundDelivery: the unique key admits one row per event and target.
Enqueue(d) ==
    /\ status[d] = "none"
    /\ status' = [status EXCEPT ![d] = "pending"]
    /\ UNCHANGED <<attempts, owner, lease, wait, pc, local, receiver, failures>>

\* Mutant: a poll looks for fresh and waiting rows only.
DueFresh == {d \in Rows : \/ status[d] = "pending"
                          \/ status[d] = "retry_wait" /\ wait[d] <= 0}

\* The rows ProcessDueOutboundDeliveries selects, oldest first.
Due == {d \in Rows : \/ status[d] = "pending"
                     \/ status[d] = "retry_wait" /\ wait[d] <= 0
                     \/ status[d] = "delivering" /\ d \in Typed /\ lease[d] <= 0}

Begin(w, S) ==
    /\ pc[w] = "idle"
    /\ pc' = [pc EXCEPT ![w] = "load"]
    /\ todo' = [todo EXCEPT ![w] = S]
    /\ UNCHANGED <<rows, row, full, seenLease, age, tries, answer, receiver, failures>>

Poll(w) ==
    /\ Due # {}
    /\ Begin(w, {d \in Due : Cardinality({e \in Due : e < d}) < Limit})

\* A caller delivers a row it enqueued, or retries or replays one.
Inline(w, d) ==
    /\ status[d] \notin {"none", "gone"}
    /\ Begin(w, {d})

\* GCOutboundDeliveries.
Collect(d) ==
    /\ status[d] \in Terminal
    /\ status' = [status EXCEPT ![d] = "gone"]
    /\ UNCHANGED <<attempts, owner, lease, wait, pc, local, receiver, failures>>

-----------------------------------------------------------------------------
(* DeliverOutboundDeliveryNow, one database statement or call per step.     *)

\* A worker that ends a delivery forgets what it knew about the row.
Reset(w, left) ==
    /\ todo' = [todo EXCEPT ![w] = left]
    /\ full' = [full EXCEPT ![w] = FALSE]
    /\ seenLease' = [seenLease EXCEPT ![w] = 0]
    /\ age' = [age EXCEPT ![w] = 0]
    /\ tries' = [tries EXCEPT ![w] = 0]
    /\ answer' = [answer EXCEPT ![w] = "retryable"]
    /\ row' = [row EXCEPT ![w] = NoRow]

\* The delivery returns nil and the pass goes on to the next row.
Finish(w) ==
    /\ pc' = [pc EXCEPT ![w] = IF todo[w] = {} THEN "idle" ELSE "load"]
    /\ Reset(w, todo[w])

\* The delivery returns an error, which ends the pass.
GiveUp(w) ==
    /\ pc' = [pc EXCEPT ![w] = "idle"]
    /\ Reset(w, {})

\* First(&delivery, id): a collected row ends the pass, a settled one is done.
Load(w) ==
    \E d \in todo[w] :
        /\ pc[w] = "load"
        /\ \A e \in todo[w] : d <= e
        /\ UNCHANGED <<rows, receiver, failures>>
        /\ \/ /\ status[d] \in {"none", "gone"}
              /\ GiveUp(w)
           \/ /\ status[d] \in Terminal
              /\ pc' = [pc EXCEPT ![w] = IF todo[w] = {d} THEN "idle" ELSE "load"]
              /\ Reset(w, todo[w] \ {d})
           \/ /\ status[d] \in {"pending", "retry_wait", "delivering"}
              /\ pc' = [pc EXCEPT ![w] = "clock"]
              /\ todo' = [todo EXCEPT ![w] = @ \ {d}]
              /\ row' = [row EXCEPT ![w] = d]
              /\ full' = [full EXCEPT ![w] = d \in Typed /\ status[d] = "delivering"
                                              /\ attempts[d] >= MaxAttempts]
              /\ seenLease' = [seenLease EXCEPT ![w] = lease[d]]
              /\ UNCHANGED <<age, tries, answer>>

\* Mutant: an exhausted row is claimed like any other.
ClockAlwaysClaims(w) ==
    /\ pc[w] = "clock"
    /\ pc' = [pc EXCEPT ![w] = "claim"]
    /\ age' = [age EXCEPT ![w] = 0]
    /\ UNCHANGED <<rows, todo, row, full, seenLease, tries, answer, receiver, failures>>

\* databaseCurrentTime, and the decision taken from it.
Clock(w) ==
    /\ pc[w] = "clock"
    /\ pc' = [pc EXCEPT ![w] = IF full[w] /\ seenLease[w] <= 0 THEN "terminalize" ELSE "claim"]
    /\ age' = [age EXCEPT ![w] = 0]
    /\ UNCHANGED <<rows, todo, row, full, seenLease, tries, answer, receiver, failures>>

\* lease_expires_at <= the clock reading of worker w.
Expired(w, d) == lease[d] <= -age[w]

\* A result write ends the lease.
Settle(d, s, left) ==
    /\ status' = [status EXCEPT ![d] = s]
    /\ owner' = [owner EXCEPT ![d] = Nobody]
    /\ lease' = [lease EXCEPT ![d] = 0]
    /\ wait' = [wait EXCEPT ![d] = left]
    /\ UNCHANGED attempts

\* The compare-and-set that dead-letters an exhausted typed row.
Terminalize(w) ==
    LET d == row[w]
        hit == /\ status[d] = "delivering" /\ d \in Typed
               /\ Expired(w, d) /\ attempts[d] >= MaxAttempts
    IN  /\ pc[w] = "terminalize"
        /\ UNCHANGED <<receiver, failures>>
        /\ \/ hit /\ Settle(d, "dead_letter", 0) /\ Finish(w)
           \/ ~hit /\ UNCHANGED rows /\ GiveUp(w)

\* Mutant: a typed row is claimed whether or not its lease has run out.
ClaimableLeased(w, d) ==
    \/ status[d] \in {"pending", "retry_wait"}
    \/ status[d] = "delivering" /\ d \in Typed

\* Mutant: a delivery read before it was settled is claimed again.
ClaimableUnlessLeased(w, d) ==
    \/ status[d] # "delivering"
    \/ status[d] = "delivering" /\ d \in Typed /\ Expired(w, d)

\* The claim's WHERE clause.
Claimable(w, d) ==
    \/ status[d] \in {"pending", "retry_wait"}
    \/ status[d] = "delivering" /\ d \in Typed /\ Expired(w, d)

Claim(w) ==
    LET d == row[w]
    IN  /\ pc[w] = "claim"
        /\ UNCHANGED <<receiver, failures>>
        /\ \/ /\ Claimable(w, d)
              /\ status' = [status EXCEPT ![d] = "delivering"]
              /\ attempts' = [attempts EXCEPT ![d] = @ + 1]
              /\ owner' = [owner EXCEPT ![d] = w]
              /\ lease' = [lease EXCEPT ![d] = Lease - age[w]]
              /\ pc' = [pc EXCEPT ![w] = "reload"]
              /\ UNCHANGED <<wait, local>>
           \/ ~Claimable(w, d) /\ UNCHANGED rows /\ Finish(w)

\* lease_owner still names this claim.
CurrentClaim(w) == owner[row[w]] = w

\* The claimed row is read back by id and lease owner.
Reload(w) ==
    /\ pc[w] = "reload"
    /\ UNCHANGED <<rows, receiver, failures>>
    /\ \/ /\ CurrentClaim(w)
          /\ pc' = [pc EXCEPT ![w] = "send"]
          /\ tries' = [tries EXCEPT ![w] = attempts[row[w]]]
          /\ UNCHANGED <<todo, row, full, seenLease, age, answer>>
       \/ ~CurrentClaim(w) /\ GiveUp(w)

\* DispatchOutbound: a retryable answer leaves open whether the post arrived.
Send(w, a, effect) ==
    /\ pc[w] = "send"
    /\ \/ a = "delivered" /\ effect = {"accepted"}
       \/ a = "retryable" /\ effect \in {{}, {"accepted"}}
       \/ a = "refused" /\ effect = {"refused"}
    /\ pc' = [pc EXCEPT ![w] = "record"]
    /\ answer' = [answer EXCEPT ![w] = a]
    /\ receiver' = [receiver EXCEPT ![row[w]] = @ \cup effect]
    /\ UNCHANGED <<rows, todo, row, full, seenLease, age, tries, failures>>

\* Mutant: the last attempt is not used.
ExhaustedEarly(w) == tries[w] + 1 >= MaxAttempts

\* AttemptCount >= MaxAttempts, as reloaded.
Exhausted(w) == tries[w] >= MaxAttempts

\* The result is written where the row still carries this worker's claim.
Record(w) ==
    LET d == row[w]
    IN  /\ pc[w] = "record"
        /\ UNCHANGED <<receiver, failures>>
        /\ \/ /\ CurrentClaim(w) /\ answer[w] = "delivered"
              /\ Settle(d, "delivered", 0)
              /\ Finish(w)
           \/ /\ CurrentClaim(w) /\ answer[w] = "retryable" /\ ~Exhausted(w)
              /\ \E b \in Backoffs : Settle(d, "retry_wait", IF b > age[w] THEN b - age[w] ELSE 0)
              /\ Finish(w)
           \/ /\ CurrentClaim(w)
              /\ answer[w] = "refused" \/ (answer[w] = "retryable" /\ Exhausted(w))
              /\ Settle(d, "dead_letter", 0)
              /\ Finish(w)
           \/ ~CurrentClaim(w) /\ UNCHANGED rows /\ GiveUp(w)

\* The process dies, or a database statement fails, at any step.
Fail(w) ==
    /\ pc[w] # "idle"
    /\ failures < MaxFailures
    /\ failures' = failures + 1
    /\ GiveUp(w)
    /\ UNCHANGED <<rows, receiver>>

-----------------------------------------------------------------------------

Step(w) ==
    \/ Load(w) \/ Clock(w) \/ Terminalize(w) \/ Claim(w) \/ Reload(w) \/ Record(w)
    \/ \E a \in Answers, effect \in SUBSET {"accepted", "refused"} : Send(w, a, effect)

Next ==
    \/ Tick
    \/ \E d \in Rows : Enqueue(d) \/ Collect(d)
    \/ \E w \in Pollers : Poll(w)
    \/ \E w \in Callers, d \in Rows : Inline(w, d)
    \/ \E w \in Workers : Step(w) \/ Fail(w)

\* The poller's ticker and every running delivery keep going; time passes.
Fairness ==
    /\ WF_vars(Tick)
    /\ \A w \in Pollers : WF_vars(Poll(w))
    /\ \A w \in Workers : WF_vars(Step(w))

Spec == Init /\ [][Next]_vars
FairSpec == Spec /\ Fairness

-----------------------------------------------------------------------------
(* Properties.                                                              *)

Holds(w) == pc[w] \in {"reload", "send", "record"}

\* The lease: while a claim's lease has not run out, the row still carries that
\* claim, so no other worker can be posting it or have written its result.
LeaseExclusive ==
    \A w \in Workers : Holds(w) /\ age[w] < Lease => owner[row[w]] = w

\* No late worker reopens or rewrites a settled delivery; it can only be collected.
SettledIsFinal ==
    [][\A d \in Rows :
          /\ status[d] \in Terminal => status'[d] \in {status[d], "gone"}
          /\ status[d] = "gone" => status'[d] = "gone"]_vars

\* A row is marked delivered only if the receiver took it, and dead-lettered
\* only if the receiver refused it or every attempt was used.
SettledTruthfully ==
    \A d \in Rows :
        /\ status[d] = "delivered" => "accepted" \in receiver[d]
        /\ status[d] = "dead_letter" => "refused" \in receiver[d] \/ attempts[d] >= MaxAttempts

\* Feishu posts are not idempotent: a row whose worker died or lost its
\* connection while delivering is never posted by anybody again.
Orphaned(d) == status[d] = "delivering" /\ ~\E w \in Workers : Holds(w) /\ row[w] = d
OrphanNotReposted ==
    [][\A d \in Untyped : Orphaned(d) => Orphaned(d)' /\ UNCHANGED <<receiver[d], attempts[d]>>]_vars

\* Stale reads can overrun the attempt budget by at most one post per other worker.
OverrunBounded ==
    \A d \in Rows : attempts[d] < MaxAttempts + Cardinality(Workers)

\* Every typed delivery is eventually delivered or dead-lettered.
TypedSettles ==
    \A d \in Typed : status[d] = "pending" ~> status[d] \in Terminal \cup {"gone"}

=============================================================================
