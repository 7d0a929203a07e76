----------------------- MODULE OutboundDeliveryProofs -----------------------
(***************************************************************************)
(* Safety of the outbound queue for every set of rows, pollers and callers, *)
(* every attempt limit, lease and stall, and any number of failures.        *)
(***************************************************************************)
EXTENDS OutboundDelivery, FiniteSetTheorems, TLAPS

\* A delivery under way has a row, and ends within MaxStall of its clock reading.
Named == \A w \in Workers : pc[w] \in {"clock"} \cup Timed => row[w] \in Rows
Punctual == \A w \in Workers : pc[w] \in Timed => age[w] <= MaxStall

\* Only a row that is being delivered carries a claim.
OwnedDelivering == \A d \in Rows : owner[d] # Nobody => status[d] = "delivering"

\* The lease on a row runs out Lease after its owner read the clock.
LeaseTracked ==
    \A w \in Workers : Holds(w) /\ owner[row[w]] = w => lease[row[w]] = Lease - age[w]

\* What a worker knows of its claim and of its post is true.
Counted == \A w \in Workers : pc[w] \in {"send", "record"} => tries[w] <= attempts[row[w]]
Witnessed ==
    \A w \in Workers : pc[w] = "record" =>
        /\ answer[w] = "delivered" => "accepted" \in receiver[row[w]]
        /\ answer[w] = "refused" => "refused" \in receiver[row[w]]

\* The inductive invariant.
QueueInv ==
    /\ TypeOK /\ Named /\ Punctual /\ OwnedDelivering
    /\ LeaseTracked /\ LeaseExclusive
    /\ Counted /\ Witnessed /\ SettledTruthfully

-----------------------------------------------------------------------------

LEMMA RowFacts == NoRow \notin Rows
  BY RowsAssumption DEF Rows, NoRow

LEMMA WorkerFacts == Nobody \notin Workers
  BY WorkersAssumption DEF Workers

\* Steps that touch no row and start no claim: worker w moves to p, which holds
\* nothing, and keeps its clock reading if it still needs one.
LEMMA MoveKeeps ==
  ASSUME QueueInv, TypeOK', NEW w \in Workers, NEW p, p \notin {"reload", "send", "record"},
         pc' = [pc EXCEPT ![w] = p],
         p \in {"clock"} \cup Timed => row'[w] \in Rows,
         p \in Timed => age'[w] <= MaxStall,
         \A v \in Workers \ {w} : /\ row'[v] = row[v] /\ age'[v] = age[v]
                                  /\ tries'[v] = tries[v] /\ answer'[v] = answer[v],
         UNCHANGED <<rows, receiver>>
  PROVE  QueueInv'
  <1>1. \A v \in Workers : v # w => pc'[v] = pc[v]
    BY DEF QueueInv, TypeOK
  <1>2. pc'[w] = p
    BY DEF QueueInv, TypeOK
  <1>3. Named' /\ Punctual'
    BY <1>1, <1>2 DEF QueueInv, Named, Punctual
  <1>4. OwnedDelivering' /\ SettledTruthfully'
    BY DEF rows, QueueInv, OwnedDelivering, SettledTruthfully
  <1>5. LeaseTracked' /\ LeaseExclusive'
    BY <1>1, <1>2 DEF rows, QueueInv, LeaseTracked, LeaseExclusive, Holds
  <1>6. Counted' /\ Witnessed'
    BY <1>1, <1>2 DEF rows, QueueInv, Counted, Witnessed
  <1>7. QED
    BY <1>3, <1>4, <1>5, <1>6 DEF QueueInv

\* Reset keeps the types and the other workers' data.
LEMMA ResetTypes ==
  ASSUME TypeOK, NEW w \in Workers, NEW left, left \subseteq Rows, Reset(w, left)
  PROVE  /\ todo' \in [Workers -> SUBSET Rows]
         /\ row' \in [Workers -> Rows \cup {NoRow}]
         /\ full' \in [Workers -> BOOLEAN]
         /\ seenLease' \in [Workers -> Int]
         /\ age' \in [Workers -> Nat]
         /\ tries' \in [Workers -> Nat]
         /\ answer' \in [Workers -> Answers]
         /\ \A v \in Workers \ {w} : /\ row'[v] = row[v] /\ age'[v] = age[v]
                                     /\ tries'[v] = tries[v] /\ answer'[v] = answer[v]
  BY DEF TypeOK, Reset, Answers

\* A worker that ends a delivery without writing the row.
LEMMA EndKeeps ==
  ASSUME QueueInv, NEW w \in Workers, Finish(w) \/ GiveUp(w),
         UNCHANGED <<rows, receiver>>, failures' \in Nat
  PROVE  QueueInv'
  <1>1. PICK p \in {"idle", "load"} : pc' = [pc EXCEPT ![w] = p]
    BY DEF Finish, GiveUp
  <1>2. PICK left : left \subseteq Rows /\ Reset(w, left)
    BY DEF Finish, GiveUp, QueueInv, TypeOK
  <1>3. TypeOK'
    BY <1>1, <1>2, ResetTypes DEF QueueInv, TypeOK, rows
  <1>4. QED
    BY <1>1, <1>2, <1>3, ResetTypes, MoveKeeps DEF QueueInv, Timed

LEMMA InitQueue == Init => QueueInv
  BY DEF Init, QueueInv, TypeOK, Named, Punctual, OwnedDelivering, LeaseTracked, LeaseExclusive,
         Counted, Witnessed, SettledTruthfully, Holds, Timed, Statuses, Answers

\* A worker that ends a delivery by settling the row it owns, or an expired one.
LEMMA SettleKeeps ==
  ASSUME QueueInv, NEW w \in Workers, Finish(w), NEW d \in Rows, row[w] = d,
         pc[w] \in Timed, status[d] = "delivering",
         NEW s \in {"delivered", "dead_letter", "retry_wait"}, NEW left \in Nat, Settle(d, s, left),
         \A v \in Workers \ {w} : Holds(v) /\ row[v] = d /\ age[v] < Lease => FALSE,
         s = "delivered" => "accepted" \in receiver[d],
         s = "dead_letter" => "refused" \in receiver[d] \/ attempts[d] >= MaxAttempts,
         UNCHANGED <<receiver, failures>>
  PROVE  QueueInv'
  <1>1. PICK p \in {"idle", "load"} : pc' = [pc EXCEPT ![w] = p]
    BY DEF Finish
  <1>2. PICK todos : todos \subseteq Rows /\ Reset(w, todos)
    BY DEF Finish, QueueInv, TypeOK
  <1>3. TypeOK'
    BY <1>1, <1>2, ResetTypes DEF QueueInv, TypeOK, Settle, Statuses
  <1>4. \A v \in Workers : v # w => /\ pc'[v] = pc[v] /\ row'[v] = row[v] /\ age'[v] = age[v]
                                    /\ tries'[v] = tries[v] /\ answer'[v] = answer[v]
    BY <1>1, <1>2, ResetTypes DEF QueueInv, TypeOK
  <1>5. pc'[w] = p
    BY <1>1 DEF QueueInv, TypeOK
  <1>6. Named' /\ Punctual'
    BY <1>4, <1>5 DEF QueueInv, Named, Punctual, Timed
  <1>7. \A e \in Rows : e # d => /\ status'[e] = status[e] /\ owner'[e] = owner[e] /\ lease'[e] = lease[e]
    BY DEF Settle, QueueInv, TypeOK
  <1>8. status'[d] = s /\ owner'[d] = Nobody /\ attempts' = attempts
    BY DEF Settle, QueueInv, TypeOK
  <1>9. OwnedDelivering' /\ SettledTruthfully'
    BY <1>7, <1>8 DEF QueueInv, OwnedDelivering, SettledTruthfully
  <1>10. LeaseTracked'
    BY <1>3, <1>4, <1>5, <1>6, <1>7, <1>8, WorkerFacts DEF QueueInv, LeaseTracked, Holds, Named, Timed
  <1>11. LeaseExclusive'
    BY <1>4, <1>5, <1>6, <1>7, <1>8 DEF QueueInv, LeaseExclusive, Holds, Named, Timed
  <1>12. Counted' /\ Witnessed'
    BY <1>4, <1>5, <1>8 DEF QueueInv, Counted, Witnessed
  <1>13. QED
    BY <1>3, <1>6, <1>9, <1>10, <1>11, <1>12 DEF QueueInv

\* While a lease runs, nobody else finds it expired.
LEMMA RunningNotExpired ==
  ASSUME QueueInv, NEW v \in Workers, Holds(v), age[v] < Lease, NEW w \in Workers
  PROVE  ~Expired(w, row[v]) /\ owner[row[v]] = v /\ status[row[v]] = "delivering"
  <1>1. owner[row[v]] = v /\ row[v] \in Rows
    BY DEF QueueInv, LeaseExclusive, Named, Holds, Timed
  <1>2. lease[row[v]] = Lease - age[v]
    BY <1>1 DEF QueueInv, LeaseTracked
  <1>3. status[row[v]] = "delivering"
    BY <1>1, WorkerFacts DEF QueueInv, OwnedDelivering
  <1>4. QED
    BY <1>1, <1>2, <1>3, LimitsAssumption DEF Expired, QueueInv, TypeOK

LEMMA TickKeeps ==
  ASSUME QueueInv, Tick
  PROVE  QueueInv'
  <1>1. TypeOK'
    BY LimitsAssumption DEF Tick, Elapsed, QueueInv, TypeOK
  <1>2. /\ UNCHANGED <<status, attempts, owner, pc, row, tries, answer, receiver>>
        /\ \A w \in Workers : pc[w] \in Timed => age[w] < MaxStall /\ age'[w] = age[w] + 1
        /\ \A d \in Rows : status[d] = "delivering" /\ lease[d] > -MaxStall => lease'[d] = lease[d] - 1
    BY DEF Tick, Elapsed, QueueInv, TypeOK
  <1>3. Named' /\ Punctual' /\ OwnedDelivering' /\ Counted' /\ Witnessed' /\ SettledTruthfully'
    BY <1>2, LimitsAssumption DEF QueueInv, TypeOK, Named, Punctual, OwnedDelivering, Counted, Witnessed,
           SettledTruthfully
  <1>4. LeaseTracked'
    <2> SUFFICES ASSUME NEW w \in Workers, Holds(w), owner[row[w]] = w
                 PROVE  lease'[row[w]] = Lease - age'[w]
      BY <1>2 DEF LeaseTracked, Holds
    <2>1. pc[w] \in Timed /\ row[w] \in Rows
      BY DEF Holds, Timed, QueueInv, Named
    <2>2. lease[row[w]] = Lease - age[w] /\ status[row[w]] = "delivering"
      BY <2>1, WorkerFacts DEF QueueInv, LeaseTracked, OwnedDelivering
    <2>3. lease[row[w]] > -MaxStall
      BY <1>2, <2>1, <2>2, LimitsAssumption DEF QueueInv, TypeOK
    <2>4. QED
      BY <1>2, <2>1, <2>2, <2>3, LimitsAssumption DEF QueueInv, TypeOK
  <1>5. LeaseExclusive'
    BY <1>2, LimitsAssumption DEF QueueInv, TypeOK, LeaseExclusive, Holds, Timed
  <1>6. QED
    BY <1>1, <1>3, <1>4, <1>5 DEF QueueInv

\* Enqueueing and collecting change the status of a row nobody owns.
LEMMA StatusKeeps ==
  ASSUME QueueInv, NEW d \in Rows, NEW s \in {"pending", "gone"},
         status[d] # "delivering", status' = [status EXCEPT ![d] = s],
         UNCHANGED <<attempts, owner, lease, wait, pc, local, receiver, failures>>
  PROVE  QueueInv'
  <1>1. TypeOK'
    BY DEF local, QueueInv, TypeOK, Statuses
  <1>2. Named' /\ Punctual' /\ LeaseTracked' /\ LeaseExclusive' /\ Counted' /\ Witnessed'
    BY DEF local, QueueInv, Named, Punctual, LeaseTracked, LeaseExclusive, Holds, Counted, Witnessed
  <1>3. OwnedDelivering' /\ SettledTruthfully'
    BY DEF QueueInv, TypeOK, OwnedDelivering, SettledTruthfully
  <1>4. QED
    BY <1>1, <1>2, <1>3 DEF QueueInv

LEMMA BeginKeeps ==
  ASSUME QueueInv, NEW w \in Workers, NEW S, S \subseteq Rows, Begin(w, S)
  PROVE  QueueInv'
  <1>1. TypeOK'
    BY DEF Begin, rows, QueueInv, TypeOK
  <1>2. QED
    BY <1>1, MoveKeeps DEF Begin, QueueInv, Timed

LEMMA LoadKeeps ==
  ASSUME QueueInv, NEW w \in Workers, Load(w)
  PROVE  QueueInv'
  <1>1. PICK d \in todo[w] :
          /\ UNCHANGED <<rows, receiver, failures>>
          /\ \/ GiveUp(w)
             \/ /\ pc' = [pc EXCEPT ![w] = IF todo[w] = {d} THEN "idle" ELSE "load"]
                /\ Reset(w, todo[w] \ {d})
             \/ /\ pc' = [pc EXCEPT ![w] = "clock"]
                /\ todo' = [todo EXCEPT ![w] = @ \ {d}]
                /\ row' = [row EXCEPT ![w] = d]
                /\ full' = [full EXCEPT ![w] = d \in Typed /\ status[d] = "delivering"
                                                /\ attempts[d] >= MaxAttempts]
                /\ seenLease' = [seenLease EXCEPT ![w] = lease[d]]
                /\ UNCHANGED <<age, tries, answer>>
    BY DEF Load
  <1>2. d \in Rows /\ todo[w] \subseteq Rows
    BY DEF QueueInv, TypeOK
  <1>3. CASE GiveUp(w)
    BY <1>1, <1>3, EndKeeps DEF QueueInv, TypeOK
  <1>4. CASE /\ pc' = [pc EXCEPT ![w] = IF todo[w] = {d} THEN "idle" ELSE "load"]
             /\ Reset(w, todo[w] \ {d})
    <2>1. PICK p \in {"idle", "load"} : pc' = [pc EXCEPT ![w] = p]
      BY <1>4
    <2>2. TypeOK'
      BY <1>1, <1>2, <1>4, <2>1, ResetTypes DEF rows, QueueInv, TypeOK
    <2>3. QED
      BY <1>1, <1>2, <1>4, <2>1, <2>2, ResetTypes, MoveKeeps DEF QueueInv, Timed
  <1>5. CASE /\ pc' = [pc EXCEPT ![w] = "clock"]
             /\ todo' = [todo EXCEPT ![w] = @ \ {d}]
             /\ row' = [row EXCEPT ![w] = d]
             /\ full' = [full EXCEPT ![w] = d \in Typed /\ status[d] = "delivering"
                                             /\ attempts[d] >= MaxAttempts]
             /\ seenLease' = [seenLease EXCEPT ![w] = lease[d]]
             /\ UNCHANGED <<age, tries, answer>>
    <2>1. TypeOK'
      BY <1>1, <1>2, <1>5 DEF rows, QueueInv, TypeOK
    <2>2. /\ row'[w] = d
          /\ \A v \in Workers \ {w} : row'[v] = row[v]
      BY <1>5 DEF QueueInv, TypeOK
    <2>3. QED
      BY <1>1, <1>2, <1>5, <2>1, <2>2, MoveKeeps DEF Timed
  <1>6. QED
    BY <1>1, <1>3, <1>4, <1>5

LEMMA ClockKeeps ==
  ASSUME QueueInv, NEW w \in Workers, Clock(w)
  PROVE  QueueInv'
  <1>1. PICK p \in {"terminalize", "claim"} : pc' = [pc EXCEPT ![w] = p]
    BY DEF Clock
  <1>2. /\ age' = [age EXCEPT ![w] = 0]
        /\ UNCHANGED <<rows, todo, row, full, seenLease, tries, answer, receiver, failures>>
        /\ row[w] \in Rows
    BY DEF Clock, QueueInv, Named
  <1>3. TypeOK'
    BY <1>1, <1>2 DEF rows, QueueInv, TypeOK, Timed
  <1>4. age'[w] = 0 /\ \A v \in Workers \ {w} : age'[v] = age[v]
    BY <1>2 DEF QueueInv, TypeOK
  <1>5. p \notin {"reload", "send", "record"} /\ age'[w] <= MaxStall
    BY <1>4, LimitsAssumption
  <1>6. UNCHANGED <<rows, receiver>> /\ row'[w] \in Rows
    BY <1>2
  <1>7. \A v \in Workers \ {w} : /\ row'[v] = row[v] /\ age'[v] = age[v]
                                 /\ tries'[v] = tries[v] /\ answer'[v] = answer[v]
    BY <1>2, <1>4
  <1>8. QED
    BY <1>1, <1>3, <1>5, <1>6, <1>7, MoveKeeps

LEMMA TerminalizeKeeps ==
  ASSUME QueueInv, NEW w \in Workers, Terminalize(w)
  PROVE  QueueInv'
  <1> DEFINE d == row[w]
  <1>1. d \in Rows /\ pc[w] \in Timed /\ ~Holds(w)
    BY DEF Terminalize, QueueInv, Named, Timed, Holds
  <1>2. CASE UNCHANGED rows /\ GiveUp(w)
    BY <1>2, EndKeeps DEF Terminalize, QueueInv, TypeOK
  <1>3. CASE /\ status[d] = "delivering" /\ Expired(w, d) /\ attempts[d] >= MaxAttempts
             /\ Settle(d, "dead_letter", 0) /\ Finish(w)
    <2>1. \A v \in Workers \ {w} : Holds(v) /\ row[v] = d /\ age[v] < Lease => FALSE
      BY <1>3, RunningNotExpired
    <2>2. UNCHANGED <<receiver, failures>>
      BY DEF Terminalize
    <2>3. QED
      BY <1>1, <1>3, <2>1, <2>2, SettleKeeps
  <1>4. QED
    BY <1>2, <1>3 DEF Terminalize

LEMMA ClaimKeeps ==
  ASSUME QueueInv, NEW w \in Workers, Claim(w)
  PROVE  QueueInv'
  <1> DEFINE d == row[w]
  <1>1. d \in Rows /\ pc[w] \in Timed /\ age[w] <= MaxStall
    BY DEF Claim, QueueInv, Named, Punctual, Timed
  <1>2. CASE UNCHANGED rows /\ Finish(w)
    BY <1>2, EndKeeps DEF Claim, QueueInv, TypeOK
  <1>3. CASE /\ Claimable(w, d)
             /\ status' = [status EXCEPT ![d] = "delivering"]
             /\ attempts' = [attempts EXCEPT ![d] = @ + 1]
             /\ owner' = [owner EXCEPT ![d] = w]
             /\ lease' = [lease EXCEPT ![d] = Lease - age[w]]
             /\ pc' = [pc EXCEPT ![w] = "reload"]
             /\ UNCHANGED <<wait, local>>
    <2>1. UNCHANGED <<receiver, failures>>
      BY DEF Claim
    <2>2. TypeOK'
      BY <1>1, <1>3, <2>1, LimitsAssumption DEF local, QueueInv, TypeOK, Statuses, Timed
    <2>3. /\ pc'[w] = "reload" /\ owner'[d] = w /\ lease'[d] = Lease - age[w]
          /\ status'[d] = "delivering" /\ attempts'[d] = attempts[d] + 1
          /\ \A v \in Workers : v # w => pc'[v] = pc[v]
          /\ \A e \in Rows : e # d => /\ status'[e] = status[e] /\ owner'[e] = owner[e]
                                      /\ lease'[e] = lease[e] /\ attempts'[e] = attempts[e]
          /\ UNCHANGED <<row, age, tries, answer>>
      BY <1>1, <1>3 DEF local, QueueInv, TypeOK
    <2> HIDE DEF d
    <2>4. Named' /\ Punctual'
      BY <1>1, <2>3 DEF QueueInv, Named, Punctual, d
    <2>5. OwnedDelivering' /\ SettledTruthfully'
      BY <1>1, <2>1, <2>3 DEF QueueInv, TypeOK, OwnedDelivering, SettledTruthfully
    <2>6. \A v \in Workers : v # w /\ Holds(v) /\ row[v] = d => age[v] >= Lease
      <3> SUFFICES ASSUME NEW v \in Workers, v # w, Holds(v), row[v] = d, age[v] < Lease
                   PROVE  FALSE
        BY LimitsAssumption DEF QueueInv, TypeOK
      <3>1. ~Expired(w, d) /\ status[d] = "delivering"
        BY RunningNotExpired
      <3>2. QED
        BY <1>3, <3>1 DEF Claimable
    <2>7. LeaseExclusive'
      BY <2>3, <2>6, LimitsAssumption DEF QueueInv, TypeOK, LeaseExclusive, Holds, Named, Timed, d
    <2>8. LeaseTracked'
      BY <1>1, <2>3 DEF QueueInv, LeaseTracked, Holds, Named, Timed, d
    <2>9. Counted' /\ Witnessed'
      BY <1>1, <2>1, <2>3 DEF QueueInv, TypeOK, Counted, Witnessed, Named, Timed
    <2>10. QED
      BY <2>2, <2>4, <2>5, <2>7, <2>8, <2>9 DEF QueueInv
  <1>4. QED
    BY <1>2, <1>3 DEF Claim

LEMMA ReloadKeeps ==
  ASSUME QueueInv, NEW w \in Workers, Reload(w)
  PROVE  QueueInv'
  <1>1. row[w] \in Rows /\ Holds(w) /\ pc[w] \in Timed
    BY DEF Reload, QueueInv, Named, Timed, Holds
  <1>2. CASE GiveUp(w)
    BY <1>2, EndKeeps DEF Reload, QueueInv, TypeOK
  <1>3. CASE /\ pc' = [pc EXCEPT ![w] = "send"]
             /\ tries' = [tries EXCEPT ![w] = attempts[row[w]]]
             /\ UNCHANGED <<todo, row, full, seenLease, age, answer>>
    <2>1. UNCHANGED <<rows, receiver, failures>>
      BY DEF Reload
    <2>2. TypeOK'
      BY <1>1, <1>3, <2>1 DEF rows, QueueInv, TypeOK, Timed
    <2>3. \A v \in Workers : (v # w => pc'[v] = pc[v] /\ tries'[v] = tries[v])
      BY <1>3 DEF QueueInv, TypeOK
    <2>4. pc'[w] = "send" /\ tries'[w] = attempts[row[w]]
      BY <1>3 DEF QueueInv, TypeOK
    <2>5. Named' /\ Punctual' /\ OwnedDelivering' /\ SettledTruthfully'
      BY <1>1, <1>3, <2>1, <2>3, <2>4 DEF rows, QueueInv, Named, Punctual, OwnedDelivering, SettledTruthfully
    <2>6. LeaseTracked' /\ LeaseExclusive'
      BY <1>1, <1>3, <2>1, <2>3, <2>4 DEF rows, QueueInv, LeaseTracked, LeaseExclusive, Holds
    <2>7. Counted' /\ Witnessed'
      BY <1>1, <1>3, <2>1, <2>3, <2>4 DEF rows, QueueInv, TypeOK, Counted, Witnessed
    <2>8. QED
      BY <2>2, <2>5, <2>6, <2>7 DEF QueueInv
  <1>4. QED
    BY <1>2, <1>3 DEF Reload

LEMMA SendKeeps ==
  ASSUME QueueInv, NEW w \in Workers, NEW a \in Answers, NEW effect \in SUBSET {"accepted", "refused"},
         Send(w, a, effect)
  PROVE  QueueInv'
  <1>1. row[w] \in Rows /\ Holds(w) /\ pc[w] \in Timed
    BY DEF Send, QueueInv, Named, Timed, Holds
  <1>2. /\ pc' = [pc EXCEPT ![w] = "record"]
        /\ answer' = [answer EXCEPT ![w] = a]
        /\ receiver' = [receiver EXCEPT ![row[w]] = @ \cup effect]
        /\ UNCHANGED <<rows, todo, row, full, seenLease, age, tries, failures>>
        /\ a = "delivered" => "accepted" \in effect
        /\ a = "refused" => "refused" \in effect
    BY DEF Send
  <1>3. TypeOK'
    BY <1>1, <1>2 DEF rows, QueueInv, TypeOK, Timed
  <1>4. /\ pc'[w] = "record" /\ answer'[w] = a
        /\ effect \subseteq receiver'[row[w]]
        /\ \A v \in Workers : v # w => pc'[v] = pc[v] /\ answer'[v] = answer[v]
        /\ \A d \in Rows : receiver[d] \subseteq receiver'[d]
    BY <1>1, <1>2 DEF QueueInv, TypeOK
  <1>5. Named' /\ Punctual' /\ OwnedDelivering'
    BY <1>1, <1>2, <1>4 DEF rows, QueueInv, Named, Punctual, OwnedDelivering
  <1>6. SettledTruthfully'
    BY <1>2, <1>4 DEF rows, QueueInv, SettledTruthfully
  <1>7. LeaseTracked' /\ LeaseExclusive'
    BY <1>1, <1>2, <1>4 DEF rows, QueueInv, LeaseTracked, LeaseExclusive, Holds
  <1>8. Counted'
    BY <1>1, <1>2, <1>4 DEF rows, QueueInv, Counted, Send
  <1>9. Witnessed'
    BY <1>1, <1>2, <1>4 DEF QueueInv, Witnessed, Named, Timed
  <1>10. QED
    BY <1>3, <1>5, <1>6, <1>7, <1>8, <1>9 DEF QueueInv

LEMMA RecordKeeps ==
  ASSUME QueueInv, NEW w \in Workers, Record(w)
  PROVE  QueueInv'
  <1> DEFINE d == row[w]
  <1>1. d \in Rows /\ Holds(w) /\ pc[w] \in Timed
    BY DEF Record, QueueInv, Named, Timed, Holds
  <1>2. CASE UNCHANGED rows /\ GiveUp(w)
    BY <1>2, EndKeeps DEF Record, QueueInv, TypeOK
  <1>3. ASSUME owner[d] = w
        PROVE  /\ status[d] = "delivering"
               /\ \A v \in Workers \ {w} : Holds(v) /\ row[v] = d /\ age[v] < Lease => FALSE
    BY <1>1, <1>3, WorkerFacts DEF QueueInv, OwnedDelivering, LeaseExclusive
  <1>4. UNCHANGED <<receiver, failures>>
    BY DEF Record
  <1>5. CASE /\ owner[d] = w /\ answer[w] = "delivered" /\ Settle(d, "delivered", 0) /\ Finish(w)
    <2>1. "accepted" \in receiver[d]
      BY <1>5 DEF Record, QueueInv, Witnessed
    <2>2. QED
      BY <1>1, <1>3, <1>4, <1>5, <2>1, SettleKeeps
  <1>6. CASE /\ owner[d] = w /\ Finish(w)
             /\ \E b \in Backoffs : Settle(d, "retry_wait", IF b > age[w] THEN b - age[w] ELSE 0)
    <2>1. PICK b \in Backoffs : Settle(d, "retry_wait", IF b > age[w] THEN b - age[w] ELSE 0)
      BY <1>6
    <2>2. (IF b > age[w] THEN b - age[w] ELSE 0) \in Nat
      BY LimitsAssumption DEF QueueInv, TypeOK
    <2>3. QED
      BY <1>1, <1>3, <1>4, <1>6, <2>1, <2>2, SettleKeeps
  <1>7. CASE /\ owner[d] = w /\ Finish(w) /\ Settle(d, "dead_letter", 0)
             /\ answer[w] = "refused" \/ Exhausted(w)
    <2>1. "refused" \in receiver[d] \/ attempts[d] >= MaxAttempts
      BY <1>1, <1>7, LimitsAssumption DEF Record, Exhausted, QueueInv, TypeOK, Witnessed, Counted
    <2>2. QED
      BY <1>1, <1>3, <1>4, <1>7, <2>1, SettleKeeps
  <1>8. QED
    BY <1>2, <1>5, <1>6, <1>7 DEF Record, CurrentClaim

\* Every action preserves the invariant.
LEMMA QueueStep == QueueInv /\ [Next]_vars => QueueInv'
  <1> SUFFICES ASSUME QueueInv, [Next]_vars PROVE QueueInv'
    OBVIOUS
  <1>1. CASE Tick
    BY <1>1, TickKeeps
  <1>2. ASSUME NEW d \in Rows, Enqueue(d) \/ Collect(d)
        PROVE  QueueInv'
    BY <1>2, StatusKeeps DEF Enqueue, Collect, Terminal
  <1>3. ASSUME NEW w \in Pollers, Poll(w)
        PROVE  QueueInv'
    <2>1. w \in Workers /\ {d \in Due : Cardinality({e \in Due : e < d}) < Limit} \subseteq Rows
      BY DEF Workers, Due
    <2>2. QED
      BY <1>3, <2>1, BeginKeeps DEF Poll
  <1>4. ASSUME NEW w \in Callers, NEW d \in Rows, Inline(w, d)
        PROVE  QueueInv'
    <2>1. w \in Workers /\ {d} \subseteq Rows /\ Begin(w, {d})
      BY <1>4 DEF Workers, Inline
    <2>2. QED
      BY <2>1, BeginKeeps
  <1>5. ASSUME NEW w \in Workers, Step(w)
        PROVE  QueueInv'
    BY <1>5, LoadKeeps, ClockKeeps, TerminalizeKeeps, ClaimKeeps, ReloadKeeps, SendKeeps, RecordKeeps
       DEF Step
  <1>6. ASSUME NEW w \in Workers, Fail(w)
        PROVE  QueueInv'
    <2>1. GiveUp(w) /\ UNCHANGED <<rows, receiver>> /\ failures' \in Nat
      BY <1>6 DEF Fail, QueueInv, TypeOK
    <2>2. QED
      BY <2>1, EndKeeps
  <1>7. CASE UNCHANGED vars
    BY <1>7 DEF vars, rows, local, QueueInv, TypeOK, Named, Punctual, OwnedDelivering, LeaseTracked,
                LeaseExclusive, Holds, Counted, Witnessed, SettledTruthfully
  <1>8. QED
    BY <1>1, <1>2, <1>3, <1>4, <1>5, <1>6, <1>7 DEF Next

\* The invariant holds in every reachable state.
THEOREM QueueInvariant == Spec => []QueueInv
  <1>1. Init => QueueInv
    BY InitQueue
  <1>2. QueueInv /\ [Next]_vars => QueueInv'
    BY QueueStep
  <1>3. QED
    BY <1>1, <1>2, PTL DEF Spec

\* Every variable of the queue keeps its type.
THEOREM QueueTypeCorrect == Spec => []TypeOK
  <1>1. QueueInv => TypeOK
    BY DEF QueueInv
  <1>2. QED
    BY <1>1, QueueInvariant, PTL

\* Until its lease runs out, a claim is the only one on its row.
THEOREM LeasesExclude == Spec => []LeaseExclusive
  <1>1. QueueInv => LeaseExclusive
    BY DEF QueueInv
  <1>2. QED
    BY <1>1, QueueInvariant, PTL

\* delivered and dead_letter mean what they say.
THEOREM StatusesTruthful == Spec => []SettledTruthfully
  <1>1. QueueInv => SettledTruthfully
    BY DEF QueueInv
  <1>2. QED
    BY <1>1, QueueInvariant, PTL

-----------------------------------------------------------------------------

\* How one step may change the status of a row.
LEMMA StatusStep ==
  ASSUME QueueInv, [Next]_vars, NEW d \in Rows
  PROVE  /\ status[d] \in Terminal => status'[d] \in {status[d], "gone"}
         /\ status[d] = "gone" => status'[d] = "gone"
  <1> USE DEF rows
  <1>1. CASE UNCHANGED status
    BY <1>1
  <1>2. ASSUME NEW e \in Rows, Enqueue(e) \/ Collect(e)
        PROVE  /\ status[d] \in Terminal => status'[d] \in {status[d], "gone"}
               /\ status[d] = "gone" => status'[d] = "gone"
    BY <1>2 DEF Enqueue, Collect, Terminal, QueueInv, TypeOK
  <1>3. ASSUME NEW w \in Workers, Terminalize(w) \/ Claim(w) \/ Record(w)
        PROVE  UNCHANGED status \/ (status[row[w]] \notin Terminal \cup {"gone"}
                                    /\ \E s : status' = [status EXCEPT ![row[w]] = s])
    <2>1. row[w] \in Rows
      BY <1>3 DEF Terminalize, Claim, Record, QueueInv, Named, Timed
    <2>2. owner[row[w]] = w => status[row[w]] = "delivering"
      BY <2>1, WorkerFacts DEF QueueInv, OwnedDelivering
    <2>3. CASE Terminalize(w)
      BY <2>3 DEF Terminalize, Settle, Terminal
    <2>4. CASE Claim(w)
      BY <2>4 DEF Claim, Claimable, Terminal
    <2>5. CASE Record(w)
      BY <2>2, <2>5 DEF Record, CurrentClaim, Settle, Terminal
    <2>6. QED
      BY <1>3, <2>3, <2>4, <2>5
  <1>4. ASSUME NEW w \in Workers, Step(w) \/ Fail(w)
        PROVE  \/ UNCHANGED status
               \/ Terminalize(w) \/ Claim(w) \/ Record(w)
    BY <1>4 DEF Step, Fail, Load, Clock, Reload, Send
  <1>5. ASSUME NEW w \in Workers, Step(w) \/ Fail(w)
        PROVE  /\ status[d] \in Terminal => status'[d] \in {status[d], "gone"}
               /\ status[d] = "gone" => status'[d] = "gone"
    BY <1>1, <1>3, <1>4, <1>5 DEF QueueInv, TypeOK
  <1>6. CASE Tick \/ (\E w \in Pollers : Poll(w)) \/ (\E w \in Callers, e \in Rows : Inline(w, e))
             \/ UNCHANGED vars
    BY <1>1, <1>6 DEF Tick, Poll, Inline, Begin, vars
  <1>7. QED
    BY <1>2, <1>5, <1>6 DEF Next

\* A settled delivery is never reopened or rewritten.
THEOREM SettledStays == Spec => SettledIsFinal
  <1>1. QueueInv /\ [Next]_vars =>
          [\A d \in Rows :
             /\ status[d] \in Terminal => status'[d] \in {status[d], "gone"}
             /\ status[d] = "gone" => status'[d] = "gone"]_vars
    BY StatusStep
  <1>2. QED
    BY <1>1, QueueInvariant, PTL DEF Spec, SettledIsFinal

-----------------------------------------------------------------------------

\* A worker that ends a delivery holds nothing; the others hold what they held.
LEMMA EndHolds ==
  ASSUME QueueInv, NEW w \in Workers, Finish(w) \/ GiveUp(w)
  PROVE  \A v \in Workers : Holds(v)' => Holds(v) /\ row'[v] = row[v]
  <1>1. PICK p \in {"idle", "load"} : pc' = [pc EXCEPT ![w] = p]
    BY DEF Finish, GiveUp
  <1>2. row' = [row EXCEPT ![w] = NoRow]
    BY DEF Finish, GiveUp, Reset
  <1>3. QED
    BY <1>1, <1>2 DEF Holds, QueueInv, TypeOK

\* Nothing happens to a Feishu row that is being delivered by nobody.
LEMMA OrphanStep ==
  ASSUME QueueInv, [Next]_vars, NEW d \in Untyped, Orphaned(d)
  PROVE  Orphaned(d)' /\ UNCHANGED <<receiver[d], attempts[d]>>
  <1> DEFINE Frozen == status'[d] = "delivering" /\ UNCHANGED <<receiver[d], attempts[d]>>
             Quiet == \A v \in Workers : Holds(v)' => (Holds(v) /\ row'[v] = row[v]) \/ row'[v] # d
  <1> SUFFICES Frozen /\ Quiet
    BY DEF Orphaned
  <1>1. d \in Rows /\ d \notin Typed /\ status[d] = "delivering"
    BY RowsAssumption DEF Rows, Orphaned
  <1>2. \A w \in Workers : Holds(w) => row[w] # d
    BY DEF Orphaned
  <1> USE DEF rows, local
  <1>3. CASE Tick \/ UNCHANGED vars
    BY <1>1, <1>3 DEF Tick, vars, Holds
  <1>4. ASSUME NEW e \in Rows, Enqueue(e) \/ Collect(e)
        PROVE  Frozen /\ Quiet
    <2>1. Frozen
      BY <1>1, <1>4 DEF Enqueue, Collect, Terminal, QueueInv, TypeOK
    <2>2. Quiet
      BY <1>4 DEF Enqueue, Collect, Holds
    <2>3. QED
      BY <2>1, <2>2
  <1>5. ASSUME NEW w \in Workers, NEW S, Begin(w, S)
        PROVE  Frozen /\ Quiet
    BY <1>1, <1>5 DEF Begin, Holds, QueueInv, TypeOK
  <1>6. ASSUME NEW w \in Workers, Load(w)
        PROVE  Frozen /\ Quiet
    <2>1. Frozen
      BY <1>1, <1>6 DEF Load
    <2>2. PICK p \in {"idle", "load", "clock"} : pc' = [pc EXCEPT ![w] = p]
      BY <1>6 DEF Load, GiveUp
    <2>3. PICK r : row' = [row EXCEPT ![w] = r]
      BY <1>6 DEF Load, GiveUp, Reset
    <2>4. Quiet
      BY <2>2, <2>3 DEF Holds, QueueInv, TypeOK
    <2>5. QED
      BY <2>1, <2>4
  <1>7. ASSUME NEW w \in Workers, Clock(w)
        PROVE  Frozen /\ Quiet
    <2>1. PICK p \in {"terminalize", "claim"} : pc' = [pc EXCEPT ![w] = p]
      BY <1>7 DEF Clock
    <2>2. QED
      BY <1>1, <1>7, <2>1 DEF Clock, Holds, QueueInv, TypeOK
  <1>8. ASSUME NEW w \in Workers, Terminalize(w)
        PROVE  Frozen /\ Quiet
    <2>1. Quiet
      BY <1>8, EndHolds DEF Terminalize
    <2>2. row[w] \in Rows
      BY <1>8 DEF Terminalize, QueueInv, Named, Timed
    <2>3. Frozen
      BY <1>1, <1>8, <2>2 DEF Terminalize, Settle, QueueInv, TypeOK
    <2>4. QED
      BY <2>1, <2>3
  <1>9. ASSUME NEW w \in Workers, Claim(w)
        PROVE  Frozen /\ Quiet
    <2>1. row[w] \in Rows
      BY <1>9 DEF Claim, QueueInv, Named, Timed
    <2>2. CASE Claimable(w, row[w]) /\ pc' = [pc EXCEPT ![w] = "reload"] /\ UNCHANGED local
      <3>1. row[w] # d
        BY <1>1, <2>2 DEF Claimable
      <3>2. Frozen
        BY <1>1, <1>9, <2>1, <2>2, <3>1 DEF Claim, QueueInv, TypeOK
      <3>3. Quiet
        BY <2>2, <3>1 DEF Holds, QueueInv, TypeOK
      <3>4. QED
        BY <3>2, <3>3
    <2>3. CASE UNCHANGED rows /\ Finish(w)
      BY <1>1, <1>9, <2>3, EndHolds DEF Claim
    <2>4. QED
      BY <1>9, <2>2, <2>3 DEF Claim
  <1>10. ASSUME NEW w \in Workers, Reload(w)
         PROVE  Frozen /\ Quiet
    <2>1. CASE GiveUp(w)
      BY <1>1, <1>10, <2>1, EndHolds DEF Reload
    <2>2. CASE pc' = [pc EXCEPT ![w] = "send"] /\ UNCHANGED row
      BY <1>1, <1>10, <2>2 DEF Reload, Holds, QueueInv, TypeOK
    <2>3. QED
      BY <1>10, <2>1, <2>2 DEF Reload
  <1>11. ASSUME NEW w \in Workers, NEW a, NEW effect, Send(w, a, effect)
         PROVE  Frozen /\ Quiet
    <2>1. row[w] # d /\ row[w] \in Rows
      BY <1>2, <1>11 DEF Send, Holds, QueueInv, Named, Timed
    <2>2. QED
      BY <1>1, <1>11, <2>1 DEF Send, Holds, QueueInv, TypeOK
  <1>12. ASSUME NEW w \in Workers, Record(w)
         PROVE  Frozen /\ Quiet
    <2>1. row[w] # d /\ row[w] \in Rows
      BY <1>2, <1>12 DEF Record, Holds, QueueInv, Named, Timed
    <2>2. Quiet
      BY <1>12, EndHolds DEF Record
    <2>3. Frozen
      BY <1>1, <1>12, <2>1 DEF Record, Settle, QueueInv, TypeOK
    <2>4. QED
      BY <2>2, <2>3
  <1>13. ASSUME NEW w \in Workers, Fail(w)
         PROVE  Frozen /\ Quiet
    BY <1>1, <1>13, EndHolds DEF Fail
  <1>14. CASE (\E w \in Pollers : Poll(w)) \/ (\E w \in Callers, e \in Rows : Inline(w, e))
    BY <1>5, <1>14 DEF Poll, Inline, Workers
  <1>15. CASE \E w \in Workers : Step(w)
    BY <1>6, <1>7, <1>8, <1>9, <1>10, <1>11, <1>12, <1>15 DEF Step
  <1>16. QED
    BY <1>3, <1>4, <1>13, <1>14, <1>15 DEF Next

\* A Feishu row whose worker was lost while delivering is never posted again.
THEOREM OrphansStay == Spec => OrphanNotReposted
  <1>1. QueueInv /\ [Next]_vars =>
          [\A d \in Untyped : Orphaned(d) => Orphaned(d)' /\ UNCHANGED <<receiver[d], attempts[d]>>]_vars
    BY OrphanStep
  <1>2. QED
    BY <1>1, QueueInvariant, PTL DEF Spec, OrphanNotReposted

-----------------------------------------------------------------------------
(* The attempt budget.                                                      *)

\* A row that waits to be claimed has attempts left.
WaitingUnspent ==
    \A d \in Rows : status[d] \in {"none", "pending", "retry_wait"} => attempts[d] < MaxAttempts

\* What the current claim's worker reloaded is the row's own count.
CountedExactly ==
    \A w \in Workers : pc[w] \in {"send", "record"} /\ owner[row[w]] = w => tries[w] = attempts[row[w]]

\* A worker that read a spent row dead-letters it, unless it also read a lease that
\* had time left; leases are only ever extended, so its claim then finds one that
\* has not run out at its clock reading.
SpentIsSpent ==
    \A w \in Workers : pc[w] \in {"clock", "claim"} /\ full[w] =>
        row[w] \in Typed /\ attempts[row[w]] >= MaxAttempts
SpentIsLeased ==
    \A w \in Workers : full[w] /\ row[w] \in Rows /\ status[row[w]] = "delivering" =>
        /\ pc[w] = "clock" /\ seenLease[w] > 0 => lease[row[w]] >= seenLease[w]
        /\ pc[w] = "claim" => lease[row[w]] > -age[w]

\* The workers that read a typed row before its last attempt, and may yet claim it.
Stale(d) == {w \in Workers : /\ row[w] = d /\ d \in Typed
                             /\ pc[w] \in {"clock", "claim"} /\ ~full[w]}

\* Each of them can claim a spent row once.
OverrunAccounted ==
    \A d \in Rows : attempts[d] >= MaxAttempts =>
        attempts[d] + Cardinality(Stale(d)) < MaxAttempts + Cardinality(Workers)

BudgetInv ==
    WaitingUnspent /\ CountedExactly /\ SpentIsSpent /\ SpentIsLeased /\ OverrunAccounted

\* There are no more stale workers than workers.
LEMMA StaleFinite ==
  ASSUME NEW d
  PROVE  IsFiniteSet(Workers) /\ Cardinality(Workers) \in Nat
         /\ IsFiniteSet(Stale(d)) /\ Cardinality(Stale(d)) \in Nat
  <1>1. IsFiniteSet(Workers)
    BY WorkersAssumption, FS_Union DEF Workers
  <1>2. Stale(d) \subseteq Workers
    BY DEF Stale
  <1>3. QED
    BY <1>1, <1>2, FS_Subset, FS_CardinalityType

\* A row whose count stays and which nobody reads anew keeps its account.
LEMMA FewerStale ==
  ASSUME BudgetInv, NEW d \in Rows, attempts'[d] = attempts[d], attempts[d] \in Nat,
         Stale(d)' \subseteq Stale(d), attempts'[d] >= MaxAttempts
  PROVE  attempts'[d] + Cardinality(Stale(d)') < MaxAttempts + Cardinality(Workers)
  <1>1. IsFiniteSet(Stale(d)) /\ Cardinality(Stale(d)) \in Nat /\ Cardinality(Workers) \in Nat
    BY StaleFinite
  <1>2. IsFiniteSet(Stale(d)') /\ Cardinality(Stale(d)') <= Cardinality(Stale(d))
    BY <1>1, FS_Subset
  <1>3. Cardinality(Stale(d)') \in Nat
    BY <1>2, FS_CardinalityType
  <1>4. attempts[d] + Cardinality(Stale(d)) < MaxAttempts + Cardinality(Workers)
    BY DEF BudgetInv, OverrunAccounted
  <1>5. QED
    BY <1>1, <1>2, <1>3, <1>4, LimitsAssumption

\* Steps after which the workers that moved read and claim nothing: they have let
\* go of their row, or are further on with a claim of their own.
LEMMA MovesKeepBudget ==
  ASSUME QueueInv, BudgetInv, NEW M, M \subseteq Workers,
         \A v \in Workers \ M : /\ pc'[v] = pc[v] /\ row'[v] = row[v] /\ full'[v] = full[v]
                                /\ seenLease'[v] = seenLease[v] /\ age'[v] = age[v]
                                /\ tries'[v] = tries[v],
         \A v \in M : /\ pc'[v] \notin {"clock", "claim"}
                      /\ pc'[v] \in {"send", "record"} /\ owner'[row'[v]] = v =>
                            tries'[v] = attempts'[row'[v]],
         attempts' = attempts, WaitingUnspent',
         \A d \in Rows : owner'[d] \in {owner[d], Nobody},
         \A d \in Rows : status'[d] = "delivering" => status[d] = "delivering" /\ lease'[d] = lease[d]
  PROVE  BudgetInv'
  <1>1. CountedExactly'
    <2> SUFFICES ASSUME NEW v \in Workers, pc'[v] \in {"send", "record"}, owner'[row'[v]] = v
                 PROVE  tries'[v] = attempts'[row'[v]]
      BY DEF CountedExactly
    <2>1. CASE v \notin M
      <3>1. pc[v] \in {"send", "record"} /\ row'[v] = row[v] /\ tries'[v] = tries[v] /\ row[v] \in Rows
        BY <2>1 DEF QueueInv, Named, Timed
      <3>2. owner[row[v]] = v
        BY <3>1, WorkerFacts
      <3>3. QED
        BY <3>1, <3>2 DEF BudgetInv, CountedExactly
    <2>2. QED
      BY <2>1
  <1>2. SpentIsSpent'
    BY DEF BudgetInv, SpentIsSpent
  <1>3. SpentIsLeased'
    BY DEF BudgetInv, SpentIsLeased
  <1>4. \A d \in Rows : Stale(d)' \subseteq Stale(d)
    BY DEF Stale
  <1>5. \A d \in Rows : attempts[d] \in Nat
    BY DEF QueueInv, TypeOK
  <1>6. OverrunAccounted'
    BY <1>4, <1>5, FewerStale DEF OverrunAccounted
  <1>7. QED
    BY <1>1, <1>2, <1>3, <1>6 DEF BudgetInv

\* The same for one worker.
LEMMA MoveKeepsBudget ==
  ASSUME QueueInv, BudgetInv, NEW w \in Workers,
         \A v \in Workers \ {w} : /\ pc'[v] = pc[v] /\ row'[v] = row[v] /\ full'[v] = full[v]
                                  /\ seenLease'[v] = seenLease[v] /\ age'[v] = age[v]
                                  /\ tries'[v] = tries[v],
         pc'[w] \notin {"clock", "claim"},
         pc'[w] \in {"send", "record"} /\ owner'[row'[w]] = w => tries'[w] = attempts'[row'[w]],
         attempts' = attempts, WaitingUnspent',
         \A d \in Rows : owner'[d] \in {owner[d], Nobody},
         \A d \in Rows : status'[d] = "delivering" => status[d] = "delivering" /\ lease'[d] = lease[d]
  PROVE  BudgetInv'
  <1> DEFINE M == {w}
  <1>1. /\ M \subseteq Workers /\ \A v \in Workers : v \in M <=> v = w
        /\ \A v \in M : v = w
    OBVIOUS
  <1> HIDE DEF M
  <1>2. \A v \in Workers \ M : /\ pc'[v] = pc[v] /\ row'[v] = row[v] /\ full'[v] = full[v]
                               /\ seenLease'[v] = seenLease[v] /\ age'[v] = age[v]
                               /\ tries'[v] = tries[v]
    BY <1>1
  <1>3. \A v \in M : /\ pc'[v] \notin {"clock", "claim"}
                     /\ pc'[v] \in {"send", "record"} /\ owner'[row'[v]] = v =>
                           tries'[v] = attempts'[row'[v]]
    BY <1>1
  <1>4. QED
    BY <1>1, <1>2, <1>3, MovesKeepBudget

\* A worker that ends a delivery, whatever it made of its row.
LEMMA EndKeepsBudget ==
  ASSUME QueueInv, BudgetInv, NEW w \in Workers, Finish(w) \/ GiveUp(w),
         \/ UNCHANGED rows
         \/ \E d \in Rows, s \in {"delivered", "dead_letter"} : \E left : Settle(d, s, left)
  PROVE  BudgetInv'
  <1>1. PICK p \in {"idle", "load"} : pc' = [pc EXCEPT ![w] = p]
    BY DEF Finish, GiveUp
  <1>2. \A v \in Workers \ {w} : /\ pc'[v] = pc[v] /\ row'[v] = row[v] /\ full'[v] = full[v]
                                 /\ seenLease'[v] = seenLease[v] /\ age'[v] = age[v]
                                 /\ tries'[v] = tries[v]
    BY DEF Finish, GiveUp, Reset, QueueInv, TypeOK
  <1>3. pc'[w] \in {"idle", "load"}
    BY <1>1 DEF QueueInv, TypeOK
  <1>4. /\ attempts' = attempts /\ WaitingUnspent'
        /\ \A d \in Rows : owner'[d] \in {owner[d], Nobody}
        /\ \A d \in Rows : status'[d] = "delivering" => status[d] = "delivering" /\ lease'[d] = lease[d]
    BY DEF rows, Settle, BudgetInv, WaitingUnspent, QueueInv, TypeOK
  <1>5. QED
    BY <1>2, <1>3, <1>4, MoveKeepsBudget

\* Time takes as much from a row's lease as from what a worker read of it.
LEMMA TickKeepsBudget ==
  ASSUME QueueInv, BudgetInv, Tick
  PROVE  BudgetInv'
  <1>1. /\ UNCHANGED <<status, attempts, owner, pc, row, full, tries>>
        /\ \A w \in Workers : pc[w] \in Timed => age[w] < MaxStall /\ age'[w] = age[w] + 1
        /\ \A w \in Workers : pc[w] = "clock" => seenLease'[w] = Elapsed(seenLease[w], 0)
        /\ \A d \in Rows : status[d] = "delivering" => lease'[d] = Elapsed(lease[d], -MaxStall)
    BY DEF Tick
  <1>2. WaitingUnspent' /\ CountedExactly' /\ SpentIsSpent'
    BY <1>1 DEF BudgetInv, WaitingUnspent, CountedExactly, SpentIsSpent
  <1>3. SpentIsLeased'
    <2> SUFFICES ASSUME NEW w \in Workers, full[w], row[w] \in Rows, status[row[w]] = "delivering"
                 PROVE  /\ pc[w] = "clock" /\ seenLease'[w] > 0 => lease'[row[w]] >= seenLease'[w]
                        /\ pc[w] = "claim" => lease'[row[w]] > -age'[w]
      BY <1>1 DEF SpentIsLeased
    <2>1. lease[row[w]] \in Int /\ seenLease[w] \in Int /\ age[w] \in Nat
      BY DEF QueueInv, TypeOK
    <2>2. ASSUME pc[w] = "clock", seenLease'[w] > 0 PROVE lease'[row[w]] >= seenLease'[w]
      <3>1. seenLease[w] > 0 /\ seenLease'[w] = seenLease[w] - 1
        BY <1>1, <2>1, <2>2 DEF Elapsed
      <3>2. lease[row[w]] >= seenLease[w]
        BY <2>2, <3>1 DEF BudgetInv, SpentIsLeased
      <3>3. QED
        BY <1>1, <2>1, <3>1, <3>2, LimitsAssumption DEF Elapsed
    <2>3. ASSUME pc[w] = "claim" PROVE lease'[row[w]] > -age'[w]
      <3>1. lease[row[w]] > -age[w] /\ age[w] < MaxStall /\ age'[w] = age[w] + 1
        BY <1>1, <2>3 DEF BudgetInv, SpentIsLeased, Timed
      <3>2. QED
        BY <1>1, <2>1, <3>1, LimitsAssumption DEF Elapsed
    <2>4. QED
      BY <2>2, <2>3
  <1>4. \A d \in Rows : Stale(d)' = Stale(d)
    BY <1>1 DEF Stale
  <1>5. OverrunAccounted'
    BY <1>1, <1>4 DEF BudgetInv, OverrunAccounted
  <1>6. QED
    BY <1>2, <1>3, <1>5 DEF BudgetInv

\* A row with attempts left may be read by one more worker; a spent one is seen to be.
LEMMA LoadKeepsBudget ==
  ASSUME QueueInv, BudgetInv, NEW w \in Workers, Load(w)
  PROVE  BudgetInv'
  <1>1. PICK d \in todo[w] :
          /\ UNCHANGED <<rows, receiver, failures>>
          /\ \/ GiveUp(w)
             \/ /\ pc' = [pc EXCEPT ![w] = IF todo[w] = {d} THEN "idle" ELSE "load"]
                /\ Reset(w, todo[w] \ {d})
             \/ /\ status[d] \in {"pending", "retry_wait", "delivering"}
                /\ pc' = [pc EXCEPT ![w] = "clock"]
                /\ row' = [row EXCEPT ![w] = d]
                /\ full' = [full EXCEPT ![w] = d \in Typed /\ status[d] = "delivering"
                                                /\ attempts[d] >= MaxAttempts]
                /\ seenLease' = [seenLease EXCEPT ![w] = lease[d]]
                /\ UNCHANGED <<age, tries, answer>>
    BY DEF Load
  <1>0. d \in Rows
    BY DEF QueueInv, TypeOK
  <1>2. CASE GiveUp(w)
    BY <1>1, <1>2, EndKeepsBudget
  <1>3. CASE /\ pc' = [pc EXCEPT ![w] = IF todo[w] = {d} THEN "idle" ELSE "load"]
             /\ Reset(w, todo[w] \ {d})
    <2>1. /\ \A v \in Workers \ {w} : /\ pc'[v] = pc[v] /\ row'[v] = row[v] /\ full'[v] = full[v]
                                      /\ seenLease'[v] = seenLease[v] /\ age'[v] = age[v]
                                      /\ tries'[v] = tries[v]
          /\ pc'[w] \in {"idle", "load"}
      BY <1>3 DEF Reset, QueueInv, TypeOK
    <2>2. /\ attempts' = attempts /\ WaitingUnspent'
          /\ \A e \in Rows : owner'[e] \in {owner[e], Nobody}
          /\ \A e \in Rows : status'[e] = "delivering" => status[e] = "delivering" /\ lease'[e] = lease[e]
      BY <1>1 DEF rows, BudgetInv, WaitingUnspent
    <2>3. QED
      BY <2>1, <2>2, MoveKeepsBudget
  <1>4. CASE /\ status[d] \in {"pending", "retry_wait", "delivering"}
             /\ pc' = [pc EXCEPT ![w] = "clock"]
             /\ row' = [row EXCEPT ![w] = d]
             /\ full' = [full EXCEPT ![w] = d \in Typed /\ status[d] = "delivering"
                                             /\ attempts[d] >= MaxAttempts]
             /\ seenLease' = [seenLease EXCEPT ![w] = lease[d]]
             /\ UNCHANGED <<age, tries, answer>>
    <2>1. /\ pc'[w] = "clock" /\ row'[w] = d /\ seenLease'[w] = lease[d]
          /\ \A v \in Workers \ {w} : /\ pc'[v] = pc[v] /\ row'[v] = row[v]
                                      /\ seenLease'[v] = seenLease[v]
      BY <1>4 DEF QueueInv, TypeOK
    <2>2. /\ full'[w] <=> (d \in Typed /\ status[d] = "delivering" /\ attempts[d] >= MaxAttempts)
          /\ \A v \in Workers \ {w} : full'[v] = full[v]
      BY <1>4 DEF QueueInv, TypeOK
    <2>3. UNCHANGED <<status, attempts, owner, lease, age, tries>>
      BY <1>1, <1>4 DEF rows
    <2>4. WaitingUnspent' /\ CountedExactly'
      BY <2>1, <2>3 DEF BudgetInv, WaitingUnspent, CountedExactly
    <2>5. SpentIsSpent'
      BY <2>1, <2>2, <2>3 DEF BudgetInv, SpentIsSpent
    <2>6. SpentIsLeased'
      <3>1. lease[d] \in Int
        BY <1>0 DEF QueueInv, TypeOK
      <3>2. QED
        BY <2>1, <2>2, <2>3, <3>1 DEF BudgetInv, SpentIsLeased
    <2>7. \A e \in Rows : attempts[e] >= MaxAttempts => Stale(e)' \subseteq Stale(e)
      <3> SUFFICES ASSUME NEW e \in Rows, attempts[e] >= MaxAttempts, NEW v \in Stale(e)'
                   PROVE  v \in Stale(e)
        OBVIOUS
      <3>1. CASE v # w
        BY <2>1, <2>2, <3>1 DEF Stale
      <3>2. CASE v = w
        <4>1. e = d /\ d \in Typed /\ ~full'[w]
          BY <2>1, <3>2 DEF Stale
        <4>2. status[d] = "delivering"
          BY <1>0, <1>4, <4>1, LimitsAssumption DEF BudgetInv, WaitingUnspent, QueueInv, TypeOK
        <4>3. QED
          BY <2>2, <4>1, <4>2
      <3>3. QED
        BY <3>1, <3>2
    <2>8. OverrunAccounted'
      <3>1. \A e \in Rows : attempts[e] \in Nat /\ attempts'[e] = attempts[e]
        BY <2>3 DEF QueueInv, TypeOK
      <3>2. QED
        BY <2>7, <3>1, FewerStale DEF OverrunAccounted
    <2>9. QED
      BY <2>4, <2>5, <2>6, <2>8 DEF BudgetInv
  <1>5. QED
    BY <1>1, <1>2, <1>3, <1>4

\* A worker that read a spent row goes on to claim it only under a live lease.
LEMMA ClockKeepsBudget ==
  ASSUME QueueInv, BudgetInv, NEW w \in Workers, Clock(w)
  PROVE  BudgetInv'
  <1>1. /\ pc[w] = "clock" /\ age'[w] = 0
        /\ pc'[w] = IF full[w] /\ seenLease[w] <= 0 THEN "terminalize" ELSE "claim"
        /\ \A v \in Workers \ {w} : pc'[v] = pc[v] /\ age'[v] = age[v]
        /\ UNCHANGED <<status, attempts, owner, lease, row, full, seenLease, tries>>
    BY DEF Clock, rows, QueueInv, TypeOK
  <1>2. WaitingUnspent' /\ CountedExactly' /\ SpentIsSpent'
    BY <1>1 DEF BudgetInv, WaitingUnspent, CountedExactly, SpentIsSpent
  <1>3. SpentIsLeased'
    <2> SUFFICES ASSUME NEW v \in Workers, full[v], row[v] \in Rows, status[row[v]] = "delivering"
                 PROVE  /\ pc'[v] = "clock" /\ seenLease[v] > 0 => lease[row[v]] >= seenLease[v]
                        /\ pc'[v] = "claim" => lease[row[v]] > -age'[v]
      BY <1>1 DEF SpentIsLeased
    <2>1. CASE v # w
      BY <1>1, <2>1 DEF BudgetInv, SpentIsLeased
    <2>2. CASE v = w
      <3>1. seenLease[w] \in Int /\ lease[row[w]] \in Int
        BY <2>2 DEF QueueInv, TypeOK
      <3>2. seenLease[w] > 0 => lease[row[w]] >= seenLease[w]
        BY <1>1, <2>2 DEF BudgetInv, SpentIsLeased
      <3>3. QED
        BY <1>1, <2>2, <3>1, <3>2
    <2>3. QED
      BY <2>1, <2>2
  <1>4. \A d \in Rows : Stale(d)' \subseteq Stale(d)
    BY <1>1 DEF Stale
  <1>5. OverrunAccounted'
    <2>1. \A e \in Rows : attempts[e] \in Nat /\ attempts'[e] = attempts[e]
      BY <1>1 DEF QueueInv, TypeOK
    <2>2. QED
      BY <1>4, <2>1, FewerStale DEF OverrunAccounted
  <1>6. QED
    BY <1>2, <1>3, <1>5 DEF BudgetInv

\* A claim uses an attempt, or is one of the claims by stale workers.
LEMMA ClaimKeepsBudget ==
  ASSUME QueueInv, BudgetInv, NEW w \in Workers, Claim(w)
  PROVE  BudgetInv'
  <1>1. PICK d \in Rows : d = row[w] /\ pc[w] = "claim"
    BY DEF Claim, QueueInv, Named, Timed
  <1>2. CASE UNCHANGED rows /\ Finish(w)
    BY <1>2, EndKeepsBudget
  <1>3. CASE /\ Claimable(w, d)
             /\ status' = [status EXCEPT ![d] = "delivering"]
             /\ attempts' = [attempts EXCEPT ![d] = @ + 1]
             /\ owner' = [owner EXCEPT ![d] = w]
             /\ lease' = [lease EXCEPT ![d] = Lease - age[w]]
             /\ pc' = [pc EXCEPT ![w] = "reload"]
             /\ UNCHANGED <<wait, local>>
    <2>1. /\ status'[d] = "delivering" /\ attempts'[d] = attempts[d] + 1 /\ owner'[d] = w
          /\ lease'[d] = Lease - age[w] /\ pc'[w] = "reload"
          /\ \A e \in Rows \ {d} : /\ status'[e] = status[e] /\ attempts'[e] = attempts[e]
                                   /\ owner'[e] = owner[e] /\ lease'[e] = lease[e]
          /\ \A v \in Workers \ {w} : pc'[v] = pc[v]
          /\ UNCHANGED <<row, full, seenLease, age, tries>>
      BY <1>1, <1>3 DEF local, QueueInv, TypeOK
    <2>2. /\ \A e \in Rows : attempts[e] \in Nat /\ lease[e] \in Int
          /\ \A v \in Workers : age[v] \in Nat /\ seenLease[v] \in Int
      BY DEF QueueInv, TypeOK
    <2>3. WaitingUnspent'
      BY <1>1, <2>1 DEF BudgetInv, WaitingUnspent
    <2>4. CountedExactly'
      <3> SUFFICES ASSUME NEW v \in Workers, pc'[v] \in {"send", "record"}, owner'[row[v]] = v
                   PROVE  tries[v] = attempts'[row[v]]
        BY <2>1 DEF CountedExactly
      <3>1. v # w /\ pc[v] \in {"send", "record"} /\ row[v] \in Rows
        BY <2>1 DEF QueueInv, Named, Timed
      <3>2. row[v] # d /\ owner[row[v]] = v
        BY <2>1, <3>1
      <3>3. QED
        BY <2>1, <3>1, <3>2 DEF BudgetInv, CountedExactly
    <2>5. SpentIsSpent'
      <3> SUFFICES ASSUME NEW v \in Workers, pc'[v] \in {"clock", "claim"}, full[v]
                   PROVE  row[v] \in Typed /\ attempts'[row[v]] >= MaxAttempts
        BY <2>1 DEF SpentIsSpent
      <3>1. v # w /\ pc[v] \in {"clock", "claim"} /\ row[v] \in Rows
        BY <2>1 DEF QueueInv, Named, Timed
      <3>2. row[v] \in Typed /\ attempts[row[v]] >= MaxAttempts
        BY <3>1 DEF BudgetInv, SpentIsSpent
      <3>3. QED
        BY <2>1, <2>2, <3>1, <3>2, LimitsAssumption
    <2>6. SpentIsLeased'
      <3> SUFFICES ASSUME NEW v \in Workers, full[v], row[v] \in Rows, status'[row[v]] = "delivering"
                   PROVE  /\ pc'[v] = "clock" /\ seenLease[v] > 0 => lease'[row[v]] >= seenLease[v]
                          /\ pc'[v] = "claim" => lease'[row[v]] > -age[v]
        BY <2>1 DEF SpentIsLeased
      <3>1. CASE row[v] # d
        BY <2>1, <3>1 DEF BudgetInv, SpentIsLeased
      <3>2. CASE row[v] = d /\ v # w /\ pc[v] \in {"clock", "claim"}
        <4>1. attempts[d] >= MaxAttempts
          BY <3>2 DEF BudgetInv, SpentIsSpent
        <4>2. status[d] = "delivering" /\ lease[d] <= -age[w]
          BY <1>1, <1>3, <2>2, <4>1, LimitsAssumption DEF Claimable, Expired, BudgetInv, WaitingUnspent
        <4>3. lease'[d] > lease[d]
          BY <1>1, <2>1, <2>2, <4>2, LimitsAssumption
        <4>4. /\ pc[v] = "clock" /\ seenLease[v] > 0 => lease[d] >= seenLease[v]
              /\ pc[v] = "claim" => lease[d] > -age[v]
          BY <1>1, <3>2, <4>2 DEF BudgetInv, SpentIsLeased
        <4>5. lease'[d] \in Int
          BY <1>1, <2>1, <2>2, LimitsAssumption
        <4>6. pc'[v] = pc[v] /\ lease[d] \in Int /\ seenLease[v] \in Int /\ age[v] \in Nat
          BY <1>1, <2>1, <2>2, <3>2
        <4>7. QED
          BY <3>2, <4>3, <4>4, <4>5, <4>6
      <3>3. CASE v = w \/ pc[v] \notin {"clock", "claim"}
        BY <2>1, <3>3
      <3>4. QED
        BY <3>1, <3>2, <3>3
    <2>7. /\ Stale(d)' \subseteq Workers \ {w}
          /\ \A e \in Rows : Stale(e)' \subseteq Stale(e) \ {w}
      BY <2>1 DEF Stale
    <2>8. ASSUME NEW e \in Rows \ {d}, attempts'[e] >= MaxAttempts
          PROVE  attempts'[e] + Cardinality(Stale(e)') < MaxAttempts + Cardinality(Workers)
      BY <2>1, <2>2, <2>7, <2>8, FewerStale
    <2>9. ASSUME attempts'[d] >= MaxAttempts
          PROVE  attempts'[d] + Cardinality(Stale(d)') < MaxAttempts + Cardinality(Workers)
      <3>1. /\ IsFiniteSet(Workers) /\ Cardinality(Workers) \in Nat
            /\ IsFiniteSet(Stale(d)) /\ Cardinality(Stale(d)) \in Nat
        BY StaleFinite
      <3>2. CASE attempts[d] < MaxAttempts
        <4>1. IsFiniteSet(Workers \ {w}) /\ Cardinality(Workers \ {w}) = Cardinality(Workers) - 1
          BY <3>1, FS_RemoveElement
        <4>2. IsFiniteSet(Stale(d)') /\ Cardinality(Stale(d)') <= Cardinality(Workers) - 1
          BY <2>7, <4>1, FS_Subset
        <4>3. Cardinality(Stale(d)') \in Nat
          BY <4>2, FS_CardinalityType
        <4>4. QED
          BY <1>1, <2>1, <2>2, <2>9, <3>1, <3>2, <4>2, <4>3, LimitsAssumption
      <3>3. CASE attempts[d] >= MaxAttempts
        <4>1. status[d] = "delivering" /\ d \in Typed /\ lease[d] <= -age[w]
          BY <1>1, <1>3, <2>2, <3>3, LimitsAssumption DEF Claimable, Expired, BudgetInv, WaitingUnspent
        <4>2. ~full[w]
          <5> SUFFICES ASSUME full[w] PROVE FALSE
            OBVIOUS
          <5>1. lease[d] > -age[w]
            BY <1>1, <4>1 DEF BudgetInv, SpentIsLeased
          <5>2. QED
            BY <1>1, <2>2, <4>1, <5>1
        <4>3. w \in Stale(d)
          BY <1>1, <4>1, <4>2 DEF Stale
        <4>4. IsFiniteSet(Stale(d) \ {w}) /\ Cardinality(Stale(d) \ {w}) = Cardinality(Stale(d)) - 1
          BY <3>1, <4>3, FS_RemoveElement
        <4>5. IsFiniteSet(Stale(d)') /\ Cardinality(Stale(d)') <= Cardinality(Stale(d)) - 1
          BY <1>1, <2>7, <4>4, FS_Subset
        <4>6. Cardinality(Stale(d)') \in Nat
          BY <4>5, FS_CardinalityType
        <4>7. attempts[d] + Cardinality(Stale(d)) < MaxAttempts + Cardinality(Workers)
          BY <1>1, <3>3 DEF BudgetInv, OverrunAccounted
        <4>8. QED
          BY <1>1, <2>1, <2>2, <3>1, <4>5, <4>6, <4>7, LimitsAssumption
      <3>4. QED
        BY <1>1, <2>2, <3>2, <3>3, LimitsAssumption
    <2>10. OverrunAccounted'
      BY <2>8, <2>9 DEF OverrunAccounted
    <2>11. QED
      BY <2>3, <2>4, <2>5, <2>6, <2>10 DEF BudgetInv
  <1>4. QED
    BY <1>1, <1>2, <1>3 DEF Claim

\* Only a worker that holds the current claim on an unspent row puts it back to wait.
LEMMA RecordKeepsBudget ==
  ASSUME QueueInv, BudgetInv, NEW w \in Workers, Record(w)
  PROVE  BudgetInv'
  <1>1. PICK d \in Rows : d = row[w] /\ pc[w] = "record"
    BY DEF Record, QueueInv, Named, Timed
  <1>2. CASE Finish(w) /\ \E b \in Nat : Settle(d, "retry_wait", b) /\ owner[d] = w /\ ~Exhausted(w)
    <2>1. /\ \A v \in Workers \ {w} : /\ pc'[v] = pc[v] /\ row'[v] = row[v] /\ full'[v] = full[v]
                                      /\ seenLease'[v] = seenLease[v] /\ age'[v] = age[v]
                                      /\ tries'[v] = tries[v]
          /\ pc'[w] \in {"idle", "load"}
      BY <1>2 DEF Finish, Reset, QueueInv, TypeOK
    <2>2. attempts[d] < MaxAttempts
      <3>1. tries[w] = attempts[d] /\ attempts[d] \in Nat
        BY <1>1, <1>2 DEF BudgetInv, CountedExactly, QueueInv, TypeOK
      <3>2. QED
        BY <1>2, <3>1, LimitsAssumption DEF Exhausted
    <2>3. /\ attempts' = attempts /\ WaitingUnspent'
          /\ \A e \in Rows : owner'[e] \in {owner[e], Nobody}
          /\ \A e \in Rows : status'[e] = "delivering" => status[e] = "delivering" /\ lease'[e] = lease[e]
      BY <1>1, <1>2, <2>2 DEF Settle, BudgetInv, WaitingUnspent, QueueInv, TypeOK
    <2>4. QED
      BY <2>1, <2>3, MoveKeepsBudget
  <1>3. CASE (Finish(w) /\ (Settle(d, "delivered", 0) \/ Settle(d, "dead_letter", 0)))
             \/ (UNCHANGED rows /\ GiveUp(w))
    BY <1>1, <1>3, EndKeepsBudget
  <1>4. ASSUME NEW b \in Backoffs
        PROVE  (IF b > age[w] THEN b - age[w] ELSE 0) \in Nat
    BY LimitsAssumption DEF QueueInv, TypeOK
  <1>5. QED
    BY <1>1, <1>2, <1>3, <1>4 DEF Record, CurrentClaim

\* Every action keeps the account.
LEMMA BudgetStep == QueueInv /\ BudgetInv /\ [Next]_vars => BudgetInv'
  <1> SUFFICES ASSUME QueueInv, BudgetInv, [Next]_vars PROVE BudgetInv'
    OBVIOUS
  <1>0. WaitingUnspent
    BY DEF BudgetInv
  <1>1. CASE Tick
    BY <1>1, TickKeepsBudget
  <1>2. CASE UNCHANGED vars \/ \E d \in Rows : Enqueue(d) \/ Collect(d)
    <2>1. /\ \A v \in Workers : /\ pc'[v] = pc[v] /\ row'[v] = row[v] /\ full'[v] = full[v]
                                /\ seenLease'[v] = seenLease[v] /\ age'[v] = age[v]
                                /\ tries'[v] = tries[v]
          /\ UNCHANGED <<attempts, owner, lease>>
      BY <1>2 DEF Enqueue, Collect, vars, rows, local
    <2>2. \A d \in Rows : status'[d] = "delivering" => status[d] = "delivering"
      BY <1>2 DEF Enqueue, Collect, vars, rows, QueueInv, TypeOK
    <2>3. WaitingUnspent'
      BY <1>0, <1>2, <2>1 DEF Enqueue, Collect, vars, rows, WaitingUnspent, QueueInv, TypeOK
    <2>4. QED
      <3> DEFINE M == {}
      <3>1. M \subseteq Workers /\ \A v \in M : FALSE
        OBVIOUS
      <3> HIDE DEF M
      <3>2. QED
        BY <2>1, <2>2, <2>3, <3>1, MovesKeepBudget
  <1>3. ASSUME NEW w \in Workers, NEW S, Begin(w, S)
        PROVE  BudgetInv'
    <2>1. /\ \A v \in Workers \ {w} : /\ pc'[v] = pc[v] /\ row'[v] = row[v] /\ full'[v] = full[v]
                                      /\ seenLease'[v] = seenLease[v] /\ age'[v] = age[v]
                                      /\ tries'[v] = tries[v]
          /\ pc'[w] = "load" /\ UNCHANGED <<status, attempts, owner, lease>>
      BY <1>3 DEF Begin, rows, QueueInv, TypeOK
    <2>2. WaitingUnspent'
      BY <1>0, <2>1 DEF WaitingUnspent
    <2>3. QED
      BY <2>1, <2>2, MoveKeepsBudget
  <1>4. ASSUME NEW w \in Workers, Reload(w) PROVE BudgetInv'
    <2>1. CASE GiveUp(w)
      BY <1>4, <2>1, EndKeepsBudget DEF Reload
    <2>2. CASE /\ pc' = [pc EXCEPT ![w] = "send"]
               /\ tries' = [tries EXCEPT ![w] = attempts[row[w]]]
               /\ UNCHANGED <<todo, row, full, seenLease, age, answer>>
      <3>1. /\ \A v \in Workers \ {w} : /\ pc'[v] = pc[v] /\ row'[v] = row[v] /\ full'[v] = full[v]
                                        /\ seenLease'[v] = seenLease[v] /\ age'[v] = age[v]
                                        /\ tries'[v] = tries[v]
            /\ pc'[w] = "send" /\ tries'[w] = attempts'[row'[w]]
            /\ UNCHANGED <<status, attempts, owner, lease>>
        BY <1>4, <2>2 DEF Reload, rows, QueueInv, TypeOK
      <3>2. WaitingUnspent'
        BY <1>0, <3>1 DEF WaitingUnspent
      <3>3. QED
        BY <3>1, <3>2, MoveKeepsBudget
    <2>3. QED
      BY <1>4, <2>1, <2>2 DEF Reload
  <1>5. ASSUME NEW w \in Workers, NEW a, NEW effect, Send(w, a, effect) PROVE BudgetInv'
    <2>1. /\ \A v \in Workers \ {w} : /\ pc'[v] = pc[v] /\ row'[v] = row[v] /\ full'[v] = full[v]
                                      /\ seenLease'[v] = seenLease[v] /\ age'[v] = age[v]
                                      /\ tries'[v] = tries[v]
          /\ pc[w] = "send" /\ pc'[w] = "record" /\ tries' = tries /\ row' = row
          /\ UNCHANGED <<status, attempts, owner, lease>>
      BY <1>5 DEF Send, rows, QueueInv, TypeOK
    <2>2. WaitingUnspent' /\ (owner[row[w]] = w => tries[w] = attempts[row[w]])
      BY <1>0, <2>1 DEF WaitingUnspent, BudgetInv, CountedExactly
    <2>3. QED
      BY <2>1, <2>2, MoveKeepsBudget
  <1>6. ASSUME NEW w \in Workers, Terminalize(w) PROVE BudgetInv'
    <2>1. row[w] \in Rows
      BY <1>6 DEF Terminalize, QueueInv, Named, Timed
    <2>2. QED
      BY <1>6, <2>1, EndKeepsBudget DEF Terminalize
  <1>7. ASSUME NEW w \in Workers, Fail(w) PROVE BudgetInv'
    BY <1>7, EndKeepsBudget DEF Fail
  <1>8. CASE (\E w \in Pollers : Poll(w)) \/ (\E w \in Callers, e \in Rows : Inline(w, e))
    BY <1>3, <1>8 DEF Poll, Inline, Workers
  <1>9. CASE \E w \in Workers : Step(w)
    BY <1>4, <1>5, <1>6, <1>9, LoadKeepsBudget, ClockKeepsBudget, ClaimKeepsBudget,
       RecordKeepsBudget DEF Step
  <1>10. QED
    BY <1>1, <1>2, <1>7, <1>8, <1>9 DEF Next

\* MaxAttempts bounds the posts of a row, but for one claim of each other worker that
\* had read the row before its last attempt: the claim's WHERE clause does not look at
\* attempt_count, and the check that does is made on what was read.
THEOREM OverrunsBounded == Spec => []OverrunBounded
  <1>1. Init => BudgetInv
    BY LimitsAssumption DEF Init, BudgetInv, WaitingUnspent, CountedExactly, SpentIsSpent,
         SpentIsLeased, OverrunAccounted
  <1>2. QueueInv /\ BudgetInv /\ [Next]_vars => BudgetInv'
    BY BudgetStep
  <1>3. QueueInv /\ BudgetInv => OverrunBounded
    <2> SUFFICES ASSUME QueueInv, BudgetInv, NEW d \in Rows
                 PROVE  attempts[d] < MaxAttempts + Cardinality(Workers)
      BY DEF OverrunBounded
    <2>1. attempts[d] \in Nat /\ Cardinality(Stale(d)) \in Nat /\ Cardinality(Workers) \in Nat
      BY StaleFinite DEF QueueInv, TypeOK
    <2>2. attempts[d] >= MaxAttempts =>
            attempts[d] + Cardinality(Stale(d)) < MaxAttempts + Cardinality(Workers)
      BY DEF BudgetInv, OverrunAccounted
    <2>3. QED
      BY <2>1, <2>2, LimitsAssumption
  <1>4. QED
    BY <1>1, <1>2, <1>3, QueueInvariant, PTL DEF Spec

=============================================================================
