----------------------- MODULE GitHubProjectionProofs -----------------------
(***************************************************************************)
(* Safety of the GitHub projection job for any number of requests,          *)
(* schedulers and watch rounds, and any bounds on attempts, changes and      *)
(* failures.                                                                 *)
(***************************************************************************)
EXTENDS GitHubProjection, TLAPS

\* A row without next_run_at is finished; no attempt precedes the row.
Rowed ==
    /\ due = "null" => phase \in Terminal \cup {"none"}
    /\ phase = "none" => attempt = 0

\* What an actor is about to replace is still what it read, while its copy of the
\* row is current.
Superseding ==
    \A a \in current :
        /\ pc[a] = "reopen" => trigger = "close"
        /\ pc[a] = "refresh" => trigger = "ensure" /\ hash # me[a].fact

\* An actor whose claim is alive works for the row's trigger, and is the only one.
Claimed ==
    \A a \in current :
        /\ pc[a] \in Attempting => phase = "preflight"
        /\ pc[a] \in {"claim"} \cup Attempting => me[a].want = trigger

Alone == \A a, b \in current : pc[a] \in Attempting /\ pc[b] \in Attempting => a = b

\* Every number that is recorded or remembered is one GitHub gave.
Given ==
    /\ mapNum # 0 => Exists(mapNum)
    /\ \A a \in Actors : me[a].num # 0 => Exists(me[a].num)

\* A close that is ready to be recorded has closed what it will record.
Closing ==
    \A a \in Actors :
        pc[a] = "finish" /\ me[a].want = "close" /\ me[a].num # 0 => shadow[me[a].num] = "closed"

\* The inductive invariant.
JobInv == TypeOK /\ Rowed /\ Superseding /\ Claimed /\ Alone /\ Given /\ Closing

-----------------------------------------------------------------------------

LEMMA RestTyped ==
    /\ Rest \in Knowledge
    /\ Rest.num = 0 /\ Rest.want = "ensure" /\ Rest.state = "none"
  BY BoundsAssumption DEF Rest, Knowledge, Triggers, Phases, States

\* A step of a moves a and nobody else.
LEMMA ToMoves ==
  ASSUME TypeOK, NEW a \in Actors, NEW p \in Places, NEW m \in Knowledge, To(a, p, m)
  PROVE  /\ pc' \in [Actors -> Places]
         /\ me' \in [Actors -> Knowledge]
         /\ pc'[a] = p
         /\ me'[a].num \in {0, m.num}
         /\ p \in {"claim"} \cup Attempting => me'[a].want = m.want
         /\ p \in ({"reopen", "refresh"} \cup Attempting) \ {"fail", "denied"} => me'[a] = m
         /\ \A b \in Actors \ {a} : pc'[b] = pc[b] /\ me'[b] = me[b]
<1>1. pc' = [pc EXCEPT ![a] = p] /\ me' = [me EXCEPT ![a] = Needed(p, m)]
  BY DEF To
<1>2. Needed(p, m) \in Knowledge /\ Needed(p, m).num \in {0, m.num}
  BY RestTyped, BoundsAssumption DEF Needed, Knowledge, Rest, Triggers, Phases
<1>3. p \in {"claim"} \cup Attempting => Needed(p, m).want = m.want
  BY RestTyped DEF Needed, Knowledge, Attempting
<1>4. p \in ({"reopen", "refresh"} \cup Attempting) \ {"fail", "denied"} => Needed(p, m) = m
  BY DEF Needed, Attempting
<1>5. QED
  BY <1>1, <1>2, <1>3, <1>4 DEF TypeOK

\* GitHub never reopens a pull request and never forgets one.
Grows ==
    \A n \in Numbers : /\ Exists(n) => shadow'[n] # "none"
                       /\ shadow[n] = "closed" => shadow'[n] = "closed"

\* Steps that leave the row alone.
LEMMA MoveKeeps ==
  ASSUME JobInv, NEW a \in Actors, NEW p \in Places, NEW m \in Knowledge, To(a, p, m),
         UNCHANGED <<row, current, pull>>, changes' \in Nat, failures' \in Nat,
         mapNum' \in 0 .. MaxShadows, mapState' \in States, stray' \in BOOLEAN,
         shadow' \in [Numbers -> States], Grows,
         p \notin {"reopen", "refresh", "claim"},
         p \in Attempting => pc[a] \in Attempting /\ m.want = me[a].want,
         m.num # 0 => shadow'[m.num] # "none",
         mapNum' # 0 => shadow'[mapNum'] # "none",
         p = "finish" /\ m.want = "close" /\ m.num # 0 => shadow'[m.num] = "closed"
  PROVE  JobInv'
  <1>1. /\ pc' \in [Actors -> Places]
        /\ me' \in [Actors -> Knowledge]
        /\ pc'[a] = p
        /\ me'[a].num \in {0, m.num}
        /\ p \in {"claim"} \cup Attempting => me'[a].want = m.want
        /\ p \in ({"reopen", "refresh"} \cup Attempting) \ {"fail", "denied"} => me'[a] = m
        /\ \A b \in Actors \ {a} : pc'[b] = pc[b] /\ me'[b] = me[b]
    BY ToMoves DEF JobInv
  <1>2. TypeOK'
    BY <1>1 DEF JobInv, TypeOK, row, pull
  <1>3. Rowed'
    BY DEF JobInv, Rowed, row
  <1>4. Superseding'
    BY <1>1 DEF JobInv, TypeOK, Superseding, row
  <1>5. Claimed'
    BY <1>1 DEF JobInv, TypeOK, Claimed, row, Attempting
  <1>6. Alone'
    BY <1>1 DEF JobInv, TypeOK, Alone, row
  <1>7. Given'
    <2>1. \A b \in Actors : me[b].num \in 0 .. MaxShadows
      BY DEF JobInv, TypeOK, Knowledge
    <2>2. \A b \in Actors \ {a} : me'[b].num # 0 => shadow'[me'[b].num] # "none"
      BY <1>1, <2>1 DEF JobInv, Given, Grows, Numbers, Exists
    <2>3. me'[a].num # 0 => shadow'[me'[a].num] # "none"
      BY <1>1, RestTyped
    <2>4. QED
      BY <2>2, <2>3 DEF Given, Exists
  <1>8. Closing'
    <2>1. \A b \in Actors : me[b].num \in 0 .. MaxShadows
      BY DEF JobInv, TypeOK, Knowledge
    <2>2. \A b \in Actors \ {a} :
             pc'[b] = "finish" /\ me'[b].want = "close" /\ me'[b].num # 0 =>
                 shadow'[me'[b].num] = "closed"
      BY <1>1, <2>1 DEF JobInv, Closing, Grows, Numbers
    <2>3. QED
      BY <1>1, <2>2, RestTyped DEF Closing, Attempting
  <1>9. QED
    BY <1>2, <1>3, <1>4, <1>5, <1>6, <1>7, <1>8 DEF JobInv

\* Steps that read the row.
LEMMA ReadKeeps ==
  ASSUME JobInv, NEW a \in Actors, NEW p \in Places, NEW m \in Knowledge, To(a, p, m),
         ReadRow(a),
         p \notin Attempting,
         p = "reopen" => trigger = "close",
         p = "refresh" => trigger = "ensure" /\ hash # m.fact,
         p = "claim" => m.want = trigger,
         m.num # 0 => Exists(m.num)
  PROVE  JobInv'
  <1>1. /\ pc' \in [Actors -> Places]
        /\ me' \in [Actors -> Knowledge]
        /\ pc'[a] = p
        /\ me'[a].num \in {0, m.num}
        /\ p \in {"claim"} \cup Attempting => me'[a].want = m.want
        /\ p \in ({"reopen", "refresh"} \cup Attempting) \ {"fail", "denied"} => me'[a] = m
        /\ \A b \in Actors \ {a} : pc'[b] = pc[b] /\ me'[b] = me[b]
    BY ToMoves DEF JobInv
  <1> USE DEF ReadRow, row, pull, mapping, Bounds
  <1>2. TypeOK'
    BY <1>1 DEF JobInv, TypeOK
  <1>3. Rowed'
    BY DEF JobInv, Rowed
  <1>4. Superseding'
    BY <1>1 DEF JobInv, TypeOK, Superseding
  <1>5. Claimed'
    BY <1>1 DEF JobInv, TypeOK, Claimed, Attempting
  <1>6. Alone'
    BY <1>1 DEF JobInv, TypeOK, Alone
  <1>7. Given'
    BY <1>1, RestTyped DEF JobInv, Given, Exists
  <1>8. Closing'
    BY <1>1, RestTyped DEF JobInv, Closing, Attempting
  <1>9. QED
    BY <1>2, <1>3, <1>4, <1>5, <1>6, <1>7, <1>8 DEF JobInv

\* Compare-and-sets that put the row back in the queue.
LEMMA QueueKeeps ==
  ASSUME JobInv, NEW a \in Actors, NEW p \in Places, To(a, p, me[a]),
         NEW hit \in BOOLEAN, NEW t \in Triggers, NEW h \in Facts, Queue(hit, t, h),
         p \notin {"reopen", "refresh", "claim"} \cup Attempting
  PROVE  JobInv'
  <1>1. CASE ~hit
    <2>1. UNCHANGED <<row, current, pull, mapping, shadow, Bounds>>
      BY <1>1 DEF Queue
    <2>2. me[a] \in Knowledge /\ me[a].num \in 0 .. MaxShadows
      BY DEF JobInv, TypeOK, Knowledge
    <2>3. /\ Grows
          /\ mapNum' \in 0 .. MaxShadows /\ mapState' \in States /\ stray' \in BOOLEAN
          /\ shadow' \in [Numbers -> States] /\ changes' \in Nat /\ failures' \in Nat
      BY <2>1 DEF JobInv, TypeOK, Grows, Exists, mapping, Bounds
    <2>4. /\ me[a].num # 0 => shadow'[me[a].num] # "none"
          /\ mapNum' # 0 => shadow'[mapNum'] # "none"
      BY <2>1 DEF JobInv, Given, Exists, mapping
    <2>5. p # "finish"
      BY DEF Attempting
    <2>6. QED
      BY <2>1, <2>2, <2>3, <2>4, <2>5, MoveKeeps DEF Attempting
  <1>2. CASE hit
    <2>1. me[a] \in Knowledge
      BY DEF JobInv, TypeOK
    <2>2. /\ pc' \in [Actors -> Places]
          /\ me' \in [Actors -> Knowledge]
          /\ pc'[a] = p
          /\ me'[a].num \in {0, me[a].num}
          /\ p \in {"claim"} \cup Attempting => me'[a].want = me[a].want
          /\ p \in ({"reopen", "refresh"} \cup Attempting) \ {"fail", "denied"} => me'[a] = me[a]
          /\ \A b \in Actors \ {a} : pc'[b] = pc[b] /\ me'[b] = me[b]
      BY <2>1, ToMoves DEF JobInv
    <2>3. /\ SetRow(t, "queued", 0, "past", h) /\ current' = {}
          /\ UNCHANGED <<pull, mapping, shadow, Bounds>>
      BY <1>2 DEF Queue
    <2> USE DEF SetRow, pull, mapping, Bounds
    <2>4. TypeOK'
      BY <2>2, <2>3, BoundsAssumption DEF JobInv, TypeOK, Phases
    <2>5. Rowed' /\ Superseding' /\ Claimed' /\ Alone'
      BY <2>3 DEF Rowed, Superseding, Claimed, Alone
    <2>6. Given'
      BY <2>2, <2>3, RestTyped DEF JobInv, Given, Exists
    <2>7. Closing'
      BY <2>2, <2>3 DEF JobInv, Closing, Attempting
    <2>8. QED
      BY <2>4, <2>5, <2>6, <2>7 DEF JobInv
  <1>3. QED
    BY <1>1, <1>2

\* Writes of the row that end a claim.
LEMMA SettleKeeps ==
  ASSUME JobInv, NEW a \in Actors, NEW p \in {"idle", "mark"}, To(a, p, me[a]),
         NEW q \in Phases \ {"none"}, NEW d \in {"null", "later"},
         SetRow(trigger, q, attempt, d, hash), current' = {},
         UNCHANGED <<pull, shadow, Bounds>>,
         mapNum' \in 0 .. MaxShadows, mapState' \in States, stray' \in BOOLEAN,
         mapNum' # 0 => shadow[mapNum'] # "none",
         d = "null" => q \in Terminal
  PROVE  JobInv'
  <1>1. me[a] \in Knowledge /\ p \in Places
    BY DEF JobInv, TypeOK, Places
  <1>2. /\ pc' \in [Actors -> Places]
        /\ me' \in [Actors -> Knowledge]
        /\ pc'[a] = p
        /\ me'[a].num \in {0, me[a].num}
        /\ p \in {"claim"} \cup Attempting => me'[a].want = me[a].want
        /\ p \in ({"reopen", "refresh"} \cup Attempting) \ {"fail", "denied"} => me'[a] = me[a]
        /\ \A b \in Actors \ {a} : pc'[b] = pc[b] /\ me'[b] = me[b]
    BY <1>1, ToMoves DEF JobInv
  <1> USE DEF SetRow, pull, Bounds
  <1>3. TypeOK'
    BY <1>2 DEF JobInv, TypeOK
  <1>4. Rowed' /\ Superseding' /\ Claimed' /\ Alone'
    BY DEF Rowed, Superseding, Claimed, Alone
  <1>5. Given'
    BY <1>2, RestTyped DEF JobInv, Given, Exists
  <1>6. Closing'
    BY <1>2 DEF JobInv, Closing
  <1>7. QED
    BY <1>3, <1>4, <1>5, <1>6 DEF JobInv

\* A claim is the only reading of the row that stays current.
LEMMA ClaimKeeps == ASSUME JobInv, NEW a \in Actors, Claim(a) PROVE JobInv'
  <1>0. me[a] \in Knowledge
    BY DEF JobInv, TypeOK
  <1>a. \A m : To(a, "idle", m) => To(a, "idle", me[a])
    BY DEF To, Needed
  <1>b. mapNum' \in 0 .. MaxShadows /\ mapState' \in States /\ stray' \in BOOLEAN
    BY DEF Claim, JobInv, TypeOK, mapping
  <1>c. mapNum' # 0 => shadow[mapNum'] # "none"
    BY DEF Claim, JobInv, Given, Exists, mapping
  <1>1. CASE a \in current /\ due # "later" /\ attempt < MaxAttempts
    <2> DEFINE m == [Rest EXCEPT !.want = me[a].want, !.mark = me[a].mark]
    <2>1. /\ m \in Knowledge
          /\ m.num = 0 /\ m.want = me[a].want
      BY <1>0, RestTyped DEF Knowledge, Rest
    <2>2. /\ SetRow(trigger, "preflight", attempt + 1, "later", hash)
          /\ current' = {a} /\ To(a, "begin", m)
          /\ UNCHANGED <<pull, mapping, shadow, Bounds>>
      BY <1>1, BoundsAssumption DEF Claim, JobInv, TypeOK
    <2> HIDE DEF m
    <2>3. /\ pc' \in [Actors -> Places]
          /\ me' \in [Actors -> Knowledge]
          /\ pc'[a] = "begin"
          /\ me'[a] = m
          /\ \A b \in Actors \ {a} : pc'[b] = pc[b] /\ me'[b] = me[b]
      <3>1. "begin" \in Places
        BY DEF Places, Attempting
      <3>2. QED
        BY <2>1, <2>2, <3>1, ToMoves DEF JobInv, Attempting
    <2> USE DEF SetRow, pull, mapping, Bounds
    <2>4. TypeOK'
      BY <1>1, <2>2, <2>3, BoundsAssumption DEF JobInv, TypeOK, Phases
    <2>5. Rowed' /\ Superseding' /\ Alone'
      BY <2>2, <2>3 DEF Rowed, Superseding, Alone
    <2>6. me[a].want = trigger
      BY <1>1 DEF Claim, JobInv, Claimed
    <2>7. Claimed'
      BY <2>1, <2>2, <2>3, <2>6 DEF Claimed
    <2>8. Given'
      BY <2>1, <2>2, <2>3 DEF JobInv, Given, Exists
    <2>9. Closing'
      BY <2>2, <2>3 DEF JobInv, Closing
    <2>10. QED
      BY <2>4, <2>5, <2>7, <2>8, <2>9 DEF JobInv
  <1>2. CASE a \in current /\ due # "later" /\ attempt >= MaxAttempts
    <2>1. /\ SetRow(trigger, "failed", attempt, "null", hash)
          /\ current' = {} /\ To(a, "idle", me[a])
          /\ UNCHANGED <<pull, mapping, shadow, Bounds>>
      BY <1>2, <1>a, BoundsAssumption DEF Claim, JobInv, TypeOK
    <2>2. "failed" \in Phases \ {"none"} /\ "failed" \in Terminal
      BY DEF Phases, Terminal
    <2>3. QED
      BY <1>b, <1>c, <2>1, <2>2, SettleKeeps
  <1>3. CASE a \notin current \/ due = "later"
    <2>1. /\ UNCHANGED <<row, current, pull, mapping, shadow, Bounds>>
          /\ To(a, "idle", Rest)
      BY <1>3 DEF Claim
    <2>2. /\ Grows
          /\ mapNum' \in 0 .. MaxShadows /\ mapState' \in States /\ stray' \in BOOLEAN
          /\ shadow' \in [Numbers -> States] /\ changes' \in Nat /\ failures' \in Nat
          /\ mapNum' # 0 => shadow'[mapNum'] # "none"
      BY <1>b, <1>c, <2>1 DEF JobInv, TypeOK, Grows, Exists, Bounds
    <2>3. "idle" \in Places /\ "idle" \notin Attempting
      BY DEF Places, Attempting
    <2>4. QED
      BY <2>1, <2>2, <2>3, RestTyped, MoveKeeps
  <1>4. QED
    BY <1>1, <1>2, <1>3, BoundsAssumption DEF JobInv, TypeOK

\* Steps that change nothing but where actor a stands and the count of failures.
LEMMA LookKeeps ==
  ASSUME JobInv, NEW a \in Actors, NEW p \in Places, NEW m \in Knowledge, To(a, p, m),
         UNCHANGED <<pull, row, current, mapNum, mapState, shadow, changes>>,
         stray' \in BOOLEAN, failures' \in Nat,
         p \notin {"reopen", "refresh", "claim"},
         p \in Attempting => pc[a] \in Attempting /\ m.want = me[a].want,
         m.num # 0 => Exists(m.num),
         p = "finish" /\ m.want = "close" /\ m.num # 0 => shadow[m.num] = "closed"
  PROVE  JobInv'
  <1>1. /\ Grows
        /\ mapNum' \in 0 .. MaxShadows /\ mapState' \in States /\ stray' \in BOOLEAN
        /\ shadow' \in [Numbers -> States] /\ changes' \in Nat
        /\ mapNum' # 0 => shadow'[mapNum'] # "none"
    BY DEF JobInv, TypeOK, Given, Grows, Exists
  <1>2. m.num # 0 => shadow'[m.num] # "none"
    BY DEF Exists
  <1>3. QED
    BY <1>1, <1>2, MoveKeeps

\* ... and not even the history of the mapping.
LEMMA QuietKeeps ==
  ASSUME JobInv, NEW a \in Actors, NEW p \in Places, NEW m \in Knowledge, To(a, p, m),
         UNCHANGED <<pull, row, current, mapping, shadow, changes>>, failures' \in Nat,
         p \notin {"reopen", "refresh", "claim"},
         p \in Attempting => pc[a] \in Attempting /\ m.want = me[a].want,
         m.num # 0 => Exists(m.num),
         p = "finish" /\ m.want = "close" /\ m.num # 0 => shadow[m.num] = "closed"
  PROVE  JobInv'
  <1>1. stray' \in BOOLEAN /\ mapNum' = mapNum /\ mapState' = mapState
    BY DEF JobInv, TypeOK, mapping
  <1>2. QED
    BY <1>1, LookKeeps

\* What an actor knows when it keeps its knowledge.
LEMMA MineGiven ==
  ASSUME JobInv, NEW a \in Actors
  PROVE  me[a] \in Knowledge /\ (me[a].num # 0 => Exists(me[a].num))
  BY DEF JobInv, TypeOK, Given

\* A write on GitHub creates a pull request or closes one.
LEMMA LandsGrows ==
  ASSUME JobInv, NEW a \in Actors, NEW n \in Numbers, Lands(a, n)
  PROVE  /\ shadow' \in [Numbers -> States]
         /\ Grows
         /\ shadow'[n] # "none"
         /\ me[a].want = "close" => n = me[a].num /\ shadow'[n] = "closed"
         /\ me[a].num # 0 => n = me[a].num
  <1>1. n # 0 /\ (me[a].num # 0 => Exists(me[a].num)) /\ shadow \in [Numbers -> States]
    BY BoundsAssumption, MineGiven DEF Numbers, JobInv, TypeOK
  <1>2. QED
    BY <1>1 DEF Lands, Grows, Exists, States

\* The result of an attempt.
LEMMA FinishKeeps == ASSUME JobInv, NEW a \in Actors, Finish(a) PROVE JobInv'
  <1>1. CASE Finishable(a)
    <2>1. /\ SetRow(trigger, "projected", attempt, "null", hash)
          /\ current' = {}
          /\ RecordMapping(a)
          /\ UNCHANGED <<pull, shadow, Bounds>>
      BY <1>1 DEF Finish
    <2>2. /\ mapNum' \in 0 .. MaxShadows /\ mapState' \in States /\ stray' \in BOOLEAN
          /\ mapNum' # 0 => shadow[mapNum'] # "none"
      BY <2>1, MineGiven DEF JobInv, TypeOK, Given, Exists, RecordMapping, Knowledge, States, mapping
    <2>3. \E p \in {"idle", "mark"} : To(a, p, me[a])
      BY <1>1 DEF Finish
    <2>4. "projected" \in Phases \ {"none"} /\ "projected" \in Terminal
      BY DEF Phases, Terminal
    <2>5. QED
      BY <2>1, <2>2, <2>3, <2>4, SettleKeeps
  <1>2. CASE ~Finishable(a)
    <2>1. /\ UNCHANGED <<pull, row, current, mapping, shadow, changes>> /\ failures' = failures
          /\ To(a, "fail", me[a]) /\ pc[a] = "finish"
      BY <1>2 DEF Finish, Bounds
    <2>2. /\ "fail" \in Places /\ "finish" \in Attempting /\ failures' \in Nat
      BY <2>1 DEF Places, Attempting, JobInv, TypeOK
    <2>3. QED
      BY <2>1, <2>2, MineGiven, QuietKeeps
  <1>3. QED
    BY <1>1, <1>2

LEMMA FailKeeps == ASSUME JobInv, NEW a \in Actors, Fail(a) PROVE JobInv'
  <1>1. To(a, "idle", me[a]) /\ UNCHANGED <<pull, mapping, shadow, Bounds>>
    BY DEF Fail, To, Needed
  <1>2. /\ mapNum' \in 0 .. MaxShadows /\ mapState' \in States /\ stray' \in BOOLEAN
        /\ mapNum' # 0 => shadow[mapNum'] # "none"
    BY <1>1 DEF JobInv, TypeOK, Given, Exists, mapping
  <1>3. CASE SetRow(trigger, "failed", attempt, "null", hash) /\ current' = {}
    <2>1. "failed" \in Phases \ {"none"} /\ "failed" \in Terminal
      BY DEF Phases, Terminal
    <2>2. QED
      BY <1>1, <1>2, <1>3, <2>1, SettleKeeps
  <1>4. CASE SetRow(trigger, "retryable", attempt, "later", hash) /\ current' = {}
    <2>1. "retryable" \in Phases \ {"none"}
      BY DEF Phases
    <2>2. QED
      BY <1>1, <1>2, <1>4, <2>1, SettleKeeps
  <1>5. CASE UNCHANGED <<row, current>>
    <2>1. /\ UNCHANGED <<pull, row, current, mapping, shadow, changes>> /\ failures' \in Nat
      BY <1>1, <1>5 DEF JobInv, TypeOK, Bounds
    <2>2. "idle" \in Places /\ "idle" \notin Attempting
      BY DEF Places, Attempting
    <2>3. QED
      BY <1>1, <2>1, <2>2, MineGiven, QuietKeeps
  <1>6. QED
    BY <1>3, <1>4, <1>5 DEF Fail

\* The compare-and-sets of enqueueGitHubProjection and of the watch rounds.
LEMMA EnqueueKeeps ==
  ASSUME JobInv, NEW a \in Actors,
         Insert(a) \/ Supersede(a) \/ Reopen(a) \/ Refresh(a) \/ Requeue(a)
  PROVE  JobInv'
  <1>1. /\ me[a].want \in Triggers /\ me[a].fact \in Facts
        /\ trigger \in Triggers /\ hash \in Facts
        /\ {"ensure", "close"} \subseteq Triggers
    BY DEF JobInv, TypeOK, Knowledge, Triggers
  <1>2. {"idle", "read", "reread", "reopened", "requeued"} \subseteq
            Places \ ({"reopen", "refresh", "claim"} \cup Attempting)
    BY DEF Places, Enqueueing, Attempting
  <1>3. CASE Insert(a)
    <2>1. (phase = "none") \in BOOLEAN
      OBVIOUS
    <2>2. QED
      BY <1>1, <1>2, <1>3, <2>1, QueueKeeps DEF Insert
  <1>4. CASE Supersede(a)
    <2>1. (trigger = "ensure" /\ attempt = me[a].seen) \in BOOLEAN
      OBVIOUS
    <2>2. QED
      BY <1>1, <1>2, <1>4, <2>1, QueueKeeps DEF Supersede
  <1>5. CASE Reopen(a)
    <2>1. (Unchanged(a, "close") /\ open) \in BOOLEAN
      BY DEF Unchanged
    <2>2. QED
      BY <1>1, <1>2, <1>5, <2>1, QueueKeeps DEF Reopen
  <1>6. CASE Refresh(a)
    <2>1. Unchanged(a, "ensure") \in BOOLEAN
      BY DEF Unchanged
    <2>2. QED
      BY <1>1, <1>2, <1>6, <2>1, QueueKeeps DEF Refresh
  <1>7. CASE Requeue(a)
    <2> DEFINE hit == trigger = me[a].want /\ phase = "projected" /\ attempt = me[a].seen
    <2>1. hit \in BOOLEAN
      OBVIOUS
    <2>2. Queue(hit, trigger, hash)
      BY <1>7 DEF Requeue
    <2>3. \E q \in {"requeued", "idle"} : To(a, q, me[a])
      BY <1>7 DEF Requeue
    <2>4. PICK q \in {"requeued", "idle"} : To(a, q, me[a])
      BY <2>3
    <2> HIDE DEF hit
    <2>5. QED
      BY <1>1, <1>2, <2>1, <2>2, <2>4, QueueKeeps
  <1>8. QED
    BY <1>3, <1>4, <1>5, <1>6, <1>7

\* The readings of the row.
LEMMA ReadingKeeps ==
  ASSUME JobInv, NEW a \in Actors,
         ReadJob(a) \/ ReadReopened(a) \/ Reread(a) \/ ReadRequeued(a) \/ Wake(a)
  PROVE  JobInv'
  <1>1. /\ me[a] \in Knowledge /\ attempt \in 0 .. MaxAttempts /\ phase \in Phases
        /\ trigger \in Triggers
    BY DEF JobInv, TypeOK
  <1>2. /\ Seen(a) \in Knowledge /\ Seen(a).num = me[a].num
        /\ Seen(a).want = me[a].want /\ Seen(a).fact = me[a].fact
    BY <1>1 DEF Seen, Knowledge
  <1>3. Seen(a).num # 0 => Exists(Seen(a).num)
    BY <1>2, MineGiven
  <1>4. {"idle", "supersede", "reopen", "refresh", "claim", "requeue", "mark"} \subseteq
            Places \ Attempting
    BY DEF Places, Enqueueing, Attempting
  <1>5. /\ Admit(a) \in {"idle", "claim", "requeue", "mark"}
        /\ Admit(a) = "claim" => me[a].want = trigger
    BY DEF Admit
  <1>6. CASE ReadJob(a)
    <2> DEFINE p == IF me[a].want = "close" /\ trigger = "ensure" THEN "supersede"
                    ELSE IF me[a].want = "ensure" /\ trigger = "close" THEN "reopen"
                    ELSE IF Stale(a) THEN "refresh" ELSE Admit(a)
    <2>1. /\ p \in {"idle", "supersede", "reopen", "refresh", "claim", "requeue", "mark"}
          /\ p = "reopen" => trigger = "close"
          /\ p = "refresh" => trigger = "ensure" /\ hash # Seen(a).fact
          /\ p = "claim" => Seen(a).want = trigger
      BY <1>2, <1>5 DEF Stale
    <2>2. To(a, p, Seen(a)) /\ ReadRow(a)
      BY <1>6 DEF ReadJob
    <2> HIDE DEF p
    <2>3. QED
      BY <1>2, <1>3, <1>4, <2>1, <2>2, ReadKeeps
  <1>7. CASE ReadReopened(a)
    <2> DEFINE p == IF Stale(a) THEN "refresh" ELSE Admit(a)
    <2>1. /\ p \in {"idle", "refresh", "claim", "requeue", "mark"}
          /\ p = "refresh" => trigger = "ensure" /\ hash # Seen(a).fact
          /\ p = "claim" => Seen(a).want = trigger
      BY <1>2, <1>5 DEF Stale
    <2>2. To(a, p, Seen(a)) /\ ReadRow(a)
      BY <1>7 DEF ReadReopened
    <2> HIDE DEF p
    <2>3. QED
      BY <1>2, <1>3, <1>4, <2>1, <2>2, ReadKeeps
  <1>8. CASE Reread(a)
    BY <1>2, <1>3, <1>4, <1>5, <1>8, ReadKeeps DEF Reread
  <1>9. CASE ReadRequeued(a)
    <2> DEFINE m == [Seen(a) EXCEPT !.want = trigger]
    <2>1. m \in Knowledge /\ m.num = Seen(a).num /\ m.want = trigger
      BY <1>1, <1>2 DEF Knowledge
    <2>2. \E p \in {"idle", "claim"} : To(a, p, m)
      BY <1>9 DEF ReadRequeued
    <2>3. PICK p \in {"idle", "claim"} : To(a, p, m)
      BY <2>2
    <2>4. ReadRow(a)
      BY <1>9 DEF ReadRequeued
    <2> HIDE DEF m
    <2>5. QED
      BY <1>3, <1>4, <2>1, <2>3, <2>4, ReadKeeps
  <1>10. CASE Wake(a)
    <2> DEFINE m == [Rest EXCEPT !.want = trigger]
    <2>1. m \in Knowledge /\ m.num = 0 /\ m.want = trigger
      BY <1>1, RestTyped DEF Knowledge
    <2>2. To(a, "claim", m) /\ ReadRow(a)
      BY <1>10 DEF Wake
    <2> HIDE DEF m
    <2>3. QED
      BY <1>4, <2>1, <2>2, ReadKeeps
  <1>11. QED
    BY <1>6, <1>7, <1>8, <1>9, <1>10

\* The steps of an attempt that leave GitHub alone.
LEMMA AttemptKeeps ==
  ASSUME JobInv, NEW a \in Actors,
         \/ Begin(a) \/ Observe(a) \/ Check(a) \/ Deny(a) \/ WriteRefused(a)
         \/ TimeOut(a) \/ Break(a)
  PROVE  JobInv'
  <1>1. me[a] \in Knowledge /\ failures \in Nat
    BY DEF JobInv, TypeOK
  <1>2. Attempting \subseteq Places \ {"reopen", "refresh", "claim"}
    BY DEF Places, Attempting
  <1>3. CASE Begin(a)
    <2> DEFINE m == [me[a] EXCEPT !.num = mapNum, !.state = "none"]
    <2>1. /\ m \in Knowledge /\ m.want = me[a].want /\ m.num = mapNum
      BY <1>1 DEF JobInv, TypeOK, Knowledge, States
    <2>2. \E p \in {"observe", "finish", "fail"} :
             To(a, p, m) /\ (p = "finish" => me[a].want = "ensure")
      BY <1>3 DEF Begin
    <2>3. PICK p \in {"observe", "finish", "fail"} :
             To(a, p, m) /\ (p = "finish" => me[a].want = "ensure")
      BY <2>2
    <2>4. m.num # 0 => Exists(m.num)
      BY <2>1 DEF JobInv, Given
    <2>5. pc[a] \in Attempting /\ p \in Attempting
      BY <1>3 DEF Begin, Attempting
    <2>6. /\ UNCHANGED <<pull, row, current, mapNum, mapState, shadow, changes>>
          /\ stray' \in BOOLEAN /\ failures' \in Nat
      BY <1>1, <1>3 DEF Begin, Bounds
    <2> HIDE DEF m
    <2>7. QED
      BY <1>2, <2>1, <2>3, <2>4, <2>5, <2>6, LookKeeps
  <1>4. CASE Observe(a)
    <2>1. PICK n \in 0 .. MaxShadows :
             /\ Observed(me[a].num, n)
             /\ To(a, IF StateOf(n) = "open" \/ (me[a].want = "ensure" /\ n = 0)
                      THEN "check" ELSE "finish",
                   [me[a] EXCEPT !.num = n, !.state = StateOf(n)])
      BY <1>4 DEF Observe
    <2> DEFINE m == [me[a] EXCEPT !.num = n, !.state = StateOf(n)]
    <2>2. StateOf(n) \in States
      BY <2>1 DEF StateOf, JobInv, TypeOK, Numbers, States
    <2>3. m \in Knowledge /\ m.want = me[a].want /\ m.num = n
      BY <1>1, <2>1, <2>2 DEF Knowledge
    <2>4. n # 0 => Exists(n)
      BY <2>1, MineGiven DEF Observed, Exists
    <2>5. \E p \in {"check", "finish"} :
             /\ To(a, p, m)
             /\ p = "finish" /\ me[a].want = "close" => StateOf(n) # "open"
      BY <2>1
    <2>6. PICK p \in {"check", "finish"} :
             /\ To(a, p, m)
             /\ p = "finish" /\ me[a].want = "close" => StateOf(n) # "open"
      BY <2>5
    <2>7. p = "finish" /\ m.want = "close" /\ m.num # 0 => shadow[m.num] = "closed"
      BY <2>2, <2>3, <2>4, <2>6 DEF StateOf, Exists, States
    <2>8. pc[a] \in Attempting /\ p \in Attempting
      BY <1>4 DEF Observe, Attempting
    <2>9. UNCHANGED <<pull, row, current, mapping, shadow, changes>> /\ failures' \in Nat
      BY <1>1, <1>4 DEF Observe, Quiet, Bounds
    <2> HIDE DEF m
    <2>10. QED
      BY <1>2, <2>3, <2>4, <2>6, <2>7, <2>8, <2>9, QuietKeeps
  <1>5. CASE Check(a) \/ Deny(a) \/ WriteRefused(a) \/ TimeOut(a) \/ Break(a)
    <2>1. \E p \in {"write", "fail", "denied"} : To(a, p, me[a])
      BY <1>5 DEF Check, Deny, WriteRefused, TimeOut, Break
    <2>2. PICK p \in {"write", "fail", "denied"} : To(a, p, me[a])
      BY <2>1
    <2>3. pc[a] \in Attempting /\ p \in Attempting
      BY <1>5 DEF Check, Deny, WriteRefused, TimeOut, Break, Attempting
    <2>4. UNCHANGED <<pull, row, current, mapping, shadow, changes>> /\ failures' \in Nat
      BY <1>1, <1>5 DEF Check, Deny, WriteRefused, TimeOut, Break, Spend, Quiet, Bounds
    <2>5. QED
      BY <1>2, <2>2, <2>3, <2>4, MineGiven, QuietKeeps
  <1>6. QED
    BY <1>3, <1>4, <1>5

\* The steps that write to GitHub.
LEMMA WriteKeeps ==
  ASSUME JobInv, NEW a \in Actors, Write(a) \/ WriteLost(a)
  PROVE  JobInv'
  <1>1. /\ me[a] \in Knowledge /\ changes \in Nat /\ failures \in Nat /\ stray \in BOOLEAN
        /\ mapNum \in 0 .. MaxShadows /\ mapState \in States
    BY DEF JobInv, TypeOK
  <1>2. {"finish", "fail", "write"} \subseteq Attempting
        /\ Attempting \subseteq Places \ {"reopen", "refresh", "claim"}
    BY DEF Places, Attempting
  <1>3. \A n \in Numbers : Lands(a, n) =>
          /\ shadow' \in [Numbers -> States] /\ Grows
          /\ shadow'[n] # "none"
          /\ me[a].want = "close" => n = me[a].num /\ shadow'[n] = "closed"
    BY LandsGrows
  <1>4. Grows /\ mapNum' = mapNum => (mapNum' # 0 => shadow'[mapNum'] # "none")
    BY <1>1 DEF JobInv, Given, Grows, Numbers
  <1>5. CASE Write(a)
    <2>1. PICK n \in Numbers :
             Lands(a, n) /\ To(a, "finish", [me[a] EXCEPT !.num = n, !.state = shadow'[n]])
      BY <1>5 DEF Write
    <2> DEFINE m == [me[a] EXCEPT !.num = n, !.state = shadow'[n]]
    <2>2. m \in Knowledge /\ m.want = me[a].want /\ m.num = n
      <3>1. n \in 0 .. MaxShadows /\ shadow'[n] \in States
        BY <1>3, <2>1, BoundsAssumption DEF Numbers
      <3>2. QED
        BY <1>1, <3>1 DEF Knowledge
    <2>3. /\ pc[a] = "write" /\ UNCHANGED <<pull, row, current>>
          /\ changes' \in Nat /\ failures' \in Nat
          /\ mapNum' = mapNum /\ mapState' = mapState /\ stray' \in BOOLEAN
      BY <1>1, <1>5 DEF Write, mapping, Bounds
    <2> HIDE DEF m
    <2>4. To(a, "finish", m)
      BY <2>1 DEF m
    <2>5. QED
      BY <1>1, <1>2, <1>3, <1>4, <2>1, <2>2, <2>3, <2>4, MoveKeeps
  <1>6. CASE WriteLost(a)
    <2>1. PICK n \in Numbers : Lands(a, n)
      BY <1>6 DEF WriteLost
    <2>2. /\ pc[a] = "write" /\ UNCHANGED <<pull, row, current>> /\ To(a, "fail", me[a])
          /\ changes' \in Nat /\ failures' \in Nat
          /\ mapNum' = mapNum /\ mapState' = mapState /\ stray' \in BOOLEAN
      BY <1>1, <1>6 DEF WriteLost, Spend, mapping
    <2>3. me[a].num # 0 => shadow'[me[a].num] # "none"
      BY <1>1, <1>3, <2>1, MineGiven DEF Grows, Knowledge, Numbers
    <2>4. QED
      BY <1>1, <1>2, <1>3, <1>4, <2>1, <2>2, <2>3, MoveKeeps
  <1>7. QED
    BY <1>5, <1>6

\* The remaining steps of an actor.
LEMMA OtherKeeps ==
  ASSUME JobInv, NEW a \in Actors,
         \/ AskEnsure(a) \/ \E m \in BOOLEAN : AskClose(a, m)
         \/ Crash(a) \/ Mark(a) \/ Watch(a) \/ Scan(a) \/ Upsert(a)
  PROVE  JobInv'
  <1>1. /\ me[a] \in Knowledge /\ changes \in Nat /\ failures \in Nat /\ fact \in Facts
        /\ mapNum \in 0 .. MaxShadows /\ mapState \in States /\ stray \in BOOLEAN
        /\ shadow \in [Numbers -> States]
    BY DEF JobInv, TypeOK
  <1>2. {"idle", "insert", "scan", "upsert"} \subseteq
            Places \ ({"reopen", "refresh", "claim", "finish"} \cup Attempting)
    BY DEF Places, Enqueueing, Attempting
  <1>3. CASE AskEnsure(a)
    <2> DEFINE k == [Rest EXCEPT !.fact = fact]
    <2>1. k \in Knowledge /\ k.num = 0
      BY <1>1, RestTyped DEF Knowledge
    <2>2. To(a, "insert", k) /\ failures' \in Nat
          /\ UNCHANGED <<pull, row, current, mapping, shadow, changes>>
      BY <1>1, <1>3 DEF AskEnsure, Bounds
    <2> HIDE DEF k
    <2>3. QED
      BY <1>2, <2>1, <2>2, QuietKeeps
  <1>4. CASE \E m \in BOOLEAN : AskClose(a, m)
    <2>1. PICK m \in BOOLEAN : AskClose(a, m)
      BY <1>4
    <2> DEFINE k == [Rest EXCEPT !.want = "close", !.fact = fact, !.mark = m]
    <2>2. k \in Knowledge /\ k.num = 0
      BY <1>1, RestTyped DEF Knowledge, Triggers
    <2>3. To(a, "insert", k) /\ failures' \in Nat
          /\ UNCHANGED <<pull, row, current, mapping, shadow, changes>>
      BY <1>1, <2>1 DEF AskClose, Bounds
    <2> HIDE DEF k
    <2>4. QED
      BY <1>2, <2>2, <2>3, QuietKeeps
  <1>5. CASE Crash(a)
    <2>1. To(a, "idle", Rest) /\ failures' \in Nat
          /\ UNCHANGED <<pull, row, current, mapping, shadow, changes>>
      BY <1>1, <1>5 DEF Crash, Spend
    <2>2. QED
      BY <1>2, <2>1, RestTyped, QuietKeeps
  <1>6. CASE Mark(a)
    <2>1. /\ To(a, "idle", Rest) /\ failures' \in Nat /\ changes' \in Nat
          /\ UNCHANGED <<pull, row, current>> /\ mapState' \in States
          /\ mapNum' = mapNum /\ shadow' = shadow /\ stray' \in BOOLEAN
      BY <1>1, <1>6 DEF Mark, Bounds, States
    <2>2. /\ Grows
          /\ mapNum' # 0 => shadow'[mapNum'] # "none"
      BY <2>1 DEF JobInv, Given, Grows, Exists
    <2>3. QED
      BY <1>1, <1>2, <2>1, <2>2, RestTyped, MoveKeeps
  <1>7. CASE Watch(a)
    <2> DEFINE k == [Rest EXCEPT !.want = IF open THEN "ensure" ELSE "close", !.fact = fact,
                                 !.num = mapNum, !.state = mapState]
    <2>1. k \in Knowledge /\ k.num = mapNum
      BY <1>1, RestTyped DEF Knowledge, Triggers
    <2>2. To(a, "scan", k) /\ failures' \in Nat
          /\ UNCHANGED <<pull, row, current, mapping, shadow, changes>>
      BY <1>1, <1>7 DEF Watch, Quiet, Bounds
    <2>3. mapNum # 0 => Exists(mapNum)
      BY DEF JobInv, Given
    <2> HIDE DEF k
    <2>4. QED
      BY <1>2, <2>1, <2>2, <2>3, QuietKeeps
  <1>8. CASE Scan(a)
    <2>1. PICK n \in 0 .. MaxShadows :
             /\ Observed(me[a].num, n)
             /\ IF me[a].want = "ensure" /\ n # 0 /\ (phase = "none" \/ trigger = "ensure")
                THEN To(a, IF me[a].num # 0 /\ me[a].state = StateOf(n)
                           THEN "idle" ELSE "upsert",
                        [me[a] EXCEPT !.num = n, !.state = StateOf(n)])
                ELSE To(a, "insert",
                        [me[a] EXCEPT !.num = 0, !.state = "none",
                                      !.repair = \/ me[a].want = "ensure"
                                                 \/ StateOf(n) = "open"
                                                 \/ me[a].state # "closed"])
      BY <1>8 DEF Scan
    <2> DEFINE j == [me[a] EXCEPT !.num = n, !.state = StateOf(n)]
               k == [me[a] EXCEPT !.num = 0, !.state = "none",
                                  !.repair = \/ me[a].want = "ensure"
                                             \/ StateOf(n) = "open"
                                             \/ me[a].state # "closed"]
    <2>2. StateOf(n) \in States /\ "none" \in States /\ 0 \in 0 .. MaxShadows
      BY <1>1, <2>1, BoundsAssumption DEF StateOf, Numbers, States
    <2>3. j \in Knowledge /\ j.num = n
      BY <1>1, <2>2 DEF Knowledge
    <2>4. k \in Knowledge /\ k.num = 0
      BY <1>1, <2>2 DEF Knowledge
    <2>5. n # 0 => Exists(n)
      BY <2>1, MineGiven DEF Observed, Exists
    <2>6. UNCHANGED <<pull, row, current, mapping, shadow, changes>> /\ failures' \in Nat
      BY <1>1, <1>8 DEF Scan, Quiet, Bounds
    <2>7. (\E p \in {"idle", "upsert"} : To(a, p, j)) \/ To(a, "insert", k)
      BY <2>1
    <2> HIDE DEF j, k
    <2>8. QED
      BY <1>2, <2>3, <2>4, <2>5, <2>6, <2>7, QuietKeeps
  <1>9. CASE Upsert(a)
    <2>1. /\ To(a, "idle", Rest) /\ failures' \in Nat /\ changes' \in Nat
          /\ UNCHANGED <<pull, row, current>> /\ mapState' \in States
          /\ mapNum' = me[a].num /\ shadow' = shadow /\ stray' \in BOOLEAN
      BY <1>1, <1>9 DEF Upsert, Bounds, Knowledge
    <2>2. /\ Grows /\ mapNum' \in 0 .. MaxShadows
          /\ mapNum' # 0 => shadow'[mapNum'] # "none"
      BY <1>1, <2>1, MineGiven DEF Grows, Exists, Knowledge
    <2>3. QED
      BY <1>1, <1>2, <2>1, <2>2, RestTyped, MoveKeeps
  <1>10. QED
    BY <1>3, <1>4, <1>5, <1>6, <1>7, <1>8, <1>9

-----------------------------------------------------------------------------

LEMMA InitJob == Init => JobInv
  <1> SUFFICES ASSUME Init PROVE JobInv
    OBVIOUS
  <1>1. TypeOK
    <2>1. /\ open \in BOOLEAN /\ stray \in BOOLEAN
      BY DEF Init
    <2>2. QED
      BY <2>1, RestTyped, BoundsAssumption DEF Init, TypeOK, Triggers, Phases, States, Places, Numbers
  <1>2. Rowed /\ Superseding /\ Claimed /\ Alone
    BY DEF Init, Rowed, Superseding, Claimed, Alone
  <1>3. Given /\ Closing
    BY RestTyped DEF Init, Given, Closing
  <1>4. QED
    BY <1>1, <1>2, <1>3 DEF JobInv

\* Changes of the pull request and the passage of time.
LEMMA WorldKeeps ==
  ASSUME JobInv, ClosePR \/ ReopenPR \/ Expire \/ \E f \in Facts : EditPR(f)
  PROVE  JobInv'
  <1>1. /\ UNCHANGED <<trigger, phase, attempt, hash, current, mapping, shadow, pc, me, failures>>
        /\ due' = due \/ due' = "past"
        /\ open' \in BOOLEAN /\ fact' \in Facts /\ changes' \in Nat
    <2>1. CASE Expire
      BY <2>1 DEF JobInv, TypeOK, Expire, pull
    <2>2. ASSUME NEW o \in BOOLEAN, NEW f \in Facts, Change(o, f)
          PROVE  /\ UNCHANGED <<row, current, mapping, shadow, pc, me, failures>>
                 /\ open' \in BOOLEAN /\ fact' \in Facts /\ changes' \in Nat
      BY <2>2 DEF JobInv, TypeOK, Change
    <2>3. \/ Expire
          \/ \E o \in BOOLEAN, f \in Facts : Change(o, f)
      BY DEF ClosePR, ReopenPR, EditPR, JobInv, TypeOK
    <2>4. QED
      BY <2>1, <2>2, <2>3 DEF row
  <1>2. TypeOK'
    BY <1>1 DEF JobInv, TypeOK, mapping
  <1>3. Rowed' /\ Superseding' /\ Claimed' /\ Alone'
    BY <1>1 DEF JobInv, Rowed, Superseding, Claimed, Alone
  <1>4. Given' /\ Closing'
    BY <1>1 DEF JobInv, Given, Closing, Exists, mapping
  <1>5. QED
    BY <1>2, <1>3, <1>4 DEF JobInv

LEMMA JobStep == JobInv /\ [Next]_vars => JobInv'
  <1> SUFFICES ASSUME JobInv, [Next]_vars PROVE JobInv'
    OBVIOUS
  <1>0. Requests \subseteq Actors /\ Schedulers \subseteq Actors /\ Watchers \subseteq Actors
    BY DEF Actors
  <1>1. CASE ClosePR \/ ReopenPR \/ Expire \/ \E f \in Facts : EditPR(f)
    BY <1>1, WorldKeeps
  <1>2. CASE \E a \in Requests : AskEnsure(a) \/ \E m \in BOOLEAN : AskClose(a, m)
    BY <1>0, <1>2, OtherKeeps
  <1>3. CASE \E a \in Schedulers : Wake(a)
    BY <1>0, <1>3, ReadingKeeps
  <1>4. CASE \E a \in Watchers : Watch(a)
    BY <1>0, <1>4, OtherKeeps
  <1>5. ASSUME NEW a \in Actors, Step(a) PROVE JobInv'
    <2>1. CASE Insert(a) \/ Supersede(a) \/ Reopen(a) \/ Refresh(a) \/ Requeue(a)
      BY <2>1, EnqueueKeeps
    <2>2. CASE ReadJob(a) \/ ReadReopened(a) \/ Reread(a) \/ ReadRequeued(a)
      BY <2>2, ReadingKeeps
    <2>3. CASE Begin(a) \/ Observe(a) \/ Check(a) \/ WriteRefused(a) \/ TimeOut(a)
      BY <2>3, AttemptKeeps
    <2>4. CASE Claim(a)
      BY <2>4, ClaimKeeps
    <2>5. CASE Write(a)
      BY <2>5, WriteKeeps
    <2>6. CASE Finish(a)
      BY <2>6, FinishKeeps
    <2>7. CASE Fail(a)
      BY <2>7, FailKeeps
    <2>8. CASE Mark(a) \/ Scan(a) \/ Upsert(a)
      BY <2>8, OtherKeeps
    <2>9. QED
      BY <1>5, <2>1, <2>2, <2>3, <2>4, <2>5, <2>6, <2>7, <2>8 DEF Step
  <1>6. ASSUME NEW a \in Actors, Fault(a) PROVE JobInv'
    <2>1. CASE WriteLost(a)
      BY <2>1, WriteKeeps
    <2>2. CASE Deny(a) \/ Break(a)
      BY <2>2, AttemptKeeps
    <2>3. CASE Crash(a)
      BY <2>3, OtherKeeps
    <2>4. QED
      BY <1>6, <2>1, <2>2, <2>3 DEF Fault
  <1>7. CASE UNCHANGED vars
    <2>1. UNCHANGED <<open, fact, trigger, phase, attempt, due, hash, current, mapNum, mapState,
                      stray, shadow, pc, me, changes, failures>>
      BY <1>7 DEF vars, pull, row, mapping
    <2>2. TypeOK'
      BY <2>1 DEF JobInv, TypeOK
    <2>3. Rowed' /\ Superseding' /\ Claimed' /\ Alone'
      BY <2>1 DEF JobInv, Rowed, Superseding, Claimed, Alone
    <2>4. Given' /\ Closing'
      BY <2>1 DEF JobInv, Given, Closing, Exists
    <2>5. QED
      BY <2>2, <2>3, <2>4 DEF JobInv
  <1>8. QED
    BY <1>1, <1>2, <1>3, <1>4, <1>5, <1>6, <1>7 DEF Next

\* The inductive invariant holds: in particular at most one attempt has a live claim
\* on the row, and it works for the row's trigger.
THEOREM JobInvariant == Spec => []JobInv
  <1>1. Init => JobInv
    BY InitJob
  <1>2. JobInv /\ [Next]_vars => JobInv'
    BY JobStep
  <1>3. QED
    BY <1>1, <1>2, PTL DEF Spec

\* The variables keep their types; in particular no job is attempted more often than
\* githubProjectionMaxAttempts allows.
THEOREM ProjectionTypeCorrect == Spec => []TypeOK
  <1>1. JobInv => TypeOK
    BY DEF JobInv
  <1>2. QED
    BY <1>1, JobInvariant, PTL

-----------------------------------------------------------------------------

\* Attempts are given back only by a compare-and-set that queues the row again.
LEMMA QueueOrKeep ==
  ASSUME JobInv, [Next]_vars, attempt' < attempt
  PROVE  \E a \in Actors :
            Insert(a) \/ Supersede(a) \/ Reopen(a) \/ Refresh(a) \/ Requeue(a)
  <1>0. attempt \in Nat
    BY BoundsAssumption DEF JobInv, TypeOK
  <1>a. ~UNCHANGED row
    BY <1>0 DEF row
  <1>1. ~(ClosePR \/ ReopenPR \/ \E f \in Facts : EditPR(f))
    BY <1>a DEF ClosePR, ReopenPR, EditPR, Change
  <1>2. ~Expire
    BY <1>0 DEF Expire
  <1>3. \A a \in Actors : ~(AskEnsure(a) \/ \E m \in BOOLEAN : AskClose(a, m))
    BY <1>a DEF AskEnsure, AskClose
  <1>4. \A a \in Actors : ~(Wake(a) \/ Watch(a))
    BY <1>a DEF Wake, ReadRow, Watch, Quiet
  <1>5. \A a \in Actors : ~Fault(a)
    BY <1>a DEF Fault, WriteLost, Deny, Break, Crash
  <1>6. ASSUME NEW a \in Actors, Step(a)
        PROVE  Insert(a) \/ Supersede(a) \/ Reopen(a) \/ Refresh(a) \/ Requeue(a)
    <2>1. ~(ReadJob(a) \/ ReadReopened(a) \/ Reread(a) \/ ReadRequeued(a))
      BY <1>a DEF ReadJob, ReadReopened, Reread, ReadRequeued, ReadRow
    <2>2. ~(Begin(a) \/ Check(a) \/ WriteRefused(a) \/ TimeOut(a))
      BY <1>a DEF Begin, Check, WriteRefused, TimeOut, Quiet
    <2>3. ~(Observe(a) \/ Scan(a))
      BY <1>a DEF Observe, Scan, Quiet
    <2>4. ~(Write(a) \/ Mark(a) \/ Upsert(a))
      BY <1>a DEF Write, Mark, Upsert
    <2>5. ~Claim(a)
      BY <1>0 DEF Claim, SetRow, row
    <2>6. ~(Finish(a) \/ Fail(a))
      BY <1>0 DEF Finish, Fail, SetRow, row
    <2>7. QED
      BY <1>6, <2>1, <2>2, <2>3, <2>4, <2>5, <2>6 DEF Step
  <1>7. ~UNCHANGED vars
    BY <1>a DEF vars
  <1>8. QED
    BY <1>1, <1>2, <1>3, <1>4, <1>5, <1>6, <1>7 DEF Next, Actors

\* ... which then has taken effect.
LEMMA QueueHit ==
  ASSUME NEW hit \in BOOLEAN, NEW t, NEW h, Queue(hit, t, h), attempt' # attempt
  PROVE  hit /\ trigger' = t /\ hash' = h
  BY DEF Queue, SetRow, row

\* ... and has a reason to.
LEMMA BackoffStep ==
  ASSUME JobInv, [Next]_vars, attempt' < attempt
  PROVE  trigger' # trigger \/ hash' # hash \/ phase \in Terminal
  <1>0. attempt \in Nat /\ attempt' \in Nat /\ attempt' # attempt
    BY BoundsAssumption, JobStep DEF JobInv, TypeOK
  <1>1. PICK a \in Actors : Insert(a) \/ Supersede(a) \/ Reopen(a) \/ Refresh(a) \/ Requeue(a)
    BY QueueOrKeep
  <1>2. phase # "none"
    BY <1>0 DEF JobInv, Rowed
  <1>3. due = "null" => phase \in Terminal
    BY <1>2 DEF JobInv, Rowed
  <1>4. CASE Insert(a)
    BY <1>0, <1>2, <1>4, QueueHit DEF Insert
  <1>5. CASE Supersede(a)
    <2>1. trigger = "ensure" /\ trigger' = "close"
      BY <1>0, <1>5, QueueHit DEF Supersede
    <2>2. QED
      BY <2>1
  <1>6. CASE Reopen(a)
    <2>1. Unchanged(a, "close") \in BOOLEAN
      BY DEF Unchanged
    <2>2. Unchanged(a, "close") /\ trigger' = "ensure"
      BY <1>0, <1>6, <2>1, QueueHit DEF Reopen
    <2>3. trigger = "close"
      BY <1>6, <2>2 DEF Reopen, Unchanged, JobInv, Superseding
    <2>4. QED
      BY <2>2, <2>3
  <1>7. CASE Refresh(a)
    <2>1. Unchanged(a, "ensure") \in BOOLEAN
      BY DEF Unchanged
    <2>2. Unchanged(a, "ensure") /\ hash' = me[a].fact
      BY <1>0, <1>7, <2>1, QueueHit DEF Refresh
    <2>3. CASE a \in current
      BY <1>7, <2>2, <2>3 DEF Refresh, JobInv, Superseding
    <2>4. CASE a \notin current
      BY <1>3, <2>2, <2>4 DEF Unchanged
    <2>5. QED
      BY <2>3, <2>4
  <1>8. CASE Requeue(a)
    <2>1. phase = "projected"
      BY <1>0, <1>8, QueueHit DEF Requeue
    <2>2. QED
      BY <2>1 DEF Terminal
  <1>9. QED
    BY <1>1, <1>4, <1>5, <1>6, <1>7, <1>8

\* No duplicate dispatch, retry or watch round gives an unfinished job its attempts
\* back: that takes a new trigger or a changed fact.
THEOREM BackoffsStay == Spec => BackoffKept
  <1>1. JobInv /\ [Next]_vars =>
            [attempt' < attempt => \/ trigger' # trigger
                                   \/ hash' # hash
                                   \/ phase \in Terminal]_vars
    BY BackoffStep
  <1>2. QED
    BY <1>1, JobInvariant, PTL DEF Spec, BackoffKept

-----------------------------------------------------------------------------
(* The receipt of a close.                                                  *)

Active == {"observe", "check", "write", "finish"}

\* Between reading the mapping and recording it, a close with a live claim goes by
\* the mapping's number, if there is one: nobody but the owner of a claim and a watch
\* round writes it.
Sure(p, m) ==
    p \in Active /\ trigger = "close" /\ ~stray => mapNum \in {0, m.num}

Known == \A a \in current : Sure(pc[a], me[a])

ReceiptInv == JobInv /\ Known /\ CloseReceipt

\* Steps that keep the mapping's number and finish no job.
LEMMA CalmKeeps ==
  ASSUME ReceiptInv, JobInv', NEW a \in Actors, NEW p \in Places, NEW m \in Knowledge,
         To(a, p, m),
         Grows, mapNum' = mapNum, mapState' = mapState \/ mapState' = "closed",
         current' \subseteq current \cup {a},
         (trigger' = trigger /\ phase' = phase) \/ phase' # "projected",
         trigger' = trigger \/ current' = {},
         stray' = stray \/ (a \in current /\ pc[a] \in Attempting /\ phase' = phase),
         a \in current' => Sure(p, m) /\ (stray' # stray => mapNum = m.num)
  PROVE  ReceiptInv'
  <1>1. /\ pc'[a] = p
        /\ me'[a].num \in {0, m.num}
        /\ p \in {"claim"} \cup Attempting => me'[a].want = m.want
        /\ p \in ({"reopen", "refresh"} \cup Attempting) \ {"fail", "denied"} => me'[a] = m
        /\ \A b \in Actors \ {a} : pc'[b] = pc[b] /\ me'[b] = me[b]
    BY ToMoves DEF ReceiptInv, JobInv
  <1>2. stray' # stray => /\ phase # "projected" /\ phase' # "projected"
                          /\ \A b \in current \ {a} : pc[b] \notin Active
    BY DEF ReceiptInv, JobInv, Claimed, Alone, Active, Attempting
  <1>3. Known'
    <2>1. current' \subseteq Actors
      BY DEF JobInv, TypeOK
    <2>2. SUFFICES ASSUME NEW b \in current' PROVE Sure(pc[b], me[b])'
      BY DEF Known
    <2>3. CASE b = a
      BY <1>1, <2>2, <2>3 DEF Sure, Active, Attempting
    <2>4. CASE b # a
      BY <1>1, <1>2, <2>1, <2>2, <2>4 DEF ReceiptInv, Known, Sure
    <2>5. QED
      BY <2>3, <2>4
  <1>4. CloseReceipt'
    <2>1. mapNum \in 0 .. MaxShadows
      BY DEF ReceiptInv, JobInv, TypeOK
    <2>2. QED
      BY <1>2, <2>1 DEF ReceiptInv, CloseReceipt, Grows, Numbers
  <1>5. QED
    BY <1>3, <1>4 DEF ReceiptInv

LEMMA SameShadows ==
  ASSUME UNCHANGED <<mapping, shadow>>
  PROVE  Grows /\ mapNum' = mapNum /\ mapState' = mapState /\ stray' = stray
  BY DEF Grows, Exists, mapping

\* Enqueueing, claiming and the steps that lead out of an attempt.
LEMMA OutsideReceipt ==
  ASSUME ReceiptInv, JobInv', NEW a \in Actors,
         NEW p \in Places \ Active, NEW m \in Knowledge, To(a, p, m),
         UNCHANGED <<mapping, shadow>>,
         current' \subseteq current \cup {a},
         (trigger' = trigger /\ phase' = phase) \/ phase' # "projected",
         trigger' = trigger \/ current' = {}
  PROVE  ReceiptInv'
  <1>1. Sure(p, m)
    BY DEF Sure
  <1>2. QED
    BY <1>1, SameShadows, CalmKeeps

LEMMA QueueReceipt ==
  ASSUME ReceiptInv, JobInv', NEW a \in Actors,
         Insert(a) \/ Supersede(a) \/ Reopen(a) \/ Refresh(a) \/ Requeue(a)
  PROVE  ReceiptInv'
  <1>1. \E p \in {"idle", "read", "reread", "reopened", "requeued"} : To(a, p, me[a])
    BY DEF Insert, Supersede, Reopen, Refresh, Requeue
  <1>2. {"idle", "read", "reread", "reopened", "requeued"} \subseteq
            Places \ Active
    BY DEF Places, Enqueueing, Attempting, Active
  <1>3. \A hit, t, h : Queue(hit, t, h) =>
          /\ UNCHANGED <<mapping, shadow>>
          /\ current' \subseteq current
          /\ (trigger' = trigger /\ phase' = phase) \/ phase' # "projected"
          /\ trigger' = trigger \/ current' = {}
    BY DEF Queue, SetRow, row
  <1>4. \E hit, t, h : Queue(hit, t, h)
    BY DEF Insert, Supersede, Reopen, Refresh, Requeue
  <1>5. me[a] \in Knowledge
    BY DEF ReceiptInv, JobInv, TypeOK
  <1>6. QED
    BY <1>1, <1>2, <1>3, <1>4, <1>5, OutsideReceipt

LEMMA ReadReceipt ==
  ASSUME ReceiptInv, JobInv', NEW a \in Actors,
         ReadJob(a) \/ ReadReopened(a) \/ Reread(a) \/ ReadRequeued(a) \/ Wake(a)
  PROVE  ReceiptInv'
  <1>0. {"idle", "supersede", "reopen", "refresh", "claim", "requeue", "mark"} \subseteq
            Places \ Active
    BY DEF Places, Enqueueing, Attempting, Active
  <1>1. /\ me[a] \in Knowledge /\ attempt \in 0 .. MaxAttempts /\ phase \in Phases
        /\ trigger \in Triggers
    BY DEF ReceiptInv, JobInv, TypeOK
  <1>2. Seen(a) \in Knowledge
    BY <1>1 DEF Seen, Knowledge
  <1>3. /\ [Seen(a) EXCEPT !.want = trigger] \in Knowledge
        /\ [Rest EXCEPT !.want = trigger] \in Knowledge
    BY <1>1, <1>2, RestTyped DEF Knowledge
  <1>4. \E p \in {"idle", "supersede", "reopen", "refresh", "claim", "requeue", "mark"},
           m \in Knowledge : To(a, p, m)
    <2>1. CASE ReadJob(a)
      BY <1>2, <2>1 DEF ReadJob, Admit
    <2>2. CASE ReadReopened(a)
      BY <1>2, <2>2 DEF ReadReopened, Admit
    <2>3. CASE Reread(a)
      BY <1>2, <2>3 DEF Reread, Admit
    <2>4. CASE ReadRequeued(a)
      BY <1>3, <2>4 DEF ReadRequeued
    <2>5. CASE Wake(a)
      BY <1>3, <2>5 DEF Wake
    <2>6. QED
      BY <2>1, <2>2, <2>3, <2>4, <2>5
  <1>5. /\ UNCHANGED <<mapping, shadow>> /\ current' \subseteq current \cup {a}
        /\ trigger' = trigger /\ phase' = phase
    BY DEF ReadJob, ReadReopened, Reread, ReadRequeued, Wake, ReadRow, row
  <1>6. QED
    BY <1>0, <1>4, <1>5, OutsideReceipt

\* Steps that leave the row, the mapping and GitHub alone, or end a claim.
LEMMA LeaveReceipt ==
  ASSUME ReceiptInv, JobInv', NEW a \in Actors,
         \/ AskEnsure(a) \/ \E m \in BOOLEAN : AskClose(a, m)
         \/ Claim(a) \/ Fail(a) \/ Crash(a)
         \/ Deny(a) \/ WriteRefused(a) \/ TimeOut(a) \/ Break(a)
  PROVE  ReceiptInv'
  <1>0. {"idle", "insert", "begin", "fail", "denied"} \subseteq
            Places \ Active
    BY DEF Places, Enqueueing, Attempting, Active
  <1>1. me[a] \in Knowledge /\ fact \in Facts
    BY DEF ReceiptInv, JobInv, TypeOK
  <1>2. \A m \in BOOLEAN :
          /\ [Rest EXCEPT !.fact = fact] \in Knowledge
          /\ [Rest EXCEPT !.want = "close", !.fact = fact, !.mark = m] \in Knowledge
    BY <1>1, RestTyped DEF Knowledge, Triggers
  <1>3. [Rest EXCEPT !.want = me[a].want, !.mark = me[a].mark] \in Knowledge
    BY <1>1, RestTyped DEF Knowledge
  <1>4. \E p \in {"idle", "insert", "begin", "fail", "denied"}, m \in Knowledge : To(a, p, m)
    <2>1. CASE AskEnsure(a) \/ \E m \in BOOLEAN : AskClose(a, m)
      BY <1>2, <2>1 DEF AskEnsure, AskClose
    <2>2. CASE Claim(a)
      BY <1>3, <2>2, RestTyped DEF Claim
    <2>3. CASE Fail(a) \/ Crash(a)
      BY <2>3, RestTyped DEF Fail, Crash
    <2>4. CASE Deny(a) \/ WriteRefused(a) \/ TimeOut(a) \/ Break(a)
      BY <1>1, <2>4 DEF Deny, WriteRefused, TimeOut, Break
    <2>5. QED
      BY <2>1, <2>2, <2>3, <2>4
  <1>5. /\ UNCHANGED <<mapping, shadow>> /\ current' \subseteq current \cup {a}
        /\ (trigger' = trigger /\ phase' = phase) \/ phase' # "projected"
        /\ trigger' = trigger
    <2>1. CASE Claim(a)
      BY <2>1 DEF Claim, SetRow, row
    <2>2. CASE Fail(a)
      BY <2>2 DEF Fail, SetRow, row
    <2>3. CASE ~Claim(a) /\ ~Fail(a)
      BY <2>3 DEF AskEnsure, AskClose, Crash, Deny, WriteRefused, TimeOut, Break, Quiet, row
    <2>4. QED
      BY <2>1, <2>2, <2>3
  <1>6. QED
    BY <1>0, <1>4, <1>5, OutsideReceipt

\* The steps that lead an attempt to its result.
LEMMA ActiveReceipt ==
  ASSUME ReceiptInv, JobInv', NEW a \in Actors, Begin(a) \/ Observe(a) \/ Check(a)
  PROVE  ReceiptInv'
  <1>0. {"observe", "check", "write", "finish", "fail"} \subseteq Places
    BY DEF Places, Attempting
  <1>1. /\ me[a] \in Knowledge /\ mapNum \in 0 .. MaxShadows
        /\ a \in current => Sure(pc[a], me[a])
    BY DEF ReceiptInv, JobInv, TypeOK, Known
  <1>2. /\ UNCHANGED <<mapNum, mapState, shadow>> /\ current' = current
        /\ trigger' = trigger /\ phase' = phase
        /\ ~Begin(a) => UNCHANGED <<mapping, shadow>>
    BY DEF Begin, Observe, Check, Quiet, row, mapping
  <1>3. CASE Begin(a)
    <2> DEFINE m == [me[a] EXCEPT !.num = mapNum, !.state = "none"]
    <2>1. m \in Knowledge /\ m.num = mapNum
      BY <1>1 DEF Knowledge, States
    <2>2. \E p \in {"observe", "finish", "fail"} : To(a, p, m)
      BY <1>3 DEF Begin
    <2> HIDE DEF m
    <2>3. PICK p \in {"observe", "finish", "fail"} : To(a, p, m)
      BY <2>2
    <2>4. Sure(p, m)
      BY <2>1, <2>3 DEF Sure
    <2>5. stray' = stray \/ (a \in current /\ pc[a] \in Attempting)
      BY <1>3 DEF Begin, Attempting, ReceiptInv, JobInv, TypeOK
    <2>6. Grows
      BY <1>2 DEF Grows, Exists
    <2>7. p \in Places
      BY <1>0, <2>3
    <2>8. QED
      BY <1>2, <2>1, <2>3, <2>4, <2>5, <2>6, <2>7, CalmKeeps
  <1>4. CASE Observe(a)
    <2>0. UNCHANGED <<mapping, shadow>>
      BY <1>4 DEF Observe, Quiet
    <2>1. PICK n \in 0 .. MaxShadows :
             /\ Observed(me[a].num, n)
             /\ To(a, IF StateOf(n) = "open" \/ (me[a].want = "ensure" /\ n = 0)
                      THEN "check" ELSE "finish",
                   [me[a] EXCEPT !.num = n, !.state = StateOf(n)])
      BY <1>4 DEF Observe
    <2> DEFINE m == [me[a] EXCEPT !.num = n, !.state = StateOf(n)]
    <2>2. StateOf(n) \in States
      BY <2>1 DEF StateOf, ReceiptInv, JobInv, TypeOK, Numbers, States
    <2>3. m \in Knowledge /\ m.want = me[a].want /\ m.num = n
      BY <1>1, <2>1, <2>2 DEF Knowledge
    <2>4. \E p \in {"check", "finish"} : To(a, p, m)
      BY <2>1
    <2> HIDE DEF m
    <2>5. PICK p \in {"check", "finish"} : To(a, p, m)
      BY <2>4
    <2>6. a \in current /\ trigger = "close" /\ ~stray => mapNum \in {0, n}
      <3>1. pc[a] = "observe"
        BY <1>4 DEF Observe
      <3>2. a \in current /\ trigger = "close" /\ ~stray => mapNum \in {0, me[a].num}
        BY <1>1, <3>1 DEF Sure, Active
      <3>3. me[a].num # 0 => n = me[a].num
        BY <2>1 DEF Observed
      <3>4. QED
        BY <3>2, <3>3
    <2>7. a \in current => Sure(p, m)
      BY <2>3, <2>5, <2>6 DEF Sure
    <2>8. QED
      BY <1>0, <1>2, <2>0, <2>3, <2>5, <2>7, SameShadows, CalmKeeps
  <1>5. CASE Check(a)
    <2>0. UNCHANGED <<mapping, shadow>>
      BY <1>5 DEF Check, Quiet
    <2>1. PICK p \in {"write", "fail"} : To(a, p, me[a])
      BY <1>5 DEF Check
    <2>2. a \in current => Sure(p, me[a])
      BY <1>1, <1>5, <2>1 DEF Check, Sure, Active
    <2>3. QED
      BY <1>0, <1>1, <1>2, <2>0, <2>1, <2>2, SameShadows, CalmKeeps
  <1>6. QED
    BY <1>3, <1>4, <1>5

\* The writes on GitHub, and the mark after a close.
LEMMA WriteReceipt ==
  ASSUME ReceiptInv, JobInv', NEW a \in Actors, Write(a) \/ WriteLost(a) \/ Mark(a)
  PROVE  ReceiptInv'
  <1>0. {"finish", "fail", "idle"} \subseteq Places
    BY DEF Places, Attempting
  <1>1. /\ me[a] \in Knowledge
        /\ a \in current => Sure(pc[a], me[a])
    BY DEF ReceiptInv, JobInv, TypeOK, Known
  <1>2. current' = current /\ trigger' = trigger /\ phase' = phase /\ mapNum' = mapNum
        /\ (mapState' = mapState \/ mapState' = "closed") /\ stray' = stray
    BY DEF Write, WriteLost, Mark, mapping, row
  <1>3. CASE Write(a)
    <2>1. PICK n \in Numbers :
             Lands(a, n) /\ To(a, "finish", [me[a] EXCEPT !.num = n, !.state = shadow'[n]])
      BY <1>3 DEF Write
    <2> DEFINE m == [me[a] EXCEPT !.num = n, !.state = shadow'[n]]
    <2>2. m \in Knowledge /\ m.num = n
      <3>1. n \in 0 .. MaxShadows /\ shadow'[n] \in States
        BY <2>1, LandsGrows, BoundsAssumption DEF Numbers, ReceiptInv
      <3>2. QED
        BY <1>1, <3>1 DEF Knowledge
    <2>3. Grows /\ (me[a].num # 0 => n = me[a].num)
      BY <2>1, LandsGrows DEF ReceiptInv
    <2>4. To(a, "finish", m)
      BY <2>1
    <2> HIDE DEF m
    <2>6. a \in current /\ trigger = "close" /\ ~stray => mapNum \in {0, n}
      <3>1. pc[a] = "write"
        BY <1>3 DEF Write
      <3>2. a \in current /\ trigger = "close" /\ ~stray => mapNum \in {0, me[a].num}
        BY <1>1, <3>1 DEF Sure, Active
      <3>3. QED
        BY <2>3, <3>2
    <2>7. a \in current => Sure("finish", m)
      BY <2>2, <2>6 DEF Sure
    <2>8. QED
      BY <1>0, <1>2, <2>2, <2>3, <2>4, <2>7, CalmKeeps
  <1>4. CASE WriteLost(a)
    <2>1. Grows /\ To(a, "fail", me[a])
      BY <1>4, LandsGrows DEF WriteLost, ReceiptInv
    <2>2. Sure("fail", me[a])
      BY DEF Sure, Active
    <2>3. QED
      BY <1>0, <1>1, <1>2, <2>1, <2>2, CalmKeeps
  <1>5. CASE Mark(a)
    <2>1. Grows /\ To(a, "idle", Rest)
      BY <1>5 DEF Mark, Grows, Exists
    <2>2. Sure("idle", Rest)
      BY DEF Sure, Active
    <2>3. QED
      BY <1>0, <1>2, <2>1, <2>2, RestTyped, CalmKeeps
  <1>6. QED
    BY <1>3, <1>4, <1>5

\* A finished close has closed what it records; a finished ensure is no receipt.
LEMMA FinishReceipt ==
  ASSUME ReceiptInv, JobInv', NEW a \in Actors, Finish(a)
  PROVE  ReceiptInv'
  <1>1. /\ me[a] \in Knowledge /\ mapNum \in 0 .. MaxShadows
        /\ pc[a] = "finish" /\ current \subseteq Actors
    BY DEF ReceiptInv, JobInv, TypeOK, Finish
  <1>2. CASE ~Finishable(a)
    <2>1. /\ UNCHANGED <<mapping, shadow>> /\ current' = current /\ To(a, "fail", me[a])
          /\ trigger' = trigger /\ phase' = phase
      BY <1>2 DEF Finish, row
    <2>2. "fail" \in Places \ Active
      BY DEF Places, Attempting, Active
    <2>3. QED
      BY <1>1, <2>1, <2>2, OutsideReceipt
  <1>3. CASE Finishable(a)
    <2>1. /\ a \in current /\ trigger' = trigger /\ current' = {} /\ shadow' = shadow
          /\ RecordMapping(a) /\ stray' = stray
      BY <1>3 DEF Finish, Finishable, Holds, SetRow, RecordMapping, mapping
    <2>6. Known'
      BY <2>1 DEF Known
    <2>7. CloseReceipt'
      <3>1. me[a].want = trigger
        BY <1>1, <2>1 DEF ReceiptInv, JobInv, Claimed, Attempting
      <3>2. trigger = "close" /\ ~stray => mapNum \in {0, me[a].num}
        BY <1>1, <2>1 DEF ReceiptInv, Known, Sure, Active
      <3>3. SUFFICES ASSUME trigger = "close", mapNum' # 0, ~stray
                     PROVE  mapState' = "closed" /\ shadow[mapNum'] = "closed"
        BY <2>1 DEF CloseReceipt
      <3>4. CASE me[a].num = 0
        BY <2>1, <3>1, <3>2, <3>3, <3>4 DEF RecordMapping, mapping
      <3>5. CASE me[a].num # 0
        <4>1. mapNum' = me[a].num /\ mapState' = "closed"
          BY <2>1, <3>1, <3>3, <3>5 DEF RecordMapping, mapping
        <4>2. shadow[me[a].num] = "closed"
          BY <1>1, <3>1, <3>3, <3>5 DEF ReceiptInv, JobInv, Closing
        <4>3. QED
          BY <4>1, <4>2
      <3>6. QED
        BY <3>4, <3>5
    <2>8. QED
      BY <2>6, <2>7 DEF ReceiptInv
  <1>4. QED
    BY <1>2, <1>3

\* Steps of the world around the actors.
LEMMA WorldReceipt ==
  ASSUME ReceiptInv, JobInv', ClosePR \/ ReopenPR \/ Expire \/ \E f \in Facts : EditPR(f)
  PROVE  ReceiptInv'
  <1>1. UNCHANGED <<trigger, phase, current, mapNum, mapState, stray, shadow, pc, me>>
    BY DEF ClosePR, ReopenPR, Expire, EditPR, Change, row, mapping
  <1>2. CloseReceipt'
    BY <1>1 DEF ReceiptInv, CloseReceipt
  <1>3. Known'
    BY <1>1 DEF ReceiptInv, Known, Sure
  <1>4. QED
    BY <1>2, <1>3 DEF ReceiptInv

\* A watch round looks at GitHub, and may write the mapping of a close at work.
LEMMA WatchReceipt ==
  ASSUME ReceiptInv, JobInv', NEW a \in Actors, Watch(a) \/ Scan(a) \/ Upsert(a)
  PROVE  ReceiptInv'
  <1>1. CASE Watch(a) \/ Scan(a)
    <2>1. \A b \in Actors \ {a} : pc'[b] = pc[b] /\ me'[b] = me[b]
      BY <1>1 DEF Watch, Scan, To, ReceiptInv, JobInv, TypeOK
    <2>2. pc'[a] \notin Active
      BY <1>1 DEF Watch, Scan, To, Active, ReceiptInv, JobInv, TypeOK
    <2>3. UNCHANGED <<trigger, phase, current, mapNum, mapState, stray, shadow>>
      BY <1>1 DEF Watch, Scan, Quiet, row, mapping
    <2>4. Known'
      BY <2>1, <2>2, <2>3 DEF Known, Sure, ReceiptInv, JobInv, TypeOK
    <2>5. CloseReceipt'
      BY <2>3 DEF CloseReceipt, ReceiptInv
    <2>6. QED
      BY <2>4, <2>5 DEF ReceiptInv
  <1>2. CASE Upsert(a)
    <2>1. trigger' = trigger /\ (trigger = "close" => stray')
      BY <1>2 DEF Upsert, row
    <2>2. Known' /\ CloseReceipt'
      BY <2>1 DEF Known, Sure, CloseReceipt
    <2>3. QED
      BY <2>2 DEF ReceiptInv
  <1>3. QED
    BY <1>1, <1>2

LEMMA ReceiptStep ==
  ASSUME ReceiptInv, [Next]_vars
  PROVE  ReceiptInv'
  <1>0. JobInv'
    BY JobStep DEF ReceiptInv
  <1>1. CASE ClosePR \/ ReopenPR \/ Expire \/ \E f \in Facts : EditPR(f)
    BY <1>0, <1>1, WorldReceipt
  <1>2. CASE \E a \in Requests : AskEnsure(a) \/ \E m \in BOOLEAN : AskClose(a, m)
    BY <1>0, <1>2, LeaveReceipt DEF Actors
  <1>3. CASE \E a \in Schedulers : Wake(a)
    BY <1>0, <1>3, ReadReceipt DEF Actors
  <1>4. CASE \E a \in Watchers : Watch(a)
    BY <1>0, <1>4, WatchReceipt DEF Actors
  <1>5. ASSUME NEW a \in Actors, Step(a) PROVE ReceiptInv'
    <2>1. CASE Insert(a) \/ Supersede(a) \/ Reopen(a) \/ Refresh(a) \/ Requeue(a)
      BY <1>0, <2>1, QueueReceipt
    <2>2. CASE ReadJob(a) \/ ReadReopened(a) \/ Reread(a) \/ ReadRequeued(a)
      BY <1>0, <2>2, ReadReceipt
    <2>3. CASE Begin(a) \/ Observe(a) \/ Check(a)
      BY <1>0, <2>3, ActiveReceipt
    <2>4. CASE Claim(a) \/ Fail(a) \/ WriteRefused(a) \/ TimeOut(a)
      BY <1>0, <2>4, LeaveReceipt
    <2>5. CASE Write(a) \/ Mark(a)
      BY <1>0, <2>5, WriteReceipt
    <2>6. CASE Finish(a)
      BY <1>0, <2>6, FinishReceipt
    <2>7. CASE Scan(a) \/ Upsert(a)
      BY <1>0, <2>7, WatchReceipt
    <2>8. QED
      BY <1>5, <2>1, <2>2, <2>3, <2>4, <2>5, <2>6, <2>7 DEF Step
  <1>6. ASSUME NEW a \in Actors, Fault(a) PROVE ReceiptInv'
    <2>1. CASE WriteLost(a)
      BY <1>0, <2>1, WriteReceipt
    <2>2. CASE Deny(a) \/ Break(a) \/ Crash(a)
      BY <1>0, <2>2, LeaveReceipt
    <2>3. QED
      BY <1>6, <2>1, <2>2 DEF Fault
  <1>7. CASE UNCHANGED vars
    <2>1. UNCHANGED <<trigger, phase, current, mapNum, mapState, stray, shadow, pc, me>>
      BY <1>7 DEF vars, row, mapping
    <2>2. CloseReceipt'
      BY <2>1 DEF ReceiptInv, CloseReceipt
    <2>3. Known'
      BY <2>1 DEF ReceiptInv, Known, Sure
    <2>4. QED
      BY <1>0, <2>2, <2>3 DEF ReceiptInv
  <1>8. QED
    BY <1>1, <1>2, <1>3, <1>4, <1>5, <1>6, <1>7 DEF Next

\* A finished close job is a receipt: the shadow it recorded is closed on GitHub and
\* in the mapping, unless a watch round wrote the mapping after the close had read it.
THEOREM ClosesAreReceipts == Spec => []CloseReceipt
  <1>1. Init => ReceiptInv
    <2>1. Init => Known /\ CloseReceipt
      BY DEF Init, Known, CloseReceipt
    <2>2. QED
      BY <2>1, InitJob DEF ReceiptInv
  <1>2. ReceiptInv /\ [Next]_vars => ReceiptInv'
    BY ReceiptStep
  <1>3. ReceiptInv => CloseReceipt
    BY DEF ReceiptInv
  <1>4. QED
    BY <1>1, <1>2, <1>3, PTL DEF Spec

=============================================================================
