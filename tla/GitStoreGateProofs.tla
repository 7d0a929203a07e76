------------------------- MODULE GitStoreGateProofs -------------------------
(***************************************************************************)
(* Theorems about GitStoreGate, for any number of requests, repositories    *)
(* and scopes.  The argument has two halves: what the semaphore keeps to by *)
(* itself, whoever asks, releases or gives up, and how the program counters *)
(* of the requests follow who is in it and who is counted.                  *)
(***************************************************************************)
EXTENDS GitStoreGate, FiniteSetTheorems, FunctionTheorems, SequenceTheorems, TLAPS

\* Who is in the semaphore, and who holds some of it.
Places(s) == 1 .. Len(s.queue)
Waiting(s) == Range(s.queue)
Holders(s) == s.shared \cup ({s.exclusive} \ {NoTask})
Parties(s) == Holders(s) \cup Waiting(s)

Semaphore == [shared : SUBSET (Permits \cup {Maintainer}), exclusive : Captures \cup {NoTask},
              queue : Seq(Askers)]

\* The semaphore by itself: a capture holds it alone, a waiter waits once and holds
\* nothing, and whoever is at the head of the queue does not fit.
Sound(s) ==
    /\ s \in Semaphore
    /\ s.exclusive # NoTask => s.shared = {}
    /\ \A i, j \in Places(s) : s.queue[i] = s.queue[j] => i = j
    /\ Waiting(s) \cap Holders(s) = {}
    /\ s.queue # <<>> => ~Fits(s, Head(s.queue))

\* Where the two parts of a request can stand, and how often its lease is shared.
PushInv ==
    \A p \in Pushes :
        /\ main[p].pc # "queued"
        /\ sub[p].pc \in {"out", "entering", "draining", "queued", "working"}
        /\ sub[p].pc # "out" => main[p].pc = "working"
        /\ refs[p] = 0 /\ refs[Inner(p)] = One(sub[p].pc = "working")

\* The call's own lease has ended before its inner mutation got one.
Alone(c) == main[c].pc = "over" /\ main[c].scope = NoScope

CallInv ==
    \A c \in Calls :
        /\ main[c].pc # "admitted"
        /\ sub[c].pc \in {"out", "entering", "draining", "queued", "working"}
        /\ sub[c].pc # "out" => main[c].pc \in {"working", "over"}
        /\ sub[c].pc = "queued" => main[c].pc = "over"
        /\ main[c].pc = "over" => sub[c].pc # "out" /\ (sub[c].pc # "working" => main[c].scope = NoScope)
        /\ refs[c] = One(main[c].pc = "working") + One(sub[c].pc = "working" /\ ~Alone(c))
        /\ refs[Inner(c)] = One(sub[c].pc = "working" /\ Alone(c))

CaptureInv ==
    \A c \in Captures : main[c].pc \in {"out", "entering", "draining", "queued", "working"}

\* A task that is out has no scope, and one that is not has one.
ScopeInv ==
    /\ \A t \in Tasks :
          /\ main[t].pc = "out" => main[t].scope = NoScope
          /\ main[t].scope = NoScope => main[t].pc = "out" \/ (t \in Calls /\ main[t].pc = "over")
    /\ \A w \in Writers : sub[w].scope = NoScope <=> sub[w].pc = "out"

\* The semaphore and the tasks: those who asked for it are in it, and those who work
\* under it hold it.
InSemaphore(t) ==
    \/ main[t].pc = "queued"
    \/ t \in Captures /\ main[t].pc = "working"
    \/ t \in Writers /\ refs[t] > 0
InnerIn(w) == sub[w].pc = "queued" \/ refs[Inner(w)] > 0

PartyInv ==
    /\ \A t \in Tasks : t \in Parties(sem) <=> InSemaphore(t)
    /\ \A w \in Writers : Inner(w) \in Parties(sem) <=> InnerIn(w)
    /\ \A l \in Permits : refs[l] > 0 => l \in sem.shared
    /\ \A c \in Captures : main[c].pc = "working" => sem.exclusive = c
    /\ Maintainer \in sem.shared <=> running.on

-----------------------------------------------------------------------------
(* Sequences.                                                               *)

\* Who is in a queue.
LEMMA InRange ==
  ASSUME NEW S, NEW q \in Seq(S)
  PROVE  \A x : x \in Range(q) <=> \E i \in 1 .. Len(q) : x = q[i]
  BY LenProperties DEF Range

\* What a waiter's departure leaves of a queue in which everyone waits once.
LEMMA WithoutFacts ==
  ASSUME NEW S, NEW q \in Seq(S), NEW t, \A i, j \in 1 .. Len(q) : q[i] = q[j] => i = j
  PROVE  /\ Without(q, t) \in Seq(S)
         /\ \A i, j \in 1 .. Len(Without(q, t)) : Without(q, t)[i] = Without(q, t)[j] => i = j
         /\ Range(Without(q, t)) = Range(q) \ {t}
<1>1. CASE \A i \in 1 .. Len(q) : q[i] # t
  BY <1>1, InRange DEF Without
<1>2. CASE \E i \in 1 .. Len(q) : q[i] = t
  <2> DEFINE p == CHOOSE i \in 1 .. Len(q) : q[i] = t
             n == Len(q) - 1
             r == [i \in 1 .. n |-> q[IF i < p THEN i ELSE i + 1]]
  <2>1. p \in 1 .. Len(q) /\ q[p] = t
    BY <1>2
  <2>2. Without(q, t) = r
    BY <1>2 DEF Without
  <2> HIDE DEF p
  <2>3. Len(q) \in Nat /\ n \in Nat /\ q \in [1 .. Len(q) -> S]
    BY <2>1, LenProperties
  <2>4. \A i \in 1 .. n : r[i] = IF i < p THEN q[i] ELSE q[i + 1]
    BY <2>1, <2>3
  <2>5. r \in [1 .. n -> S]
    BY <2>1, <2>3
  <2>6. r \in Seq(S) /\ Len(r) = n
    BY <2>3, <2>5, SeqDef, LenProperties
  <2> HIDE DEF r
  <2>7. \A i, j \in 1 .. n : r[i] = r[j] => i = j
    BY <2>1, <2>3, <2>4
  <2>8. \A i \in 1 .. n : \E j \in 1 .. Len(q) : q[j] = r[i] /\ j # p
    BY <2>1, <2>3, <2>4
  <2>9. ASSUME NEW j \in 1 .. Len(q), j # p PROVE \E i \in 1 .. n : r[i] = q[j]
    <3>1. CASE j < p
      <4>1. j \in 1 .. n /\ r[j] = q[j]
        BY <2>1, <2>3, <2>4, <3>1
      <4> QED
        BY <4>1
    <3>2. CASE j > p
      <4>1. j - 1 \in 1 .. n /\ r[j - 1] = q[j]
        BY <2>1, <2>3, <2>4, <3>2
      <4> QED
        BY <4>1
    <3> QED
      BY <2>1, <2>3, <2>9, <3>1, <3>2
  <2>10. Range(r) \subseteq Range(q) \ {t}
    BY <2>1, <2>6, <2>8, InRange
  <2>11. Range(q) \ {t} \subseteq Range(r)
    <3> SUFFICES ASSUME NEW x \in Range(q), x # t PROVE x \in Range(r)
      OBVIOUS
    <3>1. PICK j \in 1 .. Len(q) : x = q[j]
      BY InRange
    <3>2. PICK i \in 1 .. n : r[i] = q[j]
      BY <2>1, <2>9, <3>1
    <3> QED
      BY <2>6, <3>1, <3>2, InRange
  <2> QED
    BY <2>2, <2>6, <2>7, <2>10, <2>11
<1> QED
  BY <1>1, <1>2

\* The writers at the head of a queue are followed by a capture or by nobody:
\* otherwise one could go on from each of them to the next for ever.
LEMMA LeadingFacts ==
  ASSUME NEW S, NEW q \in Seq(S)
  PROVE  /\ Leading(q) \in 0 .. Len(q)
         /\ \A i \in 1 .. Leading(q) : q[i] \notin Captures
         /\ Leading(q) = Len(q) \/ q[Leading(q) + 1] \in Captures
<1> DEFINE W == {n \in 0 .. Len(q) : \A i \in 1 .. n : q[i] \notin Captures}
<1>1. Len(q) \in Nat
  BY LenProperties
<1>2. 0 \in W
  BY <1>1
<1>3. IsFiniteSet(W) /\ IsFiniteSet(W \ {0}) /\ Cardinality(W) \in Nat
      /\ Cardinality(W \ {0}) = Cardinality(W) - 1
  <2>1. IsFiniteSet(0 .. Len(q))
    BY <1>1, FS_Interval
  <2>2. IsFiniteSet(W)
    BY <2>1, FS_Subset
  <2> QED
    BY <1>2, <2>2, FS_RemoveElement, FS_CardinalityType
<1>4. \E n \in W : n = Len(q) \/ q[n + 1] \in Captures
  <2> SUFFICES ASSUME \A n \in W : n # Len(q) /\ q[n + 1] \notin Captures PROVE FALSE
    OBVIOUS
  <2>1. \A n \in W : n + 1 \in W \ {0}
    BY <1>1
  <2> DEFINE f == [n \in W |-> n + 1]
  <2>2. f \in Injection(W, W \ {0})
    <3>1. f \in [W -> W \ {0}] /\ \A a, b \in W : f[a] = f[b] => a = b
      BY <2>1
    <3> QED
      BY <3>1, Fun_IsInj
  <2>3. Cardinality(W) <= Cardinality(W \ {0})
    BY <1>3, <2>2, FS_Injection
  <2> QED
    BY <1>3, <2>3
<1> QED
  BY <1>4 DEF Leading

-----------------------------------------------------------------------------
(* The semaphore.                                                           *)

\* Requests, captures, the maintainer and nobody are told apart.
LEMMA TasksFacts ==
  /\ Pushes \cap Calls = {} /\ Writers \cap Captures = {}
  /\ Maintainer \notin Tasks /\ NoTask \notin Tasks \cup {Maintainer}
  /\ Tasks \subseteq Askers /\ Writers \subseteq Permits
  BY TasksAssumption DEF Tasks, Askers, Permits

\* Inner mutations have permits of their own.
LEMMA InnerFacts ==
  /\ \A w \in Writers : Inner(w) \in Permits /\ Inner(w) \in Askers
                          /\ Inner(w) \notin Tasks /\ Inner(w) # Maintainer
  /\ \A v, w : Inner(v) = Inner(w) => v = w
  /\ \A l \in Permits : l \in Writers \/ \E w \in Writers : l = Inner(w)
<1>1. \A v, w : Inner(v) = Inner(w) => v = w
  BY DEF Inner
<1> QED
  BY <1>1, TasksAssumption DEF Tasks, Askers, Permits

\* notifyWaiters: nobody leaves, those who hold keep what they hold, and the head
\* of what is left does not fit.
LEMMA NotifiedFacts ==
  ASSUME NEW s \in Semaphore,
         s.exclusive # NoTask => s.shared = {},
         \A i, j \in Places(s) : s.queue[i] = s.queue[j] => i = j,
         Waiting(s) \cap Holders(s) = {}
  PROVE  /\ Sound(Notified(s))
         /\ Parties(Notified(s)) = Parties(s)
         /\ s.shared \subseteq Notified(s).shared
         /\ s.exclusive # NoTask => Notified(s).exclusive = s.exclusive
         /\ Maintainer \in Notified(s).shared <=> Maintainer \in s.shared
<1> USE TasksAssumption DEF Askers
<1>0. s.queue \in Seq(Askers) /\ Len(s.queue) \in Nat
  BY LenProperties DEF Semaphore
<1>1. CASE s.queue = <<>> \/ ~Fits(s, Head(s.queue))
  BY <1>1 DEF Notified, Sound
<1>2. CASE s.queue # <<>> /\ Fits(s, Head(s.queue)) /\ Head(s.queue) \in Captures
  <2> DEFINE h == Head(s.queue)
             n == [shared |-> s.shared, exclusive |-> h, queue |-> Tail(s.queue)]
  <2>1. s.exclusive = NoTask /\ s.shared = {}
    BY <1>2 DEF Fits
  <2>2. Notified(s) = n
    BY <1>2 DEF Notified, Granted, Semaphore
  <2>3. /\ Tail(s.queue) \in Seq(Askers) /\ Len(Tail(s.queue)) = Len(s.queue) - 1
        /\ Len(s.queue) >= 1 /\ h = s.queue[1]
        /\ \A i \in 1 .. Len(s.queue) - 1 : Tail(s.queue)[i] = s.queue[i + 1]
    BY <1>0, <1>2, HeadTailProperties, EmptySeq
  <2>0. n.shared = s.shared /\ n.exclusive = h /\ n.queue = Tail(s.queue)
    OBVIOUS
  <2> HIDE DEF h
  <2>4. n \in Semaphore
    BY <1>2, <2>3 DEF Semaphore, h
  <2> HIDE DEF n
  <2>5. \A i, j \in Places(n) : n.queue[i] = n.queue[j] => i = j
    <3>1. \A i \in Places(n) : n.queue[i] = s.queue[i + 1] /\ i + 1 \in Places(s) /\ i \in Nat
      BY <1>0, <2>3, <2>0 DEF Places
    <3> QED
      BY <3>1
  <2>6. Waiting(s) = Waiting(n) \cup {h} /\ h \notin Waiting(n)
    <3>1. \A i \in Places(n) : n.queue[i] = s.queue[i + 1] /\ i + 1 \in Places(s)
      BY <1>0, <2>3, <2>0 DEF Places
    <3>2. \A i \in Places(s) : i = 1 \/ (i - 1 \in Places(n) /\ n.queue[i - 1] = s.queue[i])
      BY <1>0, <2>3, <2>0 DEF Places
    <3>3. 1 \in Places(s) /\ \A i \in Places(n) : i + 1 # 1
      BY <1>0, <2>3, <2>0 DEF Places
    <3>4. \A x : x \in Waiting(n) <=> \E i \in Places(n) : x = n.queue[i]
      <4>1. n.queue \in Seq(Askers)
        BY <2>3, <2>0
      <4> QED
        BY <4>1, InRange DEF Waiting, Places
    <3>5. \A x : x \in Waiting(s) <=> \E i \in Places(s) : x = s.queue[i]
      BY <1>0, InRange DEF Waiting, Places
    <3>6. Waiting(s) \subseteq Waiting(n) \cup {h}
      BY <2>3, <3>2, <3>4, <3>5
    <3>7. Waiting(n) \subseteq Waiting(s) /\ h \in Waiting(s)
      BY <2>3, <3>1, <3>3, <3>4, <3>5
    <3>8. h \notin Waiting(n)
      BY <2>3, <3>1, <3>3, <3>4
    <3> QED
      BY <3>6, <3>7, <3>8
  <2>7. Holders(n) = {h} /\ Holders(s) = {}
    BY <1>2, <2>1, <2>0 DEF Holders, h
  <2>8. ~Fits(n, Head(n.queue))
    BY <1>2, <2>0 DEF Fits, h
  <2>9. Sound(n) /\ Parties(n) = Parties(s)
    <3>1. n.exclusive # NoTask => n.shared = {}
      BY <2>0, <2>1
    <3>2. Waiting(n) \cap Holders(n) = {}
      BY <2>6, <2>7
    <3>3. Parties(n) = Parties(s)
      BY <2>6, <2>7 DEF Parties
    <3> QED
      BY <2>4, <2>5, <2>8, <3>1, <3>2, <3>3 DEF Sound
  <2> QED
    BY <2>1, <2>2, <2>9, <2>0
<1>3. CASE s.queue # <<>> /\ Fits(s, Head(s.queue)) /\ Head(s.queue) \notin Captures
  <2> DEFINE m == Leading(s.queue)
             first == {s.queue[i] : i \in 1 .. m}
             rest == SubSeq(s.queue, m + 1, Len(s.queue))
             n == [shared |-> s.shared \cup first, exclusive |-> s.exclusive, queue |-> rest]
  <2>1. s.exclusive = NoTask
    BY <1>3 DEF Fits
  <2>2. Notified(s) = n
    BY <1>3 DEF Notified, Semaphore
  <2>3. /\ m \in 1 .. Len(s.queue) /\ \A i \in 1 .. m : s.queue[i] \notin Captures
        /\ m = Len(s.queue) \/ s.queue[m + 1] \in Captures
    BY <1>0, <1>3, LeadingFacts, HeadTailProperties, EmptySeq
  <2> HIDE DEF m
  <2>4. /\ rest \in Seq(Askers) /\ Len(rest) = Len(s.queue) - m
        /\ \A i \in 1 .. Len(s.queue) - m : rest[i] = s.queue[m + i]
    <3>1. \A i \in m + 1 .. Len(s.queue) : s.queue[i] \in Askers
      BY <1>0, <2>3, LenProperties
    <3> QED
      BY <1>0, <2>3, <3>1, SubSeqProperties
  <2> HIDE DEF rest
  <2>5. first \subseteq Permits /\ first # {}
    <3>1. \A i \in 1 .. m : s.queue[i] \in Askers
      BY <1>0, <2>3, LenProperties
    <3> QED
      BY <2>3, <3>1
  <2>6. n \in Semaphore
    BY <2>4, <2>5 DEF Semaphore
  <2>0. n.shared = s.shared \cup first /\ n.exclusive = s.exclusive /\ n.queue = rest
    OBVIOUS
  <2> HIDE DEF n
  <2>7. \A i, j \in Places(n) : n.queue[i] = n.queue[j] => i = j
    <3>1. Places(n) = 1 .. Len(s.queue) - m
      BY <2>4, <2>0 DEF Places
    <3>2. \A i \in Places(n) : n.queue[i] = s.queue[m + i] /\ m + i \in Places(s)
      BY <1>0, <2>3, <2>4, <2>0, <3>1 DEF Places
    <3> QED
      BY <1>0, <2>3, <3>1, <3>2, SMTT(20)
  <2>8. Waiting(s) = Waiting(n) \cup first /\ Waiting(n) \cap first = {}
    <3>1. \A i \in Places(n) : n.queue[i] = s.queue[m + i] /\ m + i \in Places(s) /\ m + i > m
      BY <1>0, <2>3, <2>4, <2>0 DEF Places
    <3>2. \A i \in Places(s) : i \in 1 .. m \/ (i - m \in Places(n) /\ n.queue[i - m] = s.queue[i])
      BY <1>0, <2>3, <2>4, <2>0 DEF Places
    <3>3. 1 .. m \subseteq Places(s) /\ \A i \in 1 .. m : ~(i > m)
      BY <1>0, <2>3 DEF Places
    <3>4. \A x : x \in Waiting(n) <=> \E i \in Places(n) : x = n.queue[i]
      BY <2>4, <2>0, InRange DEF Waiting, Places
    <3>5. \A x : x \in Waiting(s) <=> \E i \in Places(s) : x = s.queue[i]
      BY <1>0, InRange DEF Waiting, Places
    <3>6. \A x : x \in first <=> \E i \in 1 .. m : x = s.queue[i]
      OBVIOUS
    <3> HIDE DEF first
    <3>7. Waiting(s) \subseteq Waiting(n) \cup first
      BY <3>2, <3>4, <3>5, <3>6
    <3>8. Waiting(n) \subseteq Waiting(s) /\ first \subseteq Waiting(s)
      BY <3>1, <3>3, <3>4, <3>5, <3>6
    <3>9. Waiting(n) \cap first = {}
      BY <3>1, <3>3, <3>4, <3>6
    <3> QED
      BY <3>7, <3>8, <3>9
  <2>9. Holders(n) = Holders(s) \cup first
    BY <2>0 DEF Holders
  <2>10. n.queue # <<>> => ~Fits(n, Head(n.queue))
    <3> SUFFICES ASSUME rest # <<>> PROVE Head(rest) \in Captures
      BY <2>5, <2>0 DEF Fits
    <3>1. Len(rest) # 0 /\ Head(rest) = rest[1]
      BY <2>4, HeadTailProperties, EmptySeq
    <3> QED
      BY <1>0, <2>3, <2>4, <3>1
  <2>11. Maintainer \notin first
    BY <2>5
  <2> HIDE DEF first
  <2>12. Sound(n) /\ Parties(n) = Parties(s)
    BY <2>1, <2>0, <2>6, <2>7, <2>8, <2>9, <2>10 DEF Sound, Parties
  <2> QED
    BY <2>1, <2>2, <2>11, <2>12, <2>0
<1> QED
  BY <1>1, <1>2, <1>3

\* Acquire, up to the wait: the caller is in, and nobody loses anything.
LEMMA AskedFacts ==
  ASSUME NEW s, Sound(s), NEW t \in Askers, t \notin Parties(s)
  PROVE  /\ Sound(Asked(s, t))
         /\ Parties(Asked(s, t)) = Parties(s) \cup {t}
         /\ s.shared \subseteq Asked(s, t).shared
         /\ s.exclusive # NoTask => Asked(s, t).exclusive = s.exclusive
         /\ Maintainer \in Asked(s, t).shared <=> Maintainer \in s.shared
<1> USE TasksAssumption DEF Askers
<1>0. s \in Semaphore /\ s.queue \in Seq(Askers) /\ Len(s.queue) \in Nat
  BY LenProperties DEF Sound, Semaphore
<1>1. CASE s.queue = <<>> /\ Fits(s, t) /\ t \in Captures
  <2> DEFINE n == [shared |-> s.shared, exclusive |-> t, queue |-> s.queue]
  <2>1. Asked(s, t) = n
    BY <1>0, <1>1 DEF Asked, Granted, Semaphore
  <2>2. n \in Semaphore /\ s.shared = {} /\ s.exclusive = NoTask
    BY <1>0, <1>1 DEF Semaphore, Fits
  <2>3. Waiting(n) = {} /\ Waiting(s) = {} /\ Places(n) = {}
    BY <1>1, InRange, EmptySeq DEF Waiting, Places, Range
  <2>4. Holders(n) = {t} /\ Holders(s) = {}
    BY <1>1, <2>2 DEF Holders
  <2>5. Sound(n) /\ Parties(n) = Parties(s) \cup {t}
    BY <1>1, <2>2, <2>3, <2>4 DEF Sound, Parties
  <2> QED
    BY <2>1, <2>2, <2>5
<1>2. CASE s.queue = <<>> /\ Fits(s, t) /\ t \notin Captures
  <2> DEFINE n == [shared |-> s.shared \cup {t}, exclusive |-> s.exclusive, queue |-> s.queue]
  <2>1. Asked(s, t) = n
    BY <1>0, <1>2 DEF Asked, Granted, Semaphore
  <2>2. n \in Semaphore /\ s.exclusive = NoTask
    BY <1>0, <1>2 DEF Semaphore, Fits
  <2>3. Waiting(n) = {} /\ Waiting(s) = {} /\ Places(n) = {}
    BY <1>2, InRange, EmptySeq DEF Waiting, Places, Range
  <2>4. Holders(n) = Holders(s) \cup {t}
    BY DEF Holders
  <2>5. Sound(n) /\ Parties(n) = Parties(s) \cup {t}
    BY <1>2, <2>2, <2>3, <2>4 DEF Sound, Parties
  <2> QED
    BY <2>1, <2>2, <2>5
<1>3. CASE ~(s.queue = <<>> /\ Fits(s, t))
  <2> DEFINE q == Append(s.queue, t)
             n == [shared |-> s.shared, exclusive |-> s.exclusive, queue |-> q]
  <2>1. Asked(s, t) = n
    BY <1>0, <1>3 DEF Asked, Semaphore
  <2>2. /\ q \in Seq(Askers) /\ Len(q) = Len(s.queue) + 1 /\ q[Len(s.queue) + 1] = t
        /\ \A i \in 1 .. Len(s.queue) : q[i] = s.queue[i]
    BY <1>0, AppendProperties
  <2> HIDE DEF q
  <2>3. n \in Semaphore
    BY <1>0, <2>2 DEF Semaphore
  <2>4. \A x : x \in Range(q) <=> x \in Range(s.queue) \/ x = t
    <3>1. \A x : x \in Range(q) <=> \E i \in 1 .. Len(q) : x = q[i]
      BY <2>2, InRange
    <3>2. \A x : x \in Range(s.queue) <=> \E i \in 1 .. Len(s.queue) : x = s.queue[i]
      BY <1>0, InRange
    <3>3. \A i \in 1 .. Len(q) : i \in 1 .. Len(s.queue) \/ i = Len(s.queue) + 1
      BY <1>0, <2>2
    <3>4. 1 .. Len(s.queue) \subseteq 1 .. Len(q) /\ Len(s.queue) + 1 \in 1 .. Len(q)
      BY <1>0, <2>2
    <3> QED
      BY <2>2, <3>1, <3>2, <3>3, <3>4
  <2>5. n.queue = q /\ n.shared = s.shared /\ n.exclusive = s.exclusive
    OBVIOUS
  <2> HIDE DEF n
  <2>6. \A i, j \in Places(n) : n.queue[i] = n.queue[j] => i = j
    <3>1. \A i \in Places(s) : s.queue[i] # t
      BY <1>0, InRange DEF Parties, Waiting, Places
    <3>2. \A i, j \in Places(s) : s.queue[i] = s.queue[j] => i = j
      BY DEF Sound
    <3>3. \A i \in Places(n) : \/ i \in Places(s) /\ n.queue[i] = s.queue[i]
                               \/ i = Len(s.queue) + 1 /\ n.queue[i] = t
      <4>1. Places(n) = 1 .. Len(s.queue) + 1 /\ Places(s) = 1 .. Len(s.queue)
        BY <2>2, <2>5 DEF Places
      <4>2. \A i \in Places(n) : i \in Places(s) \/ i = Len(s.queue) + 1
        BY <1>0, <4>1
      <4>3. \A i \in Places(s) : n.queue[i] = s.queue[i]
        BY <2>2, <2>5, <4>1
      <4>4. n.queue[Len(s.queue) + 1] = t
        BY <2>2, <2>5
      <4> QED
        BY <4>2, <4>3, <4>4
    <3> QED
      BY <3>1, <3>2, <3>3
  <2>7. Waiting(n) = Waiting(s) \cup {t} /\ Holders(n) = Holders(s)
    BY <2>4, <2>5 DEF Waiting, Holders
  <2>8. n.queue # <<>> => ~Fits(n, Head(n.queue))
    <3>1. Head(q) = q[1] /\ (s.queue # <<>> => Head(s.queue) = s.queue[1] /\ Len(s.queue) >= 1)
      BY <1>0, <2>2, HeadTailProperties, EmptySeq
    <3>2. CASE s.queue = <<>>
      <4>1. Head(q) = t
        BY <2>2, <3>1, <3>2, EmptySeq
      <4> QED
        BY <1>3, <2>5, <3>2, <4>1 DEF Fits
    <3>3. CASE s.queue # <<>>
      <4>1. Head(q) = Head(s.queue)
        BY <1>0, <2>2, <3>1, <3>3
      <4> QED
        BY <2>5, <3>3, <4>1 DEF Fits, Sound
    <3> QED
      BY <3>2, <3>3
  <2>9. Sound(n) /\ Parties(n) = Parties(s) \cup {t}
    <3>1. Waiting(n) \cap Holders(n) = {}
      BY <2>7 DEF Sound, Parties
    <3>2. n.exclusive # NoTask => n.shared = {}
      BY <2>5 DEF Sound
    <3> QED
      BY <2>3, <2>6, <2>7, <2>8, <3>1, <3>2 DEF Sound, Parties
  <2> QED
    BY <2>1, <2>5, <2>9
<1> QED
  BY <1>1, <1>2, <1>3

\* Release, and the end of a wait: the caller is out, and nobody else loses anything.
LEMMA ReleasedFacts ==
  ASSUME NEW s, Sound(s), NEW t \in Askers \cup {Maintainer}
  PROVE  /\ Sound(Released(s, t))
         /\ Parties(Released(s, t)) = Parties(s) \ {t}
         /\ s.shared \ {t} \subseteq Released(s, t).shared
         /\ s.exclusive \notin {NoTask, t} => Released(s, t).exclusive = s.exclusive
         /\ Maintainer \in Released(s, t).shared <=> Maintainer \in s.shared /\ t # Maintainer
<1> USE TasksAssumption
<1> DEFINE n == [shared |-> s.shared \ {t},
                 exclusive |-> IF s.exclusive = t THEN NoTask ELSE s.exclusive,
                 queue |-> Without(s.queue, t)]
<1>0. s \in Semaphore /\ s.queue \in Seq(Askers) /\ Len(s.queue) \in Nat
  BY LenProperties DEF Sound, Semaphore
<1>1. Released(s, t) = Notified(n)
  BY DEF Released
<1>2. \A i, j \in 1 .. Len(s.queue) : s.queue[i] = s.queue[j] => i = j
  BY DEF Sound, Places
<1>3. /\ Without(s.queue, t) \in Seq(Askers)
      /\ Range(Without(s.queue, t)) = Range(s.queue) \ {t}
      /\ \A i, j \in 1 .. Len(Without(s.queue, t)) :
            Without(s.queue, t)[i] = Without(s.queue, t)[j] => i = j
  BY <1>0, <1>2, WithoutFacts
<1>4. n \in Semaphore
  BY <1>0, <1>3 DEF Semaphore
<1>5. /\ n.shared = s.shared \ {t} /\ n.queue = Without(s.queue, t)
      /\ n.exclusive = IF s.exclusive = t THEN NoTask ELSE s.exclusive
  OBVIOUS
<1> HIDE DEF n
<1>6. n.exclusive # NoTask => n.shared = {}
  BY <1>5 DEF Sound
<1>7. \A i, j \in Places(n) : n.queue[i] = n.queue[j] => i = j
  BY <1>3, <1>5 DEF Places
<1>8. Waiting(n) = Waiting(s) \ {t} /\ Holders(n) = Holders(s) \ {t}
  BY <1>3, <1>5 DEF Waiting, Holders
<1>9. Waiting(n) \cap Holders(n) = {} /\ Parties(n) = Parties(s) \ {t}
  BY <1>8 DEF Sound, Parties
<1>10. /\ Sound(Notified(n)) /\ Parties(Notified(n)) = Parties(n)
       /\ n.shared \subseteq Notified(n).shared
       /\ n.exclusive # NoTask => Notified(n).exclusive = n.exclusive
       /\ Maintainer \in Notified(n).shared <=> Maintainer \in n.shared
  BY <1>4, <1>6, <1>7, <1>9, NotifiedFacts
<1> QED
  BY <1>1, <1>5, <1>9, <1>10

-----------------------------------------------------------------------------
(* The accesses that are counted.                                           *)

AllOf == {a \in Accesses : ScopeOf(a) = {}}
Of(r) == {a \in Accesses : r \in ScopeOf(a)}

\* Every access is a request's or its inner work's.
LEMMA InAccesses ==
  /\ \A a : a \in Accesses <=> \/ \E t \in Tasks : a = <<"main", t>> /\ Inside(main[t])
                               \/ \E w \in Writers : a = <<"sub", w>> /\ Inside(sub[w])
  /\ \A t \in Tasks : ScopeOf(<<"main", t>>) = main[t].scope
  /\ \A w \in Writers : ScopeOf(<<"sub", w>>) = sub[w].scope
  BY DEF Accesses, ScopeOf

\* There are no more accesses than tasks and inner works.
LEMMA AccessesFinite == IsFiniteSet(Accesses) /\ IsFiniteSet(AllOf) /\ \A r : IsFiniteSet(Of(r))
<1>1. IsFiniteSet({"main", "sub"})
  <2>1. IsFiniteSet({"main"} \cup {"sub"})
    BY FS_Singleton, FS_AddElement
  <2>2. {"main"} \cup {"sub"} = {"main", "sub"}
    OBVIOUS
  <2> QED
    BY <2>1, <2>2
<1>2. IsFiniteSet({"main", "sub"} \X Tasks)
  BY <1>1, ScopesAssumption, FS_Product
<1>3. Accesses \subseteq {"main", "sub"} \X Tasks
  BY DEF Accesses, Tasks
<1>4. IsFiniteSet(Accesses)
  BY <1>2, <1>3, FS_Subset
<1> QED
  BY <1>4, FS_Subset DEF AllOf, Of

\* The counts change by one for each access that comes or goes.
LEMMA Entered ==
  ASSUME AccessExact, NEW a, NEW s, a \notin Accesses, Accesses' = Accesses \cup {a},
         \A b \in Accesses : ScopeOf(b)' = ScopeOf(b), ScopeOf(a)' = s, Admit(s)
  PROVE  AccessExact'
<1>1. Cardinality(AllOf') = Cardinality(AllOf) + One(s = {})
  <2>1. Cardinality(AllOf \cup {a}) = Cardinality(AllOf) + 1
    BY AccessesFinite, FS_AddElement DEF AllOf
  <2>2. Cardinality(AllOf) \in Nat
    BY AccessesFinite, FS_CardinalityType
  <2>3. CASE s = {}
    <3>1. AllOf' = AllOf \cup {a}
      BY <2>3 DEF AllOf
    <3> QED
      BY <2>1, <2>3, <3>1 DEF One
  <2>4. CASE s # {}
    <3>1. AllOf' = AllOf
      BY <2>4 DEF AllOf
    <3> QED
      BY <2>2, <2>4, <3>1 DEF One
  <2> QED
    BY <2>3, <2>4
<1>2. ASSUME NEW r \in Repos PROVE Cardinality(Of(r)') = Cardinality(Of(r)) + One(r \in s)
  <2>1. Cardinality(Of(r) \cup {a}) = Cardinality(Of(r)) + 1
    BY AccessesFinite, FS_AddElement DEF Of
  <2>2. Cardinality(Of(r)) \in Nat
    BY AccessesFinite, FS_CardinalityType
  <2>3. CASE r \in s
    <3>1. Of(r)' = Of(r) \cup {a}
      BY <2>3 DEF Of
    <3> QED
      BY <2>1, <2>3, <3>1 DEF One
  <2>4. CASE r \notin s
    <3>1. Of(r)' = Of(r)
      BY <2>4 DEF Of
    <3> QED
      BY <2>2, <2>4, <3>1 DEF One
  <2> QED
    BY <2>3, <2>4
<1> QED
  BY <1>1, <1>2 DEF AccessExact, Admit, AllOf, Of

\* The same for one that goes.
LEMMA Left ==
  ASSUME AccessExact, NEW a \in Accesses, Accesses' = Accesses \ {a},
         \A b \in Accesses \ {a} : ScopeOf(b)' = ScopeOf(b), Dismiss(ScopeOf(a), NoScope)
  PROVE  AccessExact'
<1> DEFINE s == ScopeOf(a)
<1>0. One(NoScope = {}) = 0 /\ \A r \in Repos : One(r \in NoScope) = 0
  BY ScopesAssumption DEF One, NoScope
<1>1. Cardinality(AllOf') = Cardinality(AllOf) - One(s = {})
  <2>1. Cardinality(AllOf) \in Nat
    BY AccessesFinite, FS_CardinalityType
  <2>2. CASE s = {}
    <3>1. AllOf' = AllOf \ {a} /\ a \in AllOf
      BY <2>2 DEF AllOf
    <3>2. Cardinality(AllOf \ {a}) = Cardinality(AllOf) - 1
      BY <3>1, AccessesFinite, FS_RemoveElement
    <3> QED
      BY <2>2, <3>1, <3>2 DEF One
  <2>3. CASE s # {}
    <3>1. AllOf' = AllOf
      BY <2>3 DEF AllOf
    <3> QED
      BY <2>1, <2>3, <3>1 DEF One
  <2> QED
    BY <2>2, <2>3
<1>2. ASSUME NEW r \in Repos PROVE Cardinality(Of(r)') = Cardinality(Of(r)) - One(r \in s)
  <2>1. Cardinality(Of(r)) \in Nat
    BY AccessesFinite, FS_CardinalityType
  <2>2. CASE r \in s
    <3>1. Of(r)' = Of(r) \ {a} /\ a \in Of(r)
      BY <2>2 DEF Of
    <3>2. Cardinality(Of(r) \ {a}) = Cardinality(Of(r)) - 1
      BY <3>1, AccessesFinite, FS_RemoveElement
    <3> QED
      BY <2>2, <3>1, <3>2 DEF One
  <2>3. CASE r \notin s
    <3>1. Of(r)' = Of(r)
      BY <2>3 DEF Of
    <3> QED
      BY <2>1, <2>3, <3>1 DEF One
  <2> QED
    BY <2>2, <2>3
<1>3. all = Cardinality(AllOf) /\ \A r \in Repos : repos[r] = Cardinality(Of(r))
  BY DEF AccessExact, AllOf, Of
<1>4. Cardinality(AllOf) \in Nat /\ \A r : Cardinality(Of(r)) \in Nat
  BY AccessesFinite, FS_CardinalityType
<1>5. One(s = {}) \in Nat /\ \A r : One(r \in s) \in Nat
  BY DEF One
<1>6. all' = Cardinality(AllOf') 
  BY <1>0, <1>1, <1>3, <1>4, <1>5 DEF Dismiss
<1>7. ASSUME NEW r \in Repos PROVE repos'[r] = Cardinality(Of(r)')
  BY <1>0, <1>2, <1>3, <1>4, <1>5 DEF Dismiss
<1> QED
  BY <1>6, <1>7 DEF AccessExact, AllOf, Of

\* Two accesses end at once, when the last work under a shared lease does.
LEMMA LeftTwo ==
  ASSUME AccessExact, NEW a \in Accesses, NEW c \in Accesses, a # c,
         Accesses' = Accesses \ {a, c},
         \A b \in Accesses \ {a, c} : ScopeOf(b)' = ScopeOf(b),
         Dismiss(ScopeOf(a), ScopeOf(c))
  PROVE  AccessExact'
<1> DEFINE s == ScopeOf(a)
           u == ScopeOf(c)
<1>1. ASSUME NEW X \in SUBSET Accesses
      PROVE  Cardinality(X \ {a, c}) = Cardinality(X) - One(a \in X) - One(c \in X)
  <2>0. X \ {a, c} = (X \ {a}) \ {c} /\ (c \in X \ {a} <=> c \in X)
    OBVIOUS
  <2>1. IsFiniteSet(X) /\ IsFiniteSet(X \ {a})
    BY AccessesFinite, FS_Subset
  <2>2. Cardinality(X) \in Nat /\ Cardinality(X \ {a}) \in Nat
    BY <2>1, FS_CardinalityType
  <2>3. Cardinality(X \ {a}) = IF a \in X THEN Cardinality(X) - 1 ELSE Cardinality(X)
    BY <2>1, FS_RemoveElement
  <2>4. Cardinality((X \ {a}) \ {c}) =
          IF c \in X \ {a} THEN Cardinality(X \ {a}) - 1 ELSE Cardinality(X \ {a})
    BY <2>1, FS_RemoveElement
  <2>5. Cardinality(X \ {a, c}) = IF c \in X THEN Cardinality(X \ {a}) - 1 ELSE Cardinality(X \ {a})
    BY <2>0, <2>4
  <2> QED
    BY <2>2, <2>3, <2>5 DEF One
<1>2. /\ AllOf \in SUBSET Accesses /\ AllOf' = AllOf \ {a, c}
      /\ (a \in AllOf <=> s = {}) /\ (c \in AllOf <=> u = {})
  BY DEF AllOf
<1>3. all' = Cardinality(AllOf')
  <2>1. all = Cardinality(AllOf)
    BY DEF AccessExact, AllOf
  <2>2. all' = all - One(s = {}) - One(u = {})
    BY DEF Dismiss
  <2>3. One(a \in AllOf) = One(s = {}) /\ One(c \in AllOf) = One(u = {})
    BY <1>2 DEF One
  <2> QED
    BY <1>1, <1>2, <2>1, <2>2, <2>3
<1>4. ASSUME NEW r \in Repos PROVE repos'[r] = Cardinality(Of(r)')
  <2>0. /\ Of(r) \in SUBSET Accesses /\ Of(r)' = Of(r) \ {a, c}
        /\ (a \in Of(r) <=> r \in s) /\ (c \in Of(r) <=> r \in u)
    BY DEF Of
  <2>1. repos[r] = Cardinality(Of(r))
    BY DEF AccessExact, Of
  <2>2. repos'[r] = repos[r] - One(r \in s) - One(r \in u)
    BY DEF Dismiss
  <2>3. One(a \in Of(r)) = One(r \in s) /\ One(c \in Of(r)) = One(r \in u)
    BY <2>0 DEF One
  <2> QED
    BY <1>1, <2>0, <2>1, <2>2, <2>3
<1> QED
  BY <1>3, <1>4 DEF AccessExact, AllOf, Of

\* A step that changes nobody's access.
LEMMA Stayed ==
  ASSUME AccessExact, Accesses' = Accesses, UNCHANGED <<all, repos>>,
         \A b \in Accesses : ScopeOf(b)' = ScopeOf(b)
  PROVE  AccessExact'
<1>1. AllOf' = AllOf /\ \A r \in Repos : Of(r)' = Of(r)
  BY DEF AllOf, Of
<1> QED
  BY <1>1 DEF AccessExact, AllOf, Of

-----------------------------------------------------------------------------
(* The requests.                                                            *)

\* The part of the state that is neither counted nor in the semaphore.
CoreType ==
    /\ running \in Run
    /\ lock \in [Repos -> Pushes \cup {NoTask}]
    /\ refs \in [Permits -> 0 .. 2]
    /\ main \in [Tasks -> Point]
    /\ sub \in [Writers -> Point]

PcInv == PushInv /\ CallInv /\ CaptureInv /\ ScopeInv

\* The lease an inner mutation works under is its own, or it shares the call's.
LEMMA LeaseFacts ==
  ASSUME CoreType, PushInv, CallInv, NEW w \in Writers, sub[w].pc = "working"
  PROVE  \/ /\ LeaseOf(w) = Inner(w) /\ refs[Inner(w)] = 1
            /\ w \in Pushes \/ (w \in Calls /\ Alone(w))
         \/ /\ LeaseOf(w) = w /\ w \in Calls /\ refs[w] = 1
            /\ main[w].pc = "over" /\ main[w].scope # NoScope
         \/ /\ LeaseOf(w) = w /\ w \in Calls /\ refs[w] = 2
            /\ main[w].pc = "working"
<1>1. CASE w \in Pushes
  BY <1>1 DEF PushInv, One, LeaseOf
<1>2. CASE w \in Calls /\ Alone(w)
  BY <1>2 DEF CallInv, One, LeaseOf
<1>3. CASE w \in Calls /\ ~Alone(w)
  <2>1. /\ main[w].pc = "working" \/ (main[w].pc = "over" /\ main[w].scope # NoScope)
        /\ refs[Inner(w)] = 0 /\ refs[w] = One(main[w].pc = "working") + 1
    BY <1>3 DEF CallInv, Alone, One
  <2> QED
    BY <1>3, <2>1 DEF LeaseOf, One
<1> QED
  BY <1>1, <1>2, <1>3 DEF Writers

\* EndInner in each of these cases.
LEMMA EndInnerCases ==
  ASSUME CoreType, PushInv, CallInv, NEW w \in Writers, EndInner(w)
  PROVE  \/ /\ refs' = [refs EXCEPT ![Inner(w)] = 0] /\ refs[Inner(w)] = 1
            /\ w \in Pushes \/ (w \in Calls /\ Alone(w))
            /\ sem' = Released(sem, Inner(w)) /\ Dismiss(sub[w].scope, NoScope)
         \/ /\ refs' = [refs EXCEPT ![w] = 0] /\ w \in Calls /\ refs[w] = 1
            /\ main[w].pc = "over" /\ main[w].scope # NoScope
            /\ sem' = Released(sem, w) /\ Dismiss(sub[w].scope, main[w].scope)
         \/ /\ refs' = [refs EXCEPT ![w] = 1] /\ w \in Calls /\ refs[w] = 2
            /\ main[w].pc = "working"
            /\ sem' = sem /\ Dismiss(sub[w].scope, NoScope)
<1> DEFINE l == LeaseOf(w)
<1>1. /\ sub[w].pc = "working"
      /\ refs' = [refs EXCEPT ![l] = refs[l] - 1]
      /\ refs[l] = 1 => /\ Dismiss(sub[w].scope, IF l = w THEN main[w].scope ELSE NoScope)
                        /\ sem' = Released(sem, l)
      /\ refs[l] # 1 => Dismiss(sub[w].scope, NoScope) /\ sem' = sem
  BY DEF EndInner, LastRef
<1>2. Inner(w) # w
  BY InnerFacts DEF Tasks
<1>3. CASE /\ l = Inner(w) /\ refs[Inner(w)] = 1
           /\ w \in Pushes \/ (w \in Calls /\ Alone(w))
  BY <1>1, <1>2, <1>3
<1>4. CASE /\ l = w /\ w \in Calls /\ refs[w] = 1
           /\ main[w].pc = "over" /\ main[w].scope # NoScope
  BY <1>1, <1>4
<1>5. CASE l = w /\ w \in Calls /\ refs[w] = 2 /\ main[w].pc = "working"
  BY <1>1, <1>5
<1> QED
  BY <1>1, <1>3, <1>4, <1>5, LeaseFacts

\* The leases, locks, runs and program counters keep their types.
LEMMA CoreStep == CoreType /\ PushInv /\ CallInv /\ [Next]_vars => CoreType'
<1> SUFFICES ASSUME CoreType, PushInv, CallInv, [Next]_vars PROVE CoreType'
  OBVIOUS
<1> USE TasksFacts, InnerFacts, ScopesAssumption
<1>1. ASSUME NEW t \in Tasks, NEW s \in Scopes \cup {{}}, Start(t, s) PROVE CoreType'
  BY <1>1 DEF CoreType, Point, Points, Run, Tasks, Writers, PushInv, CallInv, Alone, One, NoScope,
       Start, KeepAccess, At
<1>2. ASSUME NEW t \in Tasks, Drain(t) PROVE CoreType'
  <2>1. running' \in Run
    BY <1>2 DEF CoreType, Drain, CancelRun, Run
  <2>2. main' \in [Tasks -> Point]
    BY <1>2 DEF CoreType, Drain, Move, Point, Points
  <2> QED
    BY <1>2, <2>1, <2>2 DEF CoreType, Drain
<1>3. ASSUME NEW t \in Tasks, Enter(t) PROVE CoreType'
  BY <1>3 DEF CoreType, Point, Points, Run, Tasks, Writers, PushInv, CallInv, Alone, One, NoScope,
       Enter, Counted, Move
<1>4. ASSUME NEW t \in Tasks, Wake(t) PROVE CoreType'
  BY <1>4 DEF CoreType, Point, Points, Run, Tasks, Writers, PushInv, CallInv, Alone, One, NoScope,
       Wake, KeepAccess, Move
<1>5. ASSUME NEW t \in Tasks, GiveUp(t) PROVE CoreType'
  BY <1>5 DEF CoreType, Point, Points, Run, Tasks, Writers, PushInv, CallInv, Alone, One, NoScope,
       GiveUp, Out, At
<1>6. ASSUME NEW w \in Writers, NEW s \in Scopes, StartInner(w, s) PROVE CoreType'
  BY <1>6 DEF CoreType, Point, Points, Run, Tasks, Writers, PushInv, CallInv, Alone, One, NoScope,
       StartInner, KeepAccess, At
<1>7. ASSUME NEW w \in Writers, DrainInner(w) PROVE CoreType'
  <2>1. running' \in Run
    BY <1>7 DEF CoreType, DrainInner, CancelRun, Run
  <2>2. sub' \in [Writers -> Point]
    BY <1>7 DEF CoreType, DrainInner, Move, Point, Points
  <2> QED
    BY <1>7, <2>1, <2>2 DEF CoreType, DrainInner
<1>8. ASSUME NEW w \in Writers, EnterInner(w) PROVE CoreType'
  <2>1. refs[w] \in 0 .. 1
    BY <1>8 DEF PushInv, CallInv, Alone, One, EnterInner, Writers
  <2>2. refs' \in [Permits -> 0 .. 2]
    <3> DEFINE n == refs[w] + 1
    <3>1. n \in 0 .. 2
      BY <2>1
    <3>2. refs' = refs \/ refs' = [refs EXCEPT ![w] = n]
      BY <1>8 DEF EnterInner
    <3> HIDE DEF n
    <3> QED
      BY <3>1, <3>2 DEF CoreType
  <2>3. sub' \in [Writers -> Point]
    BY <1>8 DEF CoreType, EnterInner, Move, Point, Points
  <2> QED
    BY <1>8, <2>2, <2>3 DEF CoreType, EnterInner
<1>9. ASSUME NEW w \in Writers, WakeInner(w) PROVE CoreType'
  BY <1>9 DEF CoreType, Point, Points, Run, Tasks, Writers, PushInv, CallInv, Alone, One, NoScope,
       WakeInner, KeepAccess, Move
<1>10. ASSUME NEW w \in Writers, EndInner(w) PROVE CoreType'
  <2>1. refs' \in [Permits -> 0 .. 2]
    BY <1>10, EndInnerCases DEF CoreType
  <2>2. sub' \in [Writers -> Point] /\ main' \in [Tasks -> Point]
    BY <1>10 DEF CoreType, EndInner, After, Move, Out, At, Point, Points, Tasks
  <2> QED
    BY <1>10, <2>1, <2>2 DEF CoreType, EndInner
<1>11. ASSUME NEW w \in Writers, GiveUpInner(w) PROVE CoreType'
  <2>1. sub' \in [Writers -> Point] /\ main' \in [Tasks -> Point]
    BY <1>11 DEF CoreType, GiveUpInner, After, Move, Out, At, Point, Points, Tasks
  <2> QED
    BY <1>11, <2>1 DEF CoreType, GiveUpInner
<1>12. ASSUME NEW p \in Pushes, Lock(p) PROVE CoreType'
  <2>1. PICK r : lock' = [lock EXCEPT ![r] = p]
    BY <1>12 DEF Lock
  <2>2. lock' \in [Repos -> Pushes \cup {NoTask}]
    BY <2>1 DEF CoreType
  <2>3. main' = [main EXCEPT ![p].pc = "working"] /\ UNCHANGED <<running, refs, sub>>
    BY <1>12 DEF Lock, Move, KeepAccess
  <2>4. main' \in [Tasks -> Point]
    BY <2>3 DEF CoreType, Point, Points, Tasks, Writers
  <2> QED
    BY <2>2, <2>3, <2>4 DEF CoreType
<1>13. ASSUME NEW p \in Pushes, EndPush(p) PROVE CoreType'
  BY <1>13 DEF CoreType, Point, Points, Run, Tasks, Writers, PushInv, CallInv, Alone, One, NoScope,
       EndPush, Out, At
<1>14. ASSUME NEW c \in Calls, EndCall(c) PROVE CoreType'
  BY <1>14 DEF CoreType, Point, Points, Run, Tasks, Writers, PushInv, CallInv, Alone, One, NoScope,
       EndCall, LastRef, Move, Out, At
<1>15. ASSUME NEW c \in Captures, EndCapture(c) PROVE CoreType'
  BY <1>15 DEF CoreType, Point, Points, Run, Tasks, Writers, PushInv, CallInv, Alone, One, NoScope,
       EndCapture, Out, At
<1>16. ASSUME NEW name \in Repos \cup {NoRepo}, StartRun(name) PROVE CoreType'
  BY <1>16 DEF CoreType, Point, Points, Run, Tasks, Writers, PushInv, CallInv, Alone, One, NoScope,
       StartRun
<1>17. CASE EndRun
  BY <1>17 DEF CoreType, Point, Points, Run, Tasks, Writers, PushInv, CallInv, Alone, One, NoScope,
       EndRun, Woken, At, Idle
<1>18. CASE UNCHANGED vars
  BY <1>18 DEF CoreType, Point, Points, Run, Tasks, Writers, PushInv, CallInv, Alone, One, NoScope,
       vars
<1> QED
  BY <1>1, <1>2, <1>3, <1>4, <1>5, <1>6, <1>7, <1>8, <1>9, <1>10, <1>11, <1>12, <1>13, <1>14,
       <1>15, <1>16, <1>17, <1>18 DEF Next

\* A push's mutation lives inside its lock, and its lease is not shared.
LEMMA PushStep == CoreType /\ PushInv /\ CallInv /\ [Next]_vars => PushInv'
<1> SUFFICES ASSUME CoreType, PushInv, CallInv, [Next]_vars PROVE PushInv'
  OBVIOUS
<1> USE TasksFacts, InnerFacts, ScopesAssumption
<1>1. ASSUME NEW t \in Tasks, NEW s \in Scopes \cup {{}}, Start(t, s) PROVE PushInv'
  BY <1>1 DEF CoreType, Point, Points, Run, Tasks, Writers, PushInv, One, Start, KeepAccess, At
<1>2. ASSUME NEW t \in Tasks, Drain(t) PROVE PushInv'
  BY <1>2 DEF CoreType, Point, Points, Run, Tasks, Writers, PushInv, One, Drain, CancelRun, Move
<1>3. ASSUME NEW t \in Tasks, Enter(t) PROVE PushInv'
  BY <1>3 DEF CoreType, Point, Points, Run, Tasks, Writers, PushInv, One, Enter, Counted, Move
<1>4. ASSUME NEW t \in Tasks, Wake(t) PROVE PushInv'
  BY <1>4 DEF CoreType, Point, Points, Run, Tasks, Writers, PushInv, One, Wake, KeepAccess, Move
<1>5. ASSUME NEW t \in Tasks, GiveUp(t) PROVE PushInv'
  BY <1>5 DEF CoreType, Point, Points, Run, Tasks, Writers, PushInv, One, GiveUp, Out, At
<1>6. ASSUME NEW w \in Writers, NEW s \in Scopes, StartInner(w, s) PROVE PushInv'
  BY <1>6 DEF CoreType, Point, Points, Run, Tasks, Writers, PushInv, One, StartInner,
       KeepAccess, At
<1>7. ASSUME NEW w \in Writers, DrainInner(w) PROVE PushInv'
  BY <1>7 DEF CoreType, Point, Points, Run, Tasks, Writers, PushInv, One, DrainInner,
       CancelRun, Move
<1>8. ASSUME NEW w \in Writers, EnterInner(w) PROVE PushInv'
  BY <1>8 DEF CoreType, Point, Points, Run, Tasks, Writers, PushInv, One, EnterInner, Counted,
       Move
<1>9. ASSUME NEW w \in Writers, WakeInner(w) PROVE PushInv'
  BY <1>9 DEF CoreType, Point, Points, Run, Tasks, Writers, PushInv, One, WakeInner,
       KeepAccess, Move
<1>10. ASSUME NEW w \in Writers, EndInner(w) PROVE PushInv'
  <2>1. sub' = [sub EXCEPT ![w] = Out] /\ main' = After(w)
    BY <1>10 DEF EndInner
  <2> QED
    BY <1>10, <2>1, EndInnerCases DEF CoreType, Point, Points, Tasks, Writers, PushInv, Alone, One,
         NoScope, After, Move, Out, At
<1>11. ASSUME NEW w \in Writers, GiveUpInner(w) PROVE PushInv'
  BY <1>11 DEF CoreType, Point, Points, Run, Tasks, Writers, PushInv, One, GiveUpInner, After,
       Move, Out, At
<1>12. ASSUME NEW p \in Pushes, Lock(p) PROVE PushInv'
  BY <1>12 DEF CoreType, Point, Points, Run, Tasks, Writers, PushInv, One, Lock, KeepAccess,
       Move
<1>13. ASSUME NEW p \in Pushes, EndPush(p) PROVE PushInv'
  BY <1>13 DEF CoreType, Point, Points, Run, Tasks, Writers, PushInv, One, EndPush, Out, At
<1>14. ASSUME NEW c \in Calls, EndCall(c) PROVE PushInv'
  BY <1>14 DEF CoreType, Point, Points, Run, Tasks, Writers, PushInv, One, EndCall, LastRef,
       Move, Out, At
<1>15. ASSUME NEW c \in Captures, EndCapture(c) PROVE PushInv'
  BY <1>15 DEF CoreType, Point, Points, Run, Tasks, Writers, PushInv, One, EndCapture, Out, At
<1>16. ASSUME NEW name \in Repos \cup {NoRepo}, StartRun(name) PROVE PushInv'
  BY <1>16 DEF CoreType, Point, Points, Run, Tasks, Writers, PushInv, One, StartRun
<1>17. CASE EndRun
  BY <1>17 DEF CoreType, Point, Points, Run, Tasks, Writers, PushInv, One, EndRun, Woken, At,
       Idle
<1>18. CASE UNCHANGED vars
  BY <1>18 DEF CoreType, Point, Points, Run, Tasks, Writers, PushInv, One, vars
<1> QED
  BY <1>1, <1>2, <1>3, <1>4, <1>5, <1>6, <1>7, <1>8, <1>9, <1>10, <1>11, <1>12, <1>13, <1>14,
       <1>15, <1>16, <1>17, <1>18 DEF Next

\* A call's lease counts the parts of it that work.
LEMMA CallStep == CoreType /\ PushInv /\ CallInv /\ ScopeInv /\ [Next]_vars => CallInv'
<1> SUFFICES ASSUME CoreType, PushInv, CallInv, ScopeInv, [Next]_vars PROVE CallInv'
  OBVIOUS
<1> USE TasksFacts, InnerFacts, ScopesAssumption
<1>1. ASSUME NEW t \in Tasks, NEW s \in Scopes \cup {{}}, Start(t, s) PROVE CallInv'
  BY <1>1 DEF CoreType, Point, Points, Run, Tasks, Writers, CallInv, Alone, ScopeInv, One, NoScope,
       Start, KeepAccess, At
<1>2. ASSUME NEW t \in Tasks, Drain(t) PROVE CallInv'
  BY <1>2 DEF CoreType, Point, Points, Run, Tasks, Writers, CallInv, Alone, ScopeInv, One, NoScope,
       Drain, CancelRun, Move
<1>3. ASSUME NEW t \in Tasks, Enter(t) PROVE CallInv'
  BY <1>3 DEF CoreType, Point, Points, Run, Tasks, Writers, CallInv, Alone, ScopeInv, One, NoScope,
       Enter, Counted, Move
<1>4. ASSUME NEW t \in Tasks, Wake(t) PROVE CallInv'
  BY <1>4 DEF CoreType, Point, Points, Run, Tasks, Writers, CallInv, Alone, ScopeInv, One, NoScope,
       Wake, KeepAccess, Move
<1>5. ASSUME NEW t \in Tasks, GiveUp(t) PROVE CallInv'
  BY <1>5 DEF CoreType, Point, Points, Run, Tasks, Writers, CallInv, Alone, ScopeInv, One, NoScope,
       GiveUp, Out, At
<1>6. ASSUME NEW w \in Writers, NEW s \in Scopes, StartInner(w, s) PROVE CallInv'
  BY <1>6 DEF CoreType, Point, Points, Run, Tasks, Writers, CallInv, Alone, ScopeInv, One, NoScope,
       StartInner, KeepAccess, At
<1>7. ASSUME NEW w \in Writers, DrainInner(w) PROVE CallInv'
  BY <1>7 DEF CoreType, Point, Points, Run, Tasks, Writers, CallInv, Alone, ScopeInv, One, NoScope,
       DrainInner, CancelRun, Move
<1>8. ASSUME NEW w \in Writers, EnterInner(w) PROVE CallInv'
  BY <1>8 DEF CoreType, Point, Points, Run, Tasks, Writers, CallInv, Alone, ScopeInv, One, NoScope,
       EnterInner, Counted, Move
<1>9. ASSUME NEW w \in Writers, WakeInner(w) PROVE CallInv'
  BY <1>9 DEF CoreType, Point, Points, Run, Tasks, Writers, CallInv, Alone, ScopeInv, One, NoScope,
       WakeInner, KeepAccess, Move
<1>10. ASSUME NEW w \in Writers, EndInner(w) PROVE CallInv'
  <2>1. sub' = [sub EXCEPT ![w] = Out] /\ main' = After(w)
    BY <1>10 DEF EndInner
  <2> QED
    BY <1>10, <2>1, EndInnerCases DEF CoreType, Point, Points, Tasks, Writers, CallInv, Alone, ScopeInv, One,
         NoScope, After, Move, Out, At
<1>11. ASSUME NEW w \in Writers, GiveUpInner(w) PROVE CallInv'
  BY <1>11 DEF CoreType, Point, Points, Run, Tasks, Writers, CallInv, Alone, ScopeInv, One, NoScope,
       GiveUpInner, After, Move, Out, At
<1>12. ASSUME NEW p \in Pushes, Lock(p) PROVE CallInv'
  BY <1>12 DEF CoreType, Point, Points, Run, Tasks, Writers, CallInv, Alone, ScopeInv, One, NoScope,
       Lock, KeepAccess, Move
<1>13. ASSUME NEW p \in Pushes, EndPush(p) PROVE CallInv'
  BY <1>13 DEF CoreType, Point, Points, Run, Tasks, Writers, CallInv, Alone, ScopeInv, One, NoScope,
       EndPush, Out, At
<1>14. ASSUME NEW c \in Calls, EndCall(c) PROVE CallInv'
  BY <1>14 DEF CoreType, Point, Points, Run, Tasks, Writers, CallInv, Alone, ScopeInv, One, NoScope,
       EndCall, LastRef, Move, Out, At
<1>15. ASSUME NEW c \in Captures, EndCapture(c) PROVE CallInv'
  BY <1>15 DEF CoreType, Point, Points, Run, Tasks, Writers, CallInv, Alone, ScopeInv, One, NoScope,
       EndCapture, Out, At
<1>16. ASSUME NEW name \in Repos \cup {NoRepo}, StartRun(name) PROVE CallInv'
  BY <1>16 DEF CoreType, Point, Points, Run, Tasks, Writers, CallInv, Alone, ScopeInv, One, NoScope,
       StartRun
<1>17. CASE EndRun
  BY <1>17 DEF CoreType, Point, Points, Run, Tasks, Writers, CallInv, Alone, ScopeInv, One, NoScope,
       EndRun, Woken, At, Idle
<1>18. CASE UNCHANGED vars
  BY <1>18 DEF CoreType, Point, Points, Run, Tasks, Writers, CallInv, Alone, ScopeInv, One, NoScope,
       vars
<1> QED
  BY <1>1, <1>2, <1>3, <1>4, <1>5, <1>6, <1>7, <1>8, <1>9, <1>10, <1>11, <1>12, <1>13, <1>14,
       <1>15, <1>16, <1>17, <1>18 DEF Next

\* A capture has no inner work.
LEMMA CaptureStep == CoreType /\ CaptureInv /\ [Next]_vars => CaptureInv'
<1> SUFFICES ASSUME CoreType, CaptureInv, [Next]_vars PROVE CaptureInv'
  OBVIOUS
<1> USE TasksFacts, InnerFacts, ScopesAssumption
<1>1. ASSUME NEW t \in Tasks, NEW s \in Scopes \cup {{}}, Start(t, s) PROVE CaptureInv'
  BY <1>1 DEF CoreType, Point, Points, Run, Tasks, Writers, CaptureInv, Start, KeepAccess, At
<1>2. ASSUME NEW t \in Tasks, Drain(t) PROVE CaptureInv'
  BY <1>2 DEF CoreType, Point, Points, Run, Tasks, Writers, CaptureInv, Drain, CancelRun, Move
<1>3. ASSUME NEW t \in Tasks, Enter(t) PROVE CaptureInv'
  BY <1>3 DEF CoreType, Point, Points, Run, Tasks, Writers, CaptureInv, Enter, Counted, Move
<1>4. ASSUME NEW t \in Tasks, Wake(t) PROVE CaptureInv'
  BY <1>4 DEF CoreType, Point, Points, Run, Tasks, Writers, CaptureInv, Wake, KeepAccess, Move
<1>5. ASSUME NEW t \in Tasks, GiveUp(t) PROVE CaptureInv'
  BY <1>5 DEF CoreType, Point, Points, Run, Tasks, Writers, CaptureInv, GiveUp, Out, At
<1>6. ASSUME NEW w \in Writers, NEW s \in Scopes, StartInner(w, s) PROVE CaptureInv'
  BY <1>6 DEF CoreType, Point, Points, Run, Tasks, Writers, CaptureInv, StartInner, KeepAccess,
       At
<1>7. ASSUME NEW w \in Writers, DrainInner(w) PROVE CaptureInv'
  BY <1>7 DEF CoreType, Point, Points, Run, Tasks, Writers, CaptureInv, DrainInner, CancelRun,
       Move
<1>8. ASSUME NEW w \in Writers, EnterInner(w) PROVE CaptureInv'
  BY <1>8 DEF CoreType, Point, Points, Run, Tasks, Writers, CaptureInv, EnterInner, Counted,
       Move
<1>9. ASSUME NEW w \in Writers, WakeInner(w) PROVE CaptureInv'
  BY <1>9 DEF CoreType, Point, Points, Run, Tasks, Writers, CaptureInv, WakeInner, KeepAccess,
       Move
<1>10. ASSUME NEW w \in Writers, EndInner(w) PROVE CaptureInv'
  BY <1>10 DEF CoreType, Point, Points, Run, Tasks, Writers, CaptureInv, EndInner, After,
       LastRef, Move, Out, At
<1>11. ASSUME NEW w \in Writers, GiveUpInner(w) PROVE CaptureInv'
  BY <1>11 DEF CoreType, Point, Points, Run, Tasks, Writers, CaptureInv, GiveUpInner, After,
       Move, Out, At
<1>12. ASSUME NEW p \in Pushes, Lock(p) PROVE CaptureInv'
  BY <1>12 DEF CoreType, Point, Points, Run, Tasks, Writers, CaptureInv, Lock, KeepAccess, Move
<1>13. ASSUME NEW p \in Pushes, EndPush(p) PROVE CaptureInv'
  BY <1>13 DEF CoreType, Point, Points, Run, Tasks, Writers, CaptureInv, EndPush, Out, At
<1>14. ASSUME NEW c \in Calls, EndCall(c) PROVE CaptureInv'
  BY <1>14 DEF CoreType, Point, Points, Run, Tasks, Writers, CaptureInv, EndCall, LastRef,
       Move, Out, At
<1>15. ASSUME NEW c \in Captures, EndCapture(c) PROVE CaptureInv'
  BY <1>15 DEF CoreType, Point, Points, Run, Tasks, Writers, CaptureInv, EndCapture, Out, At
<1>16. ASSUME NEW name \in Repos \cup {NoRepo}, StartRun(name) PROVE CaptureInv'
  BY <1>16 DEF CoreType, Point, Points, Run, Tasks, Writers, CaptureInv, StartRun
<1>17. CASE EndRun
  BY <1>17 DEF CoreType, Point, Points, Run, Tasks, Writers, CaptureInv, EndRun, Woken, At, Idle
<1>18. CASE UNCHANGED vars
  BY <1>18 DEF CoreType, Point, Points, Run, Tasks, Writers, CaptureInv, vars
<1> QED
  BY <1>1, <1>2, <1>3, <1>4, <1>5, <1>6, <1>7, <1>8, <1>9, <1>10, <1>11, <1>12, <1>13, <1>14,
       <1>15, <1>16, <1>17, <1>18 DEF Next

\* A task has an access exactly while it is not out, but for a call that is over
\* and whose lease was not shared.
LEMMA ScopeStep == CoreType /\ PushInv /\ CallInv /\ ScopeInv /\ [Next]_vars => ScopeInv'
<1> SUFFICES ASSUME CoreType, PushInv, CallInv, ScopeInv, [Next]_vars PROVE ScopeInv'
  OBVIOUS
<1> USE TasksFacts, InnerFacts, ScopesAssumption
<1>1. ASSUME NEW t \in Tasks, NEW s \in Scopes \cup {{}}, Start(t, s) PROVE ScopeInv'
  BY <1>1 DEF CoreType, Point, Points, Run, Tasks, Writers, PushInv, CallInv, Alone, ScopeInv,
       NoScope, Start, KeepAccess, At
<1>2. ASSUME NEW t \in Tasks, Drain(t) PROVE ScopeInv'
  BY <1>2 DEF CoreType, Point, Points, Run, Tasks, Writers, PushInv, CallInv, Alone, ScopeInv,
       NoScope, Drain, CancelRun, Move
<1>3. ASSUME NEW t \in Tasks, Enter(t) PROVE ScopeInv'
  BY <1>3 DEF CoreType, Point, Points, Run, Tasks, Writers, PushInv, CallInv, Alone, ScopeInv,
       NoScope, Enter, Counted, Move
<1>4. ASSUME NEW t \in Tasks, Wake(t) PROVE ScopeInv'
  BY <1>4 DEF CoreType, Point, Points, Run, Tasks, Writers, PushInv, CallInv, Alone, ScopeInv,
       NoScope, Wake, KeepAccess, Move
<1>5. ASSUME NEW t \in Tasks, GiveUp(t) PROVE ScopeInv'
  BY <1>5 DEF CoreType, Point, Points, Run, Tasks, Writers, PushInv, CallInv, Alone, ScopeInv,
       NoScope, GiveUp, Out, At
<1>6. ASSUME NEW w \in Writers, NEW s \in Scopes, StartInner(w, s) PROVE ScopeInv'
  BY <1>6 DEF CoreType, Point, Points, Run, Tasks, Writers, PushInv, CallInv, Alone, ScopeInv,
       NoScope, StartInner, KeepAccess, At
<1>7. ASSUME NEW w \in Writers, DrainInner(w) PROVE ScopeInv'
  BY <1>7 DEF CoreType, Point, Points, Run, Tasks, Writers, PushInv, CallInv, Alone, ScopeInv,
       NoScope, DrainInner, CancelRun, Move
<1>8. ASSUME NEW w \in Writers, EnterInner(w) PROVE ScopeInv'
  <2>1. /\ main' = main /\ sub[w].pc = "entering"
        /\ \E q \in {"working", "queued"} : sub' = Move(sub, w, q)
    BY <1>8 DEF EnterInner
  <2> QED
    BY <2>1 DEF CoreType, Point, ScopeInv, Move
<1>9. ASSUME NEW w \in Writers, WakeInner(w) PROVE ScopeInv'
  BY <1>9 DEF CoreType, Point, Points, Run, Tasks, Writers, PushInv, CallInv, Alone, ScopeInv,
       NoScope, WakeInner, KeepAccess, Move
<1>10. ASSUME NEW w \in Writers, EndInner(w) PROVE ScopeInv'
  BY <1>10 DEF CoreType, Point, Points, Run, Tasks, Writers, PushInv, CallInv, Alone, ScopeInv,
       NoScope, EndInner, After, LastRef, Move, Out, At
<1>11. ASSUME NEW w \in Writers, GiveUpInner(w) PROVE ScopeInv'
  BY <1>11 DEF CoreType, Point, Points, Run, Tasks, Writers, PushInv, CallInv, Alone, ScopeInv,
       NoScope, GiveUpInner, After, Move, Out, At
<1>12. ASSUME NEW p \in Pushes, Lock(p) PROVE ScopeInv'
  BY <1>12 DEF CoreType, Point, Points, Run, Tasks, Writers, PushInv, CallInv, Alone, ScopeInv,
       NoScope, Lock, KeepAccess, Move
<1>13. ASSUME NEW p \in Pushes, EndPush(p) PROVE ScopeInv'
  BY <1>13 DEF CoreType, Point, Points, Run, Tasks, Writers, PushInv, CallInv, Alone, ScopeInv,
       NoScope, EndPush, Out, At
<1>14. ASSUME NEW c \in Calls, EndCall(c) PROVE ScopeInv'
  BY <1>14 DEF CoreType, Point, Points, Run, Tasks, Writers, PushInv, CallInv, Alone, ScopeInv,
       NoScope, EndCall, LastRef, Move, Out, At
<1>15. ASSUME NEW c \in Captures, EndCapture(c) PROVE ScopeInv'
  BY <1>15 DEF CoreType, Point, Points, Run, Tasks, Writers, PushInv, CallInv, Alone, ScopeInv,
       NoScope, EndCapture, Out, At
<1>16. ASSUME NEW name \in Repos \cup {NoRepo}, StartRun(name) PROVE ScopeInv'
  BY <1>16 DEF CoreType, Point, Points, Run, Tasks, Writers, PushInv, CallInv, Alone, ScopeInv,
       NoScope, StartRun
<1>17. CASE EndRun
  BY <1>17 DEF CoreType, Point, Points, Run, Tasks, Writers, PushInv, CallInv, Alone, ScopeInv,
       NoScope, EndRun, Woken, At, Idle
<1>18. CASE UNCHANGED vars
  BY <1>18 DEF CoreType, Point, Points, Run, Tasks, Writers, PushInv, CallInv, Alone, ScopeInv,
       NoScope, vars
<1> QED
  BY <1>1, <1>2, <1>3, <1>4, <1>5, <1>6, <1>7, <1>8, <1>9, <1>10, <1>11, <1>12, <1>13, <1>14,
       <1>15, <1>16, <1>17, <1>18 DEF Next

\* maintenance.Run: the worker takes a permit only when nobody waits.
LEMMA RunGranted ==
  ASSUME Sound(sem), NEW name, StartRun(name)
  PROVE  /\ Sound(sem')
         /\ Parties(sem') = Parties(sem) \cup {Maintainer}
         /\ sem'.shared = sem.shared \cup {Maintainer} /\ sem'.exclusive = sem.exclusive
<1> USE TasksFacts
<1>1. sem \in Semaphore /\ sem.queue = <<>> /\ sem.exclusive = NoTask
  BY DEF Sound, StartRun, Fits
<1>2. sem' = [shared |-> sem.shared \cup {Maintainer}, exclusive |-> sem.exclusive,
              queue |-> sem.queue]
  BY <1>1 DEF StartRun, Granted, Semaphore, Tasks
<1>3. sem' \in Semaphore
  BY <1>1, <1>2 DEF Semaphore
<1>4. Waiting(sem') = {} /\ Waiting(sem) = {} /\ Places(sem') = {}
  BY <1>1, <1>2, EmptySeq DEF Waiting, Places, Range
<1>5. Holders(sem') = Holders(sem) \cup {Maintainer}
  BY <1>2 DEF Holders
<1> QED
  BY <1>1, <1>2, <1>3, <1>4, <1>5 DEF Sound, Parties

\* Nobody who is in the semaphore asks again.
LEMMA AsksOnce ==
  ASSUME CoreType, PcInv, PartyInv, NEW t \in Tasks, Enter(t), t \notin Pushes
  PROVE  t \notin Parties(sem)
<1>1. main[t].pc = "entering"
  BY DEF Enter
<1>2. t \in Calls => sub[t].pc = "out"
  BY <1>1 DEF PcInv, CallInv
<1>3. t \in Writers => refs[t] = 0
  BY <1>1, <1>2 DEF PcInv, CallInv, Alone, One, Writers
<1> QED
  BY <1>1, <1>3 DEF PartyInv, InSemaphore

LEMMA AsksOnceInner ==
  ASSUME CoreType, PcInv, PartyInv, NEW w \in Writers, EnterInner(w)
  PROVE  Inner(w) \notin Parties(sem)
<1>1. sub[w].pc = "entering"
  BY DEF EnterInner
<1>2. refs[Inner(w)] = 0
  BY <1>1 DEF PcInv, PushInv, CallInv, Alone, One, Writers
<1> QED
  BY <1>1, <1>2 DEF PartyInv, InnerIn

\* The semaphore stays sound: nobody who is in it asks again.
LEMMA SoundStep == CoreType /\ PcInv /\ PartyInv /\ Sound(sem) /\ [Next]_vars => Sound(sem)'
<1> SUFFICES ASSUME CoreType, PcInv, PartyInv, Sound(sem), [Next]_vars PROVE Sound(sem)'
  OBVIOUS
<1>0. Tasks \subseteq Askers /\ Writers \subseteq Askers /\ \A w \in Writers : Inner(w) \in Askers
  BY TasksFacts, InnerFacts DEF Tasks
<1>a. \A l \in Askers \cup {Maintainer} : sem' = Released(sem, l) => Sound(sem')
  BY ReleasedFacts
<1>1. ASSUME NEW t \in Tasks, NEW s \in Scopes \cup {{}}, Start(t, s) PROVE Sound(sem)'
  BY <1>1 DEF Start
<1>2. ASSUME NEW t \in Tasks, Drain(t) PROVE Sound(sem)'
  BY <1>2 DEF Drain
<1>3. ASSUME NEW t \in Tasks, Enter(t) PROVE Sound(sem)'
  <2>1. t \notin Pushes => t \notin Parties(sem)
    BY <1>3, AsksOnce
  <2> QED
    BY <1>0, <1>3, <2>1, AskedFacts DEF Enter
<1>4. ASSUME NEW t \in Tasks, Wake(t) PROVE Sound(sem)'
  BY <1>4 DEF Wake
<1>5. ASSUME NEW t \in Tasks, GiveUp(t) PROVE Sound(sem)'
  BY <1>0, <1>a, <1>5 DEF GiveUp
<1>6. ASSUME NEW w \in Writers, NEW s \in Scopes, StartInner(w, s) PROVE Sound(sem)'
  BY <1>6 DEF StartInner
<1>7. ASSUME NEW w \in Writers, DrainInner(w) PROVE Sound(sem)'
  BY <1>7 DEF DrainInner
<1>8. ASSUME NEW w \in Writers, EnterInner(w) PROVE Sound(sem)'
  BY <1>0, <1>8, AsksOnceInner, AskedFacts DEF EnterInner
<1>9. ASSUME NEW w \in Writers, WakeInner(w) PROVE Sound(sem)'
  BY <1>9 DEF WakeInner
<1>10. ASSUME NEW w \in Writers, EndInner(w) PROVE Sound(sem)'
  BY <1>0, <1>a, <1>10, EndInnerCases DEF PcInv
<1>11. ASSUME NEW w \in Writers, GiveUpInner(w) PROVE Sound(sem)'
  BY <1>0, <1>a, <1>11 DEF GiveUpInner
<1>12. ASSUME NEW p \in Pushes, Lock(p) PROVE Sound(sem)'
  BY <1>12 DEF Lock
<1>13. ASSUME NEW p \in Pushes, EndPush(p) PROVE Sound(sem)'
  BY <1>13 DEF EndPush
<1>14. ASSUME NEW c \in Calls, EndCall(c) PROVE Sound(sem)'
  BY <1>0, <1>a, <1>14 DEF EndCall, Writers
<1>15. ASSUME NEW c \in Captures, EndCapture(c) PROVE Sound(sem)'
  BY <1>0, <1>a, <1>15 DEF EndCapture, Tasks
<1>16. ASSUME NEW name \in Repos \cup {NoRepo}, StartRun(name) PROVE Sound(sem)'
  BY <1>16, RunGranted
<1>17. CASE EndRun
  BY <1>a, <1>17 DEF EndRun
<1>18. CASE UNCHANGED vars
  BY <1>18 DEF vars
<1> QED
  BY <1>1, <1>2, <1>3, <1>4, <1>5, <1>6, <1>7, <1>8, <1>9, <1>10, <1>11, <1>12, <1>13, <1>14,
       <1>15, <1>16, <1>17, <1>18 DEF Next

\* A step that leaves the semaphore alone.
LEMMA PartyKept ==
  ASSUME PartyInv, sem' = sem, running'.on = running.on,
         \A u \in Tasks : InSemaphore(u)' <=> InSemaphore(u),
         \A v \in Writers : InnerIn(v)' <=> InnerIn(v),
         \A l \in Permits : refs'[l] > 0 => refs[l] > 0 \/ l \in sem.shared,
         \A d \in Captures : main'[d].pc = "working" => main[d].pc = "working" \/ sem.exclusive = d
  PROVE  PartyInv'
  BY DEF PartyInv

\* A step that asks for a permit or for the whole.
LEMMA PartyAsked ==
  ASSUME PartyInv, Sound(sem), NEW l \in Askers, l \notin Parties(sem),
         sem' = Asked(sem, l), running' = running, refs' = refs,
         \A u \in Tasks : InSemaphore(u)' <=> InSemaphore(u) \/ u = l,
         \A v \in Writers : InnerIn(v)' <=> InnerIn(v) \/ Inner(v) = l,
         \A d \in Captures : main'[d].pc = "working" => main[d].pc = "working"
  PROVE  PartyInv'
<1>1. /\ Parties(sem') = Parties(sem) \cup {l} /\ sem.shared \subseteq sem'.shared
      /\ sem.exclusive # NoTask => sem'.exclusive = sem.exclusive
      /\ Maintainer \in sem'.shared <=> Maintainer \in sem.shared
  BY AskedFacts
<1>2. \A d \in Captures : d # NoTask
  BY TasksFacts DEF Tasks
<1> QED
  BY <1>1, <1>2 DEF PartyInv

\* A step that gives one up.
LEMMA PartyReleased ==
  ASSUME PartyInv, Sound(sem), NEW l \in Askers,
         sem' = Released(sem, l), running' = running,
         \A u \in Tasks : InSemaphore(u)' <=> InSemaphore(u) /\ u # l,
         \A v \in Writers : InnerIn(v)' <=> InnerIn(v) /\ Inner(v) # l,
         \A k \in Permits : refs'[k] > 0 => refs[k] > 0 /\ k # l,
         \A d \in Captures : main'[d].pc = "working" => main[d].pc = "working" /\ d # l
  PROVE  PartyInv'
<1>1. l # Maintainer /\ \A d \in Captures : d # NoTask
  BY TasksAssumption DEF Askers
<1>2. /\ Parties(sem') = Parties(sem) \ {l} /\ sem.shared \ {l} \subseteq sem'.shared
      /\ sem.exclusive \notin {NoTask, l} => sem'.exclusive = sem.exclusive
      /\ Maintainer \in sem'.shared <=> Maintainer \in sem.shared
  BY <1>1, ReleasedFacts
<1> QED
  BY <1>1, <1>2 DEF PartyInv

\* Who is in the semaphore is who asked for it, and who works holds it.
LEMMA PartyStep == CoreType /\ PcInv /\ PartyInv /\ Sound(sem) /\ [Next]_vars => PartyInv'
<1> SUFFICES ASSUME CoreType, PcInv, PartyInv, Sound(sem), [Next]_vars PROVE PartyInv'
  OBVIOUS
<1> USE TasksFacts, InnerFacts
<1>1. ASSUME NEW t \in Tasks, NEW s \in Scopes \cup {{}}, Start(t, s) PROVE PartyInv'
  <2>1. /\ \A u \in Tasks : InSemaphore(u)' <=> InSemaphore(u)
        /\ \A v \in Writers : InnerIn(v)' <=> InnerIn(v)
    BY <1>1 DEF CoreType, Point, Points, Tasks, Writers, InSemaphore, InnerIn, PcInv, PushInv,
         CallInv, Alone, CaptureInv, One, Start, At, KeepAccess
  <2>2. /\ sem' = sem /\ running'.on = running.on
        /\ \A l \in Permits : refs'[l] > 0 => refs[l] > 0 \/ l \in sem.shared
        /\ \A d \in Captures : main'[d].pc = "working" => main[d].pc = "working" \/ sem.exclusive = d
    BY <1>1 DEF CoreType, Tasks, Writers, PcInv, PushInv, CallInv, Alone, CaptureInv, Start,
         At, KeepAccess
  <2> QED
    BY <2>1, <2>2, PartyKept
<1>2. ASSUME NEW t \in Tasks, Drain(t) PROVE PartyInv'
  <2>1. /\ \A u \in Tasks : InSemaphore(u)' <=> InSemaphore(u)
        /\ \A v \in Writers : InnerIn(v)' <=> InnerIn(v)
    BY <1>2 DEF CoreType, Point, Points, Tasks, Writers, InSemaphore, InnerIn, PcInv, PushInv,
         CallInv, Alone, CaptureInv, One, Drain, CancelRun, Move
  <2>2. /\ sem' = sem /\ running'.on = running.on
        /\ \A l \in Permits : refs'[l] > 0 => refs[l] > 0 \/ l \in sem.shared
        /\ \A d \in Captures : main'[d].pc = "working" => main[d].pc = "working" \/ sem.exclusive = d
    BY <1>2 DEF CoreType, Tasks, Writers, PcInv, PushInv, CallInv, Alone, CaptureInv, Drain,
         CancelRun, Move
  <2> QED
    BY <2>1, <2>2, PartyKept
<1>3. ASSUME NEW t \in Tasks, Enter(t) PROVE PartyInv'
  <2>1. CASE t \in Pushes
    <3>1. /\ \A u \in Tasks : InSemaphore(u)' <=> InSemaphore(u)
          /\ \A v \in Writers : InnerIn(v)' <=> InnerIn(v)
      BY <1>3, <2>1 DEF CoreType, Point, Points, Tasks, Writers, InSemaphore, InnerIn, PcInv,
           PushInv, CallInv, Alone, CaptureInv, One, Enter, Counted, Move
    <3>2. /\ sem' = sem /\ running'.on = running.on
          /\ \A l \in Permits : refs'[l] > 0 => refs[l] > 0 \/ l \in sem.shared
          /\ \A d \in Captures : main'[d].pc = "working" => main[d].pc = "working" \/ sem.exclusive = d
      BY <1>3, <2>1 DEF CoreType, Tasks, Writers, PcInv, PushInv, CallInv, Alone, CaptureInv,
           Enter, Counted, Move
    <3> QED
      BY <3>1, <3>2, PartyKept
  <2>2. CASE t \notin Pushes
    <3>1. /\ \A u \in Tasks : InSemaphore(u)' <=> InSemaphore(u) \/ u = t
          /\ \A v \in Writers : InnerIn(v)' <=> InnerIn(v) \/ Inner(v) = t
      BY <1>3, <2>2 DEF CoreType, Point, Points, Tasks, Writers, InSemaphore, InnerIn, PcInv,
           PushInv, CallInv, Alone, CaptureInv, One, Enter, Counted, Move
    <3>2. /\ refs' = refs /\ sem' = Asked(sem, t) /\ running' = running /\ t \in Askers
          /\ \A d \in Captures : main'[d].pc = "working" => main[d].pc = "working"
      <4>1. /\ refs' = refs /\ sem' = Asked(sem, t) /\ running' = running
            /\ main' = [main EXCEPT ![t].pc = "queued"]
        BY <1>3, <2>2 DEF Enter, Move
      <4> QED
        BY <4>1 DEF CoreType, Point, Tasks
    <3>3. t \notin Parties(sem)
      BY <1>3, <2>2, AsksOnce
    <3> QED
      BY <3>1, <3>2, <3>3, PartyAsked
  <2> QED
    BY <2>1, <2>2
<1>4. ASSUME NEW t \in Tasks, Wake(t) PROVE PartyInv'
  <2>1. /\ \A u \in Tasks : InSemaphore(u)' <=> InSemaphore(u)
        /\ \A v \in Writers : InnerIn(v)' <=> InnerIn(v)
    BY <1>4 DEF CoreType, Point, Points, Tasks, Writers, InSemaphore, InnerIn, PcInv, PushInv,
         CallInv, Alone, CaptureInv, One, Wake, KeepAccess, Move, Holds, Sound, Semaphore
  <2>2. /\ sem' = sem /\ running'.on = running.on
        /\ \A l \in Permits : refs'[l] > 0 => refs[l] > 0 \/ l \in sem.shared
        /\ \A d \in Captures : main'[d].pc = "working" => main[d].pc = "working" \/ sem.exclusive = d
    BY <1>4 DEF CoreType, Tasks, Writers, PcInv, PushInv, CallInv, Alone, CaptureInv, Wake,
         KeepAccess, Move, Holds, Sound, Semaphore
  <2> QED
    BY <2>1, <2>2, PartyKept
<1>5. ASSUME NEW t \in Tasks, GiveUp(t) PROVE PartyInv'
  <2>1. CASE main[t].pc = "queued"
    <3>1. /\ \A u \in Tasks : InSemaphore(u)' <=> InSemaphore(u) /\ u # t
          /\ \A v \in Writers : InnerIn(v)' <=> InnerIn(v) /\ Inner(v) # t
      BY <1>5, <2>1 DEF CoreType, Point, Points, Tasks, Writers, InSemaphore, InnerIn, PcInv,
           PushInv, CallInv, Alone, CaptureInv, One, GiveUp, Out, At
    <3>2. /\ \A k \in Permits : refs'[k] > 0 => refs[k] > 0 /\ k # t
          /\ \A d \in Captures : main'[d].pc = "working" => main[d].pc = "working" /\ d # t
      BY <1>5, <2>1 DEF CoreType, Tasks, Writers, PcInv, PushInv, CallInv, Alone, CaptureInv,
           One, GiveUp, Out, At
    <3>3. sem' = Released(sem, t) /\ running' = running /\ t \in Askers
      BY <1>5, <2>1 DEF Tasks, Writers, GiveUp, LastRef
    <3> QED
      BY <3>1, <3>2, <3>3, PartyReleased
  <2>2. CASE ~(main[t].pc = "queued")
    <3>1. /\ \A u \in Tasks : InSemaphore(u)' <=> InSemaphore(u)
          /\ \A v \in Writers : InnerIn(v)' <=> InnerIn(v)
      BY <1>5, <2>2 DEF CoreType, Point, Points, Tasks, Writers, InSemaphore, InnerIn, PcInv,
           PushInv, CallInv, Alone, CaptureInv, One, GiveUp, Out, At
    <3>2. /\ sem' = sem /\ running'.on = running.on
          /\ \A l \in Permits : refs'[l] > 0 => refs[l] > 0 \/ l \in sem.shared
          /\ \A d \in Captures : main'[d].pc = "working" => main[d].pc = "working" \/ sem.exclusive = d
      BY <1>5, <2>2 DEF CoreType, Tasks, Writers, PcInv, PushInv, CallInv, Alone, CaptureInv,
           GiveUp, Out, At
    <3> QED
      BY <3>1, <3>2, PartyKept
  <2> QED
    BY <2>1, <2>2
<1>6. ASSUME NEW w \in Writers, NEW s \in Scopes, StartInner(w, s) PROVE PartyInv'
  <2>1. /\ \A u \in Tasks : InSemaphore(u)' <=> InSemaphore(u)
        /\ \A v \in Writers : InnerIn(v)' <=> InnerIn(v)
    BY <1>6 DEF CoreType, Point, Points, Tasks, Writers, InSemaphore, InnerIn, PcInv, PushInv,
         CallInv, Alone, CaptureInv, One, StartInner, KeepAccess, At
  <2>2. /\ sem' = sem /\ running'.on = running.on
        /\ \A l \in Permits : refs'[l] > 0 => refs[l] > 0 \/ l \in sem.shared
        /\ \A d \in Captures : main'[d].pc = "working" => main[d].pc = "working" \/ sem.exclusive = d
    BY <1>6 DEF CoreType, Tasks, Writers, PcInv, PushInv, CallInv, Alone, CaptureInv,
         StartInner, KeepAccess, At
  <2> QED
    BY <2>1, <2>2, PartyKept
<1>7. ASSUME NEW w \in Writers, DrainInner(w) PROVE PartyInv'
  <2>1. /\ \A u \in Tasks : InSemaphore(u)' <=> InSemaphore(u)
        /\ \A v \in Writers : InnerIn(v)' <=> InnerIn(v)
    BY <1>7 DEF CoreType, Point, Points, Tasks, Writers, InSemaphore, InnerIn, PcInv, PushInv,
         CallInv, Alone, CaptureInv, One, DrainInner, CancelRun, Move
  <2>2. /\ sem' = sem /\ running'.on = running.on
        /\ \A l \in Permits : refs'[l] > 0 => refs[l] > 0 \/ l \in sem.shared
        /\ \A d \in Captures : main'[d].pc = "working" => main[d].pc = "working" \/ sem.exclusive = d
    BY <1>7 DEF CoreType, Tasks, Writers, PcInv, PushInv, CallInv, Alone, CaptureInv,
         DrainInner, CancelRun, Move
  <2> QED
    BY <2>1, <2>2, PartyKept
<1>8. ASSUME NEW w \in Writers, EnterInner(w) PROVE PartyInv'
  <2>1. CASE refs[w] > 0
    <3>1. /\ \A u \in Tasks : InSemaphore(u)' <=> InSemaphore(u)
          /\ \A v \in Writers : InnerIn(v)' <=> InnerIn(v)
      BY <1>8, <2>1 DEF CoreType, Point, Points, Tasks, Writers, InSemaphore, InnerIn, PcInv,
           PushInv, CallInv, Alone, CaptureInv, One, EnterInner, Counted, Move
    <3>2. /\ sem' = sem /\ running'.on = running.on
          /\ \A l \in Permits : refs'[l] > 0 => refs[l] > 0 \/ l \in sem.shared
          /\ \A d \in Captures : main'[d].pc = "working" => main[d].pc = "working" \/ sem.exclusive = d
      BY <1>8, <2>1 DEF CoreType, Tasks, Writers, PcInv, PushInv, CallInv, Alone, CaptureInv,
           EnterInner, Counted, Move, PartyInv
    <3> QED
      BY <3>1, <3>2, PartyKept
  <2>2. CASE ~(refs[w] > 0)
    <3>1. /\ \A u \in Tasks : InSemaphore(u)' <=> InSemaphore(u) \/ u = Inner(w)
          /\ \A v \in Writers : InnerIn(v)' <=> InnerIn(v) \/ Inner(v) = Inner(w)
      BY <1>8, <2>2 DEF CoreType, Point, Points, Tasks, Writers, InSemaphore, InnerIn, PcInv,
           PushInv, CallInv, Alone, CaptureInv, One, EnterInner, Counted, Move
    <3>2. /\ refs' = refs /\ sem' = Asked(sem, Inner(w)) /\ running' = running /\ Inner(w) \in Askers
          /\ \A d \in Captures : main'[d].pc = "working" => main[d].pc = "working"
      BY <1>8, <2>2 DEF CoreType, Tasks, Writers, EnterInner, Counted, Move
    <3>3. Inner(w) \notin Parties(sem)
      BY <1>8, <2>2, AsksOnceInner
    <3> QED
      BY <3>1, <3>2, <3>3, PartyAsked
  <2> QED
    BY <2>1, <2>2
<1>9. ASSUME NEW w \in Writers, WakeInner(w) PROVE PartyInv'
  <2>1. /\ \A u \in Tasks : InSemaphore(u)' <=> InSemaphore(u)
        /\ \A v \in Writers : InnerIn(v)' <=> InnerIn(v)
    BY <1>9 DEF CoreType, Point, Points, Tasks, Writers, InSemaphore, InnerIn, PcInv, PushInv,
         CallInv, Alone, CaptureInv, One, WakeInner, KeepAccess, Move, Holds, Sound, Semaphore
  <2>2. /\ sem' = sem /\ running'.on = running.on /\ main' = main
        /\ \A l \in Permits : refs'[l] > 0 => refs[l] > 0 \/ l \in sem.shared
    <3>1. /\ sem' = sem /\ running' = running /\ main' = main
          /\ refs' = [refs EXCEPT ![Inner(w)] = 1]
          /\ Inner(w) \in sem.shared \/ sem.exclusive = Inner(w)
      BY <1>9 DEF WakeInner, KeepAccess, Holds
    <3>2. Inner(w) \in sem.shared
      <4>1. sem.exclusive \in Captures \cup {NoTask}
        BY DEF Sound, Semaphore
      <4> QED
        BY <3>1, <4>1, TasksAssumption DEF Askers
    <3> QED
      BY <3>1, <3>2 DEF CoreType
  <2> QED
    BY <2>1, <2>2, PartyKept
<1>10. ASSUME NEW w \in Writers, EndInner(w) PROVE PartyInv'
  <2>1. sub' = [sub EXCEPT ![w] = Out] /\ main' = After(w) /\ running' = running /\ sub[w].pc = "working"
    BY <1>10 DEF EndInner
  <2>2. PushInv /\ CallInv
    BY DEF PcInv
  <2>3. CASE /\ refs' = [refs EXCEPT ![Inner(w)] = 0] /\ refs[Inner(w)] = 1
             /\ w \in Pushes \/ (w \in Calls /\ Alone(w))
             /\ sem' = Released(sem, Inner(w))
    <3>1. /\ \A u \in Tasks : InSemaphore(u)' <=> InSemaphore(u) /\ u # Inner(w)
          /\ \A v \in Writers : InnerIn(v)' <=> InnerIn(v) /\ Inner(v) # Inner(w)
      BY <2>1, <2>3 DEF CoreType, Point, Points, Tasks, Writers, InSemaphore, InnerIn, PcInv,
           PushInv, CallInv, Alone, CaptureInv, One, After, Move, Out, At
    <3>2. /\ \A k \in Permits : refs'[k] > 0 => refs[k] > 0 /\ k # Inner(w)
          /\ \A d \in Captures : main'[d].pc = "working" => main[d].pc = "working" /\ d # Inner(w)
      BY <2>1, <2>3 DEF CoreType, Tasks, Writers, PcInv, PushInv, CallInv, Alone, CaptureInv,
           One, After, Move, Out, At
    <3>3. sem' = Released(sem, Inner(w)) /\ running' = running /\ Inner(w) \in Askers
      BY <2>1, <2>3 DEF Tasks, Writers, After, LastRef
    <3> QED
      BY <3>1, <3>2, <3>3, PartyReleased
  <2>4. CASE /\ refs' = [refs EXCEPT ![w] = 0] /\ w \in Calls /\ refs[w] = 1
             /\ main[w].pc = "over"
             /\ sem' = Released(sem, w)
    <3>1. /\ \A u \in Tasks : InSemaphore(u)' <=> InSemaphore(u) /\ u # w
          /\ \A v \in Writers : InnerIn(v)' <=> InnerIn(v) /\ Inner(v) # w
      BY <2>1, <2>4 DEF CoreType, Point, Points, Tasks, Writers, InSemaphore, InnerIn, PcInv,
           PushInv, CallInv, Alone, CaptureInv, One, After, Move, Out, At
    <3>2. /\ \A k \in Permits : refs'[k] > 0 => refs[k] > 0 /\ k # w
          /\ \A d \in Captures : main'[d].pc = "working" => main[d].pc = "working" /\ d # w
      BY <2>1, <2>4 DEF CoreType, Tasks, Writers, PcInv, PushInv, CallInv, Alone, CaptureInv,
           One, After, Move, Out, At
    <3>3. sem' = Released(sem, w) /\ running' = running /\ w \in Askers
      BY <2>1, <2>4 DEF Tasks, Writers, After, LastRef
    <3> QED
      BY <3>1, <3>2, <3>3, PartyReleased
  <2>5. CASE /\ refs' = [refs EXCEPT ![w] = 1] /\ w \in Calls /\ refs[w] = 2
             /\ main[w].pc = "working" /\ sem' = sem
    <3>1. /\ \A u \in Tasks : InSemaphore(u)' <=> InSemaphore(u)
          /\ \A v \in Writers : InnerIn(v)' <=> InnerIn(v)
      BY <2>1, <2>5 DEF CoreType, Point, Points, Tasks, Writers, InSemaphore, InnerIn, PcInv,
           PushInv, CallInv, Alone, CaptureInv, One, After, Move, Out, At
    <3>2. /\ sem' = sem /\ running'.on = running.on
          /\ \A l \in Permits : refs'[l] > 0 => refs[l] > 0 \/ l \in sem.shared
          /\ \A d \in Captures : main'[d].pc = "working" => main[d].pc = "working" \/ sem.exclusive = d
      BY <2>1, <2>5 DEF CoreType, Tasks, Writers, PcInv, PushInv, CallInv, Alone, CaptureInv,
           After, Move, Out, At
    <3> QED
      BY <3>1, <3>2, PartyKept
  <2> QED
    BY <1>10, <2>2, <2>3, <2>4, <2>5, EndInnerCases
<1>11. ASSUME NEW w \in Writers, GiveUpInner(w) PROVE PartyInv'
  <2>1. CASE sub[w].pc = "queued"
    <3>1. /\ \A u \in Tasks : InSemaphore(u)' <=> InSemaphore(u) /\ u # Inner(w)
          /\ \A v \in Writers : InnerIn(v)' <=> InnerIn(v) /\ Inner(v) # Inner(w)
      BY <1>11, <2>1 DEF CoreType, Point, Points, Tasks, Writers, InSemaphore, InnerIn,
           PcInv, PushInv, CallInv, Alone, CaptureInv, One, GiveUpInner, After, Move, Out, At
    <3>2. /\ \A k \in Permits : refs'[k] > 0 => refs[k] > 0 /\ k # Inner(w)
          /\ \A d \in Captures : main'[d].pc = "working" => main[d].pc = "working" /\ d # Inner(w)
      BY <1>11, <2>1 DEF CoreType, Tasks, Writers, PcInv, PushInv, CallInv, Alone,
           CaptureInv, One, GiveUpInner, After, Move, Out, At
    <3>3. sem' = Released(sem, Inner(w)) /\ running' = running /\ Inner(w) \in Askers
      BY <1>11, <2>1 DEF Tasks, Writers, GiveUpInner, LastRef
    <3> QED
      BY <3>1, <3>2, <3>3, PartyReleased
  <2>2. CASE ~(sub[w].pc = "queued")
    <3>1. /\ \A u \in Tasks : InSemaphore(u)' <=> InSemaphore(u)
          /\ \A v \in Writers : InnerIn(v)' <=> InnerIn(v)
      BY <1>11, <2>2 DEF CoreType, Point, Points, Tasks, Writers, InSemaphore, InnerIn,
           PcInv, PushInv, CallInv, Alone, CaptureInv, One, GiveUpInner, After, Move, Out, At
    <3>2. /\ sem' = sem /\ running'.on = running.on
          /\ \A l \in Permits : refs'[l] > 0 => refs[l] > 0 \/ l \in sem.shared
          /\ \A d \in Captures : main'[d].pc = "working" => main[d].pc = "working" \/ sem.exclusive = d
      BY <1>11, <2>2 DEF CoreType, Tasks, Writers, PcInv, PushInv, CallInv, Alone,
           CaptureInv, GiveUpInner, After, Move, Out, At
    <3> QED
      BY <3>1, <3>2, PartyKept
  <2> QED
    BY <2>1, <2>2
<1>12. ASSUME NEW p \in Pushes, Lock(p) PROVE PartyInv'
  <2>1. /\ \A u \in Tasks : InSemaphore(u)' <=> InSemaphore(u)
        /\ \A v \in Writers : InnerIn(v)' <=> InnerIn(v)
    BY <1>12 DEF CoreType, Point, Points, Tasks, Writers, InSemaphore, InnerIn, PcInv, PushInv,
         CallInv, Alone, CaptureInv, One, Lock, KeepAccess, Move
  <2>2. /\ sem' = sem /\ running'.on = running.on
        /\ \A l \in Permits : refs'[l] > 0 => refs[l] > 0 \/ l \in sem.shared
        /\ \A d \in Captures : main'[d].pc = "working" => main[d].pc = "working" \/ sem.exclusive = d
    BY <1>12 DEF CoreType, Tasks, Writers, PcInv, PushInv, CallInv, Alone, CaptureInv, Lock,
         KeepAccess, Move
  <2> QED
    BY <2>1, <2>2, PartyKept
<1>13. ASSUME NEW p \in Pushes, EndPush(p) PROVE PartyInv'
  <2>1. /\ \A u \in Tasks : InSemaphore(u)' <=> InSemaphore(u)
        /\ \A v \in Writers : InnerIn(v)' <=> InnerIn(v)
    BY <1>13 DEF CoreType, Point, Points, Tasks, Writers, InSemaphore, InnerIn, PcInv, PushInv,
         CallInv, Alone, CaptureInv, One, EndPush, Out, At
  <2>2. /\ sem' = sem /\ running'.on = running.on
        /\ \A l \in Permits : refs'[l] > 0 => refs[l] > 0 \/ l \in sem.shared
        /\ \A d \in Captures : main'[d].pc = "working" => main[d].pc = "working" \/ sem.exclusive = d
    BY <1>13 DEF CoreType, Tasks, Writers, PcInv, PushInv, CallInv, Alone, CaptureInv, EndPush,
         Out, At
  <2> QED
    BY <2>1, <2>2, PartyKept
<1>14. ASSUME NEW c \in Calls, EndCall(c) PROVE PartyInv'
  <2>1. CASE refs[c] = 1
    <3>1. /\ \A u \in Tasks : InSemaphore(u)' <=> InSemaphore(u) /\ u # c
          /\ \A v \in Writers : InnerIn(v)' <=> InnerIn(v) /\ Inner(v) # c
      BY <1>14, <2>1 DEF CoreType, Point, Points, Tasks, Writers, InSemaphore, InnerIn,
           PcInv, PushInv, CallInv, Alone, CaptureInv, One, EndCall, LastRef, Move, Out, At
    <3>2. /\ \A k \in Permits : refs'[k] > 0 => refs[k] > 0 /\ k # c
          /\ \A d \in Captures : main'[d].pc = "working" => main[d].pc = "working" /\ d # c
      BY <1>14, <2>1 DEF CoreType, Tasks, Writers, PcInv, PushInv, CallInv, Alone,
           CaptureInv, One, EndCall, LastRef, Move, Out, At
    <3>3. sem' = Released(sem, c) /\ running' = running /\ c \in Askers
      BY <1>14, <2>1 DEF Tasks, Writers, EndCall, LastRef
    <3> QED
      BY <3>1, <3>2, <3>3, PartyReleased
  <2>2. CASE ~(refs[c] = 1)
    <3>1. /\ \A u \in Tasks : InSemaphore(u)' <=> InSemaphore(u)
          /\ \A v \in Writers : InnerIn(v)' <=> InnerIn(v)
      BY <1>14, <2>2 DEF CoreType, Point, Points, Tasks, Writers, InSemaphore, InnerIn,
           PcInv, PushInv, CallInv, Alone, CaptureInv, One, EndCall, LastRef, Move, Out, At
    <3>2. /\ sem' = sem /\ running'.on = running.on
          /\ \A l \in Permits : refs'[l] > 0 => refs[l] > 0 \/ l \in sem.shared
          /\ \A d \in Captures : main'[d].pc = "working" => main[d].pc = "working" \/ sem.exclusive = d
      BY <1>14, <2>2 DEF CoreType, Tasks, Writers, PcInv, PushInv, CallInv, Alone,
           CaptureInv, EndCall, LastRef, Move, Out, At
    <3> QED
      BY <3>1, <3>2, PartyKept
  <2> QED
    BY <2>1, <2>2
<1>15. ASSUME NEW c \in Captures, EndCapture(c) PROVE PartyInv'
  <2>1. /\ \A u \in Tasks : InSemaphore(u)' <=> InSemaphore(u) /\ u # c
        /\ \A v \in Writers : InnerIn(v)' <=> InnerIn(v) /\ Inner(v) # c
    BY <1>15 DEF CoreType, Point, Points, Tasks, Writers, InSemaphore, InnerIn, PcInv, PushInv,
         CallInv, Alone, CaptureInv, One, EndCapture, Out, At
  <2>2. /\ \A k \in Permits : refs'[k] > 0 => refs[k] > 0 /\ k # c
        /\ \A d \in Captures : main'[d].pc = "working" => main[d].pc = "working" /\ d # c
    BY <1>15 DEF CoreType, Tasks, Writers, PcInv, PushInv, CallInv, Alone, CaptureInv, One,
         EndCapture, Out, At
  <2>3. sem' = Released(sem, c) /\ running' = running /\ c \in Askers
    BY <1>15 DEF Tasks, Writers, EndCapture, LastRef
  <2> QED
    BY <2>1, <2>2, <2>3, PartyReleased
<1>16. ASSUME NEW name \in Repos \cup {NoRepo}, StartRun(name) PROVE PartyInv'
  <2>1. /\ \A u \in Tasks : InSemaphore(u)' <=> InSemaphore(u)
        /\ \A v \in Writers : InnerIn(v)' <=> InnerIn(v)
        /\ main' = main /\ refs' = refs /\ running'.on
    BY <1>16 DEF StartRun, InSemaphore, InnerIn
  <2> QED
    BY <1>16, <2>1, RunGranted DEF PartyInv
<1>17. CASE EndRun
  <2>1. /\ \A u \in Tasks : InSemaphore(u)' <=> InSemaphore(u)
        /\ \A v \in Writers : InnerIn(v)' <=> InnerIn(v)
        /\ \A d \in Captures : main'[d].pc = "working" => main[d].pc = "working"
    BY <1>17 DEF CoreType, Tasks, Writers, EndRun, Woken, At, InSemaphore, InnerIn
  <2>2. sem' = Released(sem, Maintainer) /\ refs' = refs /\ ~running'.on
    BY <1>17 DEF EndRun, Idle
  <2>3. /\ Parties(sem') = Parties(sem) \ {Maintainer}
        /\ sem.shared \ {Maintainer} \subseteq sem'.shared
        /\ sem.exclusive \notin {NoTask, Maintainer} => sem'.exclusive = sem.exclusive
        /\ Maintainer \notin sem'.shared
    BY <2>2, ReleasedFacts
  <2>4. \A l \in Permits : l # Maintainer
    BY TasksAssumption DEF Askers
  <2> QED
    BY <2>1, <2>2, <2>3, <2>4 DEF PartyInv, Tasks
<1>18. CASE UNCHANGED vars
  BY <1>18 DEF PartyInv, InSemaphore, InnerIn, vars
<1> QED
  BY <1>1, <1>2, <1>3, <1>4, <1>5, <1>6, <1>7, <1>8, <1>9, <1>10, <1>11, <1>12, <1>13, <1>14,
       <1>15, <1>16, <1>17, <1>18 DEF Next

-----------------------------------------------------------------------------
(* The counts of the accesses.                                              *)

\* A step leaves one part of a task inside as it was, or outside.
KeptMain(t) ==
    /\ Inside(main[t])' <=> Inside(main[t])
    /\ Inside(main[t]) => main'[t].scope = main[t].scope
KeptSub(w) ==
    /\ Inside(sub[w])' <=> Inside(sub[w])
    /\ Inside(sub[w]) => sub'[w].scope = sub[w].scope

\* Whoever is not among A keeps its access.
LEMMA OthersKept ==
  ASSUME NEW A, \A t \in Tasks : <<"main", t>> \notin A => KeptMain(t),
         \A w \in Writers : <<"sub", w>> \notin A => KeptSub(w)
  PROVE  /\ Accesses' \ A = Accesses \ A
         /\ \A b \in Accesses \ A : ScopeOf(b)' = ScopeOf(b)
<1>1. \A a : a \in Accesses' <=> \/ \E t \in Tasks : a = <<"main", t>> /\ Inside(main[t])'
                                \/ \E w \in Writers : a = <<"sub", w>> /\ Inside(sub[w])'
  BY DEF Accesses
<1>2. ASSUME NEW a, a \notin A PROVE a \in Accesses' <=> a \in Accesses
  BY <1>1, <1>2, InAccesses DEF KeptMain, KeptSub
<1>3. ASSUME NEW b \in Accesses, b \notin A PROVE ScopeOf(b)' = ScopeOf(b)
  <2>1. CASE \E t \in Tasks : b = <<"main", t>> /\ Inside(main[t])
    BY <1>3, <2>1 DEF KeptMain, ScopeOf
  <2>2. CASE \E w \in Writers : b = <<"sub", w>> /\ Inside(sub[w])
    BY <1>3, <2>2 DEF KeptSub, ScopeOf
  <2> QED
    BY <2>1, <2>2, InAccesses
<1> QED
  BY <1>2, <1>3

\* Nobody is admitted and nobody leaves.
LEMMA NobodyMoved ==
  ASSUME AccessExact, UNCHANGED <<all, repos>>, \A t \in Tasks : KeptMain(t),
         \A w \in Writers : KeptSub(w)
  PROVE  AccessExact'
<1>1. Accesses' \ {} = Accesses \ {} /\ \A b \in Accesses \ {} : ScopeOf(b)' = ScopeOf(b)
  BY OthersKept
<1> QED
  BY <1>1, Stayed

\* A request is admitted.
LEMMA MainEnters ==
  ASSUME AccessExact, NEW t \in Tasks, \A u \in Tasks \ {t} : KeptMain(u),
         \A w \in Writers : KeptSub(w), ~Inside(main[t]), Inside(main[t])',
         Admit(main'[t].scope)
  PROVE  AccessExact'
<1> DEFINE a == <<"main", t>>
<1>1. Accesses' \ {a} = Accesses \ {a} /\ \A b \in Accesses \ {a} : ScopeOf(b)' = ScopeOf(b)
  BY OthersKept
<1>2. a \notin Accesses /\ a \in Accesses' /\ ScopeOf(a)' = main'[t].scope
  BY DEF Accesses, ScopeOf
<1> HIDE DEF a
<1>3. Accesses' = Accesses \cup {a} /\ \A b \in Accesses : ScopeOf(b)' = ScopeOf(b)
  BY <1>1, <1>2
<1> QED
  BY <1>2, <1>3, Entered DEF a

\* Inner work is admitted.
LEMMA SubEnters ==
  ASSUME AccessExact, NEW w \in Writers, \A t \in Tasks : KeptMain(t),
         \A v \in Writers \ {w} : KeptSub(v), ~Inside(sub[w]), Inside(sub[w])',
         Admit(sub'[w].scope)
  PROVE  AccessExact'
<1> DEFINE a == <<"sub", w>>
<1>1. Accesses' \ {a} = Accesses \ {a} /\ \A b \in Accesses \ {a} : ScopeOf(b)' = ScopeOf(b)
  BY OthersKept
<1>2. a \notin Accesses /\ a \in Accesses' /\ ScopeOf(a)' = sub'[w].scope
  BY DEF Accesses, ScopeOf
<1> HIDE DEF a
<1>3. Accesses' = Accesses \cup {a} /\ \A b \in Accesses : ScopeOf(b)' = ScopeOf(b)
  BY <1>1, <1>2
<1> QED
  BY <1>2, <1>3, Entered DEF a

\* A request leaves.
LEMMA MainLeaves ==
  ASSUME AccessExact, NEW t \in Tasks, \A u \in Tasks \ {t} : KeptMain(u),
         \A w \in Writers : KeptSub(w), Inside(main[t]), ~Inside(main[t])',
         Dismiss(main[t].scope, NoScope)
  PROVE  AccessExact'
<1> DEFINE a == <<"main", t>>
<1>1. Accesses' \ {a} = Accesses \ {a} /\ \A b \in Accesses \ {a} : ScopeOf(b)' = ScopeOf(b)
  BY OthersKept
<1>2. a \in Accesses /\ a \notin Accesses' /\ ScopeOf(a) = main[t].scope
  BY DEF Accesses, ScopeOf
<1> HIDE DEF a
<1>3. Accesses' = Accesses \ {a}
  BY <1>1, <1>2
<1> QED
  BY <1>1, <1>2, <1>3, Left

\* Inner work leaves.
LEMMA SubLeaves ==
  ASSUME AccessExact, NEW w \in Writers, \A t \in Tasks : KeptMain(t),
         \A v \in Writers \ {w} : KeptSub(v), Inside(sub[w]), ~Inside(sub[w])',
         Dismiss(sub[w].scope, NoScope)
  PROVE  AccessExact'
<1> DEFINE a == <<"sub", w>>
<1>1. Accesses' \ {a} = Accesses \ {a} /\ \A b \in Accesses \ {a} : ScopeOf(b)' = ScopeOf(b)
  BY OthersKept
<1>2. a \in Accesses /\ a \notin Accesses' /\ ScopeOf(a) = sub[w].scope
  BY DEF Accesses, ScopeOf
<1> HIDE DEF a
<1>3. Accesses' = Accesses \ {a}
  BY <1>1, <1>2
<1> QED
  BY <1>1, <1>2, <1>3, Left

\* The last work under a shared lease takes the call's access with it.
LEMMA BothLeave ==
  ASSUME AccessExact, NEW w \in Writers, \A t \in Tasks \ {w} : KeptMain(t),
         \A v \in Writers \ {w} : KeptSub(v), Inside(sub[w]), ~Inside(sub[w])',
         Inside(main[w]), ~Inside(main[w])', Dismiss(sub[w].scope, main[w].scope)
  PROVE  AccessExact'
<1> DEFINE a == <<"sub", w>>
           c == <<"main", w>>
<1>1. /\ Accesses' \ {a, c} = Accesses \ {a, c}
      /\ \A b \in Accesses \ {a, c} : ScopeOf(b)' = ScopeOf(b)
  BY OthersKept
<1>2. /\ a \in Accesses /\ a \notin Accesses' /\ ScopeOf(a) = sub[w].scope
      /\ c \in Accesses /\ c \notin Accesses' /\ ScopeOf(c) = main[w].scope /\ a # c
  BY DEF Accesses, ScopeOf, Tasks
<1> HIDE DEF a, c
<1>3. Accesses' = Accesses \ {a, c}
  BY <1>1, <1>2
<1> QED
  BY <1>1, <1>2, <1>3, LeftTwo

\* The counts follow the requests, also when they give up or share a lease.
LEMMA AccessStep == CoreType /\ PcInv /\ AccessExact /\ [Next]_vars => AccessExact'
<1> SUFFICES ASSUME CoreType, PcInv, AccessExact, [Next]_vars PROVE AccessExact'
  OBVIOUS
<1> USE TasksFacts, InnerFacts, ScopesAssumption
<1>1. ASSUME NEW t \in Tasks, NEW s \in Scopes \cup {{}}, Start(t, s) PROVE AccessExact'
  <2>1. \A u \in Tasks : KeptMain(u)
    BY <1>1 DEF CoreType, Point, Points, Run, Tasks, Writers, PcInv, PushInv, CallInv, Alone,
         CaptureInv, ScopeInv, Inside, NoScope, One, KeptMain, KeptSub, Start, KeepAccess, At
  <2>2. \A v \in Writers : KeptSub(v)
    BY <1>1 DEF CoreType, Point, Points, Run, Tasks, Writers, PcInv, PushInv, CallInv, Alone,
         CaptureInv, ScopeInv, Inside, NoScope, One, KeptMain, KeptSub, Start, KeepAccess, At
  <2> QED
    BY <1>1, <2>1, <2>2, NobodyMoved DEF Start, KeepAccess
<1>2. ASSUME NEW t \in Tasks, Drain(t) PROVE AccessExact'
  <2>1. \A u \in Tasks : KeptMain(u)
    BY <1>2 DEF CoreType, Point, Points, Run, Tasks, Writers, PcInv, PushInv, CallInv, Alone,
         CaptureInv, ScopeInv, Inside, NoScope, One, KeptMain, KeptSub, Drain, CancelRun, Move
  <2>2. \A v \in Writers : KeptSub(v)
    BY <1>2 DEF CoreType, Point, Points, Run, Tasks, Writers, PcInv, PushInv, CallInv, Alone,
         CaptureInv, ScopeInv, Inside, NoScope, One, KeptMain, KeptSub, Drain, CancelRun, Move
  <2> QED
    BY <1>2, <2>1, <2>2, NobodyMoved DEF Drain
<1>3. ASSUME NEW t \in Tasks, Enter(t) PROVE AccessExact'
  <2>1. \A u \in Tasks \ {t} : KeptMain(u)
    BY <1>3 DEF CoreType, Point, Points, Run, Tasks, Writers, PcInv, PushInv, CallInv, Alone,
         CaptureInv, ScopeInv, Inside, NoScope, One, KeptMain, KeptSub, Enter, Counted, Move
  <2>2. \A v \in Writers : KeptSub(v)
    BY <1>3 DEF CoreType, Point, Points, Run, Tasks, Writers, PcInv, PushInv, CallInv, Alone,
         CaptureInv, ScopeInv, Inside, NoScope, One, KeptMain, KeptSub, Enter, Counted, Move
  <2>3. ~Inside(main[t]) /\ Inside(main[t])' /\ main'[t].scope = main[t].scope
    BY <1>3 DEF CoreType, Point, Points, Run, Tasks, Writers, PcInv, PushInv, CallInv, Alone,
         CaptureInv, ScopeInv, Inside, NoScope, One, KeptMain, KeptSub, Enter, Counted, Move
  <2> QED
    BY <1>3, <2>1, <2>2, <2>3, MainEnters DEF Enter, Tasks, Writers, Move, Counted
<1>4. ASSUME NEW t \in Tasks, Wake(t) PROVE AccessExact'
  <2>1. \A u \in Tasks : KeptMain(u)
    BY <1>4 DEF CoreType, Point, Points, Run, Tasks, Writers, PcInv, PushInv, CallInv, Alone,
         CaptureInv, ScopeInv, Inside, NoScope, One, KeptMain, KeptSub, Wake, KeepAccess, Move
  <2>2. \A v \in Writers : KeptSub(v)
    BY <1>4 DEF CoreType, Point, Points, Run, Tasks, Writers, PcInv, PushInv, CallInv, Alone,
         CaptureInv, ScopeInv, Inside, NoScope, One, KeptMain, KeptSub, Wake, KeepAccess, Move
  <2> QED
    BY <1>4, <2>1, <2>2, NobodyMoved DEF Wake, KeepAccess
<1>5. ASSUME NEW t \in Tasks, GiveUp(t) PROVE AccessExact'
  <2>1. CASE main[t].pc = "queued"
    <3>1. \A u \in Tasks \ {t} : KeptMain(u)
      BY <1>5, <2>1 DEF CoreType, Point, Points, Run, Tasks, Writers, PcInv, PushInv, CallInv, Alone,
           CaptureInv, ScopeInv, Inside, NoScope, One, KeptMain, KeptSub, GiveUp, Out, At
    <3>2. \A v \in Writers : KeptSub(v)
      BY <1>5, <2>1 DEF CoreType, Point, Points, Run, Tasks, Writers, PcInv, PushInv, CallInv, Alone,
           CaptureInv, ScopeInv, Inside, NoScope, One, KeptMain, KeptSub, GiveUp, Out, At
    <3>3. Inside(main[t]) /\ ~Inside(main[t])'
      BY <1>5, <2>1 DEF CoreType, Point, Points, Run, Tasks, Writers, PcInv, PushInv, CallInv, Alone,
           CaptureInv, ScopeInv, Inside, NoScope, One, KeptMain, KeptSub, GiveUp, Out, At
    <3> QED
      BY <1>5, <2>1, <3>1, <3>2, <3>3, MainLeaves DEF GiveUp, Tasks, Writers, Move, Counted
  <2>2. CASE main[t].pc # "queued"
    <3>1. \A u \in Tasks : KeptMain(u)
      BY <1>5, <2>2 DEF CoreType, Point, Points, Run, Tasks, Writers, PcInv, PushInv, CallInv, Alone,
           CaptureInv, ScopeInv, Inside, NoScope, One, KeptMain, KeptSub, GiveUp, Out, At
    <3>2. \A v \in Writers : KeptSub(v)
      BY <1>5, <2>2 DEF CoreType, Point, Points, Run, Tasks, Writers, PcInv, PushInv, CallInv, Alone,
           CaptureInv, ScopeInv, Inside, NoScope, One, KeptMain, KeptSub, GiveUp, Out, At
    <3> QED
      BY <1>5, <2>2, <3>1, <3>2, NobodyMoved DEF GiveUp
  <2> QED
    BY <2>1, <2>2 DEF GiveUp
<1>6. ASSUME NEW w \in Writers, NEW s \in Scopes, StartInner(w, s) PROVE AccessExact'
  <2>1. \A u \in Tasks : KeptMain(u)
    BY <1>6 DEF CoreType, Point, Points, Run, Tasks, Writers, PcInv, PushInv, CallInv, Alone,
         CaptureInv, ScopeInv, Inside, NoScope, One, KeptMain, KeptSub, StartInner, KeepAccess,
         At
  <2>2. \A v \in Writers : KeptSub(v)
    BY <1>6 DEF CoreType, Point, Points, Run, Tasks, Writers, PcInv, PushInv, CallInv, Alone,
         CaptureInv, ScopeInv, Inside, NoScope, One, KeptMain, KeptSub, StartInner, KeepAccess,
         At
  <2> QED
    BY <1>6, <2>1, <2>2, NobodyMoved DEF StartInner, KeepAccess
<1>7. ASSUME NEW w \in Writers, DrainInner(w) PROVE AccessExact'
  <2>1. \A u \in Tasks : KeptMain(u)
    BY <1>7 DEF CoreType, Point, Points, Run, Tasks, Writers, PcInv, PushInv, CallInv, Alone,
         CaptureInv, ScopeInv, Inside, NoScope, One, KeptMain, KeptSub, DrainInner, CancelRun,
         Move
  <2>2. \A v \in Writers : KeptSub(v)
    BY <1>7 DEF CoreType, Point, Points, Run, Tasks, Writers, PcInv, PushInv, CallInv, Alone,
         CaptureInv, ScopeInv, Inside, NoScope, One, KeptMain, KeptSub, DrainInner, CancelRun,
         Move
  <2> QED
    BY <1>7, <2>1, <2>2, NobodyMoved DEF DrainInner
<1>8. ASSUME NEW w \in Writers, EnterInner(w) PROVE AccessExact'
  <2>1. \A u \in Tasks : KeptMain(u)
    BY <1>8 DEF CoreType, Point, Points, Run, Tasks, Writers, PcInv, PushInv, CallInv, Alone,
         CaptureInv, ScopeInv, Inside, NoScope, One, KeptMain, KeptSub, EnterInner, Counted,
         Move
  <2>2. \A v \in Writers \ {w} : KeptSub(v)
    BY <1>8 DEF CoreType, Point, Points, Run, Tasks, Writers, PcInv, PushInv, CallInv, Alone,
         CaptureInv, ScopeInv, Inside, NoScope, One, KeptMain, KeptSub, EnterInner, Counted,
         Move
  <2>3. ~Inside(sub[w]) /\ Inside(sub[w])' /\ sub'[w].scope = sub[w].scope
    BY <1>8 DEF CoreType, Point, Points, Run, Tasks, Writers, PcInv, PushInv, CallInv, Alone,
         CaptureInv, ScopeInv, Inside, NoScope, One, KeptMain, KeptSub, EnterInner, Counted,
         Move
  <2> QED
    BY <1>8, <2>1, <2>2, <2>3, SubEnters DEF EnterInner, Tasks, Writers, Move, Counted
<1>9. ASSUME NEW w \in Writers, WakeInner(w) PROVE AccessExact'
  <2>1. \A u \in Tasks : KeptMain(u)
    BY <1>9 DEF CoreType, Point, Points, Run, Tasks, Writers, PcInv, PushInv, CallInv, Alone,
         CaptureInv, ScopeInv, Inside, NoScope, One, KeptMain, KeptSub, WakeInner, KeepAccess,
         Move
  <2>2. \A v \in Writers : KeptSub(v)
    BY <1>9 DEF CoreType, Point, Points, Run, Tasks, Writers, PcInv, PushInv, CallInv, Alone,
         CaptureInv, ScopeInv, Inside, NoScope, One, KeptMain, KeptSub, WakeInner, KeepAccess,
         Move
  <2> QED
    BY <1>9, <2>1, <2>2, NobodyMoved DEF WakeInner, KeepAccess
<1>10. ASSUME NEW w \in Writers, EndInner(w) PROVE AccessExact'
  <2>1. sub' = [sub EXCEPT ![w] = Out] /\ main' = After(w) /\ sub[w].pc = "working"
    BY <1>10 DEF EndInner
  <2>2. PushInv /\ CallInv
    BY DEF PcInv
  <2>3. CASE /\ w \in Calls /\ main[w].pc = "over" /\ main[w].scope # NoScope
             /\ Dismiss(sub[w].scope, main[w].scope)
    <3>1. \A u \in Tasks \ {w} : KeptMain(u)
      BY <2>1, <2>3 DEF CoreType, Point, Points, Tasks, Writers, PcInv, PushInv, CallInv,
           Alone, ScopeInv, Inside, NoScope, KeptMain, KeptSub, After, Move, Out, At
    <3>2. \A v \in Writers \ {w} : KeptSub(v)
      BY <2>1, <2>3 DEF CoreType, Point, Points, Tasks, Writers, PcInv, PushInv, CallInv,
           Alone, ScopeInv, Inside, NoScope, KeptMain, KeptSub, After, Move, Out, At
    <3>3. Inside(sub[w]) /\ ~Inside(sub[w])' /\ Inside(main[w]) /\ ~Inside(main[w])'
      BY <2>1, <2>3 DEF CoreType, Point, Points, Tasks, Writers, PcInv, PushInv, CallInv,
           Alone, ScopeInv, Inside, NoScope, KeptMain, KeptSub, After, Move, Out, At
    <3> QED
      BY <2>3, <3>1, <3>2, <3>3, BothLeave DEF Tasks, Writers
  <2>4. CASE /\ Dismiss(sub[w].scope, NoScope)
             /\ \/ w \in Pushes
                \/ w \in Calls /\ (Alone(w) \/ main[w].pc = "working")
    <3>1. \A u \in Tasks : KeptMain(u)
      BY <2>1, <2>4 DEF CoreType, Point, Points, Tasks, Writers, PcInv, PushInv, CallInv,
           Alone, ScopeInv, Inside, NoScope, KeptMain, KeptSub, After, Move, Out, At
    <3>2. \A v \in Writers \ {w} : KeptSub(v)
      BY <2>1, <2>4 DEF CoreType, Point, Points, Tasks, Writers, PcInv, PushInv, CallInv,
           Alone, ScopeInv, Inside, NoScope, KeptMain, KeptSub, After, Move, Out, At
    <3>3. Inside(sub[w]) /\ ~Inside(sub[w])'
      BY <2>1, <2>4 DEF CoreType, Point, Points, Tasks, Writers, PcInv, PushInv, CallInv,
           Alone, ScopeInv, Inside, NoScope, KeptMain, KeptSub, After, Move, Out, At
    <3> QED
      BY <2>4, <3>1, <3>2, <3>3, SubLeaves DEF Tasks, Writers
  <2> QED
    BY <1>10, <2>2, <2>3, <2>4, EndInnerCases
<1>11. ASSUME NEW w \in Writers, GiveUpInner(w) PROVE AccessExact'
  <2>1. CASE sub[w].pc = "queued"
    <3>1. \A u \in Tasks : KeptMain(u)
      BY <1>11, <2>1 DEF CoreType, Point, Points, Run, Tasks, Writers, PcInv, PushInv, CallInv, Alone,
           CaptureInv, ScopeInv, Inside, NoScope, One, KeptMain, KeptSub, GiveUpInner, After,
           Move, Out, At
    <3>2. \A v \in Writers \ {w} : KeptSub(v)
      BY <1>11, <2>1 DEF CoreType, Point, Points, Run, Tasks, Writers, PcInv, PushInv, CallInv, Alone,
           CaptureInv, ScopeInv, Inside, NoScope, One, KeptMain, KeptSub, GiveUpInner, After,
           Move, Out, At
    <3>3. Inside(sub[w]) /\ ~Inside(sub[w])'
      BY <1>11, <2>1 DEF CoreType, Point, Points, Run, Tasks, Writers, PcInv, PushInv, CallInv, Alone,
           CaptureInv, ScopeInv, Inside, NoScope, One, KeptMain, KeptSub, GiveUpInner, After,
           Move, Out, At
    <3> QED
      BY <1>11, <2>1, <3>1, <3>2, <3>3, SubLeaves DEF GiveUpInner, Tasks, Writers, Move, Counted
  <2>2. CASE sub[w].pc # "queued"
    <3>1. \A u \in Tasks : KeptMain(u)
      BY <1>11, <2>2 DEF CoreType, Point, Points, Run, Tasks, Writers, PcInv, PushInv, CallInv, Alone,
           CaptureInv, ScopeInv, Inside, NoScope, One, KeptMain, KeptSub, GiveUpInner, After,
           Move, Out, At
    <3>2. \A v \in Writers : KeptSub(v)
      BY <1>11, <2>2 DEF CoreType, Point, Points, Run, Tasks, Writers, PcInv, PushInv, CallInv, Alone,
           CaptureInv, ScopeInv, Inside, NoScope, One, KeptMain, KeptSub, GiveUpInner, After,
           Move, Out, At
    <3> QED
      BY <1>11, <2>2, <3>1, <3>2, NobodyMoved DEF GiveUpInner
  <2> QED
    BY <2>1, <2>2 DEF GiveUpInner
<1>12. ASSUME NEW p \in Pushes, Lock(p) PROVE AccessExact'
  <2>1. \A u \in Tasks : KeptMain(u)
    BY <1>12 DEF CoreType, Point, Points, Run, Tasks, Writers, PcInv, PushInv, CallInv, Alone,
         CaptureInv, ScopeInv, Inside, NoScope, One, KeptMain, KeptSub, Lock, KeepAccess, Move
  <2>2. \A v \in Writers : KeptSub(v)
    BY <1>12 DEF CoreType, Point, Points, Run, Tasks, Writers, PcInv, PushInv, CallInv, Alone,
         CaptureInv, ScopeInv, Inside, NoScope, One, KeptMain, KeptSub, Lock, KeepAccess, Move
  <2> QED
    BY <1>12, <2>1, <2>2, NobodyMoved DEF Lock, KeepAccess
<1>13. ASSUME NEW p \in Pushes, EndPush(p) PROVE AccessExact'
  <2>1. \A u \in Tasks \ {p} : KeptMain(u)
    BY <1>13 DEF CoreType, Point, Points, Run, Tasks, Writers, PcInv, PushInv, CallInv, Alone,
         CaptureInv, ScopeInv, Inside, NoScope, One, KeptMain, KeptSub, EndPush, Out, At
  <2>2. \A v \in Writers : KeptSub(v)
    BY <1>13 DEF CoreType, Point, Points, Run, Tasks, Writers, PcInv, PushInv, CallInv, Alone,
         CaptureInv, ScopeInv, Inside, NoScope, One, KeptMain, KeptSub, EndPush, Out, At
  <2>3. Inside(main[p]) /\ ~Inside(main[p])'
    BY <1>13 DEF CoreType, Point, Points, Run, Tasks, Writers, PcInv, PushInv, CallInv, Alone,
         CaptureInv, ScopeInv, Inside, NoScope, One, KeptMain, KeptSub, EndPush, Out, At
  <2> QED
    BY <1>13, <2>1, <2>2, <2>3, MainLeaves DEF EndPush, Tasks, Writers, Move, Counted
<1>14. ASSUME NEW c \in Calls, EndCall(c) PROVE AccessExact'
  <2>1. CASE LastRef(c)
    <3>1. \A u \in Tasks \ {c} : KeptMain(u)
      BY <1>14, <2>1 DEF CoreType, Point, Points, Run, Tasks, Writers, PcInv, PushInv, CallInv, Alone,
           CaptureInv, ScopeInv, Inside, NoScope, One, KeptMain, KeptSub, EndCall, LastRef,
           Move, Out, At
    <3>2. \A v \in Writers : KeptSub(v)
      BY <1>14, <2>1 DEF CoreType, Point, Points, Run, Tasks, Writers, PcInv, PushInv, CallInv, Alone,
           CaptureInv, ScopeInv, Inside, NoScope, One, KeptMain, KeptSub, EndCall, LastRef,
           Move, Out, At
    <3>3. Inside(main[c]) /\ ~Inside(main[c])'
      BY <1>14, <2>1 DEF CoreType, Point, Points, Run, Tasks, Writers, PcInv, PushInv, CallInv, Alone,
           CaptureInv, ScopeInv, Inside, NoScope, One, KeptMain, KeptSub, EndCall, LastRef,
           Move, Out, At
    <3> QED
      BY <1>14, <2>1, <3>1, <3>2, <3>3, MainLeaves DEF EndCall, Tasks, Writers, Move, Counted
  <2>2. CASE ~LastRef(c)
    <3>1. \A u \in Tasks : KeptMain(u)
      BY <1>14, <2>2 DEF CoreType, Point, Points, Run, Tasks, Writers, PcInv, PushInv, CallInv, Alone,
           CaptureInv, ScopeInv, Inside, NoScope, One, KeptMain, KeptSub, EndCall, LastRef,
           Move, Out, At
    <3>2. \A v \in Writers : KeptSub(v)
      BY <1>14, <2>2 DEF CoreType, Point, Points, Run, Tasks, Writers, PcInv, PushInv, CallInv, Alone,
           CaptureInv, ScopeInv, Inside, NoScope, One, KeptMain, KeptSub, EndCall, LastRef,
           Move, Out, At
    <3> QED
      BY <1>14, <2>2, <3>1, <3>2, NobodyMoved DEF EndCall
  <2> QED
    BY <2>1, <2>2 DEF EndCall
<1>15. ASSUME NEW c \in Captures, EndCapture(c) PROVE AccessExact'
  <2>1. \A u \in Tasks \ {c} : KeptMain(u)
    BY <1>15 DEF CoreType, Point, Points, Run, Tasks, Writers, PcInv, PushInv, CallInv, Alone,
         CaptureInv, ScopeInv, Inside, NoScope, One, KeptMain, KeptSub, EndCapture, Out, At
  <2>2. \A v \in Writers : KeptSub(v)
    BY <1>15 DEF CoreType, Point, Points, Run, Tasks, Writers, PcInv, PushInv, CallInv, Alone,
         CaptureInv, ScopeInv, Inside, NoScope, One, KeptMain, KeptSub, EndCapture, Out, At
  <2>3. Inside(main[c]) /\ ~Inside(main[c])'
    BY <1>15 DEF CoreType, Point, Points, Run, Tasks, Writers, PcInv, PushInv, CallInv, Alone,
         CaptureInv, ScopeInv, Inside, NoScope, One, KeptMain, KeptSub, EndCapture, Out, At
  <2> QED
    BY <1>15, <2>1, <2>2, <2>3, MainLeaves DEF EndCapture, Tasks, Writers, Move, Counted
<1>16. ASSUME NEW name \in Repos \cup {NoRepo}, StartRun(name) PROVE AccessExact'
  <2>1. \A u \in Tasks : KeptMain(u)
    BY <1>16 DEF CoreType, Point, Points, Run, Tasks, Writers, PcInv, PushInv, CallInv, Alone,
         CaptureInv, ScopeInv, Inside, NoScope, One, KeptMain, KeptSub, StartRun
  <2>2. \A v \in Writers : KeptSub(v)
    BY <1>16 DEF CoreType, Point, Points, Run, Tasks, Writers, PcInv, PushInv, CallInv, Alone,
         CaptureInv, ScopeInv, Inside, NoScope, One, KeptMain, KeptSub, StartRun
  <2> QED
    BY <1>16, <2>1, <2>2, NobodyMoved DEF StartRun
<1>17. CASE EndRun
  <2>1. \A u \in Tasks : KeptMain(u)
    BY <1>17 DEF CoreType, Point, Points, Run, Tasks, Writers, PcInv, PushInv, CallInv, Alone,
         CaptureInv, ScopeInv, Inside, NoScope, One, KeptMain, KeptSub, EndRun, Woken, At, Idle
  <2>2. \A v \in Writers : KeptSub(v)
    BY <1>17 DEF CoreType, Point, Points, Run, Tasks, Writers, PcInv, PushInv, CallInv, Alone,
         CaptureInv, ScopeInv, Inside, NoScope, One, KeptMain, KeptSub, EndRun, Woken, At, Idle
  <2> QED
    BY <1>17, <2>1, <2>2, NobodyMoved DEF EndRun
<1>18. CASE UNCHANGED vars
  BY <1>18, NobodyMoved DEF KeptMain, KeptSub, Inside, vars
<1> QED
  BY <1>1, <1>2, <1>3, <1>4, <1>5, <1>6, <1>7, <1>8, <1>9, <1>10, <1>11, <1>12, <1>13, <1>14,
       <1>15, <1>16, <1>17, <1>18 DEF Next

\* MaintenanceAlone, said of the tasks instead of their accesses.
ByTask ==
    /\ \A t \in Tasks : Inside(main[t]) => ~InTheWay(main[t].scope)
    /\ \A w \in Writers : Inside(sub[w]) => ~InTheWay(sub[w].scope)

\* The two say the same.
LEMMA AloneByTask == MaintenanceAlone <=> ByTask
<1>1. ASSUME MaintenanceAlone, NEW t \in Tasks, Inside(main[t]) PROVE ~InTheWay(main[t].scope)
  <2>1. <<"main", t>> \in Accesses /\ ScopeOf(<<"main", t>>) = main[t].scope
    BY <1>1, InAccesses
  <2> QED
    BY <1>1, <2>1 DEF MaintenanceAlone
<1>2. ASSUME MaintenanceAlone, NEW w \in Writers, Inside(sub[w]) PROVE ~InTheWay(sub[w].scope)
  <2>1. <<"sub", w>> \in Accesses /\ ScopeOf(<<"sub", w>>) = sub[w].scope
    BY <1>2, InAccesses
  <2> QED
    BY <1>2, <2>1 DEF MaintenanceAlone
<1>3. ASSUME \A t \in Tasks : Inside(main[t]) => ~InTheWay(main[t].scope),
             \A w \in Writers : Inside(sub[w]) => ~InTheWay(sub[w].scope)
      PROVE  MaintenanceAlone
  BY <1>3, InAccesses DEF MaintenanceAlone
<1> QED
  BY <1>1, <1>2, <1>3 DEF ByTask

\* maintenance.Run looks at the counts, which are right, so nobody is in its way.
LEMMA IdleMeansEmpty ==
  ASSUME CoreType, AccessExact, NEW name \in Repos \cup {NoRepo}, ~Busy(name),
         NEW a \in Accesses
  PROVE  ScopeOf(a) # {} /\ name # NoRepo /\ name \notin ScopeOf(a)
<1>1. all = 0 /\ \A r \in Repos : name \in {NoRepo, r} => repos[r] = 0
  BY ScopesAssumption DEF Busy
<1>2. a \notin AllOf
  <2>1. Cardinality(AllOf) = 0 /\ IsFiniteSet(AllOf)
    BY <1>1, AccessesFinite DEF AccessExact, AllOf
  <2> QED
    BY <2>1, FS_EmptySet
<1>3. ASSUME NEW r \in Repos, name \in {NoRepo, r} PROVE a \notin Of(r)
  <2>1. Cardinality(Of(r)) = 0 /\ IsFiniteSet(Of(r))
    BY <1>1, <1>3, AccessesFinite DEF AccessExact, Of
  <2> QED
    BY <2>1, FS_EmptySet
<1>4. ScopeOf(a) # {} /\ ScopeOf(a) \subseteq Repos
  <2>1. ScopeOf(a) # NoScope /\ ScopeOf(a) \in Scopes \cup {{}, NoScope}
    BY InAccesses DEF Inside, CoreType, Point
  <2> QED
    BY <1>2, <2>1, ScopesAssumption DEF AllOf
<1> QED
  BY <1>3, <1>4 DEF Of

\* An arrival waits for the run in its way, and a run does not start in anybody's way.
LEMMA AloneStep == CoreType /\ PcInv /\ AccessExact /\ ByTask /\ [Next]_vars => ByTask'
<1> SUFFICES ASSUME CoreType, PcInv, AccessExact, ByTask, [Next]_vars PROVE ByTask'
  OBVIOUS
<1> USE TasksFacts, InnerFacts, ScopesAssumption
<1>1. ASSUME NEW t \in Tasks, NEW s \in Scopes \cup {{}}, Start(t, s) PROVE ByTask'
  BY <1>1 DEF CoreType, Point, Points, Run, Tasks, Writers, PcInv, PushInv, CallInv, Alone,
       CaptureInv, ScopeInv, Inside, NoScope, InTheWay, ByTask, Start, KeepAccess, At
<1>2. ASSUME NEW t \in Tasks, Drain(t) PROVE ByTask'
  BY <1>2 DEF CoreType, Point, Points, Run, Tasks, Writers, PcInv, PushInv, CallInv, Alone,
       CaptureInv, ScopeInv, Inside, NoScope, InTheWay, ByTask, Drain, CancelRun, Move
<1>3. ASSUME NEW t \in Tasks, Enter(t) PROVE ByTask'
  BY <1>3 DEF CoreType, Point, Points, Run, Tasks, Writers, PcInv, PushInv, CallInv, Alone,
       CaptureInv, ScopeInv, Inside, NoScope, InTheWay, ByTask, Enter, Counted, Move
<1>4. ASSUME NEW t \in Tasks, Wake(t) PROVE ByTask'
  BY <1>4 DEF CoreType, Point, Points, Run, Tasks, Writers, PcInv, PushInv, CallInv, Alone,
       CaptureInv, ScopeInv, Inside, NoScope, InTheWay, ByTask, Wake, KeepAccess, Move
<1>5. ASSUME NEW t \in Tasks, GiveUp(t) PROVE ByTask'
  BY <1>5 DEF CoreType, Point, Points, Run, Tasks, Writers, PcInv, PushInv, CallInv, Alone,
       CaptureInv, ScopeInv, Inside, NoScope, InTheWay, ByTask, GiveUp, Out, At
<1>6. ASSUME NEW w \in Writers, NEW s \in Scopes, StartInner(w, s) PROVE ByTask'
  BY <1>6 DEF CoreType, Point, Points, Run, Tasks, Writers, PcInv, PushInv, CallInv, Alone,
       CaptureInv, ScopeInv, Inside, NoScope, InTheWay, ByTask, StartInner, KeepAccess, At
<1>7. ASSUME NEW w \in Writers, DrainInner(w) PROVE ByTask'
  BY <1>7 DEF CoreType, Point, Points, Run, Tasks, Writers, PcInv, PushInv, CallInv, Alone,
       CaptureInv, ScopeInv, Inside, NoScope, InTheWay, ByTask, DrainInner, CancelRun, Move
<1>8. ASSUME NEW w \in Writers, EnterInner(w) PROVE ByTask'
  BY <1>8 DEF CoreType, Point, Points, Run, Tasks, Writers, PcInv, PushInv, CallInv, Alone,
       CaptureInv, ScopeInv, Inside, NoScope, InTheWay, ByTask, EnterInner, Counted, Move
<1>9. ASSUME NEW w \in Writers, WakeInner(w) PROVE ByTask'
  BY <1>9 DEF CoreType, Point, Points, Run, Tasks, Writers, PcInv, PushInv, CallInv, Alone,
       CaptureInv, ScopeInv, Inside, NoScope, InTheWay, ByTask, WakeInner, KeepAccess, Move
<1>10. ASSUME NEW w \in Writers, EndInner(w) PROVE ByTask'
  BY <1>10 DEF CoreType, Point, Points, Run, Tasks, Writers, PcInv, PushInv, CallInv, Alone,
       CaptureInv, ScopeInv, Inside, NoScope, InTheWay, ByTask, EndInner, After, LastRef, Move,
       Out, At
<1>11. ASSUME NEW w \in Writers, GiveUpInner(w) PROVE ByTask'
  BY <1>11 DEF CoreType, Point, Points, Run, Tasks, Writers, PcInv, PushInv, CallInv, Alone,
       CaptureInv, ScopeInv, Inside, NoScope, InTheWay, ByTask, GiveUpInner, After, Move, Out,
       At
<1>12. ASSUME NEW p \in Pushes, Lock(p) PROVE ByTask'
  BY <1>12 DEF CoreType, Point, Points, Run, Tasks, Writers, PcInv, PushInv, CallInv, Alone,
       CaptureInv, ScopeInv, Inside, NoScope, InTheWay, ByTask, Lock, KeepAccess, Move
<1>13. ASSUME NEW p \in Pushes, EndPush(p) PROVE ByTask'
  BY <1>13 DEF CoreType, Point, Points, Run, Tasks, Writers, PcInv, PushInv, CallInv, Alone,
       CaptureInv, ScopeInv, Inside, NoScope, InTheWay, ByTask, EndPush, Out, At
<1>14. ASSUME NEW c \in Calls, EndCall(c) PROVE ByTask'
  BY <1>14 DEF CoreType, Point, Points, Run, Tasks, Writers, PcInv, PushInv, CallInv, Alone,
       CaptureInv, ScopeInv, Inside, NoScope, InTheWay, ByTask, EndCall, LastRef, Move, Out, At
<1>15. ASSUME NEW c \in Captures, EndCapture(c) PROVE ByTask'
  BY <1>15 DEF CoreType, Point, Points, Run, Tasks, Writers, PcInv, PushInv, CallInv, Alone,
       CaptureInv, ScopeInv, Inside, NoScope, InTheWay, ByTask, EndCapture, Out, At
<1>16. ASSUME NEW name \in Repos \cup {NoRepo}, StartRun(name) PROVE ByTask'
  <2>1. \A a \in Accesses : ScopeOf(a) # {} /\ name # NoRepo /\ name \notin ScopeOf(a)
    BY <1>16, IdleMeansEmpty DEF StartRun
  <2>2. running' = [on |-> TRUE, repo |-> name, cancelled |-> FALSE] /\ UNCHANGED <<main, sub>>
    BY <1>16 DEF StartRun
  <2>3. ASSUME NEW u \in Tasks, Inside(main[u]) PROVE ~InTheWay(main[u].scope)'
    <3>1. <<"main", u>> \in Accesses /\ ScopeOf(<<"main", u>>) = main[u].scope
      BY <2>3, InAccesses
    <3> QED
      BY <2>1, <2>2, <3>1 DEF InTheWay
  <2>4. ASSUME NEW v \in Writers, Inside(sub[v]) PROVE ~InTheWay(sub[v].scope)'
    <3>1. <<"sub", v>> \in Accesses /\ ScopeOf(<<"sub", v>>) = sub[v].scope
      BY <2>4, InAccesses
    <3> QED
      BY <2>1, <2>2, <3>1 DEF InTheWay
  <2> QED
    BY <2>2, <2>3, <2>4 DEF ByTask, Inside
<1>17. CASE EndRun
  BY <1>17 DEF CoreType, Point, Points, Run, Tasks, Writers, PcInv, PushInv, CallInv, Alone,
       CaptureInv, ScopeInv, Inside, NoScope, InTheWay, ByTask, EndRun, Woken, At, Idle
<1>18. CASE UNCHANGED vars
  BY <1>18 DEF CoreType, Point, Points, Run, Tasks, Writers, PcInv, PushInv, CallInv, Alone,
       CaptureInv, ScopeInv, Inside, NoScope, InTheWay, ByTask, vars
<1> QED
  BY <1>1, <1>2, <1>3, <1>4, <1>5, <1>6, <1>7, <1>8, <1>9, <1>10, <1>11, <1>12, <1>13, <1>14,
       <1>15, <1>16, <1>17, <1>18 DEF Next

\* The count of every repository is there, 0 for a missing name.
ReposInv == repos = [r \in Repos |-> repos[r]]

\* No step adds or drops a repository's count.
LEMMA ReposStep == ReposInv /\ [Next]_vars => ReposInv'
<1>1. ASSUME ReposInv, Next PROVE ReposInv'
  BY <1>1 DEF ReposInv, Next, Start, Drain, Enter, Wake, GiveUp, StartInner, DrainInner,
       EnterInner, WakeInner, EndInner, GiveUpInner, Lock, EndPush, EndCall, EndCapture,
       StartRun, EndRun, KeepAccess, Counted, Admit, Dismiss
<1>2. ASSUME ReposInv, UNCHANGED vars PROVE ReposInv'
  BY <1>2 DEF ReposInv, vars
<1> QED
  BY <1>1, <1>2

-----------------------------------------------------------------------------
(* The theorems.                                                            *)

GateInv ==
    CoreType /\ PcInv /\ Sound(sem) /\ PartyInv /\ ReposInv /\ AccessExact /\ ByTask

\* Nobody is inside at the start.
LEMMA GateInit == Init => GateInv
<1> SUFFICES ASSUME Init PROVE GateInv
  OBVIOUS
<1> USE TasksFacts, InnerFacts, ScopesAssumption
<1>1. CoreType
  BY DEF Init, CoreType, Run, Idle, Out, At, Point, Points, NoScope
<1>2. /\ \A t \in Tasks : main[t] = Out
      /\ \A w \in Writers : sub[w] = Out /\ refs[w] = 0 /\ refs[Inner(w)] = 0
      /\ Out.pc = "out" /\ Out.scope = NoScope
  BY DEF Init, Out, At
<1>3. PcInv
  BY <1>2 DEF PcInv, PushInv, CallInv, Alone, CaptureInv, ScopeInv, One, Tasks, Writers
<1>4. /\ sem.shared = {} /\ sem.exclusive = NoTask /\ sem.queue = <<>>
      /\ sem = [shared |-> {}, exclusive |-> NoTask, queue |-> <<>>]
  BY DEF Init
<1>5. Places(sem) = {} /\ Waiting(sem) = {} /\ Holders(sem) = {}
  <2>1. <<>> \in Seq(Tasks) /\ Len(<<>>) = 0
    BY EmptySeq
  <2>2. Places(sem) = {}
    BY <1>4, <2>1 DEF Places
  <2>3. \A x : x \notin Waiting(sem)
    <3>1. sem.queue \in Seq(Tasks)
      BY <1>4, <2>1
    <3> QED
      BY <2>2, <3>1, InRange DEF Places, Waiting
  <2>4. Holders(sem) = {}
    BY <1>4 DEF Holders
  <2> QED
    BY <2>2, <2>3, <2>4
<1>6. Sound(sem)
  <2>1. sem \in Semaphore
    BY <1>4, EmptySeq DEF Semaphore
  <2> QED
    BY <1>4, <1>5, <2>1 DEF Sound
<1>7. PartyInv
  <2>1. (\A t \in Tasks : ~InSemaphore(t)) /\ \A w \in Writers : ~InnerIn(w)
    BY <1>2 DEF InSemaphore, InnerIn
  <2>2. Parties(sem) = {} /\ ~running.on
    BY <1>5 DEF Parties, Init, Idle
  <2>3. /\ \A l \in Permits : ~(refs[l] > 0)
        /\ \A c \in Captures : main[c].pc # "working"
        /\ Maintainer \notin sem.shared
    BY <1>2, <1>4 DEF Tasks
  <2> QED
    BY <2>1, <2>2, <2>3 DEF PartyInv
<1>8. ReposInv
  BY DEF Init, ReposInv
<1>9. Accesses = {}
  BY <1>2 DEF Accesses, Inside
<1>10. AccessExact
  <2>1. AllOf = {} /\ \A r \in Repos : Of(r) = {}
    BY <1>9 DEF AllOf, Of
  <2> QED
    BY <2>1, FS_EmptySet DEF Init, AccessExact, AllOf, Of
<1>11. ByTask
  BY <1>2 DEF ByTask, Inside
<1> QED
  BY <1>1, <1>3, <1>6, <1>7, <1>8, <1>10, <1>11 DEF GateInv

\* The inductive invariant: the program counters, the semaphore's holders and
\* waiters, and the access counts fit together.
THEOREM GateInvariant == Spec => []GateInv
<1>1. GateInv /\ [Next]_vars => GateInv'
  <2> SUFFICES ASSUME GateInv, [Next]_vars PROVE GateInv'
    OBVIOUS
  <2>0. CoreType /\ PcInv /\ Sound(sem) /\ PartyInv /\ ReposInv /\ AccessExact /\ ByTask
    BY DEF GateInv
  <2>1. CoreType'
    BY <2>0, CoreStep DEF PcInv
  <2>2. PushInv' /\ CallInv' /\ CaptureInv' /\ ScopeInv'
    BY <2>0, PushStep, CallStep, CaptureStep, ScopeStep DEF PcInv
  <2>3. Sound(sem)' /\ PartyInv'
    BY <2>0, SoundStep, PartyStep
  <2>4. ReposInv' /\ AccessExact' /\ ByTask'
    BY <2>0, ReposStep, AccessStep, AloneStep
  <2> QED
    BY <2>1, <2>2, <2>3, <2>4 DEF GateInv, PcInv
<1> QED
  BY GateInit, <1>1, PTL DEF Spec

\* Types: in particular the counts of BeginMaintenanceAccess and the references of a
\* lease never go below zero, and a lease is never shared more than twice.
THEOREM GateTypeCorrect == Spec => []TypeOK
<1>1. GateInv => TypeOK
  <2> SUFFICES ASSUME GateInv PROVE TypeOK
    OBVIOUS
  <2>1. IsFiniteSet(AllOf) /\ \A r : IsFiniteSet(Of(r))
    BY AccessesFinite
  <2>2. all \in Nat /\ \A r \in Repos : repos[r] \in Nat
    BY <2>1, FS_CardinalityType DEF GateInv, AccessExact, AllOf, Of
  <2>3. repos \in [Repos -> Nat]
    BY <2>2 DEF GateInv, ReposInv
  <2> QED
    BY <2>2, <2>3 DEF GateInv, CoreType, Sound, Semaphore, TypeOK
<1> QED
  BY GateInvariant, <1>1, PTL

\* WithSnapshotCapture: while a capture works nobody mutates, no other capture works
\* and no maintenance runs, however leases are shared and waits are given up.
THEOREM CapturesWorkAlone == Spec => []CaptureAlone
<1>1. GateInv => CaptureAlone
  <2> SUFFICES ASSUME GateInv, NEW c \in Captures, main[c].pc = "working"
               PROVE  /\ \A w \in Writers : ~Mutating(w)
                      /\ \A d \in Captures \ {c} : main[d].pc # "working"
                      /\ ~running.on
    BY DEF CaptureAlone
  <2>1. sem.exclusive = c /\ c # NoTask
    BY TasksFacts DEF GateInv, PartyInv, Tasks
  <2>2. sem.shared = {}
    BY <2>1 DEF GateInv, Sound
  <2>3. \A w \in Writers : Mutating(w) => refs[w] > 0 \/ refs[Inner(w)] > 0
    BY DEF GateInv, PcInv, PushInv, CallInv, Alone, CoreType, Mutating, One, Writers
  <2>4. \A l \in Permits : ~(refs[l] > 0)
    BY <2>2 DEF GateInv, PartyInv
  <2>5. \A w \in Writers : ~Mutating(w)
    BY <2>3, <2>4, TasksFacts, InnerFacts
  <2> QED
    BY <2>1, <2>2, <2>5 DEF GateInv, PartyInv
<1> QED
  BY GateInvariant, <1>1, PTL

\* BeginMaintenanceAccess and the maintenance worker: no request that has been admitted
\* to a repository finds a run working on it.
THEOREM MaintenanceIsAlone == Spec => []MaintenanceAlone
<1>1. GateInv => MaintenanceAlone
  BY AloneByTask DEF GateInv
<1> QED
  BY GateInvariant, <1>1, PTL

\* The release functions: the counts are exactly those of the requests inside, so no
\* access is released twice or kept by a request that gave up.
THEOREM AccessesCountedExactly == Spec => []AccessExact
<1>1. GateInv => AccessExact
  BY DEF GateInv
<1> QED
  BY GateInvariant, <1>1, PTL

\* Nobody waits at the head of the queue while the semaphore has room for it.
NoLostWakeup == sem.queue # <<>> => ~Fits(sem, Head(sem.queue))

\* semaphore.Weighted as the store uses it: a release, the end of a run and a wait that
\* is given up all wake whoever can then go in.
THEOREM NoWakeupLost == Spec => []NoLostWakeup
<1>1. GateInv => NoLostWakeup
  BY DEF GateInv, Sound, NoLostWakeup
<1> QED
  BY GateInvariant, <1>1, PTL

=============================================================================
