--------------------------- MODULE TaskQueueProofs ---------------------------
(* Proofs about TaskQueue, for every set of tasks, producers and workers,   *)
(* every capacity and every clock.                                          *)
EXTENDS TaskQueue, TLAPS, SequenceTheorems, FiniteSetTheorems

\* RemoveAt(s, i) is s without its i-th element.
LEMMA RemoveAtProperties ==
    ASSUME NEW S, NEW s \in Seq(S), NEW i \in DOMAIN s
    PROVE  /\ RemoveAt(s, i) \in Seq(S)
           /\ Len(RemoveAt(s, i)) = Len(s) - 1
           /\ \A j \in 1..(Len(s) - 1) :
                 RemoveAt(s, i)[j] = IF j < i THEN s[j] ELSE s[j + 1]
<1> DEFINE a == SubSeq(s, 1, i - 1)
           b == SubSeq(s, i + 1, Len(s))
<1>1. /\ Len(s) \in Nat
      /\ i \in 1..Len(s)
  BY LenProperties
<1>2. /\ a \in Seq(S)
      /\ Len(a) = i - 1
      /\ \A j \in 1..(i - 1) : a[j] = s[j]
  BY <1>1, SubSeqProperties
<1>3. /\ b \in Seq(S)
      /\ Len(b) = Len(s) - i
      /\ \A j \in 1..(Len(s) - i) : b[j] = s[i + j]
  BY <1>1, SubSeqProperties
<1> DEFINE c == a \o b
<1>4. /\ c \in Seq(S)
      /\ Len(c) = Len(a) + Len(b)
      /\ \A j \in 1..(Len(a) + Len(b)) :
            c[j] = IF j <= Len(a) THEN a[j] ELSE b[j - Len(a)]
  BY <1>2, <1>3, ConcatProperties
<1> HIDE DEF a, b, c
<1>5. ASSUME NEW j \in 1..(Len(s) - 1)
      PROVE  c[j] = IF j < i THEN s[j] ELSE s[j + 1]
  <2> j \in 1..(Len(a) + Len(b))
    BY <1>1, <1>2, <1>3
  <2>0. c[j] = IF j <= Len(a) THEN a[j] ELSE b[j - Len(a)]
    BY <1>4
  <2>1. CASE j < i
    <3>1. j <= Len(a) /\ j \in 1..(i - 1)
      BY <1>1, <1>2, <2>1
    <3> QED
      BY <2>0, <3>1, <1>2, <2>1
  <2>2. CASE ~(j < i)
    <3>1. /\ j - Len(a) \in 1..(Len(s) - i)
          /\ i + (j - Len(a)) = j + 1
      BY SMTT(30), <1>1, <1>2, <2>2
    <3>2. ~(j <= Len(a))
      BY <1>1, <1>2, <2>2
    <3> QED
      BY <2>0, <3>1, <3>2, <1>3, <2>2
  <2> QED
    BY <2>1, <2>2
<1>6. Len(c) = Len(s) - 1
  BY <1>1, <1>2, <1>3, <1>4
<1> QED
  BY <1>4, <1>5, <1>6 DEF RemoveAt, a, b, c

\* Appending e to s.
LEMMA HasAppend ==
    ASSUME NEW S, NEW s \in Seq(S), NEW e \in S
    PROVE  /\ Append(s, e) \in Seq(S)
           /\ \A t : Has(Append(s, e), t) <=> Has(s, t) \/ t = e
           /\ IsInjective(s) /\ ~Has(s, e) => IsInjective(Append(s, e))
<1> DEFINE a == Append(s, e)
<1>1. /\ a \in Seq(S)
      /\ Len(a) = Len(s) + 1
      /\ \A i \in 1..Len(s) : a[i] = s[i]
      /\ a[Len(s) + 1] = e
  BY AppendProperties
<1>2. Len(s) \in Nat /\ DOMAIN s = 1..Len(s) /\ DOMAIN a = 1..(Len(s) + 1)
  BY <1>1, LenProperties
<1> HIDE DEF a
<1>3. \A t : Has(a, t) <=> Has(s, t) \/ t = e
  BY <1>1, <1>2 DEF Has
<1>4. ASSUME IsInjective(s), ~Has(s, e) PROVE IsInjective(a)
  BY <1>1, <1>2, <1>4 DEF Has, IsInjective
<1> QED
  BY <1>1, <1>3, <1>4 DEF a

\* Taking the head of s off.
LEMMA HasTail ==
    ASSUME NEW S, NEW s \in Seq(S), s # <<>>
    PROVE  /\ Head(s) \in S
           /\ Tail(s) \in Seq(S)
           /\ Has(s, Head(s))
           /\ IsInjective(s) => /\ IsInjective(Tail(s))
                                /\ \A t : Has(Tail(s), t) <=> Has(s, t) /\ t # Head(s)
           /\ \A i \in DOMAIN Tail(s) : i + 1 \in DOMAIN s /\ Tail(s)[i] = s[i + 1]
           /\ 1 \in DOMAIN s /\ Head(s) = s[1]
<1> DEFINE r == Tail(s)
<1>1. /\ Head(s) \in S
      /\ r \in Seq(S)
      /\ Len(r) = Len(s) - 1
      /\ \A i \in 1..Len(r) : r[i] = s[i + 1]
  BY HeadTailProperties
<1>2. Len(s) \in Nat \ {0} /\ DOMAIN s = 1..Len(s)
  BY EmptySeq, LenProperties
<1>3. DOMAIN r = 1..(Len(s) - 1)
  BY <1>1, LenProperties
<1>4. Head(s) = s[1]
  OBVIOUS
<1> HIDE DEF r
<1>5. Has(s, Head(s))
  BY <1>2, <1>4 DEF Has
<1>6. ASSUME IsInjective(s) PROVE IsInjective(r)
  <2> SUFFICES ASSUME NEW j \in DOMAIN r, NEW k \in DOMAIN r, r[j] = r[k] PROVE j = k
    BY DEF IsInjective
  <2>1. j + 1 \in DOMAIN s /\ k + 1 \in DOMAIN s /\ s[j + 1] = s[k + 1]
    BY <1>1, <1>2, <1>3
  <2>2. j + 1 = k + 1
    BY <2>1, <1>6 DEF IsInjective
  <2> QED
    BY <2>2, <1>3
<1>7. ASSUME IsInjective(s), NEW t PROVE Has(r, t) <=> Has(s, t) /\ t # Head(s)
  <2>1. ASSUME NEW i \in DOMAIN r, r[i] = t PROVE Has(s, t) /\ t # Head(s)
    <3>1. i + 1 \in DOMAIN s /\ i + 1 # 1 /\ s[i + 1] = t /\ 1 \in DOMAIN s
      BY <1>1, <1>2, <1>3, <2>1
    <3> QED
      BY <3>1, <1>4, <1>7 DEF Has, IsInjective
  <2>2. ASSUME NEW i \in DOMAIN s, s[i] = t, t # Head(s) PROVE Has(r, t)
    <3>1. i - 1 \in DOMAIN r /\ r[i - 1] = t
      BY <1>1, <1>2, <1>3, <1>4, <2>2
    <3> QED
      BY <3>1 DEF Has
  <2> QED
    BY <2>1, <2>2 DEF Has
<1>8. \A i \in DOMAIN r : i + 1 \in DOMAIN s /\ r[i] = s[i + 1]
  BY <1>1, <1>2, <1>3
<1> QED
  BY <1>1, <1>2, <1>4, <1>5, <1>6, <1>7, <1>8 DEF r

\* Taking the i-th element of s out.
LEMMA HasRemoveAt ==
    ASSUME NEW S, NEW s \in Seq(S), NEW i \in DOMAIN s, IsInjective(s)
    PROVE  /\ RemoveAt(s, i) \in Seq(S)
           /\ IsInjective(RemoveAt(s, i))
           /\ \A t : Has(RemoveAt(s, i), t) <=> Has(s, t) /\ t # s[i]
<1> DEFINE r == RemoveAt(s, i)
<1>1. /\ r \in Seq(S)
      /\ Len(r) = Len(s) - 1
      /\ \A j \in 1..(Len(s) - 1) : r[j] = IF j < i THEN s[j] ELSE s[j + 1]
  BY RemoveAtProperties
<1>2. Len(s) \in Nat /\ DOMAIN s = 1..Len(s) /\ DOMAIN r = 1..(Len(s) - 1) /\ i \in 1..Len(s)
  BY <1>1, LenProperties
<1> HIDE DEF r
<1>3. IsInjective(r)
  <2> SUFFICES ASSUME NEW j \in DOMAIN r, NEW k \in DOMAIN r, r[j] = r[k] PROVE j = k
    BY DEF IsInjective
  <2> DEFINE J == IF j < i THEN j ELSE j + 1
             K == IF k < i THEN k ELSE k + 1
  <2>1. J \in DOMAIN s /\ K \in DOMAIN s /\ s[J] = r[j] /\ s[K] = r[k]
    BY <1>1, <1>2
  <2>2. J = K
    BY <2>1 DEF IsInjective
  <2> QED
    BY <2>2, <1>2
<1>4. ASSUME NEW t, Has(r, t) PROVE Has(s, t) /\ t # s[i]
  <2>1. PICK j \in DOMAIN r : r[j] = t
    BY <1>4 DEF Has
  <2> DEFINE J == IF j < i THEN j ELSE j + 1
  <2>2. J \in DOMAIN s /\ J # i /\ s[J] = t
    BY <1>1, <1>2, <2>1
  <2> QED
    BY <2>2 DEF Has, IsInjective
<1>5. ASSUME NEW t, Has(s, t), t # s[i] PROVE Has(r, t)
  <2>1. PICK j \in DOMAIN s : s[j] = t
    BY <1>5 DEF Has
  <2> DEFINE J == IF j < i THEN j ELSE j - 1
  <2>2. J \in DOMAIN r /\ r[J] = t
    BY <1>1, <1>2, <1>5, <2>1
  <2> QED
    BY <2>2 DEF Has
<1> QED
  BY <1>1, <1>3, <1>4, <1>5 DEF r

\* An arrangement of s holds the elements of s.
LEMMA HasArrangement ==
    ASSUME NEW S, NEW s \in Seq(S), NEW r \in Arrangements(s)
    PROVE  /\ r \in Seq(S)
           /\ Len(r) = Len(s)
           /\ DOMAIN r = DOMAIN s
           /\ \A t : Has(r, t) <=> Has(s, t)
           /\ IsInjective(s) => IsInjective(r)
<1>1. Len(s) \in Nat /\ DOMAIN s = 1..Len(s) /\ \A i \in DOMAIN s : s[i] \in S
  BY LenProperties
<1>2. PICK p \in Bijection(DOMAIN s, DOMAIN s) : r = [i \in DOMAIN s |-> s[p[i]]]
  BY DEF Arrangements
<1>3. /\ p \in [DOMAIN s -> DOMAIN s]
      /\ \A i, j \in DOMAIN s : p[i] = p[j] => i = j
      /\ \A k \in DOMAIN s : \E i \in DOMAIN s : p[i] = k
  BY <1>2 DEF Bijection, Injection, Surjection, IsInjective
<1>4. DOMAIN r = DOMAIN s /\ \A i \in DOMAIN s : r[i] = s[p[i]] /\ r[i] \in S
  BY <1>1, <1>2, <1>3
<1>5. r \in Seq(S) /\ Len(r) = Len(s)
  <2>1. r \in [1..Len(s) -> S]
    BY <1>1, <1>2, <1>4
  <2> QED
    BY <2>1, <1>1, SeqDef
<1>6. \A t : Has(r, t) <=> Has(s, t)
  BY <1>3, <1>4 DEF Has
<1>7. ASSUME IsInjective(s) PROVE IsInjective(r)
  BY <1>3, <1>4, <1>7 DEF IsInjective
<1> QED
  BY <1>4, <1>5, <1>6, <1>7

------------------------------------------------------------------------------
(* Type correctness.                                                        *)

\* A product of naturals is a natural.
LEMMA ProductInNat == \A a, b \in Nat : a * b \in Nat
  OBVIOUS

\* A score is the base priority plus an age between nothing and one class.
LEMMA ScoreBounds ==
    ASSUME TypeOK, NEW t \in Tasks
    PROVE  /\ CalculatePriorityScore(t) \in Nat
           /\ AgeUnit * Priority[t] <= CalculatePriorityScore(t)
           /\ CalculatePriorityScore(t) <= AgeUnit * Priority[t] + AgeUnit
<1> DEFINE base == AgeUnit * Priority[t]
<1>1. AgeUnit \in Nat /\ Priority[t] \in Nat
  BY TaskQueueAssumption
<1>2. base \in Nat
  BY <1>1, ProductInNat
<1>3. AgeBoost(t) \in 0..AgeUnit
  BY <1>1 DEF TypeOK, AgeBoost
<1>4. CalculatePriorityScore(t) = base + AgeBoost(t)
  BY DEF CalculatePriorityScore
<1> HIDE DEF base
<1>5. base + AgeBoost(t) \in Nat /\ base <= base + AgeBoost(t) /\ base + AgeBoost(t) <= base + AgeUnit
  BY <1>1, <1>2, <1>3
<1> QED
  BY <1>4, <1>5 DEF base

\* Initially every variable has its type.
LEMMA InitTypeOK == Init => TypeOK
  BY DEF Init, TypeOK, Fates

\* Every step preserves the types.
LEMMA NextTypeOK == ASSUME TypeOK, [Next]_vars PROVE TypeOK'
<1> USE TaskQueueAssumption
<1>1. ASSUME NEW p \in Producers, NEW t \in Tasks, CreateTask(p, t) PROVE TypeOK'
  BY <1>1 DEF TypeOK, CreateTask, chanVars, Clients, Fates
<1>2. ASSUME NEW c \in Clients, Enqueue(c) PROVE TypeOK'
  <2>1. hand[c] \in Tasks
    BY <1>2 DEF TypeOK, Enqueue
  <2>2. enqueueCh' \in Seq(Tasks)
    BY <2>1, <1>2, HasAppend DEF TypeOK, Enqueue
  <2> QED
    BY <2>2, <1>2 DEF TypeOK, Enqueue, taskVars
<1>3. ASSUME NEW w \in Workers, NEW ty \in Types \cup {AnyType}, Dequeue(w, ty) PROVE TypeOK'
  <2>1. [from |-> w, type |-> ty] \in Requests
    BY DEF Requests
  <2>2. dequeueCh' \in Seq(Requests)
    BY <2>1, <1>3, HasAppend DEF TypeOK, Dequeue
  <2> QED
    BY <2>2, <1>3 DEF TypeOK, Dequeue, taskVars
<1>4. ASSUME NEW w \in Workers, Receive(w) PROVE TypeOK'
  <2>1. /\ Head(resultCh[w]) \in Tasks \cup {NoTask}
        /\ Tail(resultCh[w]) \in Seq(Tasks \cup {NoTask})
    BY <1>4, HasTail DEF TypeOK, Receive
  <2> QED
    BY <2>1, <1>4 DEF TypeOK, Receive, taskVars
<1>5. ASSUME NEW w \in Workers, Finish(w) PROVE TypeOK'
  BY <1>5 DEF TypeOK, Finish, chanVars, Fates, Clients
<1>6. ASSUME NEW t \in Tasks, RemoveTask(t) PROVE TypeOK'
  <2>1. items' \in Seq(Tasks)
    BY <1>6, RemoveAtProperties DEF TypeOK, RemoveTask
  <2> QED
    BY <2>1, <1>6 DEF TypeOK, RemoveTask, chanVars, Fates
<1>7. CASE ProcessEnqueue
  <2>1. Head(enqueueCh) \in Tasks /\ Tail(enqueueCh) \in Seq(Tasks)
    BY <1>7, HasTail DEF TypeOK, ProcessEnqueue
  <2>2. CalculatePriorityScore(Head(enqueueCh)) \in Nat
    BY <2>1, ScoreBounds
  <2>3. score' \in [Tasks -> Nat] /\ fate' \in [Tasks -> Fates]
    <3> DEFINE t == Head(enqueueCh)
               v == CalculatePriorityScore(t)
    <3>1. \/ score' = [score EXCEPT ![t] = v] /\ fate' = fate
          \/ fate' = [fate EXCEPT ![t] = "dropped"] /\ score' = score
      BY <1>7 DEF ProcessEnqueue
    <3>2. v \in Nat
      BY <2>2
    <3> HIDE DEF v, t
    <3>3. score \in [Tasks -> Nat] /\ fate \in [Tasks -> Fates] /\ "dropped" \in Fates
      BY DEF TypeOK, Fates
    <3>4. CASE score' = [score EXCEPT ![t] = v] /\ fate' = fate
      BY <3>2, <3>3, <3>4
    <3>5. CASE fate' = [fate EXCEPT ![t] = "dropped"] /\ score' = score
      BY <3>3, <3>5
    <3> QED
      BY <3>1, <3>4, <3>5
  <2>4. items' \in Seq(Tasks)
    <3>1. Append(items, Head(enqueueCh)) \in Seq(Tasks)
      BY <2>1, HasAppend DEF TypeOK
    <3>2. items' = items \/ items' \in Arrangements(Append(items, Head(enqueueCh)))
      BY <1>7 DEF ProcessEnqueue, SortDesc
    <3> QED
      BY <3>1, <3>2, HasArrangement DEF TypeOK
  <2> QED
    BY <1>7, <2>1, <2>3, <2>4 DEF TypeOK, ProcessEnqueue
<1>8. CASE ProcessDequeue
  <2> DEFINE r == Head(dequeueCh)
  <2>0. r \in Requests /\ Tail(dequeueCh) \in Seq(Requests)
    BY <1>8, HasTail DEF TypeOK, ProcessDequeue
  <2>1. r.from \in Workers
    BY <2>0 DEF Requests
  <2>2. CASE items = <<>> /\ resultCh' = [resultCh EXCEPT ![r.from] = Append(@, NoTask)] /\ UNCHANGED items
    <3>1. Append(resultCh[r.from], NoTask) \in Seq(Tasks \cup {NoTask})
      BY <2>1, HasAppend DEF TypeOK
    <3> QED
      BY SMTT(30), <1>8, <2>0, <2>1, <2>2, <3>1 DEF TypeOK, ProcessDequeue, taskVars
  <2>3. ASSUME NEW i \in DOMAIN items,
               resultCh' = [resultCh EXCEPT ![r.from] = Append(@, items[i])],
               items' = RemoveAt(items, i)
        PROVE  TypeOK'
    <3>1. items[i] \in Tasks
      BY ElementOfSeq, LenProperties DEF TypeOK
    <3>2. Append(resultCh[r.from], items[i]) \in Seq(Tasks \cup {NoTask})
      BY SMTT(30), <2>1, <3>1, HasAppend DEF TypeOK
    <3>3. items' \in Seq(Tasks)
      BY <2>3, RemoveAtProperties DEF TypeOK
    <3> QED
      BY <1>8, <2>0, <2>1, <2>3, <3>2, <3>3 DEF TypeOK, ProcessDequeue, taskVars
  <2> QED
    BY <1>8, <2>2, <2>3 DEF ProcessDequeue
<1>9. CASE Rebalance
  BY <1>9 DEF TypeOK, Rebalance, taskVars, chanVars
<1>10. CASE UNCHANGED vars
  BY <1>10 DEF TypeOK, vars
<1> QED
  BY <1>1, <1>2, <1>3, <1>4, <1>5, <1>6, <1>7, <1>8, <1>9, <1>10 DEF Next

\* Every reachable state of the queue is well typed; in particular a score is
\* a natural number and no task was created in the future.
THEOREM TypeCorrect == Spec => []TypeOK
  BY InitTypeOK, NextTypeOK, PTL DEF Spec

------------------------------------------------------------------------------
(* One outstanding request per worker.                                      *)

\* Initially there is no request.
LEMMA InitReply == Init => ReplyNeverBlocks
  BY DEF Init, ReplyNeverBlocks

\* Every step keeps the requests and the replies apart.
LEMMA NextReply ==
    ASSUME TypeOK, TypeOK', ReplyNeverBlocks, [Next]_vars
    PROVE  ReplyNeverBlocks'
<1>0. \A w \in Workers : w \in Clients
  BY DEF Clients
<1>1. ASSUME NEW p \in Producers, NEW t \in Tasks, CreateTask(p, t) PROVE ReplyNeverBlocks'
  <2>1. p \notin waiting
    BY TaskQueueAssumption DEF TypeOK
  <2> QED
    BY <1>0, <1>1, <2>1 DEF TypeOK, ReplyNeverBlocks, CreateTask, chanVars
<1>2. ASSUME NEW c \in Clients, Enqueue(c) PROVE ReplyNeverBlocks'
  BY <1>0, <1>2 DEF TypeOK, ReplyNeverBlocks, Enqueue
<1>3. ASSUME NEW w \in Workers, NEW ty \in Types \cup {AnyType}, Dequeue(w, ty)
      PROVE  ReplyNeverBlocks'
  <2> DEFINE r == [from |-> w, type |-> ty]
  <2>1. r \in Requests
    BY DEF Requests
  <2>2. /\ Len(dequeueCh) \in Nat
        /\ DOMAIN dequeueCh = 1..Len(dequeueCh)
        /\ DOMAIN dequeueCh' = 1..(Len(dequeueCh) + 1)
        /\ \A i \in 1..Len(dequeueCh) : dequeueCh'[i] = dequeueCh[i]
        /\ dequeueCh'[Len(dequeueCh) + 1] = r
    BY <2>1, <1>3, AppendProperties, LenProperties DEF TypeOK, Dequeue
  <2>3. w \notin waiting /\ hand[w] = NoTask /\ waiting' = waiting \cup {w}
        /\ UNCHANGED <<hand, resultCh>>
    BY <1>3 DEF Dequeue
  <2>4. resultCh[w] = <<>>
    BY <2>3 DEF ReplyNeverBlocks
  <2>5. \A i \in DOMAIN dequeueCh : dequeueCh[i].from # w
    BY <2>3 DEF ReplyNeverBlocks
  <2>6. \A i, j \in DOMAIN dequeueCh' : dequeueCh'[i].from = dequeueCh'[j].from => i = j
    BY <2>2, <2>5 DEF ReplyNeverBlocks
  <2>7. \A i \in DOMAIN dequeueCh' : /\ dequeueCh'[i].from \in waiting'
                                     /\ resultCh'[dequeueCh'[i].from] = <<>>
    BY <2>2, <2>3, <2>4 DEF ReplyNeverBlocks
  <2> QED
    BY <2>3, <2>6, <2>7 DEF ReplyNeverBlocks
<1>4. ASSUME NEW w \in Workers, Receive(w) PROVE ReplyNeverBlocks'
  <2>1. Tail(resultCh[w]) = <<>>
    <3>1. /\ resultCh[w] \in Seq(Tasks \cup {NoTask})
          /\ resultCh[w] # <<>>
          /\ Len(resultCh[w]) = 1
      BY <1>4 DEF TypeOK, ReplyNeverBlocks, Receive
    <3>2. Tail(resultCh[w]) \in Seq(Tasks \cup {NoTask}) /\ Len(Tail(resultCh[w])) = 0
      BY <3>1, HeadTailProperties
    <3> QED
      BY <3>2, EmptySeq
  <2>2. \A i \in DOMAIN dequeueCh : dequeueCh[i].from # w
    BY <1>4 DEF ReplyNeverBlocks, Receive
  <2>3. /\ resultCh' = [resultCh EXCEPT ![w] = <<>>]
        /\ waiting' = waiting \ {w}
        /\ dequeueCh' = dequeueCh
        /\ \A v \in Workers : v # w => hand'[v] = hand[v]
    BY <1>0, <1>4, <2>1 DEF Receive, TypeOK
  <2>4. resultCh'[w] = <<>> /\ \A v \in Workers : v # w => resultCh'[v] = resultCh[v]
    BY <2>3 DEF TypeOK
  <2>5. \A i \in DOMAIN dequeueCh : dequeueCh[i].from \in Workers
    BY DEF ReplyNeverBlocks, TypeOK
  <2> QED
    BY <2>2, <2>3, <2>4, <2>5 DEF ReplyNeverBlocks, TypeOK
<1>5. ASSUME NEW w \in Workers, Finish(w) PROVE ReplyNeverBlocks'
  BY <1>0, <1>5 DEF TypeOK, ReplyNeverBlocks, Finish, chanVars
<1>6. ASSUME NEW t \in Tasks, RemoveTask(t) PROVE ReplyNeverBlocks'
  BY <1>6 DEF ReplyNeverBlocks, RemoveTask, chanVars
<1>7. CASE ProcessEnqueue
  BY <1>7 DEF ReplyNeverBlocks, ProcessEnqueue
<1>8. CASE ProcessDequeue
  <2> DEFINE r == Head(dequeueCh)
  <2>1. /\ dequeueCh # <<>>
        /\ dequeueCh' = Tail(dequeueCh)
        /\ UNCHANGED <<hand, waiting>>
        /\ \E x \in Tasks \cup {NoTask} :
              resultCh' = [resultCh EXCEPT ![r.from] = Append(@, x)]
    <3>1. \A i \in DOMAIN items : items[i] \in Tasks
      BY ElementOfSeq, LenProperties DEF TypeOK
    <3> QED
      BY <1>8, <3>1 DEF ProcessDequeue
  <2>2. /\ 1 \in DOMAIN dequeueCh
        /\ r = dequeueCh[1]
        /\ \A i \in DOMAIN dequeueCh' : i + 1 \in DOMAIN dequeueCh /\ dequeueCh'[i] = dequeueCh[i + 1]
        /\ \A i \in DOMAIN dequeueCh' : i \in Nat /\ i + 1 # 1
    <3>1. dequeueCh' \in Seq(Requests)
      BY DEF TypeOK
    <3> QED
      BY SMTT(30), <2>1, <3>1, HasTail, LenProperties DEF TypeOK
  <2>3. r.from \in waiting /\ resultCh[r.from] = <<>> /\ r.from \in Workers
    BY <2>2 DEF ReplyNeverBlocks, TypeOK
  <2>4. PICK x \in Tasks \cup {NoTask} : resultCh' = [resultCh EXCEPT ![r.from] = Append(@, x)]
    BY <2>1
  <2>5. Len(resultCh'[r.from]) = 1 /\ \A v \in Workers : v # r.from => resultCh'[v] = resultCh[v]
    <3>1. resultCh'[r.from] = Append(<<>>, x)
      BY <2>3, <2>4 DEF TypeOK
    <3>2. Len(Append(<<>>, x)) = 1
      BY EmptySeq, AppendProperties
    <3> QED
      BY <2>3, <2>4, <3>1, <3>2 DEF TypeOK
  <2>6. \A i \in DOMAIN dequeueCh' : dequeueCh'[i].from # r.from /\ dequeueCh'[i].from \in Workers
    <3> SUFFICES ASSUME NEW i \in DOMAIN dequeueCh'
                 PROVE  dequeueCh'[i].from # r.from /\ dequeueCh'[i].from \in Workers
      OBVIOUS
    <3>1. i + 1 \in DOMAIN dequeueCh /\ i + 1 # 1 /\ dequeueCh'[i] = dequeueCh[i + 1]
      BY <2>2
    <3> QED
      BY <2>2, <3>1 DEF ReplyNeverBlocks, TypeOK
  <2>7. \A i, j \in DOMAIN dequeueCh' : dequeueCh'[i].from = dequeueCh'[j].from => i = j
    <3> SUFFICES ASSUME NEW i \in DOMAIN dequeueCh', NEW j \in DOMAIN dequeueCh',
                        dequeueCh'[i].from = dequeueCh'[j].from
                 PROVE  i = j
      OBVIOUS
    <3>1. i + 1 = j + 1
      BY <2>2 DEF ReplyNeverBlocks
    <3> QED
      BY <2>2, <3>1
  <2>8. \A i \in DOMAIN dequeueCh' : /\ dequeueCh'[i].from \in waiting'
                                     /\ resultCh'[dequeueCh'[i].from] = <<>>
    BY <2>1, <2>2, <2>5, <2>6 DEF ReplyNeverBlocks
  <2>9. \A w \in Workers : resultCh'[w] = <<>> \/ (w \in waiting' /\ Len(resultCh'[w]) = 1)
    BY <2>1, <2>3, <2>5 DEF ReplyNeverBlocks
  <2> QED
    BY SMTT(30), <2>1, <2>7, <2>8, <2>9 DEF ReplyNeverBlocks
<1>9. CASE Rebalance
  BY <1>9 DEF ReplyNeverBlocks, Rebalance, chanVars
<1>10. CASE UNCHANGED vars
  BY <1>10 DEF ReplyNeverBlocks, vars
<1> QED
  BY <1>1, <1>2, <1>3, <1>4, <1>5, <1>6, <1>7, <1>8, <1>9, <1>10 DEF Next

\* processLoop never blocks on a reply, and a reply never overwrites a task.
THEOREM ReplyCorrect == Spec => []ReplyNeverBlocks
  BY TypeCorrect, InitReply, NextReply, PTL DEF Spec

------------------------------------------------------------------------------
(* A live task is in exactly one place.                                     *)

\* Nothing is in an empty sequence.
LEMMA HasEmpty == \A t : ~Has(<<>>, t)
  BY DEF Has

\* Initially no task is live and no place holds one.
LEMMA InitOnePlace == Init => ExactlyOnePlace
<1> SUFFICES ASSUME Init PROVE ExactlyOnePlace
  OBVIOUS
<1>1. /\ \A t \in Tasks : ~Has(enqueueCh, t) /\ ~Has(items, t) /\ ~InHand(t)
      /\ \A w \in Workers, t \in Tasks : ~Has(resultCh[w], t)
      /\ \A t \in Tasks : fate[t] # "live"
  BY HasEmpty, TaskQueueAssumption DEF Init, InHand
<1>2. IsInjective(enqueueCh) /\ IsInjective(items)
  BY DEF Init, IsInjective
<1>3. \A c \in Clients : hand[c] = NoTask
  BY DEF Init
<1> QED
  BY <1>1, <1>2, <1>3 DEF ExactlyOnePlace, NoTaskTwice, OneHandEach, LiveTaskSomewhere, Placed, InResult

\* Every step moves a task from one place to another, or creates or settles it.
LEMMA NextOnePlace ==
    ASSUME TypeOK, TypeOK', ReplyNeverBlocks, ExactlyOnePlace, [Next]_vars
    PROVE  ExactlyOnePlace'
<1> USE DEF ExactlyOnePlace
<1>0. /\ \A w \in Workers : w \in Clients
      /\ \A p \in Producers : p \in Clients
      /\ NoTask \notin Tasks
      /\ \A c \in Clients : hand[c] \in Tasks \cup {NoTask}
      /\ enqueueCh \in Seq(Tasks) /\ items \in Seq(Tasks)
      /\ \A w \in Workers : resultCh[w] \in Seq(Tasks \cup {NoTask})
      /\ IsInjective(enqueueCh) /\ IsInjective(items)
  BY TaskQueueAssumption DEF Clients, TypeOK, NoTaskTwice
<1>1. ASSUME NEW p \in Producers, NEW t \in Tasks, CreateTask(p, t) PROVE ExactlyOnePlace'
  <2>1. /\ UNCHANGED <<enqueueCh, items, resultCh>>
        /\ fate[t] # "live" /\ fate' = [fate EXCEPT ![t] = "live"]
        /\ hand[p] = NoTask /\ hand' = [hand EXCEPT ![p] = t]
    BY <1>1 DEF CreateTask, chanVars
  <2>2. ~Placed(t)
    BY <2>1 DEF LiveTaskSomewhere
  <2>3. \A u \in Tasks : InHand(u)' <=> InHand(u) \/ u = t
    BY <1>0, <2>1 DEF InHand, TypeOK
  <2>4. \A u \in Tasks : InResult(u)' <=> InResult(u)
    BY <2>1 DEF InResult
  <2>5. NoTaskTwice'
    BY SMTT(30), <1>0, <2>1, <2>2, <2>3, <2>4 DEF NoTaskTwice, OneHandEach, TypeOK, Placed, InHand
  <2>6. LiveTaskSomewhere'
    BY <2>1, <2>2, <2>3, <2>4 DEF LiveTaskSomewhere, TypeOK, Placed
  <2> QED
    BY <2>5, <2>6
<1>2. ASSUME NEW c \in Clients, Enqueue(c) PROVE ExactlyOnePlace'
  <2> DEFINE t == hand[c]
  <2>1. /\ UNCHANGED <<fate, items, resultCh>>
        /\ t \in Tasks
        /\ enqueueCh' = Append(enqueueCh, t)
        /\ hand' = [hand EXCEPT ![c] = NoTask]
    BY <1>0, <1>2 DEF Enqueue, taskVars
  <2>2. InHand(t) /\ ~Has(enqueueCh, t) /\ ~Has(items, t) /\ ~InResult(t)
    BY <2>1 DEF InHand, NoTaskTwice
  <2>3. \A u \in Tasks : InHand(u)' <=> InHand(u) /\ u # t
    BY <1>0, <2>1 DEF InHand, TypeOK, NoTaskTwice, OneHandEach
  <2>4. /\ IsInjective(enqueueCh')
        /\ \A u \in Tasks : Has(enqueueCh', u) <=> Has(enqueueCh, u) \/ u = t
    BY <1>0, <2>1, <2>2, HasAppend
  <2>5. \A u \in Tasks : InResult(u)' <=> InResult(u)
    BY <2>1 DEF InResult
  <2>6. NoTaskTwice'
    BY SMTT(30), <1>0, <2>1, <2>2, <2>3, <2>4, <2>5 DEF NoTaskTwice, OneHandEach, TypeOK
  <2>7. LiveTaskSomewhere'
    BY <2>1, <2>2, <2>3, <2>4, <2>5 DEF LiveTaskSomewhere, Placed
  <2> QED
    BY <2>6, <2>7
<1>3. ASSUME NEW w \in Workers, NEW ty \in Types \cup {AnyType}, Dequeue(w, ty)
      PROVE  ExactlyOnePlace'
  BY <1>3 DEF Dequeue, taskVars, NoTaskTwice, LiveTaskSomewhere, Placed, InHand, InResult
<1>4. ASSUME NEW w \in Workers, Receive(w) PROVE ExactlyOnePlace'
  <2> DEFINE t == Head(resultCh[w])
  <2>1. /\ UNCHANGED <<fate, items, enqueueCh>>
        /\ w \in waiting /\ hand[w] = NoTask /\ resultCh[w] # <<>>
        /\ hand' = [hand EXCEPT ![w] = t]
        /\ resultCh' = [resultCh EXCEPT ![w] = Tail(@)]
    BY <1>4 DEF Receive, taskVars, ReplyNeverBlocks
  <2>2. /\ t \in Tasks \cup {NoTask}
        /\ \A u : Has(resultCh[w], u) <=> u = t
        /\ \A u : ~Has(Tail(resultCh[w]), u)
    <3>1. Len(resultCh[w]) = 1 /\ DOMAIN resultCh[w] = 1..1
      BY <1>0, <2>1, LenProperties DEF ReplyNeverBlocks
    <3>2. IsInjective(resultCh[w])
      BY <3>1 DEF IsInjective
    <3>3. t \in Tasks \cup {NoTask} /\ t = resultCh[w][1]
      BY <1>0, <2>1, HasTail
    <3>4. \A u : Has(resultCh[w], u) <=> u = t
      BY <3>1, <3>3 DEF Has
    <3> QED
      BY <1>0, <2>1, <3>2, <3>3, <3>4, HasTail
  <2>3. \A u \in Tasks : InHand(u)' <=> InHand(u) \/ u = t
    BY <1>0, <2>1 DEF InHand, TypeOK
  <2>4. /\ \A v \in Workers : v # w => resultCh'[v] = resultCh[v]
        /\ resultCh'[w] = Tail(resultCh[w])
    BY <2>1 DEF TypeOK
  <2>5. \A u \in Tasks : InResult(u)' <=> InResult(u) /\ u # t
    BY <2>2, <2>4 DEF InResult, NoTaskTwice
  <2>6. \A u \in Tasks : u = t => InResult(u) /\ ~InHand(u) /\ ~Has(enqueueCh, u) /\ ~Has(items, u)
    BY <2>2 DEF InResult, NoTaskTwice
  <2>7. OneHandEach(hand')
    BY SMTT(30), <1>0, <2>1, <2>2, <2>6 DEF TypeOK, InHand, NoTaskTwice, OneHandEach
  <2>8. \A v, x \in Workers : \A u \in Tasks : Has(resultCh'[v], u) /\ Has(resultCh'[x], u) => v = x
    BY <2>2, <2>4 DEF NoTaskTwice
  <2>9. NoTaskTwice'
    BY <1>0, <2>1, <2>3, <2>5, <2>6, <2>7, <2>8 DEF NoTaskTwice
  <2>10. LiveTaskSomewhere'
    BY <2>1, <2>3, <2>5, <2>6 DEF LiveTaskSomewhere, Placed
  <2> QED
    BY <2>9, <2>10
<1>5. ASSUME NEW w \in Workers, Finish(w) PROVE ExactlyOnePlace'
  <2> DEFINE t == hand[w]
  <2>1. /\ UNCHANGED <<enqueueCh, items, resultCh>>
        /\ t \in Tasks
        /\ fate' = [fate EXCEPT ![t] = "finished"]
        /\ hand' = [hand EXCEPT ![w] = NoTask]
    BY <1>0, <1>5 DEF Finish, chanVars
  <2>2. InHand(t) /\ ~Has(enqueueCh, t) /\ ~Has(items, t) /\ ~InResult(t)
    BY <1>0, <2>1 DEF InHand, NoTaskTwice
  <2>3. \A u \in Tasks : InHand(u)' <=> InHand(u) /\ u # t
    BY <1>0, <2>1 DEF InHand, TypeOK, NoTaskTwice, OneHandEach
  <2>4. \A u \in Tasks : InResult(u)' <=> InResult(u)
    BY <2>1 DEF InResult
  <2>5. NoTaskTwice'
    BY ZenonT(60), <1>0, <2>1, <2>3, <2>4 DEF NoTaskTwice, OneHandEach, TypeOK
  <2>6. LiveTaskSomewhere'
    BY <2>1, <2>2, <2>3, <2>4 DEF LiveTaskSomewhere, Placed, TypeOK
  <2> QED
    BY <2>5, <2>6
<1>6. ASSUME NEW t \in Tasks, RemoveTask(t) PROVE ExactlyOnePlace'
  <2>1. PICK i \in DOMAIN items :
           /\ items[i] = t
           /\ items' = RemoveAt(items, i)
           /\ fate' = [fate EXCEPT ![t] = "removed"]
           /\ UNCHANGED <<hand, enqueueCh, resultCh>>
    BY <1>6 DEF RemoveTask, chanVars
  <2>2. /\ IsInjective(items')
        /\ \A u \in Tasks : Has(items', u) <=> Has(items, u) /\ u # t
    BY <1>0, <2>1, HasRemoveAt
  <2>3. Has(items, t)
    BY <2>1 DEF Has
  <2>4. \A u \in Tasks : (InResult(u)' <=> InResult(u)) /\ (InHand(u)' <=> InHand(u))
    BY <2>1 DEF InResult, InHand
  <2>5. NoTaskTwice'
    BY <1>0, <2>1, <2>2, <2>4 DEF NoTaskTwice
  <2>6. LiveTaskSomewhere'
    BY ZenonT(60), <2>1, <2>2, <2>3, <2>4 DEF LiveTaskSomewhere, Placed, NoTaskTwice, TypeOK
  <2> QED
    BY <2>5, <2>6
<1>7. CASE ProcessEnqueue
  <2> DEFINE t == Head(enqueueCh)
  <2>1. /\ enqueueCh # <<>>
        /\ enqueueCh' = Tail(enqueueCh)
        /\ UNCHANGED <<hand, resultCh>>
        /\ \/ items' \in Arrangements(Append(items, t)) /\ fate' = fate
           \/ items' = items /\ fate' = [fate EXCEPT ![t] = "dropped"]
    BY <1>7 DEF ProcessEnqueue, SortDesc
  <2>2. /\ t \in Tasks /\ Has(enqueueCh, t)
        /\ IsInjective(enqueueCh')
        /\ \A u \in Tasks : Has(enqueueCh', u) <=> Has(enqueueCh, u) /\ u # t
    BY <1>0, <2>1, HasTail
  <2>3. ~InHand(t) /\ ~Has(items, t) /\ ~InResult(t)
    BY <2>2 DEF NoTaskTwice
  <2>4. \A u \in Tasks : (InResult(u)' <=> InResult(u)) /\ (InHand(u)' <=> InHand(u))
    BY <2>1 DEF InResult, InHand
  <2>5. CASE items' \in Arrangements(Append(items, t)) /\ fate' = fate
    <3> DEFINE a == Append(items, t)
    <3>1. /\ a \in Seq(Tasks)
          /\ IsInjective(a)
          /\ \A u \in Tasks : Has(a, u) <=> Has(items, u) \/ u = t
      BY <1>0, <2>2, <2>3, HasAppend
    <3> HIDE DEF a
    <3>2. /\ IsInjective(items')
          /\ \A u \in Tasks : Has(items', u) <=> Has(items, u) \/ u = t
      BY <2>5, <3>1, HasArrangement DEF a
    <3>3. NoTaskTwice'
      BY <1>0, <2>1, <2>2, <2>3, <2>4, <3>2 DEF NoTaskTwice
    <3>4. LiveTaskSomewhere'
      BY <2>2, <2>4, <2>5, <3>2 DEF LiveTaskSomewhere, Placed
    <3> QED
      BY <3>3, <3>4
  <2>6. CASE items' = items /\ fate' = [fate EXCEPT ![t] = "dropped"]
    <3>1. NoTaskTwice'
      BY <1>0, <2>1, <2>2, <2>4, <2>6 DEF NoTaskTwice
    <3>2. LiveTaskSomewhere'
      BY <2>2, <2>3, <2>4, <2>6 DEF LiveTaskSomewhere, Placed, TypeOK
    <3> QED
      BY <3>1, <3>2
  <2> QED
    BY <2>1, <2>5, <2>6
<1>8. CASE ProcessDequeue
  <2> DEFINE w == Head(dequeueCh).from
  <2>1. w \in Workers /\ resultCh[w] = <<>>
    <3>1. Head(dequeueCh) = dequeueCh[1] /\ 1 \in DOMAIN dequeueCh
      BY SMTT(30), <1>8, HasTail DEF ProcessDequeue, TypeOK
    <3> QED
      BY SMTT(30), <3>1 DEF ReplyNeverBlocks, TypeOK
  <2>2. /\ UNCHANGED <<hand, fate, enqueueCh>>
        /\ \/ \E i \in DOMAIN items :
                 /\ resultCh' = [resultCh EXCEPT ![w] = Append(@, items[i])]
                 /\ items' = RemoveAt(items, i)
           \/ resultCh' = [resultCh EXCEPT ![w] = Append(@, NoTask)] /\ items' = items
    BY <1>8 DEF ProcessDequeue, taskVars
  <2>3. \A u \in Tasks : InHand(u)' <=> InHand(u)
    BY <2>2 DEF InHand
  <2>4. ASSUME NEW i \in DOMAIN items,
               resultCh' = [resultCh EXCEPT ![w] = Append(@, items[i])],
               items' = RemoveAt(items, i)
        PROVE  ExactlyOnePlace'
    <3> DEFINE t == items[i]
    <3>1. /\ t \in Tasks /\ Has(items, t)
          /\ IsInjective(items')
          /\ \A u \in Tasks : Has(items', u) <=> Has(items, u) /\ u # t
      <4>1. t \in Tasks /\ Has(items, t)
        BY <1>0, LenProperties, ElementOfSeq DEF Has
      <4>2. /\ IsInjective(RemoveAt(items, i))
            /\ \A u : Has(RemoveAt(items, i), u) <=> Has(items, u) /\ u # items[i]
        BY <1>0, HasRemoveAt
      <4> QED
        BY <2>4, <4>1, <4>2
    <3>2. \A u \in Tasks : Has(resultCh'[w], u) <=> u = t
      <4>1. resultCh[w] \in Seq(Tasks \cup {NoTask}) /\ t \in Tasks \cup {NoTask}
        BY <1>0, <2>1, <3>1
      <4>2. \A u : Has(Append(resultCh[w], t), u) <=> Has(resultCh[w], u) \/ u = t
        BY <4>1, HasAppend
      <4>3. resultCh'[w] = Append(resultCh[w], t)
        BY <2>1, <2>4 DEF TypeOK
      <4> QED
        BY <2>1, <4>2, <4>3, HasEmpty
    <3>3. \A v \in Workers : v # w => resultCh'[v] = resultCh[v]
      BY <2>4 DEF TypeOK
    <3>4. ~InHand(t) /\ ~Has(enqueueCh, t) /\ ~InResult(t)
      BY <3>1 DEF NoTaskTwice
    <3>5. \A u \in Tasks : InResult(u)' <=> InResult(u) \/ u = t
      BY <2>1, <3>2, <3>3, HasEmpty DEF InResult
    <3>6. \A v, x \in Workers : \A u \in Tasks :
             Has(resultCh'[v], u) /\ Has(resultCh'[x], u) => v = x
      BY SMTT(30), <3>2, <3>3, <3>4 DEF NoTaskTwice, InResult
    <3>7. NoTaskTwice'
      BY <1>0, <2>2, <2>3, <3>1, <3>4, <3>5, <3>6 DEF NoTaskTwice
    <3>8. LiveTaskSomewhere'
      BY <2>2, <2>3, <3>1, <3>5 DEF LiveTaskSomewhere, Placed
    <3> QED
      BY <3>7, <3>8
  <2>5. CASE resultCh' = [resultCh EXCEPT ![w] = Append(@, NoTask)] /\ items' = items
    <3>1. \A v \in Workers, u \in Tasks : Has(resultCh'[v], u) <=> Has(resultCh[v], u)
      <4>1. \A u : Has(Append(resultCh[w], NoTask), u) <=> Has(resultCh[w], u) \/ u = NoTask
        <5>1. resultCh[w] \in Seq(Tasks \cup {NoTask}) /\ NoTask \in Tasks \cup {NoTask}
          BY <1>0, <2>1
        <5> QED
          BY <5>1, HasAppend
      <4>2. /\ resultCh'[w] = Append(resultCh[w], NoTask)
            /\ \A v \in Workers : v # w => resultCh'[v] = resultCh[v]
        BY <2>1, <2>5 DEF TypeOK
      <4> QED
        BY <1>0, <4>1, <4>2
    <3>2. \A u \in Tasks : InResult(u)' <=> InResult(u)
      BY <3>1 DEF InResult
    <3>3. NoTaskTwice'
      BY <1>0, <2>2, <2>3, <2>5, <3>1, <3>2 DEF NoTaskTwice
    <3>4. LiveTaskSomewhere'
      BY <2>2, <2>3, <2>5, <3>2 DEF LiveTaskSomewhere, Placed
    <3> QED
      BY <3>3, <3>4
  <2> QED
    BY <2>2, <2>4, <2>5
<1>9. CASE Rebalance
  BY <1>9 DEF Rebalance, taskVars, chanVars, NoTaskTwice, LiveTaskSomewhere, Placed, InHand, InResult
<1>10. CASE UNCHANGED vars
  BY <1>10 DEF vars, NoTaskTwice, LiveTaskSomewhere, Placed, InHand, InResult
<1> QED
  BY <1>1, <1>2, <1>3, <1>4, <1>5, <1>6, <1>7, <1>8, <1>9, <1>10 DEF Next

\* The queue hands every task over exactly once, for any number of producers
\* and workers and any capacity.
THEOREM OnePlaceCorrect == Spec => []ExactlyOnePlace
  BY TypeCorrect, ReplyCorrect, InitOnePlace, NextOnePlace, PTL DEF Spec

------------------------------------------------------------------------------
(* The order of the queue.                                                  *)

\* The score of a queued task is its base priority plus at most one class.
ScoresBounded ==
    \A t \in Tasks : Has(items, t) =>
        /\ AgeUnit * Priority[t] <= score[t]
        /\ score[t] <= AgeUnit * Priority[t] + AgeUnit

\* Taking an element out leaves the others in order.
LEMMA InOrderRemoveAt ==
    ASSUME NEW q \in Seq(Tasks), NEW i \in DOMAIN q, NEW sc, InOrder(sc, q)
    PROVE  InOrder(sc, RemoveAt(q, i))
<1> DEFINE r == RemoveAt(q, i)
<1>1. /\ r \in Seq(Tasks)
      /\ Len(r) = Len(q) - 1
      /\ \A j \in 1..(Len(q) - 1) : r[j] = IF j < i THEN q[j] ELSE q[j + 1]
  BY RemoveAtProperties
<1>2. Len(q) \in Nat /\ DOMAIN q = 1..Len(q) /\ DOMAIN r = 1..(Len(q) - 1) /\ i \in 1..Len(q)
  BY <1>1, LenProperties
<1> HIDE DEF r
<1>3. ASSUME NEW j \in DOMAIN r, NEW k \in DOMAIN r, j < k PROVE ~Before(sc, r[k], r[j])
  <2> DEFINE J == IF j < i THEN j ELSE j + 1
             K == IF k < i THEN k ELSE k + 1
  <2>1. J \in DOMAIN q /\ K \in DOMAIN q /\ J < K /\ q[J] = r[j] /\ q[K] = r[k]
    BY <1>1, <1>2, <1>3
  <2> QED
    BY <2>1 DEF InOrder
<1> QED
  BY <1>3 DEF InOrder, r

\* Initially the queue is empty.
LEMMA InitOrder == Init => QueueInOrder /\ ScoresBounded
  BY HasEmpty DEF Init, QueueInOrder, InOrder, ScoresBounded

\* Every step keeps the queue in order and its scores within one class.
LEMMA NextOrder ==
    ASSUME TypeOK, TypeOK', ExactlyOnePlace, QueueInOrder, ScoresBounded, [Next]_vars
    PROVE  QueueInOrder' /\ ScoresBounded'
<1> DEFINE Goal == QueueInOrder' /\ ScoresBounded'
<1>0. items \in Seq(Tasks) /\ IsInjective(items) /\ \A i \in DOMAIN items : items[i] \in Tasks
  BY ElementOfSeq, LenProperties DEF TypeOK, ExactlyOnePlace, NoTaskTwice
<1>1. ASSUME UNCHANGED <<items, score, createdAt>> PROVE Goal
  BY <1>1 DEF QueueInOrder, InOrder, Before, ScoresBounded
<1>2. ASSUME NEW p \in Producers, NEW t \in Tasks, CreateTask(p, t) PROVE Goal
  <2>1. /\ UNCHANGED <<items, score>>
        /\ createdAt' = [createdAt EXCEPT ![t] = clock]
        /\ fate[t] # "live"
    BY <1>2 DEF CreateTask
  <2>2. ~Has(items, t)
    BY <2>1 DEF ExactlyOnePlace, LiveTaskSomewhere, Placed
  <2>3. \A i \in DOMAIN items : createdAt'[items[i]] = createdAt[items[i]]
    BY <1>0, <2>1, <2>2 DEF Has, TypeOK
  <2> QED
    BY <2>1, <2>3 DEF QueueInOrder, InOrder, Before, ScoresBounded
<1>3. ASSUME NEW i \in DOMAIN items, items' = RemoveAt(items, i), UNCHANGED <<score, createdAt>>
      PROVE  Goal
  <2>1. InOrder(score, items')
    BY <1>0, <1>3, InOrderRemoveAt DEF QueueInOrder
  <2>2. \A t : Has(items', t) => Has(items, t)
    BY <1>0, <1>3, HasRemoveAt
  <2> QED
    BY <1>3, <2>1, <2>2 DEF QueueInOrder, InOrder, Before, ScoresBounded
<1>4. CASE ProcessEnqueue
  <2> DEFINE t == Head(enqueueCh)
             v == CalculatePriorityScore(t)
             a == Append(items, t)
  <2>1. t \in Tasks /\ Has(enqueueCh, t)
    BY <1>4, HasTail DEF ProcessEnqueue, TypeOK
  <2>2. ~Has(items, t)
    BY <2>1 DEF ExactlyOnePlace, NoTaskTwice
  <2>3. \/ UNCHANGED <<items, score, createdAt>>
        \/ /\ score' = [score EXCEPT ![t] = v]
           /\ createdAt' = createdAt
           /\ items' \in Arrangements(a) /\ InOrder(score', items')
    BY <1>4 DEF ProcessEnqueue, SortDesc
  <2>4. CASE /\ score' = [score EXCEPT ![t] = v]
             /\ createdAt' = createdAt
             /\ items' \in Arrangements(a) /\ InOrder(score', items')
    <3>1. v \in Nat /\ AgeUnit * Priority[t] <= v /\ v <= AgeUnit * Priority[t] + AgeUnit
      BY <2>1, ScoreBounds
    <3>2. a \in Seq(Tasks) /\ \A u : Has(a, u) <=> Has(items, u) \/ u = t
      BY <1>0, <2>1, HasAppend
    <3> HIDE DEF v, t, a
    <3>3. \A u : Has(items', u) <=> Has(items, u) \/ u = t
      BY <2>4, <3>2, HasArrangement
    <3>4. score'[t] = v /\ \A u \in Tasks : u # t => score'[u] = score[u]
      BY <2>1, <2>4 DEF TypeOK
    <3>5. ASSUME NEW u \in Tasks, Has(items', u)
          PROVE  AgeUnit * Priority[u] <= score'[u] /\ score'[u] <= AgeUnit * Priority[u] + AgeUnit
      <4>1. CASE u = t
        BY <3>1, <3>4, <4>1
      <4>2. CASE u # t
        BY <3>3, <3>4, <3>5, <4>2 DEF ScoresBounded
      <4> QED
        BY <4>1, <4>2
    <3>6. ScoresBounded'
      BY <3>5 DEF ScoresBounded
    <3>7. QueueInOrder'
      BY <2>4 DEF QueueInOrder, InOrder, Before
    <3> QED
      BY <3>6, <3>7
  <2> QED
    BY <2>3, <2>4, <1>1
<1>5. CASE ProcessDequeue
  BY <1>5, <1>1, <1>3 DEF ProcessDequeue, taskVars
<1>6. ASSUME NEW t \in Tasks, RemoveTask(t) PROVE Goal
  BY <1>6, <1>3 DEF RemoveTask
<1> QED
  BY <1>1, <1>2, <1>4, <1>5, <1>6
  DEF Next, Enqueue, Dequeue, Receive, Finish, Rebalance, taskVars, vars

\* The queue is in the order of sortDesc whatever is inserted, taken out,
\* removed and scored again.
THEOREM OrderCorrect == Spec => []QueueInOrder
<1>1. Spec => [](QueueInOrder /\ ScoresBounded)
  BY TypeCorrect, OnePlaceCorrect, InitOrder, NextOrder, PTL DEF Spec
<1> QED
  BY <1>1, PTL

\* Multiples of a positive number are ordered as their factors.
LEMMA ClassGap ==
    ASSUME NEW unit \in Nat \ {0}, NEW a \in 0..3, NEW b \in 0..3,
           unit * b <= unit * a + unit
    PROVE  b <= a + 1
<1>1. CASE a = 0 /\ b \in {2, 3}
  BY <1>1
<1>2. CASE a = 1 /\ b = 3
  BY <1>2
<1> QED
  BY <1>1, <1>2

\* No task is ever placed before one whose base priority is two classes
\* higher, however long it waited.
THEOREM ClassInversionCorrect == Spec => []ClassInversionBounded
<1>1. ASSUME TypeOK, QueueInOrder, ScoresBounded PROVE ClassInversionBounded
  <2> SUFFICES ASSUME NEW i \in DOMAIN items, NEW j \in DOMAIN items, i < j
               PROVE  Priority[items[i]] + 1 >= Priority[items[j]]
    BY DEF ClassInversionBounded
  <2> DEFINE x == items[i]
             y == items[j]
             px == AgeUnit * Priority[x]
             py == AgeUnit * Priority[y]
  <2>1. x \in Tasks /\ y \in Tasks /\ Has(items, x) /\ Has(items, y)
    BY SMTT(30), <1>1, ElementOfSeq, LenProperties DEF TypeOK, Has
  <2>2. AgeUnit \in Nat \ {0} /\ Priority[x] \in 0..3 /\ Priority[y] \in 0..3
    BY <2>1, TaskQueueAssumption
  <2>3. score[x] \in Nat /\ score[y] \in Nat /\ ~(score[y] > score[x])
    BY <1>1, <2>1 DEF TypeOK, QueueInOrder, InOrder, Before
  <2>4. score[x] <= px + AgeUnit /\ py <= score[y]
    BY <1>1, <2>1 DEF ScoresBounded
  <2>5. px \in Nat /\ py \in Nat
    BY <2>2, ProductInNat
  <2> HIDE DEF px, py
  <2>6. py <= px + AgeUnit
    BY <2>2, <2>3, <2>4, <2>5
  <2> QED
    BY <2>2, <2>6, ClassGap DEF px, py
<1>2. Spec => [](QueueInOrder /\ ScoresBounded)
  BY TypeCorrect, OnePlaceCorrect, InitOrder, NextOrder, PTL DEF Spec
<1> QED
  BY <1>1, <1>2, TypeCorrect, PTL

------------------------------------------------------------------------------
(* The queue implements TaskLedger.                                         *)

\* In an assignment of tasks to hands that gives no task twice, the holder of
\* a task is the one goroutine whose hand it is in.
LEMMA HolderProperties ==
    ASSUME NEW h, OneHandEach(h)
    PROVE  /\ \A c \in Clients : h[c] # NoTask => Holder(h, h[c]) = c
           /\ \A t : (\A c \in Clients : h[c] # t) => Holder(h, t) = NoClient
           /\ \A t : (\E c \in Clients : h[c] = t) =>
                        Holder(h, t) \in Clients /\ h[Holder(h, t)] = t
  BY DEF Holder, OneHandEach

\* A change of one task's status and owner, and of nothing else, is a Move.
LEMMA MoveByPoints ==
    ASSUME NEW t \in Tasks,
           \A u \in Tasks : u # t => /\ ledgerStatus'[u] = ledgerStatus[u]
                                     /\ ledgerOwner'[u] = ledgerOwner[u]
    PROVE  Ledger!Move(t, ledgerStatus'[t], ledgerOwner'[t])
<1> DEFINE st == ledgerStatus
           ow == ledgerOwner
<1>1. /\ st = [u \in Tasks |-> st[u]] /\ st' = [u \in Tasks |-> st'[u]]
      /\ ow = [u \in Tasks |-> ow[u]] /\ ow' = [u \in Tasks |-> ow'[u]]
  BY DEF ledgerStatus, ledgerOwner
<1> HIDE DEF st, ow
<1>2. st' = [st EXCEPT ![t] = st'[t]] /\ ow' = [ow EXCEPT ![t] = ow'[t]]
  BY <1>1 DEF st, ow
<1> QED
  BY <1>2 DEF Ledger!Move, st, ow

\* The ledger counts as this module does.
LEMMA LedgerCardinality == \A S : Ledger!Cardinality(S) = Cardinality(S)
  BY DEF Ledger!Cardinality, Cardinality

\* When more tasks are in the queue and its channel than it may keep, they
\* are all waiting in the ledger's sense.
LEMMA DropWhenCrowded ==
    ASSUME TypeOK, ExactlyOnePlace, enqueueCh # <<>>, Len(items) >= MaxQueueSize
    PROVE  Cardinality(Ledger!Queued) > MaxQueueSize
<1> DEFINE t == Head(enqueueCh)
           a == Append(items, t)
           n == Len(items) + 1
           Q == Ledger!Queued
<1>1. /\ t \in Tasks /\ Has(enqueueCh, t)
      /\ IsInjective(items) /\ ~Has(items, t)
      /\ items \in Seq(Tasks) /\ Len(items) \in Nat
  BY HasTail, LenProperties DEF TypeOK, ExactlyOnePlace, NoTaskTwice
<1>2. /\ a \in Seq(Tasks) /\ IsInjective(a)
      /\ \A u : Has(a, u) <=> Has(items, u) \/ u = t
  BY <1>1, HasAppend
<1>3. a \in [1..n -> Tasks]
  BY <1>1, <1>2, AppendProperties, LenProperties
<1>4. \A u \in Tasks : Has(items, u) \/ u = t => u \in Q
  <2>1. \A u \in Tasks : Has(items, u) \/ u = t => fate[u] = "live" /\ ~InHand(u)
    BY <1>1 DEF ExactlyOnePlace, NoTaskTwice, LiveTaskSomewhere, Placed
  <2> QED
    BY <2>1 DEF Ledger!Queued, ledgerStatus
<1> HIDE DEF a
<1>5. a \in Injection(1..n, Q)
  <2>1. \A i \in 1..n : a[i] \in Q
    BY <1>2, <1>3, <1>4 DEF Has
  <2> QED
    BY <1>2, <1>3, <2>1 DEF Injection, IsInjective
<1>6. IsFiniteSet(Q)
  BY TaskQueueAssumption, FS_Subset DEF Ledger!Queued
<1> HIDE DEF Q
<1>7. Cardinality(1..n) <= Cardinality(Q) /\ Cardinality(Q) \in Nat
  BY <1>5, <1>6, FS_Injection, FS_CardinalityType
<1>8. Cardinality(1..n) = n
  BY <1>1, FS_Interval
<1> QED
  BY <1>1, <1>7, <1>8, TaskQueueAssumption DEF Q

\* Initially both are empty.
LEMMA InitLedger == Init => Ledger!Init
  BY TaskQueueAssumption DEF Init, Ledger!Init, ledgerStatus, ledgerOwner, Holder, InHand

\* Every step of the queue is a step of the ledger or leaves it alone.
LEMMA NextLedger ==
    ASSUME TypeOK, TypeOK', ExactlyOnePlace, ExactlyOnePlace', ReplyNeverBlocks, [Next]_vars
    PROVE  Ledger!Next \/ UNCHANGED Ledger!ledgerVars
<1>0. /\ \A w \in Workers : w \in Clients
      /\ \A p \in Producers : p \in Clients
      /\ NoTask \notin Tasks
      /\ hand \in [Clients -> Tasks \cup {NoTask}]
      /\ OneHandEach(hand) /\ OneHandEach(hand')
  BY TaskQueueAssumption DEF Clients, TypeOK, ExactlyOnePlace, NoTaskTwice
<1>1. \A u \in Tasks :
         /\ ledgerOwner[u] = Holder(hand, u)
         /\ ledgerOwner'[u] = Holder(hand', u)
         /\ ledgerStatus[u] = IF fate[u] # "live" THEN fate[u]
                              ELSE IF InHand(u) THEN "held" ELSE "queued"
         /\ ledgerStatus'[u] = IF fate'[u] # "live" THEN fate'[u]
                               ELSE IF InHand(u)' THEN "held" ELSE "queued"
  BY DEF ledgerOwner, ledgerStatus, InHand
<1>2. /\ \A c \in Clients : hand[c] # NoTask => Holder(hand, hand[c]) = c
      /\ \A c \in Clients : hand'[c] # NoTask => Holder(hand', hand'[c]) = c
      /\ \A u \in Tasks : ~InHand(u) => Holder(hand, u) = NoClient
      /\ \A u \in Tasks : ~InHand(u)' => Holder(hand', u) = NoClient
      /\ \A u \in Tasks : InHand(u) => hand[Holder(hand, u)] = u
  BY <1>0, HolderProperties DEF InHand
<1>3. ASSUME NEW c \in Clients, hand[c] = NoTask PROVE Ledger!EmptyHanded(c)
  BY <1>0, <1>1, <1>2, <1>3, NoClientAssumption DEF Ledger!EmptyHanded
<1>4. ASSUME UNCHANGED <<hand, fate>> PROVE UNCHANGED Ledger!ledgerVars
  BY <1>4 DEF Ledger!ledgerVars, ledgerStatus, ledgerOwner, InHand
<1>5. ASSUME NEW c \in Clients, NEW x \in Tasks \cup {NoTask}, hand' = [hand EXCEPT ![c] = x]
      PROVE  /\ hand'[c] = x
             /\ \A u \in Tasks : u # hand[c] /\ u # x =>
                   (InHand(u)' <=> InHand(u)) /\ ledgerOwner'[u] = ledgerOwner[u]
             /\ \A t \in Tasks : t = hand[c] /\ x = NoTask => ~InHand(t)'
  <2>1. hand'[c] = x /\ \A d \in Clients : d # c => hand'[d] = hand[d]
    BY <1>0, <1>5
  <2>2. ASSUME NEW u \in Tasks, u # hand[c], u # x
        PROVE  (InHand(u)' <=> InHand(u)) /\ ledgerOwner'[u] = ledgerOwner[u]
    <3>1. \A d \in Clients : hand'[d] = u <=> hand[d] = u
      BY <2>1, <2>2
    <3>2. InHand(u)' <=> InHand(u)
      BY <3>1 DEF InHand
    <3>3. CASE InHand(u)
      <4>1. PICK d \in Clients : hand[d] = u /\ hand'[d] = u
        BY <3>1, <3>3 DEF InHand
      <4> QED
        BY <1>0, <1>1, <1>2, <3>2, <4>1
    <3>4. CASE ~InHand(u)
      BY <1>1, <1>2, <3>2, <3>4
    <3> QED
      BY <3>2, <3>3, <3>4
  <2>3. ASSUME NEW t \in Tasks, t = hand[c], x = NoTask PROVE ~InHand(t)'
    <3>1. \A d \in Clients : hand'[d] # t
      BY <1>0, <2>1, <2>3 DEF OneHandEach
    <3> QED
      BY <3>1 DEF InHand
  <2> QED
    BY <2>1, <2>2, <2>3
<1>13. ASSUME NEW t \in Tasks,
              \A u \in Tasks : u # t => /\ InHand(u)' <=> InHand(u)
                                        /\ ledgerOwner'[u] = ledgerOwner[u]
                                        /\ fate'[u] = fate[u]
       PROVE  Ledger!Move(t, ledgerStatus'[t], ledgerOwner'[t])
  <2>1. \A u \in Tasks : u # t => /\ ledgerStatus'[u] = ledgerStatus[u]
                                  /\ ledgerOwner'[u] = ledgerOwner[u]
    BY <1>1, <1>13
  <2> QED
    BY <2>1, MoveByPoints
<1>6. ASSUME NEW t \in Tasks, UNCHANGED hand, ~InHand(t), NEW f, f # "live",
             fate' = [fate EXCEPT ![t] = f]
      PROVE  Ledger!Move(t, f, NoClient)
  <2>1. ~InHand(t)' /\ \A u \in Tasks : InHand(u)' <=> InHand(u)
    BY <1>6 DEF InHand
  <2>2. fate'[t] = f /\ \A u \in Tasks : u # t => fate'[u] = fate[u]
    BY <1>6 DEF TypeOK
  <2>3. ledgerStatus'[t] = f /\ ledgerOwner'[t] = NoClient
    BY <1>1, <1>2, <1>6, <2>1, <2>2
  <2>4. \A u \in Tasks : u # t => /\ ledgerStatus'[u] = ledgerStatus[u]
                                  /\ ledgerOwner'[u] = ledgerOwner[u]
    BY <1>1, <1>6, <2>1, <2>2
  <2> QED
    BY <2>3, <2>4, MoveByPoints
<1>7. ASSUME NEW p \in Producers, NEW t \in Tasks, CreateTask(p, t) PROVE Ledger!Create(p, t)
  <2>1. /\ fate[t] = "none" /\ fate' = [fate EXCEPT ![t] = "live"]
        /\ hand[p] = NoTask /\ hand' = [hand EXCEPT ![p] = t]
    BY <1>7 DEF CreateTask
  <2>2. fate'[t] = "live" /\ \A u \in Tasks : u # t => fate'[u] = fate[u]
    BY <2>1 DEF TypeOK
  <2>3. hand'[p] = t /\ p \in Clients
    BY <1>0, <2>1
  <2>4. InHand(t)' /\ Holder(hand', t) = p
    BY <1>0, <1>2, <2>3 DEF InHand
  <2>5. ledgerStatus'[t] = "held" /\ ledgerOwner'[t] = p
    BY <1>1, <2>2, <2>4
  <2>6. Ledger!Move(t, "held", p)
    <3>1. \A u \in Tasks : u # t => /\ InHand(u)' <=> InHand(u)
                                    /\ ledgerOwner'[u] = ledgerOwner[u]
      BY <1>0, <1>5, <2>1, <2>3
    <3>2. Ledger!Move(t, ledgerStatus'[t], ledgerOwner'[t])
      BY <1>13, <2>2, <3>1
    <3> QED
      BY <2>5, <3>2
  <2> QED
    BY <1>0, <1>1, <1>3, <2>1, <2>6 DEF Ledger!Create
<1>8. ASSUME NEW c \in Clients, NEW t \in Tasks, t = hand[c], Enqueue(c)
      PROVE  Ledger!Submit(c, t)
  <2>1. t = hand[c] /\ hand' = [hand EXCEPT ![c] = NoTask] /\ fate' = fate
    BY <1>0, <1>8 DEF Enqueue, taskVars
  <2>2. InHand(t) /\ Holder(hand, t) = c /\ fate[t] = "live"
    BY <1>0, <1>2, <2>1 DEF InHand, ExactlyOnePlace, LiveTaskSomewhere, Placed
  <2>3. ~InHand(t)'
    BY <1>5, <2>1
  <2>4. ledgerStatus'[t] = "queued" /\ ledgerOwner'[t] = NoClient
    BY ZenonT(60), <1>1, <1>2, <2>1, <2>2, <2>3
  <2>5. Ledger!Move(t, "queued", NoClient)
    <3>1. \A u \in Tasks : u # t => /\ InHand(u)' <=> InHand(u)
                                    /\ ledgerOwner'[u] = ledgerOwner[u]
      BY ZenonT(60), <1>0, <1>5, <2>1
    <3>2. Ledger!Move(t, ledgerStatus'[t], ledgerOwner'[t])
      BY <1>13, <2>1, <3>1
    <3> QED
      BY <2>4, <3>2
  <2> QED
    BY <1>1, <2>1, <2>2, <2>5 DEF Ledger!Submit
<1>9. ASSUME NEW w \in Workers, NEW t \in Tasks, t = hand[w], Finish(w)
      PROVE  Ledger!Finish(w, t)
  <2>1. t = hand[w] /\ hand' = [hand EXCEPT ![w] = NoTask] /\ fate' = [fate EXCEPT ![t] = "finished"]
    BY <1>0, <1>9 DEF Finish
  <2>2. InHand(t) /\ Holder(hand, t) = w /\ fate[t] = "live"
    BY <1>0, <1>2, <2>1 DEF InHand, ExactlyOnePlace, LiveTaskSomewhere, Placed
  <2>3. fate'[t] = "finished" /\ \A u \in Tasks : u # t => fate'[u] = fate[u]
    BY <2>1 DEF TypeOK
  <2>4. ~InHand(t)'
    BY <1>0, <1>5, <2>1
  <2>5. ledgerStatus'[t] = "finished" /\ ledgerOwner'[t] = NoClient
    BY ZenonT(60), <1>1, <1>2, <2>1, <2>3, <2>4
  <2>6. Ledger!Move(t, "finished", NoClient)
    <3>1. \A u \in Tasks : u # t => /\ InHand(u)' <=> InHand(u)
                                    /\ ledgerOwner'[u] = ledgerOwner[u]
      BY ZenonT(60), <1>0, <1>5, <2>1
    <3>2. Ledger!Move(t, ledgerStatus'[t], ledgerOwner'[t])
      BY <1>13, <2>3, <3>1
    <3> QED
      BY <2>5, <3>2
  <2> QED
    BY <1>1, <2>1, <2>2, <2>6 DEF Ledger!Finish
<1>10. ASSUME NEW w \in Workers, NEW t, t = Head(resultCh[w]), Receive(w)
       PROVE  (\E u \in Tasks : Ledger!Take(w, u)) \/ UNCHANGED Ledger!ledgerVars
  <2>1. /\ hand[w] = NoTask /\ hand' = [hand EXCEPT ![w] = t] /\ fate' = fate
        /\ t \in Tasks \cup {NoTask} /\ Has(resultCh[w], t)
    BY <1>10, HasTail DEF Receive, taskVars, ReplyNeverBlocks, TypeOK
  <2>2. CASE t = NoTask
    <3>1. hand' = hand
      BY <1>0, <2>1, <2>2
    <3> QED
      BY <1>4, <2>1, <3>1
  <2>3. CASE t \in Tasks
    <3>1. ~InHand(t) /\ fate[t] = "live"
      BY <2>1, <2>3 DEF InResult, ExactlyOnePlace, NoTaskTwice, LiveTaskSomewhere, Placed
    <3>2. hand'[w] = t /\ w \in Clients
      BY <1>0, <2>1
    <3>3. InHand(t)' /\ Holder(hand', t) = w
      BY <1>0, <1>2, <2>3, <3>2 DEF InHand
    <3>4. ledgerStatus'[t] = "held" /\ ledgerOwner'[t] = w
      BY <1>1, <2>1, <2>3, <3>1, <3>3
    <3>5. Ledger!Move(t, "held", w)
      <4>1. \A u \in Tasks : u # t => /\ InHand(u)' <=> InHand(u)
                                      /\ ledgerOwner'[u] = ledgerOwner[u]
        BY <1>0, <1>5, <2>1, <2>3, <3>2
      <4>2. Ledger!Move(t, ledgerStatus'[t], ledgerOwner'[t])
        BY <1>13, <2>1, <2>3, <4>1
      <4> QED
        BY <3>4, <4>2
    <3>6. ledgerStatus[t] = "queued" /\ Ledger!EmptyHanded(w)
      BY <1>0, <1>1, <1>3, <2>1, <2>3, <3>1
    <3> QED
      BY <2>3, <3>5, <3>6 DEF Ledger!Take
  <2> QED
    BY <2>1, <2>2, <2>3
<1>11. ASSUME NEW t \in Tasks, RemoveTask(t) PROVE Ledger!Remove(t)
  <2>1. Has(items, t) /\ fate' = [fate EXCEPT ![t] = "removed"] /\ UNCHANGED hand
    BY <1>11 DEF RemoveTask, Has
  <2>2. ~InHand(t) /\ fate[t] = "live"
    BY <2>1 DEF ExactlyOnePlace, NoTaskTwice, LiveTaskSomewhere, Placed
  <2> QED
    BY <1>1, <1>6, <2>1, <2>2 DEF Ledger!Remove
<1>12. ASSUME NEW t, t = Head(enqueueCh), ProcessEnqueue
       PROVE  Ledger!Next \/ UNCHANGED Ledger!ledgerVars
  <2>1. /\ enqueueCh # <<>> /\ UNCHANGED hand
        /\ \/ UNCHANGED fate
           \/ Len(items) >= MaxQueueSize /\ fate' = [fate EXCEPT ![t] = "dropped"]
    BY <1>12 DEF ProcessEnqueue
  <2>2. t \in Tasks /\ ~InHand(t) /\ fate[t] = "live"
    BY <1>12, <2>1, HasTail DEF TypeOK, ExactlyOnePlace, NoTaskTwice, LiveTaskSomewhere, Placed
  <2>3. CASE Len(items) >= MaxQueueSize /\ fate' = [fate EXCEPT ![t] = "dropped"]
    <3>1. Ledger!Move(t, "dropped", NoClient)
      BY <1>6, <2>1, <2>2, <2>3
    <3>2. Cardinality(Ledger!Queued) > MaxQueueSize
      BY <2>1, <2>3, DropWhenCrowded
    <3>3. ledgerStatus[t] = "queued"
      BY <1>1, <2>2
    <3>4. Ledger!Drop(t)
      BY <2>2, <3>1, <3>2, <3>3, LedgerCardinality DEF Ledger!Drop
    <3> QED
      BY <2>2, <3>4 DEF Ledger!Next
  <2> QED
    BY <1>4, <2>1, <2>3
<1>14. CASE \E p \in Producers, t \in Tasks : CreateTask(p, t)
  BY <1>7, <1>14 DEF Ledger!Next
<1>15. CASE \E c \in Clients : Enqueue(c)
  <2>1. PICK c \in Clients : Enqueue(c)
    BY <1>15
  <2>2. hand[c] \in Tasks
    BY <1>0, <2>1 DEF Enqueue
  <2> QED
    BY <1>8, <2>1, <2>2 DEF Ledger!Next, Clients
<1>16. CASE \E w \in Workers : Finish(w)
  <2>1. PICK w \in Workers : Finish(w)
    BY <1>16
  <2>2. hand[w] \in Tasks
    BY <1>0, <2>1 DEF Finish
  <2> QED
    BY <1>9, <2>1, <2>2 DEF Ledger!Next
<1>17. CASE \E w \in Workers : Receive(w)
  BY <1>10, <1>17 DEF Ledger!Next
<1>18. CASE \E t \in Tasks : RemoveTask(t)
  BY <1>11, <1>18 DEF Ledger!Next
<1>19. CASE \/ \E w \in Workers, ty \in Types \cup {AnyType} : Dequeue(w, ty)
            \/ ProcessDequeue
            \/ Rebalance
            \/ UNCHANGED vars
  <2>1. UNCHANGED <<hand, fate>>
    BY <1>19 DEF Dequeue, ProcessDequeue, Rebalance, taskVars, vars
  <2> QED
    BY <1>4, <2>1
<1> QED
  BY <1>12, <1>14, <1>15, <1>16, <1>17, <1>18, <1>19 DEF Next

\* The queue implements TaskLedger: a task is never in two hands, and it is
\* lost only while more tasks wait than MaxQueueSize.
THEOREM LedgerCorrect == Spec => ImplementsLedger
<1>1. Init => Ledger!Init
  BY InitLedger
<1>2. TypeOK /\ TypeOK' /\ ExactlyOnePlace /\ ExactlyOnePlace' /\ ReplyNeverBlocks /\ [Next]_vars
      => [Ledger!Next]_(Ledger!ledgerVars)
  BY NextLedger
<1> QED
  BY <1>1, <1>2, TypeCorrect, OnePlaceCorrect, ReplyCorrect, PTL
  DEF Spec, ImplementsLedger, Ledger!Spec
=============================================================================
