--------------------------- MODULE SimulatorProofs ---------------------------
(***************************************************************************)
(* Proofs about Simulator, for any start and stop requests, any limit of   *)
(* attempts and any number of payloads.                                    *)
(***************************************************************************)
EXTENDS Simulator, FiniteSetTheorems, SequenceTheorems, TLAPS

\* max_attempts in post_with_retry.
Limit == Max({MaxAttempts, 1})

\* The posts of payload n of a task that made the posts p.
PostsOf(p, n) == {i \in 1 .. Len(p) : p[i] = n}

\* Where a task is tells how its last payload stands.
TaskHolds(t) ==
    /\ ~start[t] => task[t] = "none"
    /\ task[t] \in {"none", "ready", "sleeping"} => attempt[t] = 0
    /\ task[t] \in {"posting", "backoff"} => attempt[t] >= 1
    /\ task[t] = "backoff" => attempt[t] < Limit
    /\ attempt[t] <= Limit

\* The posts p of a task that made m payloads end with those of the last one, which a
\* counts as long as it is not settled.
Orderly(p, m, a) ==
    /\ m = IF p = <<>> THEN 0 ELSE p[Len(p)]
    /\ \A i \in 1 .. Len(p) : p[i] \in 1 .. m
    /\ \A i \in 1 .. Len(p) - 1 : p[i + 1] \in {p[i], p[i] + 1}
    /\ \A n \in 1 .. m : Cardinality(PostsOf(p, n)) \in 1 .. Limit
    /\ a >= 1 => m >= 1 /\ Cardinality(PostsOf(p, m)) = a

PostsHold(t) == Orderly(posts[t], made[t], attempt[t])

\* Without a race, what a waiting stop awaits is all that still runs.
RegistryHolds ==
    /\ RegistryExact
    /\ ~raced => \A p \in Stops : stop[p] = "waiting" => \A t \in Starts : Live(t) => t = awaits[p]

SimulatorInv == /\ TypeOK
                /\ RegistryHolds
                /\ \A t \in Starts : TaskHolds(t) /\ PostsHold(t)
                /\ MetricsAddUp

\* At least one attempt is made.
LEMMA LimitType == Limit \in Nat /\ Limit >= 1
  <1> DEFINE S == {MaxAttempts, 1}
  <1>1. \E x \in S : \A y \in S : x >= y
    BY ConstantsAssumption
  <1>2. Max(S) \in S /\ \A y \in S : Max(S) >= y
    BY <1>1 DEF Max
  <1>3. QED
    BY <1>2, ConstantsAssumption DEF Limit

\* As many numbers as one counts to.
LEMMA CountTo == ASSUME NEW k \in Nat PROVE IsFiniteSet(1 .. k) /\ Cardinality(1 .. k) = k
  <1>1. /\ IsFiniteSet(1 .. k)
        /\ Cardinality(1 .. k) = IF 1 > k THEN 0 ELSE k - 1 + 1
    <2>1. 1 \in Int /\ k \in Int
      OBVIOUS
    <2>2. QED
      BY <2>1, FS_Interval, Zenon
  <1>2. QED
    BY <1>1

\* Numbering the things of finitely many tasks gives finitely many pairs.
LEMMA NumberedFinite ==
    ASSUME NEW T, IsFiniteSet(T), NEW n \in [T -> Nat]
    PROVE  IsFiniteSet(UNION {{t} \X (1 .. n[t]) : t \in T})
  <1> DEFINE rows == {{t} \X (1 .. n[t]) : t \in T}
             f == [t \in T |-> {t} \X (1 .. n[t])]
  <1>1. f \in Surjection(T, rows)
    BY DEF Surjection
  <1>2. IsFiniteSet(rows)
    BY <1>1, FS_Surjection
  <1>3. ASSUME NEW t \in T PROVE IsFiniteSet({t} \X (1 .. n[t]))
    <2>1. IsFiniteSet({t}) /\ IsFiniteSet(1 .. n[t])
      BY CountTo, FS_Singleton
    <2>2. QED
      BY <2>1, FS_Product
  <1>4. QED
    BY <1>2, <1>3, FS_UNION

\* What the change of one task's number does to the number of all.
LEMMA NumberedChange ==
    ASSUME NEW n \in [Starts -> Nat], NEW m \in [Starts -> Nat], NEW t \in Starts,
           \A u \in Starts \ {t} : m[u] = n[u]
    PROVE  /\ Cardinality(Numbered(n)) \in Nat
           /\ Cardinality(Numbered(m)) = Cardinality(Numbered(n)) + m[t] - n[t]
  <1> DEFINE rest == UNION {{u} \X (1 .. n[u]) : u \in Starts \ {t}}
             row(k) == {t} \X (1 .. k)
  <1>1. IsFiniteSet(rest)
    <2> DEFINE q == [u \in Starts \ {t} |-> n[u]]
    <2>1. IsFiniteSet(Starts \ {t})
      BY ConstantsAssumption, FS_RemoveElement
    <2>2. q \in [Starts \ {t} -> Nat]
      OBVIOUS
    <2>3. rest = UNION {{u} \X (1 .. q[u]) : u \in Starts \ {t}}
      OBVIOUS
    <2> HIDE DEF q, rest
    <2>4. QED
      BY <2>1, <2>2, <2>3, NumberedFinite
  <1>2. ASSUME NEW k \in Nat
        PROVE  /\ Cardinality(rest \cup row(k)) = Cardinality(rest) + k
               /\ Cardinality(rest) \in Nat
    <2>1. IsFiniteSet(row(k)) /\ Cardinality(row(k)) = k
      <3>1. IsFiniteSet({t}) /\ Cardinality({t}) = 1
        BY FS_Singleton
      <3>2. IsFiniteSet(1 .. k) /\ Cardinality(1 .. k) = k
        BY CountTo
      <3>3. /\ IsFiniteSet({t} \X (1 .. k))
            /\ Cardinality({t} \X (1 .. k)) = Cardinality({t}) * Cardinality(1 .. k)
        BY <3>1, <3>2, FS_Product, Zenon
      <3>4. Cardinality({t} \X (1 .. k)) = 1 * k
        BY <3>1, <3>2, <3>3, Zenon
      <3>5. 1 * k = k
        OBVIOUS
      <3>6. QED
        BY <3>3, <3>4, <3>5, Zenon
    <2>2. rest \cap row(k) = {}
      OBVIOUS
    <2> HIDE DEF rest, row
    <2>3. Cardinality(rest \cap row(k)) = 0
      BY <2>2, FS_EmptySet
    <2>4. Cardinality(rest) \in Nat
      BY <1>1, FS_CardinalityType
    <2>5. Cardinality(rest \cup row(k)) = Cardinality(rest) + Cardinality(row(k)) - 0
      BY <1>1, <2>1, <2>3, FS_Union
    <2>6. QED
      BY <2>1, <2>4, <2>5
  <1>3. Numbered(n) = rest \cup row(n[t])
    BY DEF Numbered
  <1>4. Numbered(m) = rest \cup row(m[t])
    BY DEF Numbered
  <1> HIDE DEF rest, row
  <1>5. n[t] \in Nat /\ m[t] \in Nat
    OBVIOUS
  <1>6. QED
    BY <1>2, <1>3, <1>4, <1>5

\* A post counts for its payload and for no other.
LEMMA PostsOfAppend ==
    ASSUME NEW p \in Seq(Nat), NEW x \in Nat, NEW n \in Nat
    PROVE  /\ Cardinality(PostsOf(p, n)) \in Nat
           /\ Cardinality(PostsOf(Append(p, x), n))
                = Cardinality(PostsOf(p, n)) + (IF x = n THEN 1 ELSE 0)
  <1> DEFINE last == Len(p) + 1
  <1>1. PostsOf(Append(p, x), n) = PostsOf(p, n) \cup (IF x = n THEN {last} ELSE {})
    BY DEF PostsOf
  <1>2. last \notin PostsOf(p, n)
    BY DEF PostsOf
  <1>3. IsFiniteSet(PostsOf(p, n))
    <2>1. IsFiniteSet(1 .. Len(p)) /\ PostsOf(p, n) \in SUBSET (1 .. Len(p))
      BY CountTo DEF PostsOf
    <2>2. QED
      BY <2>1, FS_Subset
  <1>4. Cardinality(PostsOf(p, n)) \in Nat
    BY <1>3, FS_CardinalityType
  <1> HIDE DEF last
  <1>5. CASE x = n
    <2>1. PostsOf(Append(p, x), n) = PostsOf(p, n) \cup {last}
      BY <1>1, <1>5
    <2>2. QED
      BY <1>2, <1>3, <1>4, <1>5, <2>1, FS_AddElement
  <1>6. CASE x # n
    <2>1. PostsOf(Append(p, x), n) = PostsOf(p, n)
      BY <1>1, <1>6
    <2>2. QED
      BY <1>4, <1>6, <2>1
  <1>7. QED
    BY <1>5, <1>6

-----------------------------------------------------------------------------
(* The registry.                                                           *)

\* The step of a task touches no handler's variable, wakes no task, and leaves what the
\* other tasks did.
LEMMA RunStep ==
    ASSUME TypeOK, NEW t \in Starts, Run(t)
    PROVE  /\ UNCHANGED registry
           /\ \A u \in Starts : Live(u)' => Live(u)
           /\ \A u \in Starts \ {t} : /\ task'[u] = task[u] /\ made'[u] = made[u]
                                     /\ attempt'[u] = attempt[u] /\ posts'[u] = posts[u]
  <1> USE DEF TypeOK, delivery
  <1>1. UNCHANGED registry
    BY DEF Run, NextPayload, Delivered, Refused, GiveUp, Settle, BackOff, Retry, TakeCancel, Close
  <1>2. task[t] \in Suspended
    BY DEF Run, NextPayload, Delivered, Refused, GiveUp, BackOff, Retry, TakeCancel, Close, Posting,
           Suspended, Live
  <1>3. \A u \in Starts \ {t} : task'[u] = task[u]
    BY DEF Run, NextPayload, Delivered, Refused, GiveUp, Settle, BackOff, Retry, TakeCancel, Close, Post
  <1>4. \A u \in Starts \ {t} : made'[u] = made[u]
    BY DEF Run, NextPayload, Delivered, Refused, GiveUp, Settle, BackOff, Retry, TakeCancel, Close, Post
  <1>5. \A u \in Starts \ {t} : attempt'[u] = attempt[u]
    BY DEF Run, NextPayload, Delivered, Refused, GiveUp, Settle, BackOff, Retry, TakeCancel, Close, Post
  <1>6. \A u \in Starts \ {t} : posts'[u] = posts[u]
    BY DEF Run, NextPayload, Delivered, Refused, GiveUp, Settle, BackOff, Retry, TakeCancel, Close, Post
  <1>7. QED
    BY <1>1, <1>2, <1>3, <1>4, <1>5, <1>6 DEF Live

\* Every step keeps what the registry knows.
LEMMA RegistryStep == ASSUME TypeOK, RegistryHolds, [Next]_vars PROVE RegistryHolds'
  <1> USE DEF RegistryHolds, RegistryExact
  <1>1. ASSUME NEW s \in Starts, Start(s) PROVE RegistryHolds'
    <2>1. CASE Running
      BY <1>1, <2>1 DEF Start, Live, delivery
    <2>2. CASE ~Running
      <3>1. /\ slot' = s /\ task' = [task EXCEPT ![s] = "ready"] /\ quiet' = {} /\ stop' = stop
            /\ raced' = (raced \/ \E p \in Stops : stop[p] = "waiting")
        BY <1>1, <2>2 DEF Start
      <3>2. ~raced => \A t \in Starts : ~Live(t)
        BY <2>2, ConstantsAssumption DEF Running
      <3>3. ~raced' => \A t \in Starts : Live(t)' => t = s
        BY <3>1, <3>2 DEF Live, TypeOK
      <3>4. QED
        BY <3>1, <3>3
    <2>3. QED
      BY <2>1, <2>2
  <1>2. ASSUME NEW p \in Stops, StopCall(p) PROVE RegistryHolds'
    <2>1. UNCHANGED <<raced, task>> /\ quiet' = quiet \cup {p} /\ stop[p] = "idle"
      BY <1>2 DEF StopCall
    <2>2. CASE Running
      <3>1. /\ stop' = [stop EXCEPT ![p] = "waiting"] /\ awaits' = [awaits EXCEPT ![p] = slot]
            /\ slot' = slot
        BY <1>2, <2>2 DEF StopCall
      <3>2. QED
        BY <2>1, <3>1 DEF Live, TypeOK
    <2>3. CASE ~Running
      <3>1. stop' = [stop EXCEPT ![p] = "answered"] /\ awaits' = awaits
        BY <1>2, <2>3 DEF StopCall
      <3>2. ~raced => \A t \in Starts : ~Live(t)
        BY <2>3, ConstantsAssumption DEF Running
      <3>3. QED
        BY <2>1, <3>1, <3>2 DEF Live
    <2>4. QED
      BY <2>2, <2>3
  <1>3. ASSUME NEW p \in Stops, StopResume(p) PROVE RegistryHolds'
    <2>1. /\ UNCHANGED <<raced, task, quiet, awaits>> /\ stop[p] = "waiting"
          /\ task[awaits[p]] = "done" /\ stop' = [stop EXCEPT ![p] = "answered"]
      BY <1>3 DEF StopResume
    <2>2. ~raced => \A t \in Starts : ~Live(t)
      BY <2>1 DEF Live, Suspended
    <2>3. QED
      BY <2>1, <2>2 DEF Live
  <1>4. ASSUME NEW t \in Starts, Run(t) PROVE RegistryHolds'
    <2>1. UNCHANGED <<raced, quiet, stop, awaits, slot>> /\ \A u \in Starts : Live(u)' => Live(u)
      BY <1>4, RunStep DEF registry
    <2> HIDE DEF Live
    <2>2. QED
      BY <2>1
  <1>5. CASE UNCHANGED vars
    BY <1>5 DEF vars, Live
  <1>6. QED
    BY <1>1, <1>2, <1>3, <1>4, <1>5 DEF Next

-----------------------------------------------------------------------------
(* The posts.                                                              *)

\* A settled payload is not posted any more.
LEMMA Settled == ASSUME NEW p, NEW m, NEW a, Orderly(p, m, a) PROVE Orderly(p, m, 0)
  BY DEF Orderly

\* What appending a post of payload x does to the order.
LEMMA AppendedOrder ==
    ASSUME NEW p \in Seq(Nat), NEW m \in Nat, NEW a \in Nat, Orderly(p, m, a),
           NEW x \in {m, m + 1}, x >= 1
    PROVE  LET q == Append(p, x)
           IN  /\ q # <<>> /\ q[Len(q)] = x
               /\ \A i \in 1 .. Len(q) : q[i] \in 1 .. x
               /\ \A i \in 1 .. Len(q) - 1 : q[i + 1] \in {q[i], q[i] + 1}
  <1> DEFINE q == Append(p, x)
  <1>1. /\ x \in Nat /\ Len(p) \in Nat /\ Len(q) = Len(p) + 1 /\ q[Len(p) + 1] = x /\ q # <<>>
        /\ \A i \in 1 .. Len(p) : q[i] = p[i]
    OBVIOUS
  <1> HIDE DEF q
  <1>2. ASSUME NEW i \in 1 .. Len(q) PROVE q[i] \in 1 .. x
    <2>1. CASE i = Len(p) + 1
      BY <1>1, <2>1
    <2>2. CASE i # Len(p) + 1
      <3>1. i \in 1 .. Len(p)
        BY <1>1, <2>2
      <3>2. q[i] = p[i] /\ p[i] \in 1 .. m
        BY <1>1, <3>1 DEF Orderly
      <3>3. QED
        BY <1>1, <3>2
    <2>3. QED
      BY <2>1, <2>2
  <1>3. ASSUME NEW i \in 1 .. Len(q) - 1 PROVE q[i + 1] \in {q[i], q[i] + 1}
    <2>1. i \in 1 .. Len(p) /\ q[i] = p[i]
      BY <1>1
    <2>2. CASE i = Len(p)
      <3>1. p # <<>> /\ m = p[Len(p)]
        BY <2>1, <2>2 DEF Orderly
      <3>2. QED
        BY <1>1, <2>1, <2>2, <3>1
    <2>3. CASE i # Len(p)
      <3>1. i \in 1 .. Len(p) - 1 /\ q[i + 1] = p[i + 1]
        BY <1>1, <2>1, <2>3
      <3>2. QED
        BY <2>1, <3>1 DEF Orderly
    <2>4. QED
      BY <2>2, <2>3
  <1>4. QED
    BY <1>1, <1>2, <1>3 DEF q

\* The first post of the next payload.
LEMMA FirstPost ==
    ASSUME NEW p \in Seq(Nat), NEW m \in Nat, NEW a \in Nat, Orderly(p, m, a)
    PROVE  Orderly(Append(p, m + 1), m + 1, 1)
  <1> DEFINE q == Append(p, m + 1)
  <1>1. PostsOf(p, m + 1) = {}
    BY DEF Orderly, PostsOf
  <1>2. Cardinality(PostsOf(q, m + 1)) = 1
    <2>1. Cardinality(PostsOf(q, m + 1)) = Cardinality(PostsOf(p, m + 1)) + 1
      BY PostsOfAppend
    <2>2. Cardinality(PostsOf(p, m + 1)) = 0
      BY <1>1, FS_EmptySet, Zenon
    <2> HIDE DEF q
    <2>3. QED
      BY <2>1, <2>2
  <1>3. ASSUME NEW n \in 1 .. m PROVE Cardinality(PostsOf(q, n)) \in 1 .. Limit
    <2>1. Cardinality(PostsOf(q, n)) = Cardinality(PostsOf(p, n)) + 0
      BY PostsOfAppend
    <2>2. QED
      BY <2>1, LimitType DEF Orderly
  <1>4. /\ q # <<>> /\ q[Len(q)] = m + 1
        /\ \A i \in 1 .. Len(q) : q[i] \in 1 .. m + 1
        /\ \A i \in 1 .. Len(q) - 1 : q[i + 1] \in {q[i], q[i] + 1}
    BY AppendedOrder, SMTT(20)
  <1> HIDE DEF q
  <1>5. \A n \in 1 .. m + 1 : Cardinality(PostsOf(q, n)) \in 1 .. Limit
    BY <1>2, <1>3, LimitType
  <1>6. Orderly(q, m + 1, 1)
    BY <1>2, <1>4, <1>5 DEF Orderly
  <1>7. QED
    BY <1>6 DEF q

\* The last payload is posted again, below the limit.
LEMMA PostAgain ==
    ASSUME NEW p \in Seq(Nat), NEW m \in Nat, NEW a \in Nat, Orderly(p, m, a), a >= 1, a < Limit
    PROVE  Orderly(Append(p, m), m, a + 1)
  <1> DEFINE q == Append(p, m)
  <1>1. m >= 1 /\ Cardinality(PostsOf(p, m)) = a
    BY DEF Orderly
  <1>2. Cardinality(PostsOf(q, m)) = a + 1
    <2>1. Cardinality(PostsOf(q, m)) = Cardinality(PostsOf(p, m)) + 1
      BY PostsOfAppend
    <2>2. QED
      BY <1>1, <2>1
  <1>3. ASSUME NEW n \in 1 .. m, n # m PROVE Cardinality(PostsOf(q, n)) \in 1 .. Limit
    <2>1. Cardinality(PostsOf(q, n)) = Cardinality(PostsOf(p, n)) + 0
      BY <1>3, PostsOfAppend
    <2>2. QED
      BY <2>1, LimitType DEF Orderly
  <1>4. /\ q # <<>> /\ q[Len(q)] = m
        /\ \A i \in 1 .. Len(q) : q[i] \in 1 .. m
        /\ \A i \in 1 .. Len(q) - 1 : q[i + 1] \in {q[i], q[i] + 1}
    BY <1>1, AppendedOrder
  <1> HIDE DEF q
  <1>5. \A n \in 1 .. m : Cardinality(PostsOf(q, n)) \in 1 .. Limit
    <2>1. a + 1 \in 1 .. Limit
      BY LimitType
    <2>2. QED
      BY <1>2, <1>3, <2>1
  <1>6. Orderly(q, m, a + 1)
    BY <1>1, <1>2, <1>4, <1>5 DEF Orderly
  <1>7. QED
    BY <1>6 DEF q

\* The sum over the tasks follows what one task posts and the counters record: posted
\* more posts, recorded of them settled.
LEMMA CountersFollow ==
    ASSUME TypeOK, TypeOK', MetricsAddUp, NEW t \in Starts, NEW posted \in Nat, NEW recorded \in Nat,
           \A u \in Starts \ {t} : attempt'[u] = attempt[u] /\ posts'[u] = posts[u],
           Len(posts'[t]) = Len(posts[t]) + posted,
           attempt'[t] = attempt[t] + posted - recorded,
           metrics'.success + metrics'.failure + metrics'.retry
             = metrics.success + metrics.failure + metrics.retry + recorded
    PROVE  MetricsAddUp'
  <1> DEFINE n == [u \in Starts |-> Len(posts[u])]
             m == [u \in Starts |-> Len(posts'[u])]
  <1>1. n \in [Starts -> Nat] /\ m \in [Starts -> Nat] /\ m[t] = n[t] + posted
        /\ \A u \in Starts \ {t} : m[u] = n[u]
    <2>1. \A u \in Starts : Len(posts[u]) \in Nat
      <3>1. \A u \in Starts : posts[u] \in Seq(1 .. MaxPayloads)
        BY DEF TypeOK
      <3>2. QED
        BY <3>1
    <2>2. \A u \in Starts : Len(posts'[u]) \in Nat
      <3>1. \A u \in Starts : posts'[u] \in Seq(1 .. MaxPayloads)
        BY DEF TypeOK
      <3>2. QED
        BY <3>1
    <2>3. QED
      BY <2>1, <2>2
  <1>2. attempt \in [Starts -> Nat] /\ attempt' \in [Starts -> Nat]
    BY DEF TypeOK
  <1>3. Cardinality(Numbered(n))
          = metrics.success + metrics.failure + metrics.retry + Cardinality(Numbered(attempt))
    BY DEF MetricsAddUp
  <1> HIDE DEF n, m
  <1>4. /\ Cardinality(Numbered(n)) \in Nat
        /\ Cardinality(Numbered(m)) = Cardinality(Numbered(n)) + posted
    <2>1. /\ Cardinality(Numbered(n)) \in Nat
          /\ Cardinality(Numbered(m)) = Cardinality(Numbered(n)) + m[t] - n[t]
      BY <1>1, NumberedChange
    <2>2. n[t] \in Nat
      BY <1>1
    <2>3. QED
      BY <1>1, <2>1, <2>2
  <1>5. /\ Cardinality(Numbered(attempt)) \in Nat
        /\ Cardinality(Numbered(attempt')) = Cardinality(Numbered(attempt)) + posted - recorded
    <2>1. /\ Cardinality(Numbered(attempt)) \in Nat
          /\ Cardinality(Numbered(attempt')) = Cardinality(Numbered(attempt)) + attempt'[t] - attempt[t]
      BY <1>2, NumberedChange
    <2>2. attempt[t] \in Nat
      BY <1>2
    <2>3. QED
      BY <2>1, <2>2
  <1>6. metrics.success + metrics.failure + metrics.retry \in Nat
    <2>1. metrics \in [success : Nat, failure : Nat, retry : Nat]
      BY DEF TypeOK
    <2>2. metrics.success \in Nat /\ metrics.failure \in Nat /\ metrics.retry \in Nat
      BY <2>1
    <2>3. QED
      BY <2>2
  <1>7. Cardinality(Numbered(m)) = metrics'.success + metrics'.failure + metrics'.retry
                                     + Cardinality(Numbered(attempt'))
    BY <1>3, <1>4, <1>5, <1>6
  <1>8. QED
    BY <1>7 DEF MetricsAddUp, Numbered, m

\* Post makes the next payload and its first post.
LEMMA PostStep ==
    ASSUME TypeOK, NEW t \in Starts, PostsHold(t), Post(t)
    PROVE  /\ made' \in [Starts -> 0 .. MaxPayloads] /\ attempt' \in [Starts -> Nat]
           /\ over' \in [Starts -> BOOLEAN] /\ posts' \in [Starts -> Seq(1 .. MaxPayloads)]
           /\ task' = [task EXCEPT ![t] = "posting"]
           /\ attempt'[t] = 1 /\ Len(posts'[t]) = Len(posts[t]) + 1
           /\ Orderly(posts'[t], made'[t], attempt'[t])
  <1>1. /\ made[t] \in Nat /\ made[t] < MaxPayloads /\ attempt[t] \in Nat
        /\ made[t] + 1 \in 1 .. MaxPayloads /\ made[t] + 1 \in 0 .. MaxPayloads
    BY ConstantsAssumption DEF TypeOK, Post
  <1>2. posts[t] \in Seq(1 .. MaxPayloads) /\ posts[t] \in Seq(Nat)
    <2>1. posts[t] \in Seq(1 .. MaxPayloads)
      BY DEF TypeOK
    <2>2. 1 .. MaxPayloads \subseteq Nat
      OBVIOUS
    <2>3. QED
      BY <2>1, <2>2, SeqMonotonic
  <1>3. made' \in [Starts -> 0 .. MaxPayloads] /\ made'[t] = made[t] + 1
    BY <1>1 DEF TypeOK, Post
  <1>4. attempt' \in [Starts -> Nat] /\ attempt'[t] = 1
    BY DEF TypeOK, Post
  <1>5. over' \in [Starts -> BOOLEAN]
    BY DEF TypeOK, Post
  <1>6. Append(posts[t], made[t] + 1) \in Seq(1 .. MaxPayloads)
    BY <1>1, <1>2
  <1>7. posts' \in [Starts -> Seq(1 .. MaxPayloads)] /\ posts'[t] = Append(posts[t], made[t] + 1)
    BY <1>6 DEF TypeOK, Post
  <1>8. Len(posts'[t]) = Len(posts[t]) + 1
    BY <1>1, <1>2, <1>7
  <1>9. Orderly(posts'[t], made'[t], attempt'[t])
    BY <1>1, <1>2, <1>3, <1>4, <1>7, FirstPost DEF PostsHold
  <1>10. QED
    BY <1>3, <1>4, <1>5, <1>7, <1>8, <1>9 DEF Post

\* Record counts every post of the payload that is settled.
LEMMA RecordStep ==
    ASSUME TypeOK, NEW t \in Starts, attempt[t] >= 1, NEW ok \in BOOLEAN, Record(t, ok)
    PROVE  /\ metrics' \in [success : Nat, failure : Nat, retry : Nat]
           /\ metrics'.success + metrics'.failure + metrics'.retry
                = metrics.success + metrics.failure + metrics.retry + attempt[t]
  <1>1. metrics \in [success : Nat, failure : Nat, retry : Nat] /\ attempt[t] \in Nat
    BY DEF TypeOK
  <1>2. metrics.success \in Nat /\ metrics.failure \in Nat /\ metrics.retry \in Nat
    BY <1>1
  <1>3. /\ metrics'.retry = metrics.retry + attempt[t] - 1
        /\ metrics'.success = metrics.success + (IF ok THEN 1 ELSE 0)
        /\ metrics'.failure = metrics.failure + (IF ok THEN 0 ELSE 1)
    BY <1>1 DEF Record
  <1>4. metrics' = [success |-> metrics'.success, failure |-> metrics'.failure,
                    retry |-> metrics'.retry]
    BY <1>1 DEF Record
  <1>5. metrics'.success \in Nat /\ metrics'.failure \in Nat /\ metrics'.retry \in Nat
    BY <1>1, <1>2, <1>3
  <1>6. metrics' \in [success : Nat, failure : Nat, retry : Nat]
    BY <1>4, <1>5
  <1>7. CASE ok
    <2>1. metrics'.success = metrics.success + 1 /\ metrics'.failure = metrics.failure + 0
      BY <1>3, <1>7
    <2>2. QED
      BY <1>1, <1>2, <1>3, <1>6, <2>1
  <1>8. CASE ~ok
    <2>1. metrics'.success = metrics.success + 0 /\ metrics'.failure = metrics.failure + 1
      BY <1>3, <1>8
    <2>2. QED
      BY <1>1, <1>2, <1>3, <1>6, <2>1
  <1>9. QED
    BY <1>6, <1>7, <1>8

\* What the step of task t has to keep.
TaskKeeps(t) == TypeOK' /\ TaskHolds(t)' /\ PostsHold(t)' /\ MetricsAddUp'

\* The payload after a sleep.
LEMMA NextPayloadKeeps ==
    ASSUME SimulatorInv, NEW t \in Starts, Run(t), NextPayload(t) PROVE TaskKeeps(t)
  <1>1. TypeOK /\ TaskHolds(t) /\ PostsHold(t) /\ MetricsAddUp
    BY DEF SimulatorInv
  <1>2. /\ task[t] \in {"ready", "sleeping"} /\ t \notin cancelled /\ Post(t)
        /\ UNCHANGED <<registry, cancelled, metrics>>
    BY DEF NextPayload
  <1>3. /\ made' \in [Starts -> 0 .. MaxPayloads] /\ attempt' \in [Starts -> Nat]
        /\ over' \in [Starts -> BOOLEAN] /\ posts' \in [Starts -> Seq(1 .. MaxPayloads)]
        /\ task' = [task EXCEPT ![t] = "posting"]
        /\ attempt'[t] = 1 /\ Len(posts'[t]) = Len(posts[t]) + 1
        /\ Orderly(posts'[t], made'[t], attempt'[t])
    BY <1>1, <1>2, PostStep
  <1>4. TypeOK'
    BY <1>1, <1>2, <1>3 DEF TypeOK, registry, Live, Suspended
  <1>5. TaskHolds(t)'
    BY <1>1, <1>2, <1>3, LimitType DEF TaskHolds, registry, TypeOK
  <1>6. attempt[t] = 0
    BY <1>1, <1>2 DEF TaskHolds
  <1>7. \A u \in Starts \ {t} : attempt'[u] = attempt[u] /\ posts'[u] = posts[u]
    BY <1>1, RunStep
  <1>8. metrics'.success + metrics'.failure + metrics'.retry
          = metrics.success + metrics.failure + metrics.retry + 0
    <2>1. metrics \in [success : Nat, failure : Nat, retry : Nat]
      BY <1>1 DEF TypeOK
    <2>2. metrics.success \in Nat /\ metrics.failure \in Nat /\ metrics.retry \in Nat
      BY <2>1
    <2>3. QED
      BY <1>2, <2>2
  <1>9. MetricsAddUp'
    <2>1. attempt'[t] = attempt[t] + 1 - 0
      BY <1>3, <1>6
    <2>2. QED
      BY <1>1, <1>3, <1>4, <1>7, <1>8, <2>1, CountersFollow
  <1>10. QED
    BY <1>3, <1>4, <1>5, <1>9 DEF TaskKeeps, PostsHold

\* A payload is settled: the round goes on, or the task sleeps or closes.
LEMMA SettleKeeps ==
    ASSUME SimulatorInv, NEW t \in Starts, Run(t), Posting(t), NEW ok \in BOOLEAN, Settle(t, ok)
    PROVE  TaskKeeps(t)
  <1>1. TypeOK /\ TaskHolds(t) /\ PostsHold(t) /\ MetricsAddUp
    BY DEF SimulatorInv
  <1>2. /\ task[t] = "posting" /\ t \notin cancelled /\ attempt[t] >= 1 /\ attempt[t] \in Nat
        /\ UNCHANGED <<registry, cancelled>> /\ start[t]
    BY <1>1 DEF Posting, Settle, TaskHolds, TypeOK
  <1>3. /\ metrics' \in [success : Nat, failure : Nat, retry : Nat]
        /\ metrics'.success + metrics'.failure + metrics'.retry
             = metrics.success + metrics.failure + metrics.retry + attempt[t]
    <2>1. Record(t, ok)
      BY DEF Settle
    <2>2. QED
      BY <1>1, <1>2, <2>1, RecordStep
  <1>4. \A u \in Starts \ {t} : attempt'[u] = attempt[u] /\ posts'[u] = posts[u]
    BY <1>1, RunStep
  <1>5. CASE kind = "location" /\ made[t] % Ships # 0
    <2>1. Post(t)
      BY <1>5 DEF Settle
    <2>2. /\ made' \in [Starts -> 0 .. MaxPayloads] /\ attempt' \in [Starts -> Nat]
          /\ over' \in [Starts -> BOOLEAN] /\ posts' \in [Starts -> Seq(1 .. MaxPayloads)]
          /\ task' = [task EXCEPT ![t] = "posting"]
          /\ attempt'[t] = 1 /\ Len(posts'[t]) = Len(posts[t]) + 1
          /\ Orderly(posts'[t], made'[t], attempt'[t])
      BY <1>1, <2>1, PostStep
    <2>3. TypeOK'
      BY <1>1, <1>2, <1>3, <2>2 DEF TypeOK, registry, Live, Suspended
    <2>4. TaskHolds(t)'
      BY <1>1, <1>2, <2>2, LimitType DEF TaskHolds, registry, TypeOK
    <2>5. attempt'[t] = attempt[t] + 1 - attempt[t]
      BY <1>2, <2>2
    <2>6. MetricsAddUp'
      BY <1>1, <1>2, <1>3, <1>4, <2>2, <2>3, <2>5, CountersFollow
    <2>7. QED
      BY <2>2, <2>3, <2>4, <2>6 DEF TaskKeeps, PostsHold
  <1>6. CASE ~(kind = "location" /\ made[t] % Ships # 0)
    <2>1. /\ attempt' = [attempt EXCEPT ![t] = 0] /\ UNCHANGED <<made, over, posts>>
          /\ task' = [task EXCEPT ![t] = IF over[t] THEN "closing" ELSE "sleeping"]
      BY <1>6 DEF Settle
    <2>2. TypeOK'
      BY <1>1, <1>2, <1>3, <2>1 DEF TypeOK, registry, Live, Suspended
    <2>3. attempt'[t] = 0 /\ attempt'[t] = attempt[t] + 0 - attempt[t]
      BY <1>1, <1>2, <2>1 DEF TypeOK
    <2>4. TaskHolds(t)'
      BY <1>1, <1>2, <2>1, <2>3, LimitType DEF TaskHolds, registry, TypeOK
    <2>5. Len(posts'[t]) = Len(posts[t]) + 0
      <3>1. posts[t] \in Seq(1 .. MaxPayloads)
        BY <1>1 DEF TypeOK
      <3>2. QED
        BY <2>1, <3>1
    <2>6. MetricsAddUp'
      BY <1>1, <1>2, <1>3, <1>4, <2>2, <2>3, <2>5, CountersFollow
    <2>7. PostsHold(t)'
      <3>1. Orderly(posts[t], made[t], 0)
        BY <1>1, Settled DEF PostsHold
      <3>2. QED
        BY <2>1, <2>3, <3>1 DEF PostsHold
    <2>8. QED
      BY <2>2, <2>4, <2>6, <2>7 DEF TaskKeeps
  <1>7. QED
    BY <1>5, <1>6

\* A pause, a cancellation and the end leave the payloads alone.
LEMMA RestKeeps ==
    ASSUME SimulatorInv, NEW t \in Starts, Run(t), UNCHANGED <<registry, delivery>>,
           cancelled' = cancelled \ {t}, NEW q \in {"backoff", "closing", "done"},
           task' = [task EXCEPT ![t] = q], q = "backoff" => attempt[t] \in 1 .. Limit - 1,
           start[t]
    PROVE  TaskKeeps(t)
  <1>1. TypeOK /\ TaskHolds(t) /\ PostsHold(t) /\ MetricsAddUp
    BY DEF SimulatorInv
  <1>2. TypeOK'
    BY <1>1 DEF TypeOK, registry, delivery, Live, Suspended
  <1>3. attempt[t] \in Nat
    BY <1>1 DEF TypeOK
  <1>4. TaskHolds(t)'
    BY <1>1, <1>3, LimitType DEF TaskHolds, registry, delivery, TypeOK
  <1>5. PostsHold(t)' /\ MetricsAddUp'
    BY <1>1 DEF PostsHold, MetricsAddUp, delivery
  <1>6. QED
    BY <1>2, <1>4, <1>5 DEF TaskKeeps

\* The payload is posted again.
LEMMA RetryKeeps ==
    ASSUME SimulatorInv, NEW t \in Starts, Run(t), Retry(t) PROVE TaskKeeps(t)
  <1>1. TypeOK /\ TaskHolds(t) /\ PostsHold(t) /\ MetricsAddUp
    BY DEF SimulatorInv
  <1>2. /\ task[t] = "backoff" /\ t \notin cancelled /\ attempt' = [attempt EXCEPT ![t] = @ + 1]
        /\ posts' = [posts EXCEPT ![t] = Append(@, made[t])]
        /\ task' = [task EXCEPT ![t] = "posting"]
        /\ UNCHANGED <<registry, cancelled, made, over, metrics>>
    BY DEF Retry
  <1>3. attempt[t] \in Nat /\ attempt[t] >= 1 /\ attempt[t] < Limit
    BY <1>1, <1>2 DEF TaskHolds, TypeOK
  <1>4. made[t] \in 1 .. MaxPayloads
    <2>1. made[t] >= 1
      BY <1>1, <1>3 DEF PostsHold, Orderly
    <2>2. QED
      BY <1>1, <2>1 DEF TypeOK
  <1>5. posts[t] \in Seq(1 .. MaxPayloads) /\ posts[t] \in Seq(Nat)
    <2>1. posts[t] \in Seq(1 .. MaxPayloads)
      BY <1>1 DEF TypeOK
    <2>2. 1 .. MaxPayloads \subseteq Nat
      OBVIOUS
    <2>3. QED
      BY <2>1, <2>2, SeqMonotonic
  <1>6. Append(posts[t], made[t]) \in Seq(1 .. MaxPayloads)
    BY <1>4, <1>5
  <1>7. posts' \in [Starts -> Seq(1 .. MaxPayloads)] /\ posts'[t] = Append(posts[t], made[t])
    BY <1>1, <1>2, <1>6 DEF TypeOK
  <1>8. attempt' \in [Starts -> Nat] /\ attempt'[t] = attempt[t] + 1
    BY <1>1, <1>2, <1>3 DEF TypeOK
  <1>9. TypeOK'
    BY <1>1, <1>2, <1>7, <1>8 DEF TypeOK, registry, Live, Suspended
  <1>10. TaskHolds(t)'
    BY <1>1, <1>2, <1>3, <1>8, LimitType DEF TaskHolds, registry, TypeOK
  <1>11. PostsHold(t)'
    <2>1. made[t] \in Nat
      BY <1>4
    <2>2. Orderly(Append(posts[t], made[t]), made[t], attempt[t] + 1)
      BY <1>1, <1>3, <1>5, <2>1, PostAgain DEF PostsHold
    <2>3. QED
      BY <1>2, <1>7, <1>8, <2>2 DEF PostsHold
  <1>12. Len(posts'[t]) = Len(posts[t]) + 1 /\ attempt'[t] = attempt[t] + 1 - 0
    BY <1>3, <1>4, <1>5, <1>7, <1>8
  <1>13. metrics'.success + metrics'.failure + metrics'.retry
           = metrics.success + metrics.failure + metrics.retry + 0
    <2>1. metrics \in [success : Nat, failure : Nat, retry : Nat]
      BY <1>1 DEF TypeOK
    <2>2. metrics.success \in Nat /\ metrics.failure \in Nat /\ metrics.retry \in Nat
      BY <2>1
    <2>3. QED
      BY <1>2, <2>2
  <1>14. \A u \in Starts \ {t} : attempt'[u] = attempt[u] /\ posts'[u] = posts[u]
    BY <1>1, RunStep
  <1>15. MetricsAddUp'
    BY <1>1, <1>9, <1>12, <1>13, <1>14, CountersFollow
  <1>16. QED
    BY <1>9, <1>10, <1>11, <1>15 DEF TaskKeeps

\* Every step of a task.
LEMMA RunKeeps == ASSUME SimulatorInv, NEW t \in Starts, Run(t) PROVE TaskKeeps(t)
  <1>1. TypeOK /\ TaskHolds(t)
    BY DEF SimulatorInv
  <1>2. task[t] # "none" => start[t]
    BY <1>1 DEF TaskHolds, TypeOK
  <1>3. t \notin cancelled => cancelled = cancelled \ {t}
    OBVIOUS
  <1>4. CASE NextPayload(t)
    BY <1>4, NextPayloadKeeps
  <1>5. CASE Delivered(t)
    BY <1>5, SettleKeeps DEF Delivered
  <1>6. CASE Refused(t)
    BY <1>6, SettleKeeps DEF Refused
  <1>7. CASE GiveUp(t)
    BY <1>7, SettleKeeps DEF GiveUp
  <1>8. CASE BackOff(t)
    <2>1. /\ task[t] = "posting" /\ t \notin cancelled /\ ~LastAttempt(t) /\ cancelled' = cancelled
          /\ task' = [task EXCEPT ![t] = "backoff"] /\ UNCHANGED <<registry, delivery>>
      BY <1>8 DEF BackOff, Posting
    <2>2. attempt[t] \in 1 .. Limit - 1
      BY <1>1, <2>1, LimitType DEF LastAttempt, Limit, TaskHolds, TypeOK
    <2>3. start[t]
      BY <1>2, <2>1
    <2>4. QED
      BY <1>3, <2>1, <2>2, <2>3, RestKeeps
  <1>9. CASE Retry(t)
    BY <1>9, RetryKeeps
  <1>10. CASE TakeCancel(t)
    <2> DEFINE q == IF task[t] \in {"ready", "closing"} THEN "done" ELSE "closing"
    <2>1. /\ t \in cancelled /\ cancelled' = cancelled \ {t} /\ UNCHANGED <<registry, delivery>>
          /\ task' = [task EXCEPT ![t] = q] /\ q \in {"backoff", "closing", "done"}
          /\ q # "backoff"
      BY <1>10 DEF TakeCancel
    <2>2. start[t]
      BY <1>1, <1>2, <2>1 DEF TypeOK, Live, Suspended
    <2> HIDE DEF q
    <2>3. QED
      BY <2>1, <2>2, RestKeeps
  <1>11. CASE Close(t)
    <2>1. /\ task[t] = "closing" /\ t \notin cancelled /\ cancelled' = cancelled
          /\ task' = [task EXCEPT ![t] = "done"] /\ UNCHANGED <<registry, delivery>>
      BY <1>11 DEF Close
    <2>2. start[t]
      BY <1>2, <2>1
    <2>3. QED
      BY <1>3, <2>1, <2>2, RestKeeps
  <1>12. QED
    BY <1>4, <1>5, <1>6, <1>7, <1>8, <1>9, <1>10, <1>11 DEF Run

-----------------------------------------------------------------------------
(* The invariant.                                                          *)

\* A handler keeps the types, and posts nothing.
LEMMA HandlerKeeps ==
    ASSUME SimulatorInv, \/ \E s \in Starts : Start(s)
                         \/ \E p \in Stops : StopCall(p) \/ StopResume(p)
    PROVE  TypeOK' /\ MetricsAddUp' /\ \A t \in Starts : TaskHolds(t)' /\ PostsHold(t)'
  <1>1. TypeOK /\ MetricsAddUp /\ \A t \in Starts : TaskHolds(t) /\ PostsHold(t)
    BY DEF SimulatorInv
  <1>2. UNCHANGED delivery
    BY DEF Start, StopCall, StopResume
  <1>3. MetricsAddUp' /\ \A t \in Starts : PostsHold(t)'
    BY <1>1, <1>2 DEF MetricsAddUp, PostsHold, delivery
  <1>4. ASSUME NEW s \in Starts, Start(s) PROVE TypeOK' /\ \A t \in Starts : TaskHolds(t)'
    <2>1. task[s] = "none"
      BY <1>1, <1>4 DEF Start, TaskHolds
    <2>2. TypeOK'
      BY <1>1, <1>4, <2>1 DEF Start, TypeOK, delivery, Live, Suspended
    <2>3. ASSUME NEW t \in Starts PROVE TaskHolds(t)'
      BY <1>1, <1>2, <1>4, <2>1 DEF Start, TypeOK, delivery, TaskHolds
    <2>4. QED
      BY <2>2, <2>3
  <1>5. ASSUME NEW p \in Stops, StopCall(p) \/ StopResume(p)
        PROVE  TypeOK' /\ \A t \in Starts : TaskHolds(t)'
    <2>1. CASE StopCall(p)
      <3>1. CASE Running
        <4>1. /\ slot \in Starts /\ Live(slot) /\ cancelled' = cancelled \cup {slot}
              /\ stop' = [stop EXCEPT ![p] = "waiting"] /\ awaits' = [awaits EXCEPT ![p] = slot]
              /\ quiet' = quiet \cup {p} /\ UNCHANGED <<slot, kind, start, raced, task, delivery>>
          BY <1>1, <2>1, <3>1 DEF StopCall, Running, TypeOK
        <4>2. cancelled' \subseteq {t \in Starts : Live(t)'}
          BY <1>1, <4>1 DEF TypeOK, Live
        <4>3. TypeOK'
          BY <1>1, <4>1, <4>2 DEF TypeOK, delivery
        <4>4. QED
          BY <1>1, <4>1, <4>3 DEF TaskHolds, delivery
      <3>2. CASE ~Running
        BY <1>1, <2>1, <3>2 DEF StopCall, TypeOK, delivery, TaskHolds, Live
      <3>3. QED
        BY <3>1, <3>2
    <2>2. CASE StopResume(p)
      BY <1>1, <2>2 DEF StopResume, TypeOK, delivery, TaskHolds, Live
    <2>3. QED
      BY <1>5, <2>1, <2>2
  <1>6. QED
    BY <1>3, <1>4, <1>5

\* Nothing was posted at first.
LEMMA SimulatorInit == Init => SimulatorInv
  <1> SUFFICES ASSUME Init PROVE SimulatorInv
    OBVIOUS
  <1>1. TypeOK
    <2>1. posts \in [Starts -> Seq(1 .. MaxPayloads)]
      BY EmptySeq DEF Init
    <2>2. made \in [Starts -> 0 .. MaxPayloads]
      BY ConstantsAssumption DEF Init
    <2>3. QED
      BY <2>1, <2>2 DEF Init, TypeOK
  <1>2. RegistryHolds
    BY DEF Init, RegistryHolds, RegistryExact, Live, Suspended
  <1>3. \A t \in Starts : TaskHolds(t)
    BY LimitType DEF Init, TaskHolds
  <1>4. \A t \in Starts : PostsHold(t)
    BY DEF Init, PostsHold, Orderly
  <1>5. MetricsAddUp
    <2>1. Numbered([t \in Starts |-> Len(posts[t])]) = {} /\ Numbered(attempt) = {}
      BY DEF Init, Numbered
    <2>2. Cardinality(Numbered([t \in Starts |-> Len(posts[t])])) = 0
          /\ Cardinality(Numbered(attempt)) = 0
      BY <2>1, FS_EmptySet, Zenon
    <2>3. metrics.success + metrics.failure + metrics.retry = 0
      BY DEF Init
    <2>4. QED
      BY <2>2, <2>3 DEF MetricsAddUp
  <1>6. QED
    BY <1>1, <1>2, <1>3, <1>4, <1>5 DEF SimulatorInv

\* Every step keeps the invariant.
LEMMA SimulatorNext == SimulatorInv /\ [Next]_vars => SimulatorInv'
  <1> SUFFICES ASSUME SimulatorInv, [Next]_vars PROVE SimulatorInv'
    OBVIOUS
  <1>1. RegistryHolds'
    BY RegistryStep DEF SimulatorInv
  <1>2. ASSUME NEW t \in Starts, Run(t)
        PROVE  TypeOK' /\ MetricsAddUp' /\ \A u \in Starts : TaskHolds(u)' /\ PostsHold(u)'
    <2>1. TaskKeeps(t)
      BY <1>2, RunKeeps
    <2>2. ASSUME NEW u \in Starts \ {t} PROVE TaskHolds(u)' /\ PostsHold(u)'
      <3>1. /\ task'[u] = task[u] /\ made'[u] = made[u] /\ attempt'[u] = attempt[u]
            /\ posts'[u] = posts[u] /\ start' = start
        BY <1>2, RunStep DEF SimulatorInv, registry
      <3>2. TaskHolds(u) /\ PostsHold(u)
        BY DEF SimulatorInv
      <3>3. QED
        BY <3>1, <3>2 DEF TaskHolds, PostsHold
    <2>3. QED
      BY <2>1, <2>2 DEF TaskKeeps
  <1>3. CASE UNCHANGED vars
    <2>1. TypeOK'
      BY <1>3 DEF SimulatorInv, vars, TypeOK, Live
    <2>2. MetricsAddUp'
      BY <1>3 DEF SimulatorInv, vars, MetricsAddUp
    <2>3. \A u \in Starts : TaskHolds(u)' /\ PostsHold(u)'
      BY <1>3 DEF SimulatorInv, vars, TaskHolds, PostsHold
    <2>4. QED
      BY <1>1, <2>1, <2>2, <2>3 DEF SimulatorInv
  <1>4. CASE Next
    <2>1. TypeOK' /\ MetricsAddUp' /\ \A u \in Starts : TaskHolds(u)' /\ PostsHold(u)'
      BY <1>2, <1>4, HandlerKeeps DEF Next
    <2>2. QED
      BY <1>1, <2>1 DEF SimulatorInv
  <1>5. QED
    BY <1>3, <1>4

\* The registry of simulators: with no start while a stop waits there is one task at
\* most, the one the registry knows, and a stop that was answered left none
\* (start_simulation, stop_simulation and the two of the battle simulator).
THEOREM SimulatorRegistry == Spec => [](TypeOK /\ RegistryExact)
  <1>1. SimulatorInv => TypeOK /\ RegistryExact
    BY DEF SimulatorInv, RegistryHolds
  <1>2. QED
    BY <1>1, SimulatorInit, SimulatorNext, PTL DEF Spec

\* The delivery of payloads: every task posts its payloads in order, none more often
\* than the limit, and the counters are exactly the posts that were made, however the
\* tasks run, retry and are cancelled (post_with_retry, DeliveryMetrics.record).
THEOREM SimulatorDelivery == Spec => [](PostsOrderly /\ MetricsAddUp)
  <1>1. SimulatorInv => PostsOrderly /\ MetricsAddUp
    BY DEF SimulatorInv, PostsHold, Orderly, PostsOrderly, PostsOf, Limit
  <1>2. QED
    BY <1>1, SimulatorInit, SimulatorNext, PTL DEF Spec
=============================================================================
