--------------------------- MODULE AskRuntimeProofs ---------------------------
(***************************************************************************)
(* What holds of AskRuntime for any asks, limits and number of launches.   *)
(* First of its gate alone, for every finite set of asks and every set of  *)
(* limits: no permit is lost or made up, and the gate implements           *)
(* BoundedAdmission.  The invariant of the whole has three parts that do   *)
(* not lean on each other: the admissions, the browser with its profile    *)
(* lock, and the futures of the poller.  Last of AskJobs, the jobs that    *)
(* call the runtime.                                                       *)
(***************************************************************************)
EXTENDS AskRuntime, AskJobs, FiniteSetTheorems, SequenceTheorems, TLAPS

(* The gate.  What makes its invariant inductive is that an ask waits in   *)
(* one place only.                                                         *)

Elements(queue) == {queue[i] : i \in DOMAIN queue}
OnePlaceEach(queue) == \A i, j \in DOMAIN queue : queue[i] = queue[j] => i = j
Queues == {queue \in Seq(Asks) : OnePlaceEach(queue)}

(* What the smaller of two numbers is. *)
LEMMA SmallerIs ==
  ASSUME NEW m \in Nat, NEW n \in Nat
  PROVE  /\ Smaller(m, n) \in Nat
         /\ Smaller(m, n) <= m /\ Smaller(m, n) <= n
         /\ Smaller(m, n) = m \/ Smaller(m, n) = n
BY DEF Smaller

(* Taking an ask out of a queue takes out its one place. *)
LEMMA WithoutOne ==
  ASSUME NEW queue \in Queues, NEW a \in Elements(queue)
  PROVE  /\ Without(a, queue) \in Queues
         /\ Elements(Without(a, queue)) = Elements(queue) \ {a}
<1> DEFINE i == CHOOSE j \in DOMAIN queue : queue[j] = a
           n == Len(queue)
           rest == Without(a, queue)
<1>1. i \in 1..n /\ queue[i] = a /\ n \in Nat /\ queue \in Seq(Asks)
  BY DEF Elements, Queues
<1> DEFINE front == SubSeq(queue, 1, i - 1)
           back == SubSeq(queue, i + 1, n)
<1>2. rest = front \o back
  BY DEF Without
<1> HIDE DEF i, rest
<1>3. /\ front \in Seq(Asks) /\ Len(front) = i - 1
      /\ \A j \in 1..(i - 1) : front[j] = queue[j]
  BY <1>1
<1>4. /\ back \in Seq(Asks) /\ Len(back) = n - i
      /\ \A j \in 1..(n - i) : back[j] = queue[i + j]
  BY <1>1
<1> HIDE DEF front, back
<1>5. /\ rest \in Seq(Asks) /\ Len(rest) = n - 1
      /\ DOMAIN rest = 1..(n - 1)
      /\ \A j \in 1..(n - 1) : rest[j] = IF j < i THEN queue[j] ELSE queue[j + 1]
  <2>1. /\ rest \in Seq(Asks) /\ Len(rest) = n - 1
        /\ \A j \in 1..(n - 1) : rest[j] = IF j <= i - 1 THEN front[j] ELSE back[j - (i - 1)]
    <3>1. /\ front \o back \in Seq(Asks)
          /\ Len(front \o back) = Len(front) + Len(back)
          /\ \A j \in 1..(Len(front) + Len(back)) :
               (front \o back)[j] = IF j <= Len(front) THEN front[j] ELSE back[j - Len(front)]
      BY <1>3, <1>4, ConcatProperties
    <3>2. Len(front) + Len(back) = n - 1
      BY <1>1, <1>3, <1>4
    <3>3. QED BY <1>2, <1>3, <3>1, <3>2
  <2>2. ASSUME NEW j \in 1..(n - 1)
        PROVE  rest[j] = IF j < i THEN queue[j] ELSE queue[j + 1]
    <3>1. CASE j < i
      BY <1>1, <1>3, <2>1, <3>1
    <3>2. CASE j >= i
      <4>1. j - (i - 1) \in 1..(n - i) /\ i + (j - (i - 1)) = j + 1
        BY <1>1, <3>2
      <4>a. ~(j <= i - 1)
        BY <1>1, <3>2
      <4>2. rest[j] = back[j - (i - 1)]
        BY <2>1, <4>a
      <4>3. QED BY <1>1, <1>4, <3>2, <4>1, <4>2
    <3>3. QED BY <1>1, <3>1, <3>2
  <2>3. QED BY <2>1, <2>2
<1>6. DOMAIN queue = 1..n /\ OnePlaceEach(queue)
  BY DEF Queues
<1> DEFINE was(j) == IF j < i THEN j ELSE j + 1
<1>w. \A j \in 1..(n - 1) : was(j) \in 1..n /\ was(j) # i /\ rest[j] = queue[was(j)]
  BY <1>1, <1>5
<1>7. OnePlaceEach(rest)
  <2>1. ASSUME NEW j \in 1..(n - 1), NEW k \in 1..(n - 1), rest[j] = rest[k]
        PROVE  j = k
    <3>1. was(j) = was(k)
      <4> HIDE DEF was
      <4>1. /\ queue[was(j)] = queue[was(k)] /\ was(j) \in DOMAIN queue
            /\ was(k) \in DOMAIN queue
        BY <1>6, <1>w, <2>1
      <4>2. QED BY <1>6, <4>1 DEF OnePlaceEach
    <3>2. QED BY <1>1, <3>1
  <2>2. QED BY <1>5, <2>1 DEF OnePlaceEach
<1>8. Elements(rest) \subseteq Elements(queue) \ {a}
  <2>1. ASSUME NEW j \in 1..(n - 1)
        PROVE  rest[j] \in Elements(queue) \ {a}
    <3> HIDE DEF was
    <3>1. was(j) \in DOMAIN queue /\ was(j) # i /\ rest[j] = queue[was(j)]
      BY <1>6, <1>w
    <3>2. queue[was(j)] # queue[i]
      BY <1>1, <1>6, <3>1 DEF OnePlaceEach
    <3>3. QED BY <1>1, <3>1, <3>2 DEF Elements
  <2>2. QED BY <1>5, <2>1 DEF Elements
<1>9. ASSUME NEW b \in Elements(queue) \ {a}
      PROVE  b \in Elements(rest)
  <2>1. PICK j \in 1..n : queue[j] = b /\ j # i
    BY <1>1, <1>6 DEF Elements
  <2>2. CASE j < i
    BY <1>1, <1>5, <2>1, <2>2 DEF Elements
  <2>3. CASE j > i
    <3>1. j - 1 \in 1..(n - 1) /\ rest[j - 1] = b
      BY <1>1, <1>5, <2>1, <2>3
    <3>2. QED BY <1>5, <3>1 DEF Elements
  <2>4. QED BY <1>1, <2>1, <2>2, <2>3
<1>10. QED BY <1>5, <1>7, <1>8, <1>9 DEF Queues, rest

(* An ask that joins a queue it is not in. *)
LEMMA Joined ==
  ASSUME NEW queue \in Queues, NEW a \in Asks \ Elements(queue)
  PROVE  /\ Append(queue, a) \in Queues
         /\ Elements(Append(queue, a)) = Elements(queue) \union {a}
<1> DEFINE longer == Append(queue, a)
           n == Len(queue)
<1>1. /\ queue \in Seq(Asks) /\ n \in Nat /\ DOMAIN queue = 1..n
      /\ OnePlaceEach(queue)
  BY DEF Queues
<1>2. /\ longer \in Seq(Asks) /\ DOMAIN longer = 1..(n + 1)
      /\ \A j \in 1..n : longer[j] = queue[j]
      /\ longer[n + 1] = a
  BY <1>1
<1> HIDE DEF longer
<1>3. OnePlaceEach(longer)
  BY <1>1, <1>2 DEF OnePlaceEach, Elements
<1>4. Elements(longer) \subseteq Elements(queue) \union {a}
  BY <1>1, <1>2 DEF Elements
<1>5. Elements(queue) \subseteq Elements(longer)
  BY <1>1, <1>2 DEF Elements
<1>6. a \in Elements(longer)
  BY <1>1, <1>2 DEF Elements
<1>7. QED BY <1>2, <1>3, <1>4, <1>5, <1>6 DEF Queues, longer

(* The asks in a queue are asks, finitely many. *)
LEMMA QueueFinite ==
  ASSUME NEW queue \in Queues
  PROVE  /\ Elements(queue) \subseteq Asks
         /\ IsFiniteSet(Elements(queue))
<1>1. Elements(queue) \subseteq Asks
  BY DEF Elements, Queues
<1>2. QED BY <1>1, GateAssumption, FS_Subset

(* Each permit that is handed out wakes one sleeper, and there are no more of
   them than free permits. *)
LEMMA WakesSleepers ==
  ASSUME NEW free \in Nat, NEW queue \in Queues, NEW awake \in SUBSET Elements(queue),
         NEW chosen \in Woken(free, queue, awake)
  PROVE  /\ chosen \subseteq Elements(queue) \ awake
         /\ Cardinality(chosen) \in Nat
         /\ Cardinality(chosen) <= free
         /\ Cardinality(awake \union chosen) = Cardinality(awake) + Cardinality(chosen)
<1> DEFINE asleep == Elements(queue) \ awake
<1>1. /\ chosen \subseteq asleep
      /\ Cardinality(chosen) = Smaller(free, Cardinality(asleep))
  BY DEF Woken, Elements
<1>2. /\ IsFiniteSet(asleep) /\ IsFiniteSet(awake)
  BY QueueFinite, FS_Subset
<1>3. Cardinality(asleep) \in Nat
  BY <1>2, FS_CardinalityType
<1>4. /\ Cardinality(chosen) \in Nat /\ Cardinality(chosen) <= free
  BY <1>1, <1>3, SmallerIs
<1>5. IsFiniteSet(chosen) /\ chosen \cap awake = {}
  BY <1>1, <1>2, FS_Subset
<1>6. Cardinality(awake \union chosen) =
        Cardinality(awake) + Cardinality(chosen) - Cardinality(awake \cap chosen)
  BY <1>2, <1>5, FS_Union
<1>7. Cardinality(awake \cap chosen) = 0
  <2>1. awake \cap chosen = {}
    BY <1>5
  <2>2. QED BY <2>1, FS_EmptySet
<1>8. Cardinality(awake) \in Nat
  BY <1>2, FS_CardinalityType
<1>9. QED BY <1>1, <1>4, <1>6, <1>7, <1>8

-------------------------------------------------------------------------------
(* An ask has one place in the queue: without that, admitting it would leave
   it among those that wait. *)
GateIInv == PermitsConserved /\ OnePlaceEach(waiters)

(* What the invariant says of the sets it counts. *)
LEMMA Counted ==
  ASSUME GateIInv
  PROVE  /\ waiters \in Queues /\ Waiting = Elements(waiters)
         /\ IsFiniteSet(woken) /\ Cardinality(woken) \in Nat
         /\ IsFiniteSet(admitted) /\ Cardinality(admitted) \in Nat
         /\ limit \in Nat /\ permits \in Nat /\ debt \in Nat
<1>1. /\ waiters \in Queues /\ Waiting = Elements(waiters)
      /\ woken \subseteq Elements(waiters) /\ admitted \subseteq Asks
  BY DEF GateIInv, PermitsConserved, GateTypeOK, Queues, Waiting, Elements
<1>2. IsFiniteSet(woken) /\ IsFiniteSet(admitted)
  BY <1>1, QueueFinite, GateAssumption, FS_Subset
<1>3. limit \in Nat /\ permits \in Nat /\ debt \in Nat
  BY GateAssumption DEF GateIInv, PermitsConserved, GateTypeOK
<1>4. QED BY <1>1, <1>2, <1>3, FS_CardinalityType

(* The abstract specification counts as the gate does. *)
LEMMA SameCount == \A S : Limit!Cardinality(S) = Cardinality(S)
BY DEF Limit!Cardinality, Cardinality

(* The loop of acquire: an ask that takes a permit finds room below the limit,
   since it takes one only when the debt is paid. *)
LEMMA Taken ==
  ASSUME NEW a \in Asks, NEW free \in Nat, NEW owed \in Nat, NEW queue \in Queues,
         limit \in Limits, limit' = limit,
         a \notin Elements(queue), a \notin admitted,
         admitted \subseteq Asks \ Elements(queue), IsFiniteSet(admitted),
         woken' \subseteq Elements(queue),
         free + Cardinality(woken') + Cardinality(admitted) = limit + owed,
         Take(a, free, owed, queue)
  PROVE  /\ GateIInv'
         /\ Limit!Admit(a) \/ UNCHANGED <<limit, admitted>>
<1> DEFINE here == IF queue = <<>> THEN free ELSE 0
           paid == Smaller(here, owed)
<1>0. here \in Nat /\ here <= free /\ (here > 0 => here = free)
  OBVIOUS
<1> HIDE DEF here
<1>1. /\ paid \in Nat /\ paid <= here /\ paid <= owed
      /\ paid = here \/ paid = owed
  BY <1>0, SmallerIs
<1> HIDE DEF paid
<1>2. /\ limit \in Nat /\ Cardinality(admitted) \in Nat
      /\ IsFiniteSet(woken') /\ Cardinality(woken') \in Nat
  BY GateAssumption, QueueFinite, FS_Subset, FS_CardinalityType
<1>3. debt' = owed - paid
  BY DEF Take, here, paid
<1>4. CASE here > paid /\ admitted' = admitted \union {a}
           /\ permits' = free - paid - 1 /\ waiters' = queue
  <2>1. paid = owed /\ debt' = 0
    BY <1>1, <1>3, <1>4
  <2>2. Cardinality(admitted') = Cardinality(admitted) + 1
    BY <1>4, FS_AddElement
  <2>3. permits' \in Nat /\ permits' + Cardinality(woken') + Cardinality(admitted') = limit'
    BY <1>0, <1>1, <1>2, <1>4, <2>1, <2>2
  <2>4. Waiting' = Elements(queue)
    BY <1>4 DEF Waiting, Elements
  <2>5. GateTypeOK'
    BY <1>4, <2>1, <2>3, <2>4 DEF GateTypeOK, Queues
  <2>6. GateIInv'
    BY <1>2, <1>4, <2>1, <2>3, <2>5 DEF GateIInv, PermitsConserved, Queues
  <2>7. Cardinality(admitted) < limit
    BY <1>0, <1>1, <1>2, <1>4, <2>1
  <2>8. QED BY <1>4, <2>6, <2>7, SameCount DEF Limit!Admit
<1>5. CASE here = paid /\ waiters' = Append(queue, a)
           /\ permits' = free - paid /\ UNCHANGED admitted
  <2>1. /\ waiters' \in Queues
        /\ Waiting' = Elements(queue) \union {a}
    <3>1. Waiting' = Elements(waiters')
      BY DEF Waiting, Elements
    <3>2. QED BY <1>5, <3>1, Joined
  <2>2. permits' \in Nat /\ debt' \in Nat
        /\ permits' + Cardinality(woken') + Cardinality(admitted') = limit' + debt'
    <3>1. Cardinality(admitted') = Cardinality(admitted)
      BY <1>5
    <3>2. permits' = free - paid /\ debt' = owed - paid /\ limit' = limit
      BY <1>3, <1>5
    <3>3. QED BY <1>0, <1>1, <1>2, <3>1, <3>2
  <2>3. GateTypeOK'
    BY <1>5, <2>1, <2>2 DEF GateTypeOK, Queues
  <2>4. GateIInv'
    BY <2>1, <2>2, <2>3 DEF GateIInv, PermitsConserved, Queues
  <2>5. QED BY <1>5, <2>4
<1>6. QED BY <1>4, <1>5 DEF Take, here, paid

\* A caller is admitted at once, or waits, or is refused.
LEMMA AcquireStep ==
  ASSUME GateIInv, NEW a \in Asks, Acquire(a)
  PROVE  /\ GateIInv'
         /\ Limit!Admit(a) \/ UNCHANGED <<limit, admitted>>
<1>1. /\ waiters \in Queues /\ Waiting = Elements(waiters) /\ IsFiniteSet(admitted)
  BY Counted
<1>2. /\ limit \in Limits /\ permits \in Nat /\ debt \in Nat
      /\ woken \subseteq Elements(waiters) /\ admitted \subseteq Asks \ Elements(waiters)
      /\ permits + Cardinality(woken) + Cardinality(admitted) = limit + debt
  BY <1>1 DEF GateIInv, PermitsConserved, GateTypeOK
<1>3. /\ a \notin Elements(waiters) /\ a \notin admitted
      /\ Take(a, permits, debt, waiters) /\ limit' = limit /\ woken' = woken
  BY <1>1 DEF Acquire
<1>4. QED BY <1>1, <1>2, <1>3, Taken

(* A waiter leaves the queue with the free permits that wake others. *)
LEMMA LeavesQueue ==
  ASSUME GateIInv, NEW a \in Waiting, NEW free \in Nat,
         NEW chosen \in Woken(free, Without(a, waiters), woken \ {a})
  PROVE  LET rest == Without(a, waiters)
             awake == (woken \ {a}) \union chosen
         IN  /\ rest \in Queues /\ Elements(rest) = Waiting \ {a}
             /\ awake \subseteq Elements(rest)
             /\ Cardinality(chosen) \in Nat /\ Cardinality(chosen) <= free
             /\ a \in woken =>
                  Cardinality(awake) = Cardinality(woken) - 1 + Cardinality(chosen)
             /\ a \notin woken =>
                  Cardinality(awake) = Cardinality(woken) + Cardinality(chosen)
<1> DEFINE rest == Without(a, waiters)
<1>1. /\ waiters \in Queues /\ Waiting = Elements(waiters)
      /\ IsFiniteSet(woken) /\ Cardinality(woken) \in Nat
  BY Counted
<1>2. rest \in Queues /\ Elements(rest) = Waiting \ {a}
  BY <1>1, WithoutOne
<1> HIDE DEF rest
<1>3. woken \ {a} \subseteq Elements(rest)
  BY <1>2 DEF GateIInv, PermitsConserved, GateTypeOK
<1>4. chosen \in Woken(free, rest, woken \ {a})
  BY DEF rest
<1>5. /\ chosen \subseteq Elements(rest)
      /\ Cardinality(chosen) \in Nat /\ Cardinality(chosen) <= free
      /\ Cardinality((woken \ {a}) \union chosen) =
           Cardinality(woken \ {a}) + Cardinality(chosen)
  <2> DEFINE others == woken \ {a}
  <2>1. others \in SUBSET Elements(rest) /\ chosen \in Woken(free, rest, others)
    BY <1>3, <1>4
  <2> HIDE DEF others
  <2>2. /\ chosen \subseteq Elements(rest)
        /\ Cardinality(chosen) \in Nat /\ Cardinality(chosen) <= free
        /\ Cardinality(others \union chosen) = Cardinality(others) + Cardinality(chosen)
    BY <1>2, <2>1, WakesSleepers
  <2>3. QED BY <2>2 DEF others
<1>6. /\ a \in woken => Cardinality(woken \ {a}) = Cardinality(woken) - 1
      /\ a \notin woken => Cardinality(woken \ {a}) = Cardinality(woken)
  BY <1>1, FS_RemoveElement
<1>7. QED BY <1>1, <1>2, <1>3, <1>5, <1>6 DEF rest

\* A woken waiter takes its slot, or waits again.
LEMMA AwakeStep ==
  ASSUME GateIInv, NEW a \in Asks, Awake(a)
  PROVE  /\ GateIInv'
         /\ Limit!Admit(a) \/ UNCHANGED <<limit, admitted>>
<1> DEFINE rest == Without(a, waiters)
<1>1. a \in woken /\ limit' = limit
  BY DEF Awake
<1>2. PICK chosen \in Woken(permits, rest, woken \ {a}) :
        LET left == permits - Cardinality(chosen)
        IN  /\ woken' = (woken \ {a}) \union chosen
            /\ \/ /\ debt = 0
                  /\ admitted' = admitted \union {a}
                  /\ permits' = left
                  /\ waiters' = rest
                  /\ UNCHANGED debt
               \/ /\ debt > 0
                  /\ Take(a, left, debt - 1, rest)
  BY DEF Awake
<1> DEFINE left == permits - Cardinality(chosen)
<1>3. /\ Waiting = Elements(waiters)
      /\ IsFiniteSet(woken) /\ Cardinality(woken) \in Nat
      /\ IsFiniteSet(admitted) /\ Cardinality(admitted) \in Nat
      /\ limit \in Nat /\ permits \in Nat /\ debt \in Nat
  BY Counted
<1>4. /\ limit \in Limits /\ woken \subseteq Waiting /\ admitted \subseteq Asks \ Waiting
      /\ permits + Cardinality(woken) + Cardinality(admitted) = limit + debt
  BY DEF GateIInv, PermitsConserved, GateTypeOK
<1>5. a \in Waiting /\ a \notin admitted
  BY <1>1, <1>4
<1>6. /\ rest \in Queues /\ Elements(rest) = Waiting \ {a}
      /\ woken' \subseteq Elements(rest)
      /\ left \in Nat
      /\ left + Cardinality(woken') = permits + Cardinality(woken) - 1
  <2>1. LET awake == (woken \ {a}) \union chosen
        IN  /\ rest \in Queues /\ Elements(rest) = Waiting \ {a}
            /\ awake \subseteq Elements(rest)
            /\ Cardinality(chosen) \in Nat /\ Cardinality(chosen) <= permits
            /\ Cardinality(awake) = Cardinality(woken) - 1 + Cardinality(chosen)
    <3>1. /\ chosen \in Woken(permits, Without(a, waiters), woken \ {a})
          /\ a \in Waiting /\ a \in woken /\ permits \in Nat
      BY <1>1, <1>3, <1>5
    <3>2. QED BY <3>1, LeavesQueue
  <2>2. QED BY <1>2, <1>3, <2>1
<1> HIDE DEF rest, left
<1>7. /\ a \notin Elements(rest) /\ admitted \subseteq Asks \ Elements(rest)
      /\ IsFiniteSet(woken') /\ Cardinality(woken') \in Nat
  BY <1>4, <1>6, QueueFinite, FS_Subset, FS_CardinalityType
<1>8. CASE /\ debt = 0 /\ admitted' = admitted \union {a} /\ permits' = left
           /\ waiters' = rest /\ UNCHANGED debt
  <2>1. Cardinality(admitted') = Cardinality(admitted) + 1
    BY <1>3, <1>5, <1>8, FS_AddElement
  <2>2. permits' + Cardinality(woken') + Cardinality(admitted') = limit' + debt'
    BY <1>1, <1>3, <1>4, <1>6, <1>7, <1>8, <2>1
  <2>3. Waiting' = Elements(rest)
    BY <1>8 DEF Waiting, Elements
  <2>4. GateTypeOK'
    BY <1>1, <1>3, <1>4, <1>6, <1>7, <1>8, <2>3 DEF GateTypeOK, Queues
  <2>5. GateIInv'
    BY <1>6, <1>8, <2>2, <2>4 DEF GateIInv, PermitsConserved, Queues
  <2>6. Cardinality(admitted) < limit
    BY <1>3, <1>4, <1>6, <1>7, <1>8
  <2>7. QED BY <1>1, <1>5, <1>8, <2>5, <2>6, SameCount DEF Limit!Admit
<1>9. CASE debt > 0 /\ Take(a, left, debt - 1, rest)
  <2>1. debt - 1 \in Nat
    BY <1>3, <1>9
  <2>2. left + Cardinality(woken') + Cardinality(admitted) = limit + (debt - 1)
    BY <1>3, <1>4, <1>6, <1>7, <1>9
  <2>3. QED BY <1>1, <1>3, <1>4, <1>5, <1>6, <1>7, <1>9, <2>1, <2>2, Taken
<1>10. QED BY <1>2, <1>8, <1>9 DEF left

\* A cancelled waiter hands on the wake-up it got.
LEMMA WithdrawStep ==
  ASSUME GateIInv, NEW a \in Asks, Withdraw(a)
  PROVE  GateIInv' /\ UNCHANGED <<limit, admitted>>
<1> DEFINE rest == Without(a, waiters)
           free == IF a \in woken THEN permits + 1 ELSE permits
<1>1. /\ a \in Waiting /\ waiters' = rest
      /\ limit' = limit /\ debt' = debt /\ admitted' = admitted
  BY DEF Withdraw
<1>2. PICK chosen \in Woken(free, rest, woken \ {a}) :
        /\ woken' = (woken \ {a}) \union chosen
        /\ permits' = free - Cardinality(chosen)
  BY DEF Withdraw
<1>3. /\ Cardinality(woken) \in Nat /\ Cardinality(admitted) \in Nat
      /\ limit \in Nat /\ permits \in Nat /\ debt \in Nat
  BY Counted
<1>4. /\ limit \in Limits /\ admitted \subseteq Asks \ Waiting
      /\ permits + Cardinality(woken) + Cardinality(admitted) = limit + debt
  BY DEF GateIInv, PermitsConserved, GateTypeOK
<1>5. /\ free \in Nat
      /\ free - (IF a \in woken THEN 1 ELSE 0) = permits
  BY <1>3
<1> HIDE DEF free
<1>6. /\ rest \in Queues /\ Elements(rest) = Waiting \ {a}
      /\ woken' \subseteq Elements(rest)
      /\ permits' \in Nat
      /\ permits' + Cardinality(woken') = permits + Cardinality(woken)
  <2>1. CASE a \in woken
    <3>1. permits + 1 \in Nat /\ free = permits + 1
      BY <1>3, <2>1 DEF free
    <3>2. chosen \in Woken(permits + 1, Without(a, waiters), woken \ {a})
      BY <1>2, <3>1
    <3>3. LET awake == (woken \ {a}) \union chosen
          IN  /\ rest \in Queues /\ Elements(rest) = Waiting \ {a}
              /\ awake \subseteq Elements(rest)
              /\ Cardinality(chosen) \in Nat /\ Cardinality(chosen) <= permits + 1
              /\ Cardinality(awake) = Cardinality(woken) - 1 + Cardinality(chosen)
      BY <1>1, <1>3, <2>1, <3>1, <3>2, LeavesQueue
    <3>4. permits' = permits + 1 - Cardinality(chosen)
      BY <1>2, <1>3, <3>1, <3>3
    <3>5. QED BY <1>2, <1>3, <3>3, <3>4
  <2>2. CASE a \notin woken
    <3>1. free = permits
      BY <2>2 DEF free
    <3>2. chosen \in Woken(permits, Without(a, waiters), woken \ {a})
      BY <1>2, <3>1
    <3>3. LET awake == (woken \ {a}) \union chosen
          IN  /\ rest \in Queues /\ Elements(rest) = Waiting \ {a}
              /\ awake \subseteq Elements(rest)
              /\ Cardinality(chosen) \in Nat /\ Cardinality(chosen) <= permits
              /\ Cardinality(awake) = Cardinality(woken) + Cardinality(chosen)
      BY <1>1, <1>3, <2>2, <3>2, LeavesQueue
    <3>4. permits' = permits - Cardinality(chosen)
      BY <1>2, <1>3, <3>1, <3>3
    <3>5. QED BY <1>2, <1>3, <3>3, <3>4
  <2>3. QED BY <2>1, <2>2
<1>7. IsFiniteSet(woken') /\ Cardinality(woken') \in Nat
  BY <1>6, QueueFinite, FS_Subset, FS_CardinalityType
<1> HIDE DEF rest
<1>8. Cardinality(admitted') = Cardinality(admitted)
  BY <1>1
<1>9. permits' + Cardinality(woken') + Cardinality(admitted') = limit' + debt'
  BY <1>1, <1>3, <1>4, <1>5, <1>6, <1>7, <1>8
<1>10. Waiting' = Elements(rest)
  BY <1>1 DEF Waiting, Elements
<1>11. GateTypeOK'
  BY <1>1, <1>3, <1>4, <1>6, <1>10 DEF GateTypeOK, Queues
<1>12. QED BY <1>1, <1>6, <1>9, <1>11 DEF GateIInv, PermitsConserved, Queues

(* Permits that come back are free again or given to a waiter. *)
LEMMA Refunded ==
  ASSUME GateIInv, NEW n \in Nat, Refund(n)
  PROVE  /\ permits' \in Nat /\ woken' \subseteq Waiting
         /\ Cardinality(woken') \in Nat
         /\ permits' + Cardinality(woken') = permits + n + Cardinality(woken)
<1>1. /\ waiters \in Queues /\ Waiting = Elements(waiters)
      /\ Cardinality(woken) \in Nat /\ permits \in Nat
  BY Counted
<1>2. woken \in SUBSET Elements(waiters) /\ permits + n \in Nat
  BY <1>1 DEF GateIInv, PermitsConserved, GateTypeOK
<1>3. PICK chosen \in Woken(permits + n, waiters, woken) :
        /\ woken' = woken \union chosen
        /\ permits' = permits + n - Cardinality(chosen)
  BY DEF Refund
<1>4. /\ chosen \subseteq Elements(waiters) \ woken
      /\ Cardinality(chosen) \in Nat /\ Cardinality(chosen) <= permits + n
      /\ Cardinality(woken \union chosen) = Cardinality(woken) + Cardinality(chosen)
  BY <1>1, <1>2, <1>3, WakesSleepers
<1>5. QED BY <1>1, <1>2, <1>3, <1>4

(* What is left to show when neither the queue nor, but for a, the admitted
   asks change. *)
LEMMA SameQueue ==
  ASSUME GateIInv, UNCHANGED waiters, limit' \in Limits, permits' \in Nat, debt' \in Nat,
         woken' \subseteq Waiting, admitted' \subseteq admitted,
         permits' + Cardinality(woken') + Cardinality(admitted') = limit' + debt'
  PROVE  GateIInv'
<1>1. Waiting' = Waiting
  BY DEF Waiting
<1>2. GateTypeOK'
  BY <1>1 DEF GateIInv, PermitsConserved, GateTypeOK
<1>3. QED BY <1>2 DEF GateIInv, PermitsConserved, OnePlaceEach

\* A caller that leaves wakes the next waiter.
LEMMA ReleaseStep ==
  ASSUME GateIInv, NEW a \in admitted, Release(a)
  PROVE  GateIInv' /\ Limit!Leave(a)
<1>1. /\ admitted' = admitted \ {a}
      /\ limit' = limit /\ waiters' = waiters
  BY DEF Release
<1>2. /\ IsFiniteSet(admitted) /\ Cardinality(admitted) \in Nat
      /\ Cardinality(woken) \in Nat
      /\ limit \in Nat /\ permits \in Nat /\ debt \in Nat
  BY Counted
<1>3. Cardinality(admitted') = Cardinality(admitted) - 1
  BY <1>1, <1>2, FS_RemoveElement
<1>4. /\ limit \in Limits /\ woken \subseteq Waiting
      /\ permits + Cardinality(woken) + Cardinality(admitted) = limit + debt
  BY DEF GateIInv, PermitsConserved, GateTypeOK
<1>5. CASE debt > 0 /\ debt' = debt - 1 /\ UNCHANGED <<permits, woken>>
  <2>1. debt' \in Nat /\ permits' = permits /\ woken' = woken
    BY <1>2, <1>5
  <2>2. permits' + Cardinality(woken') + Cardinality(admitted') = limit' + debt'
    <3>1. /\ Cardinality(woken') = Cardinality(woken) /\ debt' = debt - 1
          /\ permits' = permits /\ limit' = limit
      BY <1>1, <1>5, <2>1
    <3> DEFINE inside == Cardinality(admitted) \* a number to the prover
               given  == Cardinality(woken)
    <3>2. /\ inside \in Nat /\ given \in Nat
          /\ permits + given + inside = limit + debt
      BY <1>2, <1>4
    <3>3. Cardinality(admitted') = inside - 1 /\ Cardinality(woken') = given
      BY <1>3, <3>1
    <3> HIDE DEF inside, given
    <3>4. permits' + given + (inside - 1) = limit' + debt'
      BY <1>2, <3>1, <3>2
    <3>5. QED BY <3>3, <3>4
  <2>3. GateIInv'
    BY <1>1, <1>2, <1>4, <2>1, <2>2, SameQueue
  <2>4. QED BY <1>1, <2>3 DEF Limit!Leave
<1>6. CASE debt = 0 /\ Refund(1) /\ UNCHANGED debt
  <2>1. /\ permits' \in Nat /\ woken' \subseteq Waiting /\ Cardinality(woken') \in Nat
        /\ permits' + Cardinality(woken') = permits + 1 + Cardinality(woken)
    BY <1>6, Refunded
  <2>2. permits' + Cardinality(woken') + Cardinality(admitted') = limit' + debt'
    BY <1>1, <1>2, <1>3, <1>4, <1>6, <2>1
  <2>3. GateIInv'
    BY <1>1, <1>2, <1>4, <1>6, <2>1, <2>2, SameQueue
  <2>4. QED BY <1>1, <2>3 DEF Limit!Leave
<1>7. QED BY <1>5, <1>6 DEF Release

(* The sum after a raised limit, of which k permits pay the debt d. *)
LEMMA RefundSum ==
  ASSUME NEW p \in Nat, NEW p2 \in Nat, NEW g \in Nat, NEW g2 \in Nat, NEW i \in Nat,
         NEW l \in Nat, NEW d \in Nat, NEW n \in Nat, NEW k \in Nat,
         p + g + i = l + d, p2 + g2 = p + (n - l - k) + g
  PROVE  p2 + g2 + i = n + (d - k)
OBVIOUS

\* A higher limit wakes as many as it makes room for.
LEMMA SetLimitStep ==
  ASSUME GateIInv, NEW n \in Limits, SetLimit(n)
  PROVE  GateIInv' /\ Limit!SetLimit(n)
<1>1. limit' = n /\ waiters' = waiters /\ admitted' = admitted
  BY DEF SetLimit
<1>2. /\ Cardinality(admitted) \in Nat /\ Cardinality(woken) \in Nat
      /\ limit \in Nat /\ permits \in Nat /\ debt \in Nat /\ n \in Nat
  BY Counted, GateAssumption
<1>3. /\ woken \subseteq Waiting
      /\ permits + Cardinality(woken) + Cardinality(admitted) = limit + debt
  BY DEF GateIInv, PermitsConserved, GateTypeOK
<1>4. Cardinality(admitted') = Cardinality(admitted)
  BY <1>1
<1> DEFINE reclaimed == Smaller(limit - n, permits)
           paid == Smaller(n - limit, debt)
<1>5. CASE /\ n < limit
           /\ permits' = permits - reclaimed
           /\ debt' = debt + limit - n - reclaimed
           /\ UNCHANGED woken
  <2>1. limit - n \in Nat
    BY <1>2, <1>5
  <2>2. reclaimed \in Nat /\ reclaimed <= limit - n /\ reclaimed <= permits
    BY <1>2, <2>1, SmallerIs
  <2> HIDE DEF reclaimed
  <2>3. permits' \in Nat /\ debt' \in Nat /\ woken' = woken
    BY <1>2, <1>5, <2>1, <2>2
  <2>4. permits' + Cardinality(woken') + Cardinality(admitted') = limit' + debt'
    BY <1>1, <1>2, <1>3, <1>4, <1>5, <2>2, <2>3
  <2>5. GateIInv'
    BY <1>1, <1>3, <2>3, <2>4, SameQueue
  <2>6. QED BY <1>1, <2>5 DEF Limit!SetLimit
<1>6. CASE n > limit /\ debt' = debt - paid /\ Refund(n - limit - paid)
  <2>1. n - limit \in Nat
    BY <1>2, <1>6
  <2>2. paid \in Nat /\ paid <= n - limit /\ paid <= debt
    BY <1>2, <2>1, SmallerIs
  <2> HIDE DEF paid
  <2>3. n - limit - paid \in Nat /\ debt' \in Nat
    BY <1>2, <1>6, <2>1, <2>2
  <2>4. /\ permits' \in Nat /\ woken' \subseteq Waiting /\ Cardinality(woken') \in Nat
        /\ permits' + Cardinality(woken') = permits + (n - limit - paid) + Cardinality(woken)
    BY <1>6, <2>3, Refunded
  <2>5. permits' + Cardinality(woken') + Cardinality(admitted') = limit' + debt'
    <3>1. /\ paid \in Nat /\ debt' = debt - paid /\ limit' = n
          /\ Cardinality(admitted') = Cardinality(admitted)
      BY <1>1, <1>4, <1>6, <2>2
    <3>2. permits' + Cardinality(woken') + Cardinality(admitted) = n + (debt - paid)
      BY <1>2, <1>3, <2>2, <2>4, RefundSum
    <3>3. QED BY <3>1, <3>2
  <2>6. GateIInv'
    BY <1>1, <2>3, <2>4, <2>5, SameQueue
  <2>7. QED BY <1>1, <2>6 DEF Limit!SetLimit
<1>7. QED BY <1>5, <1>6 DEF SetLimit, reclaimed, paid

-------------------------------------------------------------------------------
(* Every step of the gate keeps the invariant and is a step of the abstract
   specification, or leaves what that one sees as it was. *)
LEMMA GateStep ==
  ASSUME GateIInv, [GateNext]_gateVars
  PROVE  GateIInv' /\ [Limit!Next]_(Limit!vars)
<1> USE DEF Limit!Next, Limit!vars
<1>1. ASSUME NEW a \in Asks, Acquire(a)
      PROVE  GateIInv' /\ [Limit!Next]_(Limit!vars)
  BY <1>1, AcquireStep
<1>2. ASSUME NEW a \in Asks, Awake(a)
      PROVE  GateIInv' /\ [Limit!Next]_(Limit!vars)
  BY <1>2, AwakeStep
<1>3. ASSUME NEW a \in Asks, Withdraw(a)
      PROVE  GateIInv' /\ [Limit!Next]_(Limit!vars)
  BY <1>3, WithdrawStep
<1>4. ASSUME NEW a \in admitted, Release(a)
      PROVE  GateIInv' /\ [Limit!Next]_(Limit!vars)
  <2>1. a \in Asks
    BY DEF GateIInv, PermitsConserved, GateTypeOK
  <2>2. QED BY <1>4, <2>1, ReleaseStep
<1>5. ASSUME NEW n \in Limits, SetLimit(n)
      PROVE  GateIInv' /\ [Limit!Next]_(Limit!vars)
  BY <1>5, SetLimitStep
<1>6. CASE UNCHANGED gateVars
  <2>1. GateIInv'
    BY <1>6 DEF gateVars, GateIInv, PermitsConserved, GateTypeOK, OnePlaceEach, Waiting
  <2>2. QED BY <1>6, <2>1 DEF gateVars
<1>7. QED BY <1>1, <1>2, <1>3, <1>4, <1>5, <1>6 DEF GateNext

\* The gate starts as the abstract one.
LEMMA GateStarts ==
  ASSUME GateInit
  PROVE  GateIInv /\ Limit!Init
<1>1. limit \in Limits /\ limit \in Nat /\ permits = limit /\ debt = 0
      /\ waiters = <<>> /\ woken = {} /\ admitted = {}
  BY GateAssumption DEF GateInit
<1>2. Cardinality(woken) = 0 /\ Cardinality(admitted) = 0
  BY <1>1, FS_EmptySet
<1>3. waiters \in Seq(Asks) /\ OnePlaceEach(waiters)
  BY <1>1 DEF OnePlaceEach
<1>4. QED BY <1>1, <1>2, <1>3 DEF GateIInv, PermitsConserved, GateTypeOK, Limit!Init

(* No permit of the gate is lost and none made up, for any asks and any limits:
   free permits, permits given to waiters and admitted asks together are the
   limit and what is still to be given up. *)
THEOREM PermitsStayConserved == GateSpec => []PermitsConserved
<1>1. GateInit => GateIInv
  BY GateStarts
<1>2. GateIInv /\ [GateNext]_gateVars => GateIInv'
  BY GateStep
<1>3. GateIInv => PermitsConserved
  BY DEF GateIInv
<1>4. QED BY <1>1, <1>2, <1>3, PTL DEF GateSpec

(* The gate implements a limit on admissions: whoever gets in found fewer asks
   inside than the limit of that moment, however the limit was moved before. *)
THEOREM GateKeepsTheLimit == GateSpec => StaysWithinLimit
<1>1. GateInit => GateIInv /\ Limit!Init
  BY GateStarts
<1>2. GateIInv /\ [GateNext]_gateVars => GateIInv' /\ [Limit!Next]_(Limit!vars)
  BY GateStep
<1>3. QED BY <1>1, <1>2, PTL DEF GateSpec, StaysWithinLimit, Limit!Spec
-------------------------------------------------------------------------------
(* The runtime.                                                            *)

Holding == {"delaying", "reopening", "executing"}
Places == {"idle", "starting", "queueing", "recovering", "ended"} \union Holding
WorkPlaces == {"none", "driving", "handing", "detached", "leaving", "gone"}

\* An ask is admitted exactly while it has_admission, and only between the gate
\* and the first release.
AdmissionsIInv ==
  /\ GateIInv
  /\ pc \in [Asks -> Places]
  /\ held = admitted
  /\ \A a \in Asks : a \in held => pc[a] \in Holding

\* Whoever has _initialization_lock knows which browser can run; without one,
\* _context tells it.
BrowserIInv ==
  /\ launches \in 0..MaxLaunches /\ context \in 0..MaxLaunches
  /\ alive \subseteq 1..MaxLaunches
  /\ profile \in {"free", "ours", "other"}
  /\ opener = "nobody" \/ dropper = "nobody"
  /\ opener # "nobody" =>
       context = 0 /\ launches # 0 /\ alive \subseteq {launches} /\ profile = "ours"
  /\ dropper # "nobody" =>
       /\ context = 0 /\ alive \subseteq {doomed}
       /\ doomed # 0 <=> profile = "ours"
  /\ InitLockFree =>
       /\ alive \subseteq {context}
       /\ context # 0 <=> profile = "ours"

\* Who waits for a future is never left to a callback or a task that is done, but
\* for what a cancellation made the poller forget.
FuturesIInv ==
  /\ regs \subseteq Asks /\ hooks \subseteq Asks /\ forgotten \subseteq Asks
  /\ poller \in {"none", "polling", "closing", "dead"}
  /\ old \in [Asks -> {"none", "registered", "unstarted", "saving", "adrift"}]
  /\ future \in [Asks -> {"none", "pending", "settled", "cancelled"}]
  /\ delivery \in [Asks -> {"none", "new", "behind", "saving", "cancelled", "stuck"}]
  /\ \A a \in hooks : future[a] # "pending"
  /\ ending => dropper # "nobody"
  /\ \A a \in Asks : old[a] \in {"registered", "unstarted", "saving"} => ending
  /\ FuturesHaveAnOwner

\* What the type invariant says besides.
RestIInv ==
  /\ work \in [Asks -> WorkPlaces]
  /\ submitted \subseteq Asks

IInv == AdmissionsIInv /\ BrowserIInv /\ FuturesIInv /\ RestIInv
-------------------------------------------------------------------------------
(* The admissions *)

\* What a step may do to them.
AdmissionsKept == AdmissionsIInv' /\ [GateNext]_gateVars

\* What is done with the futures of a closed poller.
OldPollerMoves ==
  OldPollerClosed \/ OldDeliveriesClosed \/ \E a \in Asks : OldDeliverySettles(a)

\* It touches nothing else.
LEMMA OldPollerKeeps ==
  ASSUME OldPollerMoves
  PROVE  /\ UNCHANGED <<gateVars, askVars>>
         /\ UNCHANGED <<context, launches, alive, profile, opener, dropper, doomed>>
         /\ UNCHANGED <<regs, hooks, poller, delivery, forgotten>>
BY DEF OldPollerMoves, OldPollerClosed, OldDeliveriesClosed, OldDeliverySettles, OldFails

\* A step off the gate keeps what is held.
LEMMA NothingAdmitted ==
  ASSUME AdmissionsIInv, UNCHANGED <<gateVars, held, pc>>
  PROVE  AdmissionsKept
<1>1. GateIInv'
  BY DEF AdmissionsIInv, gateVars, GateIInv, PermitsConserved, GateTypeOK, OnePlaceEach, Waiting
<1>2. QED BY <1>1 DEF AdmissionsKept, AdmissionsIInv, gateVars

\* An ask moves on, and stays admitted if it is.
LEMMA OnlyMoved ==
  ASSUME AdmissionsIInv, UNCHANGED <<gateVars, held>>,
         NEW a \in Asks, NEW place \in Places, Goto(a, place),
         pc[a] \notin Holding \/ place \in Holding
  PROVE  AdmissionsKept
<1>1. GateIInv'
  BY DEF AdmissionsIInv, gateVars, GateIInv, PermitsConserved, GateTypeOK, OnePlaceEach, Waiting
<1>2. held' = admitted'
  BY DEF AdmissionsIInv, gateVars
<1>3. pc' = [pc EXCEPT ![a] = place] /\ held' = held
  BY DEF Goto
<1>4. pc' \in [Asks -> Places]
  BY <1>3 DEF AdmissionsIInv
<1>5. \A b \in Asks : b \in held' => pc'[b] \in Holding
  BY <1>3 DEF AdmissionsIInv
<1>6. QED BY <1>1, <1>2, <1>4, <1>5 DEF AdmissionsKept, AdmissionsIInv

\* An ask that gives its admission back, if it still has it, wherever it is then.
LEMMA Released ==
  ASSUME AdmissionsIInv, NEW a \in Asks, ReleaseAdmission(a),
         pc' = pc \/ \E place \in Places : Goto(a, place)
  PROVE  AdmissionsKept
<1>1. held' = held \ {a} /\ held = admitted /\ GateIInv
  BY DEF ReleaseAdmission, AdmissionsIInv
<1>2. GateIInv' /\ [GateNext]_gateVars /\ held' = admitted'
  <2>1. CASE a \in held
    <3>1. a \in admitted /\ Release(a)
      BY <1>1, <2>1 DEF ReleaseAdmission
    <3>2. GateIInv' /\ GateNext
      BY <1>1, <3>1, ReleaseStep DEF GateNext
    <3>3. admitted' = admitted \ {a}
      BY <3>1 DEF Release
    <3>4. QED BY <1>1, <3>2, <3>3
  <2>2. CASE a \notin held
    <3>1. UNCHANGED gateVars /\ held' = held
      BY <1>1, <2>2 DEF ReleaseAdmission
    <3>2. GateIInv'
      BY <1>1, <3>1
         DEF gateVars, GateIInv, PermitsConserved, GateTypeOK, OnePlaceEach, Waiting
    <3>3. QED BY <1>1, <3>1, <3>2 DEF gateVars
  <2>3. QED BY <2>1, <2>2
<1>3. pc' \in [Asks -> Places] /\ \A b \in Asks : b # a => pc'[b] = pc[b]
  BY DEF Goto, AdmissionsIInv
<1>4. \A b \in Asks : b \in held' => pc'[b] \in Holding
  BY <1>1, <1>3 DEF AdmissionsIInv
<1>5. QED BY <1>2, <1>3, <1>4 DEF AdmissionsKept, AdmissionsIInv

\* A call that ends gives its slot back.
LEMMA EndsReleased ==
  ASSUME AdmissionsIInv, NEW a \in Asks, CallEnds(a)
  PROVE  AdmissionsKept
<1>1. ReleaseAdmission(a) /\ Goto(a, "ended") /\ "ended" \in Places
  BY DEF CallEnds, Places
<1>2. QED BY <1>1, Released

\* The gate let a in, or queued it.
LEMMA Admitted ==
  ASSUME AdmissionsIInv, NEW a \in Asks, pc[a] \notin Holding,
         [GateNext]_gateVars, GateIInv',
         \/ admitted' = admitted \union {a} /\ held' = held \union {a} /\ Goto(a, "delaying")
         \/ /\ admitted' = admitted /\ held' = held
            /\ pc' = pc \/ Goto(a, "queueing")
  PROVE  AdmissionsKept
<1>1. held' = admitted'
  BY DEF AdmissionsIInv
<1>2. pc' \in [Asks -> Places] /\ \A b \in Asks : b # a => pc'[b] = pc[b]
  BY DEF Goto, AdmissionsIInv, Places, Holding
<1>3. a \notin held /\ (a \in held' => pc'[a] \in Holding)
  BY DEF Goto, AdmissionsIInv, Places, Holding
<1>4. \A b \in Asks : b \in held' => pc'[b] \in Holding
  BY <1>2, <1>3 DEF AdmissionsIInv
<1>5. QED BY <1>1, <1>2, <1>4 DEF AdmissionsKept, AdmissionsIInv

\* acquire and the wake-up admit the ask they are about, or nobody.
LEMMA GateLetsIn ==
  ASSUME GateIInv, NEW a \in Asks, Acquire(a) \/ Awake(a)
  PROVE  /\ GateIInv' /\ GateNext /\ a \notin admitted
         /\ IF a \in admitted' THEN admitted' = admitted \union {a} ELSE admitted' = admitted
<1>1. a \notin admitted
  BY DEF Acquire, Awake, GateIInv, PermitsConserved, GateTypeOK
<1>2. admitted' = admitted \union {a} \/ admitted' = admitted
  BY DEF Acquire, Awake, Take
<1>3. GateIInv'
  BY AcquireStep, AwakeStep
<1>4. QED BY <1>1, <1>2, <1>3 DEF GateNext

\* Every step keeps the slots with the calls that hold them.
LEMMA AdmissionsStep ==
  ASSUME IInv, Next
  PROVE  AdmissionsKept
<1> USE DEF IInv
<1>1. ASSUME NEW a \in Asks, Call(a) \/ CancelStarting(a) \/ CallRecover(a)
      PROVE  AdmissionsKept
  <2>1. PICK place \in {"starting", "ended", "recovering"} : Goto(a, place)
    BY <1>1 DEF Call, CancelStarting, CallRecover
  <2>2. /\ UNCHANGED <<gateVars, held>> /\ pc[a] \notin Holding /\ place \in Places
    BY <1>1 DEF Call, CancelStarting, CallRecover, Holding, Places
  <2>3. QED BY <2>1, <2>2, OnlyMoved
<1>2. ASSUME NEW a \in Asks, DelayOver(a) \/ StartPage(a)
      PROVE  AdmissionsKept
  <2>1. PICK place \in Holding : Goto(a, place)
    BY <1>2 DEF DelayOver, StartPage, Holding
  <2>2. UNCHANGED <<gateVars, held>> /\ place \in Places
    BY <1>2 DEF DelayOver, StartPage, Places
  <2>3. QED BY <2>1, <2>2, OnlyMoved
<1>3. ASSUME NEW a \in Asks, EnterGate(a)
      PROVE  AdmissionsKept
  <2>1. Acquire(a) /\ pc[a] \notin Holding
    BY <1>3 DEF EnterGate, Holding
  <2>2. /\ GateIInv' /\ GateNext /\ a \notin admitted
        /\ IF a \in admitted' THEN admitted' = admitted \union {a} ELSE admitted' = admitted
    BY <2>1, GateLetsIn DEF AdmissionsIInv
  <2>3. \/ admitted' = admitted \union {a} /\ held' = held \union {a} /\ Goto(a, "delaying")
        \/ admitted' = admitted /\ held' = held /\ Goto(a, "queueing")
    BY <1>3, <2>2 DEF EnterGate
  <2>4. QED BY <2>1, <2>2, <2>3, Admitted
<1>4. ASSUME NEW a \in Asks, PassGate(a)
      PROVE  AdmissionsKept
  <2>1. Awake(a) /\ pc[a] \notin Holding
    BY <1>4 DEF PassGate, Holding
  <2>2. /\ GateIInv' /\ GateNext /\ a \notin admitted
        /\ IF a \in admitted' THEN admitted' = admitted \union {a} ELSE admitted' = admitted
    BY <2>1, GateLetsIn DEF AdmissionsIInv
  <2>3. \/ admitted' = admitted \union {a} /\ held' = held \union {a} /\ Goto(a, "delaying")
        \/ admitted' = admitted /\ held' = held /\ pc' = pc
    BY <1>4, <2>2 DEF PassGate
  <2>4. QED BY <2>1, <2>2, <2>3, Admitted
<1>5. ASSUME NEW a \in Asks, CancelQueueing(a)
      PROVE  AdmissionsKept
  <2>1. Withdraw(a) /\ held' = held /\ Goto(a, "ended") /\ pc[a] \notin Holding
    BY <1>5 DEF CancelQueueing, Holding
  <2>2. GateIInv' /\ admitted' = admitted /\ GateNext
    BY <2>1, WithdrawStep DEF AdmissionsIInv, GateNext
  <2>3. pc' \in [Asks -> Places] /\ \A b \in Asks : b # a => pc'[b] = pc[b]
    BY <2>1 DEF Goto, AdmissionsIInv, Places
  <2>4. \A b \in Asks : b \in held' => pc'[b] \in Holding
    BY <2>1, <2>3 DEF AdmissionsIInv
  <2>5. QED BY <2>1, <2>2, <2>3, <2>4 DEF AdmissionsKept, AdmissionsIInv
<1>6. ASSUME NEW a \in Asks, Return(a) \/ Recovered(a)
      PROVE  AdmissionsKept
  BY <1>6, EndsReleased DEF Return, Recovered
<1>7. ASSUME NEW a \in Asks, StartRecovery(a) \/ Deadline(a) \/ HandedOver(a) \/ HandoverFails(a)
      PROVE  AdmissionsKept
  <2>1. ReleaseAdmission(a)
    BY <1>7 DEF StartRecovery, Deadline, HandedOver, HandoverFails
  <2>2. pc' = pc \/ Goto(a, "recovering") \/ Goto(a, "ended")
    BY <1>7 DEF StartRecovery, Deadline, HandedOver, HandoverFails
  <2>3. pc' = pc \/ \E place \in Places : Goto(a, place)
    BY <2>2 DEF Places
  <2>4. QED BY <2>1, <2>3, Released
<1>8. ASSUME NEW a \in Asks,
             \/ Submit(a) \/ DriveEnds(a) \/ Detach(a) \/ DetachedSettles(a)
             \/ PageLeft(a) \/ Discard(a)
      PROVE  AdmissionsKept
  <2>1. UNCHANGED <<gateVars, held, pc>>
    BY <1>8 DEF Submit, DriveEnds, Detach, DetachedSettles, PageLeft, Discard, DropBegins, askVars
  <2>2. QED BY <2>1, NothingAdmitted
<1>9. ASSUME NEW who \in Asks \union {"poller"}, LaunchBegins(who) \/ ProfileInUse(who)
      PROVE  AdmissionsKept
  <2>1. CASE UNCHANGED <<gateVars, askVars>>
    BY <2>1, NothingAdmitted DEF askVars
  <2>2. CASE who \in Asks /\ CallEnds(who)
    BY <2>2, EndsReleased
  <2>3. QED BY <1>9, <2>1, <2>2 DEF LaunchBegins, ProfileInUse
<1>10. CASE LaunchFails
  <2>1. CASE UNCHANGED <<gateVars, askVars>>
    BY <2>1, NothingAdmitted DEF askVars
  <2>2. CASE opener \in Asks /\ CallEnds(opener)
    BY <2>2, EndsReleased
  <2>3. QED BY <1>10, <2>1, <2>2 DEF LaunchFails, NeedsContext
<1>11. CASE \/ LaunchEnds \/ OldPollerMoves \/ DropEnds \/ Close \/ Crash
            \/ OthersUseProfile \/ PollerMoves
  <2>1. UNCHANGED <<gateVars, held, pc>>
    BY <1>11, OldPollerKeeps DEF LaunchEnds, DropEnds, Close, DropBegins, Crash,
                 OthersUseProfile, PollerMoves, askVars
  <2>2. QED BY <2>1, NothingAdmitted
<1>12. CASE ChangeLimit
  <2>1. PICK n \in Limits : SetLimit(n)
    BY <1>12 DEF ChangeLimit
  <2>2. GateIInv' /\ GateNext /\ admitted' = admitted
    BY <2>1, SetLimitStep DEF AdmissionsIInv, GateNext, SetLimit
  <2>3. held' = held /\ pc' = pc
    BY <1>12 DEF ChangeLimit, askVars
  <2>4. QED BY <2>2, <2>3 DEF AdmissionsKept, AdmissionsIInv
<1>13. QED BY <1>1, <1>2, <1>3, <1>4, <1>5, <1>6, <1>7, <1>8, <1>9, <1>10, <1>11, <1>12
       DEF Next, CallStep, WorkStep, LockStep, OldPollerMoves

-------------------------------------------------------------------------------
(* The browser and the profile lock *)

browserCore == <<context, launches, alive, profile, opener, dropper, doomed>>

\* What a step may do to them.
LEMMA BrowserSteps ==
  ASSUME Next
  PROVE  \/ UNCHANGED browserCore
         \/ \E who \in Asks \union {"poller"} : LaunchBegins(who)
         \/ LaunchEnds \/ LaunchFails
         \/ \E who \in Asks \union {"close"} : InitLockFree /\ DropBegins(who)
         \/ DropEnds \/ Crash \/ OthersUseProfile
<1> USE DEF browserCore, browserVars
<1>1. ASSUME NEW a \in Asks,
             \/ Call(a) \/ CallRecover(a) \/ Deadline(a)
             \/ CancelStarting(a) \/ CancelQueueing(a)
      PROVE  UNCHANGED browserCore
  BY <1>1 DEF Call, CallRecover, Deadline, CancelStarting, CancelQueueing
<1>2. ASSUME NEW a \in Asks,
             \/ EnterGate(a) \/ PassGate(a) \/ DelayOver(a) \/ StartPage(a)
             \/ Return(a) \/ StartRecovery(a) \/ Recovered(a)
      PROVE  UNCHANGED browserCore
  BY <1>2 DEF EnterGate, PassGate, DelayOver, StartPage, Return, StartRecovery, Recovered
<1>3. ASSUME NEW a \in Asks,
             \/ Submit(a) \/ DriveEnds(a) \/ Detach(a) \/ HandedOver(a)
             \/ HandoverFails(a) \/ DetachedSettles(a) \/ PageLeft(a)
      PROVE  UNCHANGED browserCore
  BY <1>3 DEF Submit, DriveEnds, Detach, HandedOver, HandoverFails, DetachedSettles, PageLeft
<1>4. ASSUME NEW who \in Asks \union {"poller"}, ProfileInUse(who)
      PROVE  UNCHANGED browserCore
  BY <1>4 DEF ProfileInUse
<1>5. CASE PollerMoves \/ ChangeLimit \/ OldPollerMoves
  BY <1>5, OldPollerKeeps DEF PollerMoves, ChangeLimit
<1>6. ASSUME NEW a \in Asks, Discard(a)
      PROVE  \E who \in Asks \union {"close"} : InitLockFree /\ DropBegins(who)
  BY <1>6 DEF Discard
<1>7. CASE Close
  BY <1>7 DEF Close
<1>8. QED BY <1>1, <1>2, <1>3, <1>4, <1>5, <1>6, <1>7
      DEF Next, CallStep, WorkStep, LockStep, OldPollerMoves

\* Every step keeps the browser part of the invariant.
LEMMA BrowserStep ==
  ASSUME BrowserIInv, Next
  PROVE  BrowserIInv'
<1> USE RuntimeAssumption DEF BrowserIInv, InitLockFree
<1>1. CASE UNCHANGED browserCore
  BY <1>1 DEF browserCore
<1>2. ASSUME NEW who \in Asks \union {"poller"}, LaunchBegins(who)
      PROVE  BrowserIInv'
  <2>1. /\ opener = "nobody" /\ dropper = "nobody" /\ context = 0
        /\ profile = "free" /\ launches < MaxLaunches
        /\ profile' = "ours" /\ launches' = launches + 1
        /\ alive' = alive \union {launches'} /\ opener' = who /\ who # "nobody"
        /\ UNCHANGED <<context, dropper>>
    BY <1>2 DEF LaunchBegins
  <2>2. alive = {}
    BY <2>1
  <2>3. /\ launches' \in 0..MaxLaunches /\ launches' # 0
        /\ alive' = {launches'} /\ alive' \subseteq 1..MaxLaunches
    BY <2>1, <2>2
  <2>4. QED BY <2>1, <2>3
<1>3. CASE LaunchEnds
  BY <1>3 DEF LaunchEnds
<1>4. CASE LaunchFails
  <2>1. /\ opener # "nobody" /\ alive' = alive \ {launches} /\ profile' = "free"
        /\ opener' = "nobody" /\ UNCHANGED <<context, launches, dropper, doomed>>
    BY <1>4 DEF LaunchFails
  <2>2. alive' = {} /\ context' = 0 /\ dropper' = "nobody"
    BY <2>1
  <2>3. QED BY <2>1, <2>2
<1>5. ASSUME NEW who \in Asks \union {"close"}, InitLockFree, DropBegins(who)
      PROVE  BrowserIInv'
  BY <1>5 DEF DropBegins
<1>6. CASE DropEnds
  <2>1. /\ dropper # "nobody" /\ alive' = alive \ {doomed}
        /\ profile' = IF doomed # 0 THEN "free" ELSE profile
        /\ dropper' = "nobody" /\ doomed' = 0
        /\ UNCHANGED <<context, launches, opener>>
    BY <1>6 DEF DropEnds
  <2>2. alive' = {} /\ context' = 0 /\ opener' = "nobody" /\ profile' # "ours"
    BY <2>1
  <2>3. QED BY <2>1, <2>2
<1>7. CASE Crash
  BY <1>7 DEF Crash
<1>8. CASE OthersUseProfile
  BY <1>8 DEF OthersUseProfile
<1>9. QED BY <1>1, <1>2, <1>3, <1>4, <1>5, <1>6, <1>7, <1>8, BrowserSteps

\* One browser at a time, and the lock around it.
LEMMA BrowserGuarded ==
  ASSUME BrowserIInv
  PROVE  ProfileGuarded
<1>1. \E x : alive \subseteq {x}
  BY DEF BrowserIInv, InitLockFree
<1>2. PICK x : alive \subseteq {x}
  BY <1>1
<1>3. Cardinality(alive) <= 1
  <2>1. alive = {} \/ alive = {x}
    BY <1>2
  <2>2. Cardinality({}) = 0 /\ Cardinality({x}) = 1
    BY FS_EmptySet, FS_Singleton
  <2>3. QED BY <2>1, <2>2
<1>4. alive # {} => profile = "ours"
  <2>1. \A y \in alive : y # 0
    BY RuntimeAssumption DEF BrowserIInv
  <2>2. QED BY <2>1 DEF BrowserIInv, InitLockFree
<1>5. InitLockFree /\ context = 0 => profile # "ours"
  BY DEF BrowserIInv
<1>6. QED BY <1>3, <1>4, <1>5 DEF ProfileGuarded

-------------------------------------------------------------------------------
(* The futures of the poller *)

futureVars == <<future, regs, hooks, poller, delivery, forgotten, ending, old, dropper>>
closedVars == <<ending, old, dropper>>

\* All that a step does to the futures of the asks.
LEMMA FutureSteps ==
  ASSUME Next
  PROVE  \/ UNCHANGED futureVars
         \/ /\ UNCHANGED closedVars
            /\ \/ \E a \in Asks : Poller!Register(a)
               \/ Poller!PollerTask \/ Poller!OpenPage \/ Poller!PollerCallbacks
         \/ \E a \in Asks : GiveUp(a) /\ UNCHANGED <<ending, dropper>>
         \/ CloseCutOff /\ UNCHANGED dropper
         \/ \E who \in Asks \union {"close"} : InitLockFree /\ DropBegins(who)
         \/ OldPollerMoves \/ DropEnds
<1> USE DEF futureVars, closedVars, browserVars, pollerVars
<1>1. ASSUME NEW a \in Asks, CallRecover(a) \/ StartRecovery(a) \/ Detach(a)
      PROVE  UNCHANGED closedVars /\ Poller!Register(a)
  BY <1>1 DEF CallRecover, StartRecovery, Detach
<1>2. ASSUME NEW a \in Asks, Deadline(a) \/ HandoverFails(a)
      PROVE  \/ GiveUp(a) /\ UNCHANGED <<ending, dropper>>
             \/ CloseCutOff /\ UNCHANGED dropper
  BY <1>2 DEF Deadline, HandoverFails
<1>3. ASSUME NEW a \in Asks,
             \/ Call(a) \/ CancelStarting(a) \/ CancelQueueing(a)
             \/ EnterGate(a) \/ PassGate(a) \/ DelayOver(a) \/ StartPage(a)
             \/ Return(a) \/ Recovered(a)
      PROVE  UNCHANGED futureVars
  BY <1>3 DEF Call, CancelStarting, CancelQueueing, EnterGate, PassGate, DelayOver,
              StartPage, Return, Recovered
<1>4. ASSUME NEW a \in Asks,
             \/ Submit(a) \/ DriveEnds(a) \/ HandedOver(a)
             \/ DetachedSettles(a) \/ PageLeft(a)
      PROVE  UNCHANGED futureVars
  BY <1>4 DEF Submit, DriveEnds, HandedOver, DetachedSettles, PageLeft
<1>5. ASSUME NEW who \in Asks \union {"poller"}, ProfileInUse(who)
      PROVE  UNCHANGED futureVars \/ (UNCHANGED closedVars /\ Poller!PollerTask)
  BY <1>5 DEF ProfileInUse, PollerWithoutPage, Poller!PollerTask
<1>6. CASE LaunchFails
  BY <1>6 DEF LaunchFails, PollerWithoutPage, Poller!PollerTask
<1>7. ASSUME NEW who \in Asks \union {"poller"}, LaunchBegins(who)
      PROVE  UNCHANGED futureVars
  BY <1>7 DEF LaunchBegins
<1>8. CASE LaunchEnds \/ Crash \/ OthersUseProfile \/ ChangeLimit
  BY <1>8 DEF LaunchEnds, Crash, OthersUseProfile, ChangeLimit
<1>9. CASE PollerMoves
  BY <1>9 DEF PollerMoves
<1>10. ASSUME NEW a \in Asks, Discard(a)
       PROVE  \E who \in Asks \union {"close"} : InitLockFree /\ DropBegins(who)
  BY <1>10 DEF Discard
<1>11. CASE Close
  BY <1>11 DEF Close
<1>12. QED BY <1>1, <1>2, <1>3, <1>4, <1>5, <1>6, <1>7, <1>8, <1>9, <1>10, <1>11
       DEF Next, CallStep, WorkStep, LockStep, OldPollerMoves

\* Every step keeps the futures part of the invariant.
LEMMA FuturesStep ==
  ASSUME FuturesIInv, Next
  PROVE  FuturesIInv'
<1> USE DEF FuturesIInv, FuturesHaveAnOwner, closedVars
<1>1. CASE UNCHANGED futureVars
  BY <1>1 DEF futureVars
<1>2. ASSUME UNCHANGED closedVars, NEW a \in Asks, Poller!Register(a)
      PROVE  FuturesIInv'
  BY <1>2 DEF Poller!Register
<1>3. ASSUME UNCHANGED closedVars, NEW a \in Asks, Poller!PollSettles(a)
      PROVE  FuturesIInv'
  BY <1>3 DEF Poller!PollSettles, Poller!Settled
<1>4. ASSUME UNCHANGED closedVars, NEW a \in Asks, Poller!PollDelivers(a)
      PROVE  FuturesIInv'
  BY <1>4 DEF Poller!PollDelivers
<1>5. ASSUME UNCHANGED closedVars, Poller!PollerFails
      PROVE  FuturesIInv'
  BY <1>5 DEF Poller!PollerFails, Poller!Settled, Poller!Finally
<1>6. ASSUME UNCHANGED closedVars,
             \/ Poller!PollerLeaves \/ Poller!PollerStops \/ Poller!PageClosed
             \/ Poller!CloseCancelled \/ Poller!OpenPage
      PROVE  FuturesIInv'
  BY <1>6 DEF Poller!PollerLeaves, Poller!PollerStops, Poller!PageClosed,
              Poller!CloseCancelled, Poller!OpenPage, Poller!Finally
<1>7. ASSUME UNCHANGED closedVars, NEW a \in Asks, Poller!RegistrationDone(a)
      PROVE  FuturesIInv'
  <2>1. /\ a \in hooks /\ hooks' = hooks \ {a} /\ regs' = regs \ {a} /\ future' = future
        /\ UNCHANGED <<poller, forgotten>>
        /\ \A b \in Asks \ {a} : delivery'[b] = delivery[b]
    BY <1>7 DEF Poller!RegistrationDone
  <2>2. delivery' \in [Asks -> {"none", "new", "behind", "saving", "cancelled", "stuck"}]
    BY <1>7 DEF Poller!RegistrationDone
  <2>3. QED BY <1>7, <2>1, <2>2
<1>8. ASSUME UNCHANGED closedVars, NEW a \in Asks,
             Poller!DeliveryStarts(a) \/ Poller!DeliveryEnds(a)
      PROVE  FuturesIInv'
  BY <1>8 DEF Poller!DeliveryStarts, Poller!DeliveryEnds, Poller!Settled
<1>9. ASSUME NEW a \in Asks, GiveUp(a), UNCHANGED <<ending, dropper>>
      PROVE  FuturesIInv'
  BY <1>9 DEF GiveUp, Poller!Abandon
<1>10. ASSUME CloseCutOff, UNCHANGED dropper
       PROVE  FuturesIInv'
  BY <1>10 DEF CloseCutOff
<1>11. ASSUME NEW who \in Asks \union {"close"}, InitLockFree, DropBegins(who)
       PROVE  FuturesIInv'
  <2>1. who # "nobody" /\ ~ending
    BY <1>11, RuntimeAssumption DEF InitLockFree
  <2>2. /\ regs' = {} /\ hooks' = {} /\ poller' = "none" /\ forgotten' = forgotten \ regs
        /\ delivery' = [a \in Asks |-> "none"] /\ dropper' = who /\ ending' = CloseWaits
    BY <1>11 DEF DropBegins, Poller!PollerReplaced
  <2>3. CASE CloseWaits
    BY <1>11, <2>1, <2>2, <2>3 DEF DropBegins, Found, Left
  <2>4. CASE ~CloseWaits
    BY <1>11, <2>1, <2>2, <2>4 DEF DropBegins, Left, CloseWaits, Poller!Deliveries, Poller!Settled
  <2>5. QED BY <2>3, <2>4
<1>12. CASE OldPollerMoves
  <2>1. UNCHANGED <<regs, hooks, poller, delivery, forgotten, dropper>>
    BY <1>12, OldPollerKeeps
  <2>2. CASE OldPollerClosed
    BY <2>1, <2>2 DEF OldPollerClosed, OldFails, Poller!Settled
  <2>3. CASE OldDeliveriesClosed
    BY <2>1, <2>3 DEF OldDeliveriesClosed, OldFails, Poller!Settled
  <2>4. ASSUME NEW a \in Asks, OldDeliverySettles(a)
        PROVE  FuturesIInv'
    BY <2>1, <2>4 DEF OldDeliverySettles, Poller!Settled
  <2>5. QED BY <1>12, <2>2, <2>3, <2>4 DEF OldPollerMoves
<1>13. CASE DropEnds
  BY <1>13 DEF DropEnds, pollerVars
<1>14. QED BY <1>1, <1>2, <1>3, <1>4, <1>5, <1>6, <1>7, <1>8, <1>9, <1>10, <1>11, <1>12, <1>13,
             FutureSteps DEF Poller!PollerTask, Poller!PollerCallbacks

-------------------------------------------------------------------------------
(* What the type invariant says besides *)

\* Every step keeps what is left.
LEMMA RestStep ==
  ASSUME RestIInv, Next
  PROVE  RestIInv'
<1> USE DEF RestIInv, WorkPlaces, Work
<1>1. CASE UNCHANGED <<work, submitted>>
  BY <1>1
<1>2. ASSUME NEW a \in Asks,
             \/ StartPage(a) \/ DriveEnds(a) \/ Detach(a) \/ HandedOver(a)
             \/ HandoverFails(a) \/ DetachedSettles(a) \/ PageLeft(a) \/ Submit(a)
      PROVE  RestIInv'
  BY <1>2 DEF StartPage, DriveEnds, Detach, HandedOver, HandoverFails, DetachedSettles,
              PageLeft, Submit
<1>3. ASSUME NEW a \in Asks, Deadline(a)
      PROVE  RestIInv'
  BY <1>3 DEF Deadline
<1>4. ASSUME NEW a \in Asks,
             \/ Call(a) \/ CallRecover(a) \/ CancelStarting(a) \/ CancelQueueing(a)
             \/ EnterGate(a) \/ PassGate(a) \/ DelayOver(a) \/ StartRecovery(a)
             \/ Return(a) \/ Recovered(a) \/ Discard(a)
      PROVE  UNCHANGED <<work, submitted>>
  BY <1>4 DEF Call, CallRecover, CancelStarting, CancelQueueing, EnterGate, PassGate,
              DelayOver, StartRecovery, Return, Recovered, CallEnds, Discard, DropBegins,
              askVars
<1>5. ASSUME NEW who \in Asks \union {"poller"}, LaunchBegins(who) \/ ProfileInUse(who)
      PROVE  UNCHANGED <<work, submitted>>
  BY <1>5 DEF LaunchBegins, ProfileInUse, CallEnds, askVars
<1>6. CASE \/ LaunchEnds \/ LaunchFails \/ OldPollerMoves \/ DropEnds \/ Close
           \/ Crash \/ OthersUseProfile \/ ChangeLimit \/ PollerMoves
  BY <1>6, OldPollerKeeps DEF LaunchEnds, LaunchFails, CallEnds, DropEnds, Close,
              DropBegins, Crash, OthersUseProfile, ChangeLimit, PollerMoves, askVars
<1>7. QED BY <1>1, <1>2, <1>3, <1>4, <1>5, <1>6
      DEF Next, CallStep, WorkStep, LockStep, OldPollerMoves

-------------------------------------------------------------------------------
\* The initial state satisfies the invariant.
LEMMA RuntimeStarts ==
  ASSUME Init
  PROVE  IInv
<1> USE DEF Init
<1>1. AdmissionsIInv
  <2>1. GateInit /\ GateIInv
    BY GateStarts
  <2>2. admitted = {}
    BY <2>1 DEF GateInit
  <2>3. QED BY <2>1, <2>2 DEF AdmissionsIInv, Places
<1>2. BrowserIInv
  BY RuntimeAssumption DEF BrowserIInv, InitLockFree
<1>3. FuturesIInv
  BY DEF FuturesIInv, FuturesHaveAnOwner, Poller!PollerInit
<1>4. RestIInv
  BY DEF RestIInv, WorkPlaces
<1>5. QED BY <1>1, <1>2, <1>3, <1>4 DEF IInv

\* Every step keeps it, and is a step of the gate or none.
LEMMA RuntimeStep ==
  ASSUME IInv, [Next]_vars
  PROVE  IInv' /\ [GateNext]_gateVars
<1>1. CASE Next
  <2>1. AdmissionsIInv' /\ [GateNext]_gateVars
    BY <1>1, AdmissionsStep DEF AdmissionsKept
  <2>2. BrowserIInv' /\ FuturesIInv' /\ RestIInv'
    BY <1>1, BrowserStep, FuturesStep, RestStep DEF IInv
  <2>3. QED BY <2>1, <2>2 DEF IInv
<1>2. CASE UNCHANGED vars
  <2>1. /\ UNCHANGED gateVars /\ UNCHANGED <<held, pc>>
        /\ UNCHANGED browserCore /\ UNCHANGED futureVars /\ UNCHANGED <<work, submitted>>
    BY <1>2 DEF vars, pollerVars, browserVars, askVars, browserCore, futureVars
  <2>2. AdmissionsIInv' /\ [GateNext]_gateVars
    BY <2>1, NothingAdmitted DEF AdmissionsKept, IInv
  <2>3. BrowserIInv' /\ FuturesIInv' /\ RestIInv'
    BY <2>1 DEF IInv, BrowserIInv, InitLockFree, FuturesIInv, FuturesHaveAnOwner, RestIInv,
                browserCore, futureVars
  <2>4. QED BY <2>2, <2>3 DEF IInv
<1>3. QED BY <1>1, <1>2

(* The asks admit themselves through the gate and in no other way, so what is
   proved of the gate holds in the runtime. *)
THEOREM RuntimeUsesTheGate == Spec => GateSpec
<1>1. Init => IInv /\ GateInit
  BY RuntimeStarts DEF Init
<1>2. IInv /\ [Next]_vars => IInv' /\ [GateNext]_gateVars
  BY RuntimeStep
<1>3. QED BY <1>1, <1>2, PTL DEF Spec, GateSpec

(* However asks detach, recover, fail, are cancelled or run into their deadline,
   no more of them are let in than the limit of that moment allows. *)
THEOREM RuntimeKeepsTheLimit == Spec => StaysWithinLimit
BY RuntimeUsesTheGate, GateKeepsTheLimit, PTL

(* Every permit is held by exactly one ask or one waiter or is free, and an ask
   holds its own exactly from its admission to its first release. *)
THEOREM AdmissionsStayBalanced == Spec => []AdmissionsBalance
<1>1. Init => IInv
  BY RuntimeStarts
<1>2. IInv /\ [Next]_vars => IInv'
  BY RuntimeStep
<1>3. IInv => AdmissionsBalance
  <2>1. ASSUME IInv
        PROVE  AdmissionsBalance
    <3>1. GateIInv /\ held = admitted /\ \A a \in Asks : a \in held => pc[a] \in Holding
      BY <2>1 DEF IInv, AdmissionsIInv
    <3>2. PermitsConserved /\ GateTypeOK
      BY <3>1 DEF GateIInv, PermitsConserved
    <3>3. held \subseteq Asks
      BY <3>1, <3>2 DEF GateTypeOK
    <3>4. TypeOK
      BY <2>1, <3>2, <3>3
         DEF IInv, AdmissionsIInv, BrowserIInv, FuturesIInv, RestIInv, TypeOK, Places,
             Holding, WorkPlaces
    <3>5. QED BY <3>1, <3>2, <3>4 DEF AdmissionsBalance, Holding
  <2>2. QED BY <2>1
<1>4. QED BY <1>1, <1>2, <1>3, PTL DEF Spec

(* At most one browser runs on the profile, only while the profile lock is ours,
   and the lock is not kept for a browser that is gone. *)
THEOREM ProfileStaysGuarded == Spec => []ProfileGuarded
<1>1. Init => IInv
  BY RuntimeStarts
<1>2. IInv /\ [Next]_vars => IInv'
  BY RuntimeStep
<1>3. IInv => ProfileGuarded
  BY BrowserGuarded DEF IInv
<1>4. QED BY <1>1, <1>2, <1>3, PTL DEF Spec

(* No future that a call waits for is without who settles it: it is registered with
   a poller whose task is not done, being delivered, or about to be failed by the
   poller that is closed.  The exceptions are what a cancellation of the poller's task
   in its finally, or of the ask that closes the poller, leaves behind. *)
THEOREM FuturesKeepAnOwner == Spec => []FuturesHaveAnOwner
<1>1. Init => IInv
  BY RuntimeStarts
<1>2. IInv /\ [Next]_vars => IInv'
  BY RuntimeStep
<1>3. IInv => FuturesHaveAnOwner
  BY DEF IInv, FuturesIInv
<1>4. QED BY <1>1, <1>2, <1>3, PTL DEF Spec

-------------------------------------------------------------------------------
(***************************************************************************)
(* The jobs above the runtime (AskJobs), for any asks, conversations and   *)
(* sessions.  Each part of the invariant ties some of a job's variables to *)
(* how far its task is; the type part says besides that only existing      *)
(* conversations are known to anybody.                                     *)
(***************************************************************************)
States == {"absent", "queued", "running", "detached", "succeeded", "failed", "swept"}
Tasks == {"none", "created", "claiming", "ended"} \union Working
Markers == (Jobs \X Nat) \union {None}

TypesIInv ==
  /\ state \in [Jobs -> States]
  /\ task \in [Jobs -> Tasks]
  /\ recovery \subseteq Jobs
  /\ existing \subseteq Threads
  /\ thread \in [Jobs -> existing \union {None}]
  /\ marker \in [Jobs -> Markers] /\ prompts \in [Jobs -> Markers]
  /\ submission \in [Jobs -> 0..2]
  /\ session \in [Jobs -> Sessions \union {None}]
  /\ attempt \in [Jobs -> Nat]
  /\ awaited \in [Jobs -> Jobs \union {None}]
  /\ owners \in [Threads -> Jobs \union {None}]
  /\ saved \subseteq existing \X Markers
  /\ bindings \in [Sessions -> existing \union {None}]
  /\ login \in {"none", "releasing", "running"}
  /\ warm \in BOOLEAN /\ closing \in BOOLEAN

\* A job is active as long as its task is not over.
TaskFits(j) ==
  /\ task[j] \notin {"none", "ended"} => j \in Active
  /\ state[j] = "absent" <=> task[j] = "none"

\* Who owns a conversation works on it, and nobody else does.
OwnersIInv ==
  /\ \A j \in Jobs : task[j] \in Working /\ thread[j] # None => owners[thread[j]] = j
  /\ \A t \in Threads : owners[t] # None => task[owners[t]] \in Working /\ thread[owners[t]] = t

\* The nonce a job shows is the one of its current attempt, and there is a
\* prompt only after the click of that attempt.
TurnFits(j) ==
  /\ state[j] = "absent" => j \notin recovery /\ marker[j] = None
  /\ task[j] \in {"created", "claiming", "calling"} /\ j \notin recovery => marker[j] = None
  /\ task[j] \in {"composing", "sent"} => marker[j] = <<j, attempt[j]>>
  /\ task[j] \notin {"sent", "ended"} => prompts[j] = None
  /\ prompts[j] # None => marker[j] = prompts[j] /\ submission[j] > 0

JobsIInv == \A j \in Jobs : TaskFits(j) /\ TurnFits(j)

LoginIInv ==
  /\ login # "none" => Active = {}
  /\ login = "running" => ~warm

ServiceIInv == TypesIInv /\ OwnersIInv /\ JobsIInv /\ LoginIInv
-------------------------------------------------------------------------------
(* Types *)

\* What clients are shown are turns of existing conversations.
LEMMA ShownTyped ==
  ASSUME NEW known \in SUBSET Threads, saved \subseteq known \X Markers,
         NEW ref \in [Jobs -> known \union {None}], NEW mark \in [Jobs -> Markers],
         Shown(ref, mark)
  PROVE  saved' \subseteq known \X Markers
BY DEF Shown

\* Admission keeps the types.
LEMMA StartsTypes == ASSUME TypesIInv, NEW j \in Jobs, Starts(j) PROVE TypesIInv'
<1>1. CASE StartAsk(j)
  BY <1>1 DEF StartAsk, TypesIInv, States, Tasks, turnVars
<1>2. CASE StartRecoveryJob(j)
  BY <1>2 DEF StartRecoveryJob, TypesIInv, States, Tasks, turnVars
<1>3. QED BY <1>1, <1>2 DEF Starts

\* So do the steps of the job's task.
LEMMA TaskRunsTypes == ASSUME TypesIInv, NEW j \in Jobs, TaskRuns(j) PROVE TypesIInv'
BY DEF TaskRuns, ClaimOrWait, TypesIInv, States, Tasks, Working, turnVars

\* The end of a job.
LEMMA EndsTypes ==
  ASSUME TypesIInv, NEW j \in Jobs, NEW result \in States, Ends(j, result)
  PROVE  /\ state' \in [Jobs -> States] /\ task' \in [Jobs -> Tasks]
         /\ owners' \in [Threads -> Jobs \union {None}]
BY DEF Ends, TypesIInv, States, Tasks

\* So does its work on the page.
LEMMA WorksTypes == ASSUME TypesIInv, NEW j \in Jobs, Works(j) PROVE TypesIInv'
<1>1. CASE QueueExpires(j) \/ Failed(j)
  <2>1. Ends(j, "failed") /\ "failed" \in States
    BY <1>1 DEF QueueExpires, Failed, States
  <2>2. QED BY <1>1, <2>1, EndsTypes DEF QueueExpires, Failed, TypesIInv, turnVars
<1>2. CASE GetRuntime(j)
  BY <1>2 DEF GetRuntime, TypesIInv, jobVars, turnVars
<1>3. CASE MarkerNamed(j)
  <2>1. attempt' \in [Jobs -> Nat] /\ task' \in [Jobs -> Tasks]
    BY <1>3 DEF MarkerNamed, TypesIInv, Tasks, Working
  <2>2. marker' \in [Jobs -> Markers]
    BY <1>3, <2>1 DEF MarkerNamed, TypesIInv, Markers
  <2>3. saved' \subseteq existing \X Markers
    BY <1>3, <2>2, ShownTyped DEF MarkerNamed, TypesIInv
  <2>4. QED BY <1>3, <2>1, <2>2, <2>3 DEF MarkerNamed, TypesIInv
<1>4. CASE Click(j)
  BY <1>4 DEF Click, TypesIInv, Tasks, Working, Markers
<1>5. CASE ConversationNamed(j)
  <2>1. PICK t \in Threads \ existing :
          /\ existing' = existing \union {t}
          /\ thread' = [thread EXCEPT ![j] = t]
          /\ owners' = [owners EXCEPT ![t] = IF @ = None THEN j ELSE @]
    BY <1>5 DEF ConversationNamed
  <2>2. /\ existing' \subseteq Threads /\ thread' \in [Jobs -> existing' \union {None}]
        /\ owners' \in [Threads -> Jobs \union {None}]
        /\ bindings \in [Sessions -> existing' \union {None}]
    BY <2>1 DEF TypesIInv
  <2>3. saved' \subseteq existing' \X Markers
    <3>1. saved \subseteq existing' \X Markers /\ marker \in [Jobs -> Markers]
      BY <2>1 DEF TypesIInv
    <3>2. Shown(thread', marker)
      BY <1>5 DEF ConversationNamed
    <3>3. QED BY <2>2, <3>1, <3>2, ShownTyped
  <2>4. QED BY <1>5, <2>2, <2>3 DEF ConversationNamed, TypesIInv
<1>6. CASE Detached(j)
  BY <1>6 DEF Detached, TypesIInv, States, turnVars
<1>7. CASE Answered(j) \/ RecoveryAnswered(j)
  <2>1. Ends(j, "succeeded") /\ "succeeded" \in States
    BY <1>7 DEF Answered, RecoveryAnswered, States
  <2>2. submission' \in [Jobs -> 0..2] /\ bindings' \in [Sessions -> existing \union {None}]
    BY <1>7 DEF Answered, RecoveryAnswered, TypesIInv
  <2>3. QED BY <1>7, <2>1, <2>2, EndsTypes DEF Answered, RecoveryAnswered, TypesIInv, turnVars
<1>8. CASE RetryAsAttachment(j)
  BY <1>8 DEF RetryAsAttachment, TypesIInv, Tasks, Working, Markers, turnVars
<1>9. QED BY <1>1, <1>2, <1>3, <1>4, <1>5, <1>6, <1>7, <1>8 DEF Works

\* Every step keeps the types.
LEMMA NextTypes == ASSUME TypesIInv, [JobsNext]_serviceVars PROVE TypesIInv'
<1>1. ASSUME NEW j \in Jobs, CancelLands(j) PROVE TypesIInv'
  <2>1. /\ state' \in [Jobs -> States] /\ task' \in [Jobs -> Tasks]
        /\ owners' \in [Threads -> Jobs \union {None}]
    <3>1. CASE task[j] = "created"
      BY <1>1, <3>1 DEF CancelLands, TypesIInv, Tasks
    <3>2. CASE task[j] # "created"
      BY <1>1, <3>2, EndsTypes DEF CancelLands, States
    <3>3. QED BY <3>1, <3>2
  <2>2. QED BY <1>1, <2>1 DEF CancelLands, TypesIInv, turnVars
<1>2. ASSUME NEW j \in Jobs, Sweep(j) PROVE TypesIInv'
  BY <1>2 DEF Sweep, TypesIInv, States, Markers
<1>3. ASSUME NEW s \in Sessions, BindingExpires(s) PROVE TypesIInv'
  BY <1>3 DEF BindingExpires, TypesIInv, jobVars, turnVars
<1>4. CASE ReserveLogin \/ RuntimeReleased \/ LoginSettles \/ BeginClose \/ UNCHANGED serviceVars
  BY <1>4 DEF ReserveLogin, RuntimeReleased, LoginSettles, BeginClose, serviceVars, TypesIInv,
     jobVars, turnVars
<1>5. CASE Closed
  BY <1>5 DEF Closed, TypesIInv, States, turnVars
<1>6. QED BY <1>1, <1>2, <1>3, <1>4, <1>5, StartsTypes, TaskRunsTypes, WorksTypes DEF JobsNext
-------------------------------------------------------------------------------
(* Tasks, owners and turns *)

\* The end of a job frees what it owns, and nothing else.
LEMMA EndsOwners ==
  ASSUME TypesIInv, OwnersIInv, NEW j \in Jobs, NEW result, Ends(j, result), thread' = thread
  PROVE  OwnersIInv'
<1>1. ASSUME NEW i \in Jobs, task'[i] \in Working, thread'[i] # None
      PROVE  owners'[thread'[i]] = i
  <2>1. i # j /\ task[i] \in Working /\ thread[i] \in Threads
    BY <1>1 DEF Ends, TypesIInv, Working
  <2>2. owners[thread[i]] = i
    BY <1>1, <2>1 DEF OwnersIInv
  <2>3. QED BY <2>1, <2>2 DEF Ends
<1>2. ASSUME NEW t \in Threads, owners'[t] # None
      PROVE  task'[owners'[t]] \in Working /\ thread'[owners'[t]] = t
  <2>1. owners[t] # None /\ owners'[t] = owners[t] /\ owners[t] \in Jobs
    BY <1>2 DEF Ends, TypesIInv
  <2>2. task[owners[t]] \in Working /\ thread[owners[t]] = t
    BY <2>1 DEF OwnersIInv
  <2>3. owners[t] # j
    BY <1>2, <2>1, <2>2 DEF Ends
  <2>4. QED BY <2>1, <2>2, <2>3 DEF Ends, TypesIInv
<1>3. QED BY <1>1, <1>2 DEF OwnersIInv

\* A step of a job that keeps it at work, or keeps it from work, keeps the owners.
LEMMA SameOwners ==
  ASSUME TypesIInv, OwnersIInv, NEW j \in Jobs, owners' = owners, thread' = thread,
         \A i \in Jobs : i # j => task'[i] = task[i],
         task'[j] \in Working <=> task[j] \in Working
  PROVE  OwnersIInv'
BY DEF OwnersIInv, TypesIInv

\* Every step keeps a conversation with the one job that works on it.
LEMMA NextOwners == ASSUME TypesIInv, JobsIInv, OwnersIInv, [JobsNext]_serviceVars PROVE OwnersIInv'
<1>1. ASSUME NEW j \in Jobs, Starts(j) PROVE OwnersIInv'
  <2>1. task[j] = "none"
    BY <1>1 DEF Starts, StartAsk, StartRecoveryJob, JobsIInv, TaskFits
  <2>2. /\ owners' = owners /\ task'[j] = "created"
        /\ \A i \in Jobs : i # j => task'[i] = task[i] /\ thread'[i] = thread[i]
    BY <1>1 DEF Starts, StartAsk, StartRecoveryJob, TypesIInv
  <2>3. QED BY <2>1, <2>2 DEF OwnersIInv, TypesIInv, Working
<1>2. ASSUME NEW j \in Jobs, TaskRuns(j) PROVE OwnersIInv'
  <2>1. task[j] \notin Working /\ thread' = thread
    BY <1>2 DEF TaskRuns, Working
  <2>2. CASE owners' = owners /\ task' = [task EXCEPT ![j] = "claiming"]
    BY <2>1, <2>2, SameOwners DEF TypesIInv, Working
  <2>3. CASE /\ thread[j] # None => owners[thread[j]] = None
             /\ task' = [task EXCEPT ![j] = "calling"]
             /\ owners' = [u \in Threads |-> IF u = thread[j] THEN j ELSE owners[u]]
    BY <2>1, <2>3, JobsAssumption DEF OwnersIInv, TypesIInv, Working
  <2>4. QED BY <1>2, <2>2, <2>3 DEF TaskRuns, ClaimOrWait
<1>3. ASSUME NEW j \in Jobs, QueueExpires(j) \/ Answered(j) \/ RecoveryAnswered(j) \/ Failed(j)
      PROVE  OwnersIInv'
  <2>1. thread' = thread /\ \E result : Ends(j, result)
    BY <1>3 DEF QueueExpires, Answered, RecoveryAnswered, Failed
  <2>2. QED BY <2>1, EndsOwners
<1>4. ASSUME NEW j \in Jobs,
             \/ GetRuntime(j) \/ MarkerNamed(j) \/ Click(j) \/ Detached(j)
             \/ RetryAsAttachment(j)
      PROVE  OwnersIInv'
  <2>1. /\ owners' = owners /\ thread' = thread
        /\ \A i \in Jobs : i # j => task'[i] = task[i]
        /\ task'[j] \in Working <=> task[j] \in Working
    BY <1>4 DEF GetRuntime, MarkerNamed, Click, Detached, RetryAsAttachment, TypesIInv,
       jobVars, Working
  <2>2. QED BY <2>1, SameOwners
<1>5. ASSUME NEW j \in Jobs, ConversationNamed(j) PROVE OwnersIInv'
  <2>1. PICK t \in Threads \ existing :
          /\ thread' = [thread EXCEPT ![j] = t]
          /\ owners' = [owners EXCEPT ![t] = IF @ = None THEN j ELSE @]
    BY <1>5 DEF ConversationNamed
  <2>2. \A i \in Jobs : thread[i] # t
    BY <2>1, JobsAssumption DEF TypesIInv
  <2>3. owners[t] = None
    BY <2>1, <2>2 DEF OwnersIInv, TypesIInv
  <2>4. task' = task /\ task[j] \in Working /\ thread[j] = None
    BY <1>5 DEF ConversationNamed, Working
  <2>5. ASSUME NEW i \in Jobs, task'[i] \in Working, thread'[i] # None
        PROVE  owners'[thread'[i]] = i
    BY <2>1, <2>2, <2>3, <2>4, <2>5 DEF OwnersIInv, TypesIInv
  <2>6. ASSUME NEW u \in Threads, owners'[u] # None
        PROVE  task'[owners'[u]] \in Working /\ thread'[owners'[u]] = u
    <3>1. CASE u = t
      BY <2>1, <2>3, <2>4, <3>1 DEF TypesIInv
    <3>2. CASE u # t
      <4>1. owners'[u] = owners[u] /\ owners[u] \in Jobs /\ owners[u] # None
        BY <2>1, <2>6, <3>2 DEF TypesIInv
      <4>2. task[owners[u]] \in Working /\ thread[owners[u]] = u
        BY <4>1 DEF OwnersIInv
      <4>3. owners[u] # j
        BY <2>4, <4>2, JobsAssumption
      <4>4. QED BY <2>1, <2>4, <4>1, <4>2, <4>3 DEF TypesIInv
    <3>3. QED BY <3>1, <3>2
  <2>7. QED BY <2>5, <2>6 DEF OwnersIInv
<1>6. ASSUME NEW j \in Jobs, CancelLands(j) PROVE OwnersIInv'
  <2>1. CASE task[j] = "created"
    BY <1>6, <2>1, SameOwners DEF CancelLands, TypesIInv, Working
  <2>2. CASE task[j] # "created"
    BY <1>6, <2>2, EndsOwners DEF CancelLands
  <2>3. QED BY <2>1, <2>2
<1>7. ASSUME NEW j \in Jobs, Sweep(j) PROVE OwnersIInv'
  <2>1. task[j] \notin Working
    BY <1>7 DEF Sweep, Finished, JobsIInv, TaskFits, Active, Working
  <2>2. /\ owners' = owners /\ task' = task
        /\ \A i \in Jobs : i # j => thread'[i] = thread[i]
    BY <1>7 DEF Sweep, TypesIInv
  <2>3. QED BY <2>1, <2>2 DEF OwnersIInv, TypesIInv
<1>8. CASE \/ \E s \in Sessions : BindingExpires(s)
           \/ ReserveLogin \/ RuntimeReleased \/ LoginSettles \/ BeginClose \/ Closed
           \/ UNCHANGED serviceVars
  <2>1. owners' = owners /\ thread' = thread /\ task' = task
    BY <1>8 DEF BindingExpires, ReserveLogin, RuntimeReleased, LoginSettles, BeginClose, Closed,
       serviceVars, jobVars
  <2>2. QED BY <2>1 DEF OwnersIInv
<1>9. QED BY <1>1, <1>2, <1>3, <1>4, <1>5, <1>6, <1>7, <1>8 DEF JobsNext, Works
-------------------------------------------------------------------------------
\* What a step of one job leaves alone, and where that job may be afterwards.
OnlyJob(j) ==
  \A i \in Jobs : i # j =>
    /\ state'[i] = state[i] /\ task'[i] = task[i]
    /\ marker'[i] = marker[i] /\ prompts'[i] = prompts[i]
    /\ submission'[i] = submission[i] /\ attempt'[i] = attempt[i]
    /\ (i \in recovery') <=> (i \in recovery)

\* A job that ends touches no other.
LEMMA EndsFits ==
  ASSUME TypesIInv, NEW j \in Jobs, NEW result \in {"succeeded", "failed"}, Ends(j, result)
  PROVE  /\ state'[j] = result /\ task'[j] = "ended"
         /\ \A i \in Jobs : i # j => state'[i] = state[i] /\ task'[i] = task[i]
BY DEF Ends, TypesIInv

\* Every step of a job concerns this job alone and leaves it in a fitting place.
LEMMA JobStep ==
  ASSUME TypesIInv, TypesIInv', NEW j \in Jobs, TaskFits(j), TurnFits(j),
         Starts(j) \/ TaskRuns(j) \/ Works(j) \/ CancelLands(j) \/ Sweep(j)
  PROVE  OnlyJob(j) /\ TaskFits(j)' /\ TurnFits(j)'
<1>1. CASE StartAsk(j)
  BY <1>1 DEF StartAsk, OnlyJob, TaskFits, TurnFits, TypesIInv, Active, turnVars
<1>2. CASE StartRecoveryJob(j)
  BY <1>2 DEF StartRecoveryJob, OnlyJob, TaskFits, TurnFits, TypesIInv, Active, turnVars
<1>3. CASE TaskRuns(j)
  BY <1>3 DEF TaskRuns, ClaimOrWait, OnlyJob, TaskFits, TurnFits, TypesIInv, Active, turnVars
<1>4. CASE QueueExpires(j) \/ Failed(j)
  <2>1. Ends(j, "failed") /\ task[j] \notin {"none", "ended"}
    BY <1>4 DEF QueueExpires, Failed, Working
  <2>2. QED BY <1>4, <2>1, EndsFits
        DEF QueueExpires, Failed, OnlyJob, TaskFits, TurnFits, Active, turnVars
<1>5. CASE GetRuntime(j)
  BY <1>5 DEF GetRuntime, OnlyJob, TaskFits, TurnFits, Active, jobVars, turnVars
<1>6. CASE MarkerNamed(j)
  <2>1. marker[j] = None /\ prompts[j] = None /\ j \notin recovery
    BY <1>6 DEF MarkerNamed, TurnFits
  <2>2. marker'[j] = <<j, attempt'[j]>> /\ task'[j] = "composing" /\ prompts' = prompts
    BY <1>6, <2>1 DEF MarkerNamed, TypesIInv
  <2>3. OnlyJob(j) /\ state' = state
    BY <1>6 DEF MarkerNamed, OnlyJob, TypesIInv
  <2>4. QED BY <1>6, <2>1, <2>2, <2>3 DEF MarkerNamed, TaskFits, TurnFits, Active
<1>7. CASE Click(j)
  <2>1. OnlyJob(j) /\ task'[j] = "sent" /\ submission'[j] = 1 /\ state' = state
    BY <1>7 DEF Click, OnlyJob, TypesIInv
  <2>2. marker[j] = <<j, attempt[j]>> /\ prompts[j] = None
    BY <1>7 DEF Click, TurnFits
  <2>3. prompts'[j] = None \/ prompts'[j] = <<j, attempt[j]>>
    BY <1>7, <2>2 DEF Click, TypesIInv
  <2>4. QED BY <1>7, <2>1, <2>2, <2>3 DEF Click, TaskFits, TurnFits, Active
<1>8. CASE ConversationNamed(j)
  BY <1>8 DEF ConversationNamed, OnlyJob, TaskFits, TurnFits, Active
<1>9. CASE Detached(j)
  BY <1>9 DEF Detached, OnlyJob, TaskFits, TurnFits, TypesIInv, Active, turnVars
<1>10. CASE Answered(j) \/ RecoveryAnswered(j)
  <2>1. Ends(j, "succeeded") /\ task[j] \notin {"none", "ended"}
    BY <1>10 DEF Answered, RecoveryAnswered
  <2>2. submission'[j] = 2 /\ \A i \in Jobs : i # j => submission'[i] = submission[i]
    BY <1>10 DEF Answered, RecoveryAnswered, TypesIInv
  <2>3. QED BY <1>10, <2>1, <2>2, EndsFits
        DEF Answered, RecoveryAnswered, OnlyJob, TaskFits, TurnFits, Active, turnVars
<1>11. CASE RetryAsAttachment(j)
  BY <1>11 DEF RetryAsAttachment, OnlyJob, TaskFits, TurnFits, TypesIInv, Active, turnVars
<1>12. CASE CancelLands(j)
  <2>1. CASE task[j] = "created"
    BY <1>12, <2>1 DEF CancelLands, OnlyJob, TaskFits, TurnFits, TypesIInv, Active, turnVars
  <2>2. CASE task[j] # "created"
    <3>1. Ends(j, "failed") /\ task[j] \notin {"none", "ended"}
      BY <1>12, <2>2 DEF CancelLands
    <3>2. QED BY <1>12, <3>1, EndsFits
          DEF CancelLands, OnlyJob, TaskFits, TurnFits, Active, turnVars
  <2>3. QED BY <2>1, <2>2
<1>13. CASE Sweep(j)
  <2>1. task[j] = "ended"
    BY <1>13 DEF Sweep, Finished, TaskFits, Active
  <2>2. QED BY <1>13, <2>1 DEF Sweep, OnlyJob, TaskFits, TurnFits, TypesIInv, Active
<1>14. QED BY <1>1, <1>2, <1>3, <1>4, <1>5, <1>6, <1>7, <1>8, <1>9, <1>10, <1>11, <1>12, <1>13
           DEF Starts, Works

\* Every step keeps state, task and turn of a job in agreement.
LEMMA NextJobs == ASSUME TypesIInv, TypesIInv', JobsIInv, [JobsNext]_serviceVars PROVE JobsIInv'
<1>1. ASSUME NEW j \in Jobs,
             Starts(j) \/ TaskRuns(j) \/ Works(j) \/ CancelLands(j) \/ Sweep(j)
      PROVE  JobsIInv'
  <2>1. OnlyJob(j) /\ TaskFits(j)' /\ TurnFits(j)'
    BY <1>1, JobStep DEF JobsIInv
  <2>2. ASSUME NEW i \in Jobs, i # j PROVE TaskFits(i)' /\ TurnFits(i)'
    <3>1. TaskFits(i) /\ TurnFits(i)
      BY DEF JobsIInv
    <3>2. TaskFits(i)'
      BY <2>1, <2>2, <3>1 DEF OnlyJob, TaskFits, Active
    <3>3. TurnFits(i)'
      BY <2>1, <2>2, <3>1 DEF OnlyJob, TurnFits
    <3>4. QED BY <3>2, <3>3
  <2>3. QED BY <2>1, <2>2 DEF JobsIInv
<1>2. CASE \/ \E s \in Sessions : BindingExpires(s)
           \/ ReserveLogin \/ RuntimeReleased \/ LoginSettles \/ BeginClose \/ UNCHANGED serviceVars
  <2>1. UNCHANGED <<jobVars, prompts>>
    BY <1>2 DEF BindingExpires, ReserveLogin, RuntimeReleased, LoginSettles, BeginClose, serviceVars,
       turnVars
  <2>2. QED BY <2>1 DEF JobsIInv, TaskFits, TurnFits, Active, jobVars
<1>3. CASE Closed
  <2>1. UNCHANGED <<recovery, marker, submission, task, attempt, prompts>>
    BY <1>3 DEF Closed, turnVars
  <2>2. \A j \in Jobs : task[j] \in {"none", "ended"} /\ (state'[j] = "absent" <=> state[j] = "absent")
    BY <1>3 DEF Closed, Active, TypesIInv
  <2>3. QED BY <2>1, <2>2 DEF JobsIInv, TaskFits, TurnFits
<1>4. QED BY <1>1, <1>2, <1>3 DEF JobsNext

\* A login and an active job exclude each other, whichever comes first.
LEMMA NextLogin ==
  ASSUME TypesIInv, JobsIInv, LoginIInv, [JobsNext]_serviceVars
  PROVE  LoginIInv'
<1>1. CASE login = "none" /\ login' = "none"
  BY <1>1 DEF LoginIInv
<1>2. CASE login' # "none" /\ Active' \subseteq Active /\ warm' = warm /\ login' = login
  BY <1>2 DEF LoginIInv
<1>3. ASSUME NEW j \in Jobs, Starts(j) PROVE login = "none" /\ login' = "none"
  BY <1>3 DEF Starts, StartAsk, StartRecoveryJob, JobsAdmitted
<1>4. ASSUME NEW j \in Jobs, GetRuntime(j) PROVE login = "none" /\ login' = "none"
  BY <1>4 DEF GetRuntime, JobsIInv, TaskFits, LoginIInv
<1>5. ASSUME NEW j \in Jobs,
             \/ TaskRuns(j) \/ (Works(j) /\ ~GetRuntime(j)) \/ CancelLands(j) \/ Sweep(j)
      PROVE  Active' \subseteq Active /\ warm' = warm /\ login' = login
  <2>1. warm' = warm /\ login' = login
    BY <1>5 DEF TaskRuns, Works, QueueExpires, MarkerNamed, Click, ConversationNamed, Detached,
       Answered, RecoveryAnswered, RetryAsAttachment, Failed, CancelLands, Sweep
  <2>2. state' = state \/ \E value : state' = [state EXCEPT ![j] = value]
    BY <1>5 DEF TaskRuns, ClaimOrWait, Works, QueueExpires, MarkerNamed, Click,
       ConversationNamed, Detached, Answered, RecoveryAnswered, RetryAsAttachment, Failed,
       CancelLands, Sweep, Ends
  <2>3. j \in Active' => j \in Active
    <3>1. CASE task[j] \notin {"none", "ended"}
      BY <3>1 DEF JobsIInv, TaskFits
    <3>2. CASE task[j] \in {"none", "ended"}
      BY <1>5, <3>2 DEF TaskRuns, Works, QueueExpires, MarkerNamed, Click, ConversationNamed,
         Detached, Answered, RecoveryAnswered, RetryAsAttachment, Failed, CancelLands, Sweep,
         Working, Active, TypesIInv
    <3>3. QED BY <3>1, <3>2
  <2>4. QED BY <2>1, <2>2, <2>3 DEF Active, TypesIInv
<1>6. CASE \/ \E s \in Sessions : BindingExpires(s)
           \/ BeginClose \/ Closed \/ UNCHANGED serviceVars
  <2>1. Active' \subseteq Active /\ warm' = warm /\ login' = login
    BY <1>6 DEF BindingExpires, BeginClose, Closed, serviceVars, jobVars, Active, TypesIInv
  <2>2. QED BY <2>1 DEF LoginIInv
<1>7. CASE ReserveLogin \/ RuntimeReleased \/ LoginSettles
  BY <1>7 DEF ReserveLogin, RuntimeReleased, LoginSettles, LoginIInv, jobVars, Active
<1>8. QED BY <1>1, <1>2, <1>3, <1>4, <1>5, <1>6, <1>7 DEF JobsNext, Works
-------------------------------------------------------------------------------
(* The theorems *)

\* The initial state satisfies the invariant.
LEMMA ServiceBegins == ASSUME JobsInit PROVE ServiceIInv
<1>1. TypesIInv
  <2>1. None \in Markers /\ saved = {} /\ existing = {}
    BY DEF JobsInit, Markers
  <2>2. state \in [Jobs -> States] /\ task \in [Jobs -> Tasks]
    BY DEF JobsInit, States, Tasks
  <2>3. /\ marker \in [Jobs -> Markers] /\ prompts \in [Jobs -> Markers]
        /\ thread \in [Jobs -> existing \union {None}]
        /\ bindings \in [Sessions -> existing \union {None}]
        /\ session \in [Jobs -> Sessions \union {None}]
        /\ awaited \in [Jobs -> Jobs \union {None}]
        /\ owners \in [Threads -> Jobs \union {None}]
    BY <2>1 DEF JobsInit
  <2>4. submission \in [Jobs -> 0..2] /\ attempt \in [Jobs -> Nat]
    BY DEF JobsInit
  <2>5. QED BY <2>1, <2>2, <2>3, <2>4 DEF JobsInit, TypesIInv
<1>2. OwnersIInv
  BY DEF JobsInit, OwnersIInv
<1>3. JobsIInv /\ LoginIInv
  BY DEF JobsInit, JobsIInv, TaskFits, TurnFits, LoginIInv, Active
<1>4. QED BY <1>1, <1>2, <1>3 DEF ServiceIInv

\* Every reachable state satisfies the inductive invariant.
THEOREM ServiceInvariance == JobsSpec => []ServiceIInv
<1>1. JobsInit => ServiceIInv
  BY ServiceBegins
<1>2. ServiceIInv /\ [JobsNext]_serviceVars => ServiceIInv'
  BY NextTypes, NextOwners, NextJobs, NextLogin DEF ServiceIInv
<1>3. QED BY <1>1, <1>2, PTL DEF JobsSpec

\* At most one ask drives or polls a conversation, and a conversation is owned only
\* by the job that works on it, so none is left blocked (_claim_conversation,
\* _on_conversation_id, _release_conversation and aclose).
THEOREM OneAskPerConversationThm == JobsSpec => []OneAskPerConversation
<1>1. ServiceIInv => OneAskPerConversation
  BY DEF ServiceIInv, TypesIInv, OwnersIInv, OneAskPerConversation, JobsTypeOK, States, Tasks
<1>2. QED BY <1>1, ServiceInvariance, PTL

\* A job whose prompt reached ChatGPT shows the nonce of that prompt and never says
\* it was not attempted, through the retry as an attachment, a recovery and the
\* cancellation (_on_marker, _run_job).
THEOREM ShownTurnIsTheSentOneThm == JobsSpec => []ShownTurnIsTheSentOne
<1>1. ServiceIInv => ShownTurnIsTheSentOne
  BY DEF ServiceIInv, JobsIInv, TurnFits, ShownTurnIsTheSentOne
<1>2. QED BY <1>1, ServiceInvariance, PTL

\* While a login is reserved no job is active, and its child runs without a warm
\* runtime (_require_job_admission, reserve_login, release_runtime).
THEOREM LoginExcludesJobsThm == JobsSpec => []LoginExcludesJobs
<1>1. ServiceIInv => LoginExcludesJobs
  BY DEF ServiceIInv, LoginIInv, LoginExcludesJobs
<1>2. QED BY <1>1, ServiceInvariance, PTL
===============================================================================
