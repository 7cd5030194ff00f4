----------------------------- MODULE AdmissionGate -----------------------------
(***************************************************************************)
(* _AdmissionGate of gptpro/runtime.py: a limit on running asks that can   *)
(* be changed while asks run and wait.  It wraps an asyncio.Semaphore,     *)
(* whose waiters are woken in order of arrival and own their permit from   *)
(* the moment they are woken, before they run again.  A lowered limit that *)
(* finds too few free permits is a debt, paid by the next permits that     *)
(* come back.                                                              *)
(***************************************************************************)
EXTENDS Integers, FiniteSets, Sequences

CONSTANTS Asks,   \* the asks
          Limits  \* the values of max_concurrent_asks that are set

ASSUME GateAssumption == IsFiniteSet(Asks) /\ Limits \subseteq Nat \ {0}

VARIABLES limit,    \* _limit
          permits,  \* _semaphore._value
          debt,     \* _pending_shrink
          waiters,  \* _semaphore._waiters, oldest first
          woken,    \* the waiters whose future has its result
          admitted  \* the asks that acquired and did not release yet

gateVars == <<limit, permits, debt, waiters, woken, admitted>>

Waiting == {waiters[i] : i \in DOMAIN waiters}

Smaller(m, n) == IF m < n THEN m ELSE n

Without(a, queue) ==
  LET i == CHOOSE j \in DOMAIN queue : queue[j] = a
  IN  SubSeq(queue, 1, i - 1) \o SubSeq(queue, i + 1, Len(queue))

GateInit ==
  /\ limit \in Limits
  /\ permits = limit
  /\ debt = 0
  /\ waiters = <<>>
  /\ woken = {}
  /\ admitted = {}

\* Semaphore._wake_up_next, called while a permit is free: which waiters of
\* queue are woken, the oldest of those that sleep.
Woken(free, queue, awake) ==
  LET asleep == {queue[i] : i \in DOMAIN queue} \ awake
  IN  {chosen \in SUBSET asleep :
         /\ Cardinality(chosen) = Smaller(free, Cardinality(asleep))
         /\ \A i, j \in DOMAIN queue :
              queue[i] \in chosen /\ queue[j] \in asleep \ chosen => i < j}

\* The loop of acquire, from a point where the ask waits for nothing: free
\* permits pay the debt first, and nobody overtakes an ask that waits.
Take(a, free, owed, queue) ==
  LET here == IF queue = <<>> THEN free ELSE 0
      paid == Smaller(here, owed)
  IN  /\ debt' = owed - paid
      /\ \/ /\ here > paid
            /\ admitted' = admitted \union {a}
            /\ permits' = free - paid - 1
            /\ waiters' = queue
         \/ /\ here = paid
            /\ waiters' = Append(queue, a)
            /\ permits' = free - paid
            /\ UNCHANGED admitted

\* acquire is called.
Acquire(a) ==
  /\ a \notin Waiting \union admitted
  /\ Take(a, permits, debt, waiters)
  /\ UNCHANGED <<limit, woken>>

\* A woken ask is admitted without another look at the debt.
Awake_Unpaid(a) ==
  /\ a \in woken
  /\ woken' = woken \ {a}
  /\ admitted' = admitted \union {a}
  /\ waiters' = Without(a, waiters)
  /\ UNCHANGED <<limit, permits, debt>>

\* A woken ask runs: it is admitted, or its permit pays the debt and it asks
\* for another one.
Awake(a) ==
  LET rest == Without(a, waiters)
  IN  /\ a \in woken
      /\ UNCHANGED limit
      /\ \E chosen \in Woken(permits, rest, woken \ {a}) :
           LET left == permits - Cardinality(chosen)
           IN  /\ woken' = (woken \ {a}) \union chosen
               /\ \/ /\ debt = 0
                     /\ admitted' = admitted \union {a}
                     /\ permits' = left
                     /\ waiters' = rest
                     /\ UNCHANGED debt
                  \/ /\ debt > 0
                     /\ Take(a, left, debt - 1, rest)

\* The ask is cancelled while it waits; a permit it was given goes to others.
Withdraw(a) ==
  LET rest == Without(a, waiters)
      free == IF a \in woken THEN permits + 1 ELSE permits
  IN  /\ a \in Waiting
      /\ \E chosen \in Woken(free, rest, woken \ {a}) :
           /\ woken' = (woken \ {a}) \union chosen
           /\ permits' = free - Cardinality(chosen)
      /\ waiters' = rest
      /\ UNCHANGED <<limit, debt, admitted>>

\* The permits are added to the count and nobody is woken.
Refund_WakesNobody(n) == permits' = permits + n /\ UNCHANGED woken

\* Permits are given back to the semaphore one by one.
Refund(n) ==
  \E chosen \in Woken(permits + n, waiters, woken) :
    /\ woken' = woken \union chosen
    /\ permits' = permits + n - Cardinality(chosen)

\* release, called for a: the semaphore does not know who calls.
Release(a) ==
  /\ admitted' = admitted \ {a}
  /\ \/ debt > 0 /\ debt' = debt - 1 /\ UNCHANGED <<permits, woken>>
     \/ debt = 0 /\ Refund(1) /\ UNCHANGED debt
  /\ UNCHANGED <<limit, waiters>>

\* set_limit
SetLimit(n) ==
  LET reclaimed == Smaller(limit - n, permits)
      paid == Smaller(n - limit, debt)
  IN  /\ limit' = n
      /\ \/ /\ n < limit
            /\ permits' = permits - reclaimed
            /\ debt' = debt + limit - n - reclaimed
            /\ UNCHANGED woken
         \/ /\ n > limit
            /\ debt' = debt - paid
            /\ Refund(n - limit - paid)
      /\ UNCHANGED <<waiters, admitted>>
-------------------------------------------------------------------------------
GateNext ==
  \/ \E a \in Asks : Acquire(a) \/ Awake(a) \/ Withdraw(a)
  \/ \E a \in admitted : Release(a)
  \/ \E n \in Limits : SetLimit(n)

GateSpec == GateInit /\ [][GateNext]_gateVars

GateTypeOK ==
  /\ limit \in Limits
  /\ permits \in Nat
  /\ debt \in Nat
  /\ waiters \in Seq(Asks)
  /\ woken \subseteq Waiting
  /\ admitted \subseteq Asks \ Waiting

\* Every permit is somewhere: free, given to a woken waiter or held by an
\* admitted ask; together they are the limit and what is still to be given up.
\* (acquire, release and set_limit: a permit that is lost starves the asks, one
\* too many lets them overrun the limit.)
PermitsConserved ==
  /\ GateTypeOK
  /\ permits + Cardinality(woken) + Cardinality(admitted) = limit + debt

\* The gate keeps the promise of a limit, however the limit is moved while asks
\* wait, are woken, are cancelled or run.
Limit == INSTANCE BoundedAdmission
StaysWithinLimit == Limit!Spec
===============================================================================
