-------------------------- MODULE PinMigrationProofs --------------------------
(***************************************************************************)
(* What holds of PinMigration for any requests, accounts and faults.  The  *)
(* parts of the invariant: the types; what a request's place says of its   *)
(* locals; the count of attempts; why an attempt id is fresh; why a commit *)
(* does not move a pin onto a removed account; the order of the queued     *)
(* writes and the durable row; and what holds as long as nothing but       *)
(* cancellations and failed writes has gone wrong.                         *)
(***************************************************************************)
EXTENDS PinMigration, TLAPS, FiniteSetTheorems

\* The types, with what ties the numbers of the barriers and entries together.
RegistryIInv ==
  /\ ready \in SUBSET Accounts /\ removed \in SUBSET Accounts /\ cooling \in SUBSET Accounts
  /\ ready \cap removed = {}
PinIInv ==
  /\ pin \in Pin \cup {NoPin}
  /\ Pinned => pin.entry \in 1..barriers /\ pin.barrier = barriers
Task(n) == [spawned : 1..n, writes : 0..n, queued : Row \cup {NoRow},
            seen : [Requests -> Places \X SUBSET Accounts]]
TasksIInv ==
  /\ barriers \in Nat
  /\ resolved \in SUBSET (1..barriers) /\ failed \in SUBSET (1..barriers)
  /\ tasks \in SUBSET Task(barriers)
TokensIInv ==
  /\ tokens \in SUBSET Attempt
  /\ IsFiniteSet(tokens)
  /\ \A t \in tokens : t.entry <= barriers
  /\ inFlight \in [Accounts -> Nat]
ReservationIInv == reservation \in Reservation \cup {NoReservation}
ReqsTyped == req \in [Requests -> Request]
RestIInv ==
  /\ row \in Row \cup {NoRow}
  /\ turn \in Requests \cup {Nobody}
  /\ faults \in [count : 0..MaxFaults, calm : BOOLEAN]

TypesIInv ==
  /\ RegistryIInv /\ PinIInv /\ TasksIInv /\ TokensIInv /\ ReservationIInv /\ ReqsTyped
  /\ RestIInv

\* A request's owner is an attempt of its own, and an owner's target is the one
\* it reserved.
Trying == {"pick", "connecting", "upstream", "refused"}
Local(r) ==
  /\ Owns(r) => req[r].owner.by = r
  /\ req[r].at \in {"new", "done", "placed", "waiting"} => ~Owns(r)
  /\ req[r].at \in {"committed", "streaming"} => Owns(r)
  /\ Owns(r) /\ req[r].at \in Trying \cup {"top"} => req[r].target = req[r].owner.to
  /\ req[r].at \in Trying =>
       /\ req[r].target \in Accounts
       /\ req[r].source \in Source /\ req[r].source.entry \in 1..barriers
LocalIInv == \A r \in Requests : Local(r)

\* M(a) counts the plain attempts and the tokens.
CountIInv ==
  \A a \in Accounts :
    inFlight[a] = Cardinality(PlainAttempts(a)) + Cardinality({t \in tokens : t.to = a})

\* A token of a request that could still reserve, for an account it has not
\* attempted, is its current one or belongs to an older entry than any pin the
\* request can read.
Stale(r, t) ==
  /\ Pinned => t.entry < pin.entry
  /\ req[r].at \in Trying => t.entry < req[r].source.entry
Fresh(r) ==
  req[r].at \notin {"committed", "streaming", "done"} =>
    \A t \in tokens :
      t.by = r /\ t.to \notin req[r].attempted =>
        (t = req[r].owner /\ req[r].at # "replaced") \/ Stale(r, t)
FreshIInv == \A r \in Requests : Fresh(r)

\* An owner that is past the credentials of a removed target has lost its reservation.
TargetIInv ==
  \A r \in Requests :
    req[r].at = "upstream" /\ OwnedBy(req[r].owner) => req[r].owner.to \notin removed

\* Tasks start in the order they were spawned in, and so do their writes queue.
QueueIInv ==
  /\ \A t \in tasks : t.writes = 0 => t.queued = NoRow
  /\ \A s, t \in tasks :
       /\ s.spawned = t.spawned => s = t
       /\ s.writes # 0 /\ t.writes = 0 => s.spawned < t.spawned
       /\ s.writes # 0 /\ t.writes # 0 /\ s.spawned <= t.spawned => s.writes <= t.writes

\* The writes of the pin's generation hold what the pin says.  Once one of them
\* is settled it failed, or it was made and nothing older is queued behind it.
PinRow == [account |-> pin.account, gen |-> pin.gen]
Settled == pin.barrier \in resolved \/ \E t \in tasks \ Pending : t.writes = pin.barrier
DurableIInv ==
  Pinned /\ pin.account \notin removed =>
    /\ \A t \in tasks : t.writes = pin.barrier => t.queued \in {PinRow, NoRow}
    /\ Settled =>
         \/ pin.barrier \in failed
         \/ row = PinRow /\ \A t \in Pending : t.writes = pin.barrier

\* Cancellations and failed writes take away neither the pin nor an account.
CalmIInv ==
  faults.calm =>
    /\ removed = {} /\ ready = Accounts
    /\ \A r \in Requests :
         req[r].at \notin {"new", "done"} => Pinned /\ req[r].at # "replaced"
    /\ ReservationOwned

IInv ==
  /\ TypesIInv /\ LocalIInv /\ CountIInv /\ FreshIInv /\ TargetIInv /\ QueueIInv /\ DurableIInv
  /\ CalmIInv
-------------------------------------------------------------------------------
(* What a step of a durability task leaves alone *)

TaskMove(t) ==
  TaskStarts(t) \/ NotSubmitted(t) \/ WriteCommits(t) \/ WriteFails(t) \/ TaskEnds(t)
TaskMoves == TaskSteps \/ TaskFaults

\* A durability task touches its own barrier, its own write and the row.
LEMMA TaskMovesKeep ==
  ASSUME TaskMoves
  PROVE  /\ UNCHANGED <<ready, removed, cooling, pin, reservation, tokens, inFlight, barriers,
                        turn, req>>
         /\ faults' = faults \/ Fault("store")
BY DEF TaskMoves, TaskSteps, TaskFaults, TaskStarts, NotSubmitted, WriteCommits, WriteFails, TaskEnds
-------------------------------------------------------------------------------
(* What a step does to the request that takes it *)

Others(r) == \A q \in Requests \ {r} : req'[q] = req[q]

\* One request's record is replaced.
LEMMA Put ==
  ASSUME ReqsTyped, NEW r \in Requests, NEW rec \in Request, req' = [req EXCEPT ![r] = rec]
  PROVE  ReqsTyped' /\ Others(r) /\ req'[r] = rec
BY DEF ReqsTyped, Others

\* A request that is done owns no attempt.
LEMMA EndsEffect ==
  ASSUME ReqsTyped, NEW r \in Requests, Ends(r)
  PROVE  ReqsTyped' /\ Others(r) /\ req'[r].at = "done" /\ req'[r].owner = NoAttempt
BY DEF Ends, ReqsTyped, Request, NewRequest, Others, Places

\* A request that streams keeps its attempt.
LEMMA StreamsEffect ==
  ASSUME ReqsTyped, NEW r \in Requests, Streams(r)
  PROVE  /\ ReqsTyped' /\ Others(r) /\ req'[r].at = "streaming"
         /\ req'[r].owner = req[r].owner
BY DEF Streams, ReqsTyped, Request, NewRequest, Others, Places, Awaiting

\* A request that goes on with all it remembers, but for its barrier or attempt.
GoesOn(r, place) ==
  /\ ReqsTyped' /\ Others(r) /\ req'[r].at = place
  /\ req'[r].owner = req[r].owner /\ req'[r].target = req[r].target
  /\ req'[r].source = req[r].source /\ req'[r].attempted = req[r].attempted

\* A request that only moves on keeps what it knows.
LEMMA GoesEffect ==
  ASSUME ReqsTyped, NEW r \in Requests, NEW place \in Places, Goes(r, place)
  PROVE  GoesOn(r, place)
<1> DEFINE rec == [req[r] EXCEPT !.at = place]
<1>1. req[r] \in Request
  BY DEF ReqsTyped
<1>2. rec \in Request
  BY <1>1 DEF Request
<1>3. /\ rec.at = place /\ rec.owner = req[r].owner /\ rec.target = req[r].target
      /\ rec.source = req[r].source /\ rec.attempted = req[r].attempted
  BY <1>1 DEF Request
<1>4. req' = [req EXCEPT ![r] = rec]
  BY DEF Goes
<1> HIDE DEF rec
<1>5. QED BY <1>2, <1>3, <1>4, Put DEF GoesOn

\* A request that arrives is placed or refused.
LEMMA ArriveEffect ==
  ASSUME TypesIInv, NEW r \in Requests, Arrive(r)
  PROVE  GoesOn(r, "placed") \/ Ends(r)
<1>1. ReqsTyped /\ ready \in SUBSET Accounts /\ cooling \in SUBSET Accounts
  BY DEF TypesIInv, RegistryIInv, ReqsTyped
<1>2. ASSUME NEW b \in Nat,
             req' = [req EXCEPT ![r] = [[req[r] EXCEPT !.known = ready, !.cooled = cooling]
                                          EXCEPT !.at = "placed", !.barrier = b]]
      PROVE  GoesOn(r, "placed")
  <2> DEFINE rec == [[req[r] EXCEPT !.known = ready, !.cooled = cooling]
                        EXCEPT !.at = "placed", !.barrier = b]
  <2>1. req[r] \in Request /\ "placed" \in Places
    BY <1>1 DEF ReqsTyped, Places, Awaiting
  <2>2. rec \in Request
    BY <1>1, <2>1 DEF Request
  <2>3. /\ rec.at = "placed" /\ rec.owner = req[r].owner /\ rec.target = req[r].target
        /\ rec.source = req[r].source /\ rec.attempted = req[r].attempted
    BY <2>1 DEF Request
  <2>4. req' = [req EXCEPT ![r] = rec]
    BY <1>2
  <2> HIDE DEF rec
  <2>5. QED BY <1>1, <2>2, <2>3, <2>4, Put DEF GoesOn
<1>3. FreshBarrier \in Nat /\ (Pinned => pin.barrier \in Nat)
  BY DEF TypesIInv, PinIInv, TasksIInv, FreshBarrier
<1>4. QED BY <1>2, <1>3 DEF Arrive

\* A waiter streams when its commit is durable, or starts over.
LEMMA WokenEffect ==
  ASSUME TypesIInv, NEW r \in Requests, Woken(r)
  PROVE  \/ Streams(r) /\ req[r].at = "committed"
         \/ /\ ReqsTyped' /\ Others(r) /\ req[r].at # "committed" /\ req'[r].at = "top"
            /\ req'[r].owner = IF req[r].at = "replaced" THEN NoAttempt ELSE req[r].owner
            /\ req'[r].target = req[r].target /\ req'[r].attempted = req[r].attempted
BY DEF Woken, TypesIInv, ReqsTyped, Request, Others, Places

\* A waiter of a resolved reservation starts over.
LEMMA ResolvedEffect ==
  ASSUME TypesIInv, NEW r \in Requests, ReservationResolved(r)
  PROVE  GoesOn(r, "top")
<1>1. ReqsTyped /\ req' = [req EXCEPT ![r].at = "top", ![r].waitsFor = NoAttempt]
  BY DEF TypesIInv, ReqsTyped, ReservationResolved
<1> DEFINE rec == [req[r] EXCEPT !.at = "top", !.waitsFor = NoAttempt]
<1>2. rec \in Request
  <2>1. req[r] \in Request /\ "top" \in Places /\ NoAttempt \in Attempt \cup {NoAttempt}
    BY <1>1 DEF ReqsTyped, Places
  <2>2. QED BY <2>1 DEF Request
<1>3. /\ rec.at = "top" /\ rec.owner = req[r].owner /\ rec.target = req[r].target
      /\ rec.source = req[r].source /\ rec.attempted = req[r].attempted
  BY <1>1 DEF ReqsTyped, Request
<1>4. req' = [req EXCEPT ![r] = rec]
  BY <1>1
<1> HIDE DEF rec
<1>5. QED BY <1>1, <1>2, <1>3, <1>4, Put DEF GoesOn

\* A conversation whose pin is gone is placed again, or refused.
LEMMA PlaceAgainEffect ==
  ASSUME TypesIInv, NEW r \in Requests, PlaceAgain(r)
  PROVE  GoesOn(r, "replaced") \/ Ends(r)
<1>1. ReqsTyped /\ FreshBarrier \in Nat
  BY DEF TypesIInv, TasksIInv, ReqsTyped, FreshBarrier
<1>2. ASSUME NEW b \in Nat,
             req' = [req EXCEPT ![r].at = "replaced", ![r].barrier = b]
      PROVE  GoesOn(r, "replaced")
  <2> DEFINE rec == [req[r] EXCEPT !.at = "replaced", !.barrier = b]
  <2>1. req[r] \in Request /\ "replaced" \in Places
    BY <1>1 DEF ReqsTyped, Places, Awaiting
  <2>2. rec \in Request
    BY <1>2, <2>1 DEF Request
  <2>3. /\ rec.at = "replaced" /\ rec.owner = req[r].owner /\ rec.target = req[r].target
        /\ rec.source = req[r].source /\ rec.attempted = req[r].attempted
    BY <2>1 DEF Request
  <2>4. req' = [req EXCEPT ![r] = rec]
    BY <1>2
  <2> HIDE DEF rec
  <2>5. QED BY <1>1, <2>2, <2>3, <2>4, Put DEF GoesOn
<1>3. QED BY <1>1, <1>2 DEF PlaceAgain

\* An attempt remembers the account it tries and the pin it read.
LEMMA AttemptEffect ==
  ASSUME TypesIInv, NEW r \in Requests, Local(r), BeginAttempt(r) \/ SkipAttempt(r)
  PROVE  /\ ReqsTyped' /\ Others(r)
         /\ req'[r].at = IF BeginAttempt(r) THEN "connecting" ELSE "pick"
         /\ req'[r].owner = req[r].owner
         /\ Attempted(r) \in Accounts
         /\ req'[r].target = Attempted(r)
         /\ req'[r].source = PinRead /\ PinRead \in Source /\ PinRead.entry \in 1..barriers
         /\ req'[r].attempted = req[r].attempted \cup {Attempted(r)}
<1>1. PinRead \in Source /\ PinRead.entry \in 1..barriers /\ pin.account \in Accounts
  BY DEF BeginAttempt, SkipAttempt, Pinned, PinRead, TypesIInv, PinIInv, Pin, Source
<1>2. Attempted(r) \in Accounts
  BY <1>1 DEF BeginAttempt, SkipAttempt, Attempted, Local, TypesIInv, ReqsTyped, Request,
     Attempt, Owns
<1> DEFINE place == IF BeginAttempt(r) THEN "connecting" ELSE "pick"
           rec == [req[r] EXCEPT !.at = place, !.target = Attempted(r), !.source = PinRead,
                                 !.attempted = @ \cup {Attempted(r)}]
<1>3. req' = [req EXCEPT ![r] = rec]
  <2>1. CASE BeginAttempt(r)
    BY <2>1 DEF BeginAttempt
  <2>2. CASE ~BeginAttempt(r)
    BY <2>2 DEF SkipAttempt
  <2>3. QED BY <2>1, <2>2
<1>4. ReqsTyped /\ req[r] \in Request /\ place \in Places
  BY DEF TypesIInv, ReqsTyped, Places, Awaiting
<1>5. rec \in Request
  BY <1>1, <1>2, <1>4 DEF Request
<1>6. /\ rec.at = place /\ rec.owner = req[r].owner /\ rec.target = Attempted(r)
      /\ rec.source = PinRead /\ rec.attempted = req[r].attempted \cup {Attempted(r)}
  BY <1>4 DEF Request
<1> HIDE DEF rec
<1>7. QED BY <1>1, <1>2, <1>3, <1>4, <1>5, <1>6, Put

\* A request that commits waits for its barrier.
LEMMA CommitEffect ==
  ASSUME TypesIInv, NEW r \in Requests, Commit(r)
  PROVE  ReqsTyped' /\ Others(r) /\ req'[r].at = "committed" /\ req'[r].owner = req[r].owner
<1>1. ReqsTyped /\ FreshBarrier \in Nat
  BY DEF TypesIInv, TasksIInv, ReqsTyped, FreshBarrier
<1>2. req' = [req EXCEPT ![r] = [NewRequest EXCEPT !.at = "committed", !.barrier = FreshBarrier,
                                                   !.owner = req[r].owner]]
  BY DEF Commit
<1>3. "committed" \in Places /\ req[r].owner \in Attempt \cup {NoAttempt}
  BY <1>1 DEF Places, Awaiting, ReqsTyped, Request
<1>4. QED BY <1>1, <1>2, <1>3 DEF ReqsTyped, Request, NewRequest, Others

\* A failed attempt leaves the request without one.
LEMMA GiveUpEffect ==
  ASSUME TypesIInv, NEW r \in Requests, GiveUp(r)
  PROVE  /\ ReqsTyped' /\ Others(r) /\ req'[r].at = "pick" /\ req'[r].owner = NoAttempt
         /\ req'[r].target = req[r].target /\ req'[r].source = req[r].source
         /\ req'[r].attempted = req[r].attempted
BY DEF GiveUp, TypesIInv, ReqsTyped, Request, Others

\* A request that waits for another's migration keeps its own attempt.
LEMMA WaitEffect ==
  ASSUME TypesIInv, NEW r \in Requests, WaitForMigration(r)
  PROVE  /\ ReqsTyped' /\ Others(r) /\ req'[r].at = "waiting"
         /\ req'[r].owner = req[r].owner /\ req'[r].attempted = req[r].attempted
<1>1. ReqsTyped /\ reservation.owner \in Attempt
  BY DEF TypesIInv, ReservationIInv, ReqsTyped, WaitForMigration, Reserved, Reservation
<1> DEFINE rec == [req[r] EXCEPT !.at = "waiting", !.waitsFor = reservation.owner,
                                 !.target = Nobody, !.source = NoSource]
<1>2. req' = [req EXCEPT ![r] = rec]
  BY DEF WaitForMigration
<1>3. req[r] \in Request /\ "waiting" \in Places
  BY <1>1 DEF ReqsTyped, Places, Awaiting
<1>4. rec \in Request
  BY <1>1, <1>3 DEF Request
<1>5. rec.at = "waiting" /\ rec.owner = req[r].owner /\ rec.attempted = req[r].attempted
  BY <1>3 DEF Request
<1> HIDE DEF rec
<1>6. QED BY <1>1, <1>2, <1>4, <1>5, Put

NewAttempt(r, a) == [by |-> r, to |-> a, entry |-> req[r].source.entry]

\* A reservation makes a new attempt on the target.
LEMMA ReserveEffect ==
  ASSUME TypesIInv, NEW r \in Requests, Local(r), NEW a \in Accounts, Reserve(r, a)
  PROVE  /\ NewAttempt(r, a) \in Attempt
         /\ ReqsTyped' /\ Others(r) /\ req'[r].at = "top"
         /\ req'[r].owner = NewAttempt(r, a) /\ req'[r].target = a
         /\ req'[r].source = req[r].source /\ req'[r].attempted = req[r].attempted
<1>1. NewAttempt(r, a) \in Attempt
  BY DEF NewAttempt, Attempt, Reserve, Local, Trying, Source
<1> DEFINE rec == [req[r] EXCEPT !.at = "top", !.owner = NewAttempt(r, a), !.target = a]
<1>2. req' = [req EXCEPT ![r] = rec]
  BY DEF Reserve, NewAttempt
<1>3. ReqsTyped /\ req[r] \in Request /\ "top" \in Places
  BY DEF TypesIInv, ReqsTyped, Places
<1>4. rec \in Request
  BY <1>1, <1>3 DEF Request
<1>5. /\ rec.at = "top" /\ rec.owner = NewAttempt(r, a) /\ rec.target = a
      /\ rec.source = req[r].source /\ rec.attempted = req[r].attempted
  BY <1>3 DEF Request
<1> HIDE DEF rec
<1>6. QED BY <1>1, <1>2, <1>3, <1>4, <1>5, Put

\* The end of a cooldown changes of a request only what it knows to be cooling.
LEMMA CooldownEffect ==
  ASSUME TypesIInv, NEW a \in Accounts, CooldownEnds(a)
  PROVE  /\ ReqsTyped'
         /\ \A q \in Requests :
              /\ req'[q].at = req[q].at /\ req'[q].owner = req[q].owner
              /\ req'[q].target = req[q].target /\ req'[q].source = req[q].source
              /\ req'[q].attempted = req[q].attempted
<1>1. ReqsTyped /\ req' = [r \in Requests |-> [req[r] EXCEPT !.cooled = @ \ {a}]]
  BY DEF CooldownEnds, TypesIInv, ReqsTyped
<1>2. QED BY <1>1 DEF ReqsTyped, Request
-------------------------------------------------------------------------------
(* The barriers, and the requests' locals *)

\* Barrier numbers only grow, one at a time.
LEMMA BarriersGrow ==
  ASSUME TypesIInv, [Next]_vars
  PROVE  barriers' = barriers \/ barriers' = barriers + 1
<1>1. ASSUME NEW r \in Requests, Arrive(r) \/ PlaceAgain(r) \/ Commit(r)
      PROVE  barriers' = barriers \/ barriers' = barriers + 1
  BY <1>1 DEF Arrive, PlaceAgain, Commit, PlaceOn, WithBarrier, FreshBarrier
<1>2. ASSUME NEW r \in Requests, Step(r) \/ Cancel(r), ~PlaceAgain(r), ~Commit(r)
      PROVE  barriers' = barriers
  BY <1>2 DEF Step, Cancel, Woken, ReservationResolved, BeginAttempt, SkipAttempt, Connect,
     QuotaRefused, AttemptFails, Answered, OwnerAnswered, CommitLost, StreamEnds, TransportError,
     GiveUp, Exhausted, WaitForMigration, Reserve, shared
<1>3. CASE TaskMoves \/ Environment \/ UNCHANGED vars
  BY <1>3, TaskMovesKeep DEF Environment, RegistryRemoves, RouterRemoves,
     CooldownEnds, Evict, Expire, vars, shared
<1>4. QED BY <1>1, <1>2, <1>3 DEF Next, TaskMoves

\* A request that is left alone keeps its locals in order.
LEMMA LocalKept ==
  ASSUME TypesIInv, [Next]_vars, NEW r \in Requests, Local(r),
         req'[r].at = req[r].at, req'[r].owner = req[r].owner,
         req'[r].target = req[r].target, req'[r].source = req[r].source
  PROVE  Local(r)'
<1>1. barriers \in Nat /\ (barriers' = barriers \/ barriers' = barriers + 1)
  BY BarriersGrow DEF TypesIInv, TasksIInv
<1>2. QED BY <1>1 DEF Local, Owns

\* A step of a request keeps what it knows in agreement.
LEMMA RequestLocals ==
  ASSUME TypesIInv, [Next]_vars, NEW r \in Requests, Local(r),
         Arrive(r) \/ Step(r) \/ Cancel(r)
  PROVE  ReqsTyped' /\ Others(r) /\ Local(r)'
<1>1. ReqsTyped /\ barriers \in Nat /\ (barriers' = barriers \/ barriers' = barriers + 1)
  BY BarriersGrow DEF TypesIInv, TasksIInv
<1>2. CASE Ends(r)
  BY <1>1, <1>2, EndsEffect DEF Local, Trying, Owns
<1>3. CASE Arrive(r) /\ ~Ends(r)
  <2>1. GoesOn(r, "placed") /\ req[r].at = "new"
    BY <1>3, ArriveEffect DEF Arrive
  <2>2. QED BY <2>1 DEF GoesOn, Local, Trying, Owns
<1>4. CASE Streams(r) /\ Owns(r)
  BY <1>1, <1>4, StreamsEffect DEF Local, Trying, Owns
<1>5. CASE Woken(r) /\ req[r].at # "committed"
  <2>1. /\ ReqsTyped' /\ Others(r) /\ req'[r].at = "top"
        /\ req'[r].owner = IF req[r].at = "replaced" THEN NoAttempt ELSE req[r].owner
        /\ req[r].at \in {"placed", "replaced"}
    BY <1>5, WokenEffect DEF Woken
  <2>2. QED BY <2>1 DEF Local, Trying, Owns
<1>6. CASE ReservationResolved(r)
  <2>1. GoesOn(r, "top") /\ req[r].at = "waiting"
    BY <1>6, ResolvedEffect DEF ReservationResolved
  <2>2. QED BY <2>1 DEF GoesOn, Local, Trying, Owns
<1>7. CASE PlaceAgain(r) /\ ~Ends(r)
  <2>1. GoesOn(r, "replaced") /\ req[r].at = "top"
    BY <1>7, PlaceAgainEffect DEF PlaceAgain
  <2>2. QED BY <2>1 DEF GoesOn, Local, Trying, Owns
<1>8. CASE BeginAttempt(r) \/ SkipAttempt(r)
  <2>1. /\ ReqsTyped' /\ Others(r) /\ req'[r].at \in {"connecting", "pick"}
        /\ req'[r].owner = req[r].owner /\ req[r].at = "top"
        /\ Attempted(r) \in Accounts /\ req'[r].target = Attempted(r)
        /\ req'[r].source \in Source /\ req'[r].source.entry \in 1..barriers
    BY <1>8, AttemptEffect DEF BeginAttempt, SkipAttempt
  <2>2. Owns(r) => Attempted(r) = req[r].owner.to
    BY <2>1 DEF Local, Attempted
  <2>3. QED BY <1>1, <2>1, <2>2 DEF Local, Trying, Owns
<1>9. CASE Connect(r) \/ QuotaRefused(r) \/ AttemptFails(r)
  <2>1. PICK place \in {"upstream", "refused", "pick"} : Goes(r, place)
    BY <1>9 DEF Connect, QuotaRefused, AttemptFails
  <2>2. GoesOn(r, place) /\ req[r].at \in Trying
    BY <1>1, <1>9, <2>1, GoesEffect
       DEF Connect, QuotaRefused, AttemptFails, Places, Awaiting, Trying
  <2>3. QED BY <1>1, <2>2 DEF GoesOn, Local, Trying, Owns
<1>10. CASE Commit(r)
  <2>1. Owns(r) /\ ReqsTyped' /\ Others(r) /\ req'[r].at = "committed" /\ req'[r].owner = req[r].owner
    BY <1>10, CommitEffect DEF Commit
  <2>2. QED BY <2>1 DEF Local, Trying, Owns
<1>11. CASE GiveUp(r)
  <2>1. req[r].at = "pick"
    BY <1>11 DEF GiveUp
  <2>2. QED BY <1>1, <1>11, <2>1, GiveUpEffect DEF Local, Trying, Owns
<1>12. CASE WaitForMigration(r)
  <2>1. ~Owns(r)
    BY <1>12 DEF WaitForMigration
  <2>2. QED BY <1>12, <2>1, WaitEffect DEF Local, Trying, Owns
<1>13. CASE \E a \in Accounts : Reserve(r, a)
  <2>1. PICK a \in Accounts : Reserve(r, a)
    BY <1>13
  <2>2. /\ ReqsTyped' /\ Others(r) /\ req'[r].at = "top"
        /\ req'[r].owner = NewAttempt(r, a) /\ req'[r].target = a
    BY <2>1, ReserveEffect
  <2>3. QED BY <2>2 DEF Local, Trying, Owns, NewAttempt
<1>14. CASE Woken(r) /\ req[r].at = "committed"
  BY <1>4, <1>14 DEF Woken, Local
<1>15. CASE Step(r) /\ ~Woken(r)
  <2>1. CASE Answered(r) \/ StreamEnds(r) \/ TransportError(r) \/ Exhausted(r)
    BY <1>2, <2>1 DEF Answered, StreamEnds, TransportError, Exhausted
  <2>2. CASE OwnerAnswered(r) \/ CommitLost(r)
    BY <1>4, <2>2 DEF OwnerAnswered, CommitLost
  <2>3. QED BY <1>2, <1>6, <1>7, <1>8, <1>9, <1>10, <1>11, <1>12, <1>13, <1>15, <2>1, <2>2
            DEF Step
<1>16. QED BY <1>2, <1>3, <1>5, <1>14, <1>15 DEF Cancel, Step

\* Every step keeps what the requests know in agreement.
LEMMA NextLocals == ASSUME TypesIInv, LocalIInv, [Next]_vars PROVE ReqsTyped' /\ LocalIInv'
<1>1. ASSUME NEW r \in Requests, Arrive(r) \/ Step(r) \/ Cancel(r)
      PROVE  ReqsTyped' /\ LocalIInv'
  <2>1. ReqsTyped' /\ Others(r) /\ Local(r)'
    BY <1>1, RequestLocals DEF LocalIInv
  <2>2. \A q \in Requests : q # r => Local(q)'
    BY <2>1, LocalKept DEF Others, LocalIInv
  <2>3. QED BY <2>1, <2>2 DEF LocalIInv
<1>2. ASSUME NEW a \in Accounts, CooldownEnds(a)
      PROVE  ReqsTyped' /\ LocalIInv'
  BY <1>2, CooldownEffect, LocalKept DEF LocalIInv
<1>3. CASE UNCHANGED req
  BY <1>3, LocalKept DEF LocalIInv, TypesIInv, ReqsTyped
<1>4. QED BY <1>1, <1>2, <1>3, TaskMovesKeep DEF Next, TaskMoves, Environment, RegistryRemoves,
             RouterRemoves, Evict, Expire, vars
-------------------------------------------------------------------------------
(* What a step may do to the pin: keep its entry where it is, drop it for a reason, *)
(* place the session anew, or commit a migration.                                   *)

PinStays == barriers' = barriers /\ pin' \in {pin, Unreserved, Protected}
PinGone ==
  /\ barriers' = barriers /\ pin' = NoPin
  /\ Evict \/ Expire \/ removed # {} \/ \E a \in Accounts : RouterRemoves(a)
PinPlaced == ~Pinned /\ \E a \in Accounts : PlaceOn(a)
PinMoves == \E r \in Requests : Commit(r)

\* The pin stays, goes, is placed, or is moved by a commit.
LEMMA PinChanges ==
  ASSUME TypesIInv, [Next]_vars
  PROVE  PinStays \/ PinGone \/ PinPlaced \/ PinMoves
<1>1. ASSUME NEW r \in Requests, Arrive(r) \/ PlaceAgain(r)
      PROVE  PinStays \/ PinPlaced
  <2>1. ready \in SUBSET Accounts /\ req[r].known \in SUBSET Accounts
    BY DEF TypesIInv, RegistryIInv, ReqsTyped, Request
  <2>2. QED BY <1>1, <2>1 DEF Arrive, PlaceAgain, PinStays, PinPlaced
<1>2. ASSUME NEW r \in Requests, StreamEnds(r) \/ Cancel(r) \/ GiveUp(r) \/ CommitLost(r)
      PROVE  PinStays \/ PinGone
  BY <1>2 DEF StreamEnds, Cancel, GiveUp, CommitLost, OwnerTerminal, PreheaderFailure, PinStays,
     PinGone
<1>3. ASSUME NEW r \in Requests, NEW a \in Accounts, Reserve(r, a)
      PROVE  PinStays
  BY <1>3 DEF Reserve, PinStays
<1>4. ASSUME NEW r \in Requests, Step(r), ~PlaceAgain(r), ~Commit(r), ~StreamEnds(r), ~GiveUp(r),
             ~CommitLost(r), ~\E a \in Accounts : Reserve(r, a)
      PROVE  PinStays
  BY <1>4 DEF Step, Woken, ReservationResolved, BeginAttempt, SkipAttempt, Connect, QuotaRefused,
     AttemptFails, Answered, OwnerAnswered, TransportError, Exhausted, WaitForMigration, shared,
     PinStays
<1>5. ASSUME NEW a \in Accounts, RouterRemoves(a)
      PROVE  PinStays \/ PinGone
  BY <1>5 DEF RouterRemoves, PinStays, PinGone
<1>6. CASE \/ TaskMoves \/ Evict \/ Expire \/ UNCHANGED vars
           \/ \E a \in Accounts : RegistryRemoves(a) \/ CooldownEnds(a)
  BY <1>6, TaskMovesKeep DEF Evict, Expire, RegistryRemoves, CooldownEnds, vars,
     shared, PinStays, PinGone
<1>7. QED BY <1>1, <1>2, <1>3, <1>4, <1>5, <1>6 DEF Next, TaskMoves, Environment, PinMoves

\* A reservation made or resolved is a flag of the pin and nothing else.
LEMMA PinStaysSame ==
  ASSUME PinIInv, PinStays
  PROVE  /\ Pinned' <=> Pinned
         /\ pin'.account = pin.account /\ pin'.gen = pin.gen
         /\ pin'.barrier = pin.barrier /\ pin'.entry = pin.entry
         /\ PinIInv'
<1>1. CASE ~Pinned
  BY <1>1 DEF PinStays, Unreserved, Protected, Pinned, PinIInv
<1>2. CASE Pinned
  <2>1. pin \in Pin
    BY <1>2 DEF PinIInv, Pinned
  <2>2. /\ pin' \in Pin /\ pin'.account = pin.account /\ pin'.gen = pin.gen
        /\ pin'.barrier = pin.barrier /\ pin'.entry = pin.entry
    BY <1>2, <2>1 DEF PinStays, Unreserved, Protected, Pin
  <2>3. pin' # NoPin
    BY <2>2, Assumption DEF Pin, NoPin
  <2>4. QED BY <1>2, <2>2, <2>3 DEF PinStays, PinIInv, Pinned
<1>3. QED BY <1>1, <1>2

\* A placement is a new entry under a new barrier.
LEMMA PlacedPin ==
  ASSUME TypesIInv, NEW a \in Accounts, PlaceOn(a)
  PROVE  /\ PinIInv' /\ Pinned' /\ barriers' = barriers + 1
         /\ pin'.account = a /\ pin'.entry = barriers + 1 /\ pin'.barrier = barriers + 1
<1>1. barriers \in Nat
  BY DEF TypesIInv, TasksIInv
<1>2. QED BY <1>1, Assumption DEF PlaceOn, WithBarrier, FreshBarrier, PinIInv, Pinned, Pin, NoPin

\* A commit moves the pin to its target, one generation further.
LEMMA MovedPin ==
  ASSUME TypesIInv, NEW r \in Requests, Local(r), Commit(r)
  PROVE  /\ PinIInv' /\ Pinned /\ Pinned' /\ barriers' = barriers + 1
         /\ pin'.account = req[r].target /\ pin'.gen = pin.gen + 1
         /\ pin'.entry = pin.entry /\ pin'.barrier = barriers + 1
<1>1. barriers \in Nat /\ req[r].target \in Accounts /\ req[r].source.account \in Accounts
  BY DEF TypesIInv, TasksIInv, Local, Commit, Trying, Source
<1>2. pin.account \in Accounts
  BY <1>1 DEF Commit, CanCommit
<1>3. Pinned /\ pin \in Pin /\ pin.entry \in 1..barriers
  BY <1>2, Assumption DEF Pinned, NoPin, TypesIInv, PinIInv
<1>4. pin' = Moved(r) /\ barriers' = barriers + 1
  BY DEF Commit, WithBarrier, FreshBarrier
<1>5. /\ pin' \in Pin
      /\ pin'.account = req[r].target /\ pin'.gen = pin.gen + 1
      /\ pin'.entry = pin.entry /\ pin'.barrier = barriers + 1
  <2>1. pin' = [account |-> req[r].target, gen |-> pin.gen + 1, reserved |-> FALSE,
                barrier |-> barriers + 1, entry |-> pin.entry]
    BY <1>3, <1>4 DEF Moved, Pin, FreshBarrier
  <2>2. pin.gen \in Nat /\ pin.entry \in Nat
    BY <1>3 DEF Pin
  <2>3. QED BY <1>1, <2>1, <2>2 DEF Pin
<1>6. pin' # NoPin
  BY <1>5, Assumption DEF Pin, NoPin
<1>7. QED BY <1>1, <1>3, <1>4, <1>5, <1>6 DEF PinIInv, Pinned

\* Every step keeps the pin typed.
LEMMA NextPin == ASSUME TypesIInv, LocalIInv, [Next]_vars PROVE PinIInv'
<1>1. CASE PinStays
  BY <1>1, PinStaysSame DEF TypesIInv
<1>2. CASE PinGone
  BY <1>2 DEF PinGone, PinIInv, Pinned
<1>3. CASE PinPlaced
  BY <1>3, PlacedPin DEF PinPlaced
<1>4. CASE PinMoves
  BY <1>4, MovedPin DEF PinMoves, LocalIInv
<1>5. QED BY <1>1, <1>2, <1>3, <1>4, PinChanges
-------------------------------------------------------------------------------
(* The durability tasks and the durable row *)

\* Only remove_account takes an account for removed.
LEMMA RemovedKept ==
  ASSUME [Next]_vars, \A a \in Accounts : ~RouterRemoves(a)
  PROVE  removed' = removed
<1>1. ASSUME NEW r \in Requests, Arrive(r) \/ Step(r) \/ Cancel(r)
      PROVE  removed' = removed
  BY <1>1 DEF Arrive, Step, Cancel, Woken, ReservationResolved, PlaceAgain, BeginAttempt,
     SkipAttempt, Connect, QuotaRefused, AttemptFails, Answered, OwnerAnswered, Commit, CommitLost,
     StreamEnds, TransportError, GiveUp, Exhausted, WaitForMigration, Reserve, shared
<1>2. CASE \/ TaskMoves \/ Evict \/ Expire \/ UNCHANGED vars
           \/ \E a \in Accounts : RegistryRemoves(a) \/ CooldownEnds(a)
  BY <1>2, TaskMovesKeep DEF Evict, Expire, RegistryRemoves, CooldownEnds, vars, shared
<1>3. QED BY <1>1, <1>2 DEF Next, TaskMoves, Environment

\* A barrier is new with its task; a deletion takes rows and queued writes; else
\* one task moves at a time.
TasksStay == UNCHANGED <<tasks, resolved, failed, barriers, row>>
TaskAdded == WithBarrier /\ UNCHANGED <<resolved, failed, row>>
RowsGone ==
  /\ UNCHANGED <<resolved, failed, barriers>>
  /\ \/ Evict /\ RowsGo(Accounts)
     \/ \E a \in Accounts : RouterRemoves(a) /\ RowsGo({a})

\* How a step changes the durability tasks.
LEMMA TasksChange ==
  ASSUME [Next]_vars
  PROVE  TasksStay \/ TaskAdded \/ RowsGone \/ \E t \in tasks : TaskMove(t)
<1>1. ASSUME NEW r \in Requests, Arrive(r) \/ PlaceAgain(r) \/ Commit(r)
      PROVE  TasksStay \/ TaskAdded
  BY <1>1 DEF Arrive, PlaceAgain, Commit, PlaceOn, TasksStay, TaskAdded
<1>2. ASSUME NEW r \in Requests, Step(r) \/ Cancel(r), ~PlaceAgain(r), ~Commit(r)
      PROVE  TasksStay
  BY <1>2 DEF Step, Cancel, Woken, ReservationResolved, BeginAttempt, SkipAttempt, Connect,
     QuotaRefused, AttemptFails, Answered, OwnerAnswered, CommitLost, StreamEnds, TransportError,
     GiveUp, Exhausted, WaitForMigration, Reserve, shared, TasksStay
<1>3. CASE Expire \/ UNCHANGED vars \/ \E a \in Accounts : RegistryRemoves(a) \/ CooldownEnds(a)
  BY <1>3 DEF RegistryRemoves, CooldownEnds, Expire, vars, shared, TasksStay
<1>4. CASE Evict \/ \E a \in Accounts : RouterRemoves(a)
  BY <1>4 DEF RouterRemoves, Evict, RowsGone
<1>5. CASE TaskMoves
  BY <1>5 DEF TaskMoves, TaskSteps, TaskFaults, TaskMove
<1>6. QED BY <1>1, <1>2, <1>3, <1>4, <1>5 DEF Next, TaskMoves, Environment

\* What a deletion leaves of the rows: a task's queued write is kept or deleted.
LEMMA RowsGoEffect ==
  ASSUME NEW accounts, RowsGo(accounts), TasksIInv, row \in Row \cup {NoRow}
  PROVE  /\ row' = IF row.account \in accounts THEN NoRow ELSE row
         /\ \A u \in tasks' : \E t \in tasks :
              /\ u \in Task(barriers)
              /\ u.spawned = t.spawned /\ u.writes = t.writes /\ u.seen = t.seen
              /\ u.queued = IF t.queued.account \in accounts THEN NoRow ELSE t.queued
              /\ u = [t EXCEPT !.queued = u.queued]
<1>1. row' = IF row.account \in accounts THEN NoRow ELSE row
  BY DEF RowsGo
<1>2. ASSUME NEW u \in tasks'
      PROVE  \E t \in tasks :
               /\ u \in Task(barriers)
               /\ u.spawned = t.spawned /\ u.writes = t.writes /\ u.seen = t.seen
               /\ u.queued = IF t.queued.account \in accounts THEN NoRow ELSE t.queued
               /\ u = [t EXCEPT !.queued = u.queued]
  <2> DEFINE Left(q) == IF q.account \in accounts THEN NoRow ELSE q
  <2>1. PICK t \in tasks : u = [t EXCEPT !.queued = Left(@)]
    BY <1>2 DEF RowsGo
  <2>2. t \in Task(barriers)
    BY DEF TasksIInv
  <2>3. Left(t.queued) \in Row \cup {NoRow}
    BY <2>2 DEF Task
  <2>4. u = [t EXCEPT !.queued = Left(t.queued)]
    BY <2>1
  <2>5. Left(t.queued) = IF t.queued.account \in accounts THEN NoRow ELSE t.queued
    OBVIOUS
  <2> HIDE DEF Left
  <2>6. /\ u \in Task(barriers) /\ u.queued = Left(t.queued)
        /\ u.spawned = t.spawned /\ u.writes = t.writes /\ u.seen = t.seen
    BY <2>2, <2>3, <2>4 DEF Task
  <2>7. u = [t EXCEPT !.queued = u.queued]
    BY <2>4, <2>6
  <2>8. QED BY <2>5, <2>6, <2>7
<1>3. QED BY <1>1, <1>2

\* A task that starts reads the pin's barrier and queues what the pin says.
Started(t) == [t EXCEPT !.writes = pin.barrier, !.seen = NothingSeen, !.queued = PinRow]
LEMMA StartedEffect ==
  ASSUME TypesIInv, Pinned, NEW t \in tasks
  PROVE  /\ Started(t) \in Task(barriers)
         /\ Started(t).spawned = t.spawned /\ Started(t).writes = barriers
         /\ Started(t).queued = PinRow /\ PinRow # NoRow
<1>1. pin \in Pin /\ pin.barrier = barriers /\ barriers \in Nat /\ t \in Task(barriers)
  BY DEF TypesIInv, PinIInv, TasksIInv, Pinned
<1>2. NothingSeen \in [Requests -> Places \X SUBSET Accounts]
  BY DEF NothingSeen, Places
<1>3. PinRow \in Row /\ PinRow # NoRow
  BY <1>1, Assumption DEF PinRow, Row, NoRow, Pin
<1>4. t.spawned \in 1..barriers /\ barriers \in 0..barriers
  BY <1>1 DEF Task
<1>5. Started(t) = [spawned |-> t.spawned, writes |-> barriers, queued |-> PinRow,
                    seen |-> NothingSeen]
  <2>1. DOMAIN t = {"spawned", "writes", "queued", "seen"}
    BY <1>1 DEF Task
  <2>2. Started(t) = [x \in {"spawned", "writes", "queued", "seen"} |->
          CASE x = "writes" -> barriers [] x = "seen" -> NothingSeen [] x = "queued" -> PinRow
            [] OTHER -> t[x]]
    BY <1>1, <2>1 DEF Started
  <2>3. QED BY <2>1, <2>2
<1>6. QED BY <1>2, <1>3, <1>4, <1>5 DEF Task

\* A task whose write is settled keeps the rest.
Quiet(t) == [t EXCEPT !.queued = NoRow]
LEMMA QuietEffect ==
  ASSUME TasksIInv, NEW t \in tasks
  PROVE  /\ Quiet(t) \in Task(barriers)
         /\ Quiet(t).spawned = t.spawned /\ Quiet(t).writes = t.writes /\ Quiet(t).queued = NoRow
<1>1. t \in Task(barriers)
  BY DEF TasksIInv
<1>2. QED BY <1>1 DEF Quiet, Task

\* What one task's step does to the tasks.
LEMMA TaskMoveTasks ==
  ASSUME NEW t \in tasks, TaskMove(t)
  PROVE  \/ tasks' = (tasks \ {t}) \cup {Started(t)} /\ Pinned /\ First(t)
         \/ tasks' = (tasks \ {t}) \cup {Quiet(t)} /\ t.queued # NoRow
         \/ tasks' = tasks \ {t}
BY DEF TaskMove, TaskStarts, NotSubmitted, WriteCommits, WriteFails, TaskEnds, Started, Quiet, PinRow,
       Pending

\* Every step keeps the durability tasks typed.
LEMMA NextTasks ==
  ASSUME TypesIInv, QueueIInv, [Next]_vars
  PROVE  TasksIInv' /\ row' \in Row \cup {NoRow}
<1>1. barriers \in Nat /\ TasksIInv /\ row \in Row \cup {NoRow}
  BY DEF TypesIInv, TasksIInv, RestIInv
<1>2. CASE TasksStay
  BY <1>1, <1>2 DEF TasksStay, TasksIInv
<1>3. CASE TaskAdded
  <2>1. Progress \in [Requests -> Places \X SUBSET Accounts]
    BY DEF Progress, TypesIInv, ReqsTyped, Request
  <2>2. /\ barriers' = barriers + 1
        /\ 1..barriers \subseteq 1..barriers' /\ 0..barriers \subseteq 0..barriers'
    BY <1>1, <1>3 DEF TaskAdded, WithBarrier, FreshBarrier
  <2>3. [spawned |-> FreshBarrier, writes |-> 0, queued |-> NoRow, seen |-> Progress] \in Task(barriers')
    BY <1>1, <2>1, <2>2 DEF FreshBarrier, Task
  <2>4. tasks \in SUBSET Task(barriers')
    BY <1>1, <2>2 DEF TasksIInv, Task
  <2>5. tasks' \in SUBSET Task(barriers')
    BY <1>3, <2>3, <2>4 DEF TaskAdded, WithBarrier
  <2>6. QED BY <1>1, <1>3, <2>2, <2>5 DEF TaskAdded, TasksIInv
<1>4. CASE RowsGone
  <2>1. tasks' \in SUBSET Task(barriers) /\ row' \in Row \cup {NoRow}
    BY <1>1, <1>4, RowsGoEffect DEF RowsGone
  <2>2. QED BY <1>1, <1>4, <2>1 DEF RowsGone, TasksIInv
<1>5. ASSUME NEW t \in tasks, TaskMove(t)
      PROVE  TasksIInv' /\ row' \in Row \cup {NoRow}
  <2>1. barriers' = barriers
    BY <1>5, TaskMovesKeep DEF TaskMoves, TaskSteps, TaskFaults, TaskMove
  <2>2. tasks' \in SUBSET Task(barriers)
    BY <1>1, <1>5, TaskMoveTasks, StartedEffect, QuietEffect DEF TasksIInv
  <2>3. t \in Task(barriers) /\ t.writes \in 0..barriers /\ t.queued \in Row \cup {NoRow}
    BY <1>1 DEF TasksIInv, Task
  <2>4. t.writes # 0 => t.writes \in 1..barriers
    BY <1>1, <2>3
  <2>5. Pinned => pin.barrier \in 1..barriers
    BY <1>1 DEF TypesIInv, PinIInv
  <2>6. t \notin Waiting => t.writes \in 1..barriers
    BY <2>4 DEF Waiting
  <2>7. t \in Pending => t.writes \in 1..barriers
    BY <2>4 DEF Pending, QueueIInv
  <2>8. resolved' \in SUBSET (1..barriers)
    BY <1>1, <1>5, <2>5, <2>6
    DEF TaskMove, TaskStarts, NotSubmitted, WriteCommits, WriteFails, TaskEnds, TasksIInv
  <2>9. failed' \in SUBSET (1..barriers)
    BY <1>1, <1>5, <2>5, <2>7
    DEF TaskMove, TaskStarts, NotSubmitted, WriteCommits, WriteFails, TaskEnds, TasksIInv
  <2>10. row' \in Row \cup {NoRow}
    BY <1>1, <1>5, <2>3
    DEF TaskMove, TaskStarts, NotSubmitted, WriteCommits, WriteFails, TaskEnds
  <2>11. QED BY <1>1, <2>1, <2>2, <2>8, <2>9, <2>10 DEF TasksIInv
<1>6. QED BY <1>2, <1>3, <1>4, <1>5, TasksChange

\* What QueueIInv says of two tasks.
InOrder(s, t) ==
  /\ s.spawned = t.spawned => s = t
  /\ s.writes # 0 /\ t.writes = 0 => s.spawned < t.spawned
  /\ s.writes # 0 /\ t.writes # 0 /\ s.spawned <= t.spawned => s.writes <= t.writes

\* Every step keeps the queue of the writes in order.
LEMMA NextQueue ==
  ASSUME TypesIInv, QueueIInv, [Next]_vars
  PROVE  QueueIInv'
<1>1. TasksIInv /\ barriers \in Nat /\ row \in Row \cup {NoRow}
  BY DEF TypesIInv, TasksIInv, RestIInv
<1>2. \A t \in tasks : /\ t \in Task(barriers) /\ t.spawned \in 1..barriers
                       /\ t.writes \in 0..barriers
  BY <1>1 DEF TasksIInv, Task
<1>3. \A s, t \in tasks : InOrder(s, t)
  BY DEF QueueIInv, InOrder
<1>4. SUFFICES /\ \A t \in tasks' : t.writes = 0 => t.queued = NoRow
               /\ \A s, t \in tasks' : InOrder(s, t)
  BY DEF QueueIInv, InOrder
<1>5. CASE TasksStay
  BY <1>3, <1>5 DEF TasksStay, QueueIInv
<1>6. CASE TaskAdded
  <2> DEFINE new == [spawned |-> FreshBarrier, writes |-> 0, queued |-> NoRow, seen |-> Progress]
  <2>1. tasks' = tasks \cup {new}
    BY <1>6 DEF TaskAdded, WithBarrier
  <2>2. new.spawned = barriers + 1 /\ new.writes = 0 /\ new.queued = NoRow
    BY DEF FreshBarrier
  <2> HIDE DEF new
  <2>3. \A t \in tasks : InOrder(new, t) /\ InOrder(t, new)
    BY <1>1, <1>2, <2>2 DEF InOrder
  <2>4. InOrder(new, new)
    BY <2>2 DEF InOrder
  <2>5. QED BY <1>3, <2>1, <2>2, <2>3, <2>4 DEF QueueIInv
<1>7. ASSUME NEW accounts, RowsGo(accounts)
      PROVE  /\ \A t \in tasks' : t.writes = 0 => t.queued = NoRow
             /\ \A s, t \in tasks' : InOrder(s, t)
  <2>1. ASSUME NEW u \in tasks', u.writes = 0 PROVE u.queued = NoRow
    BY <1>1, <1>7, <2>1, RowsGoEffect DEF QueueIInv
  <2>2. ASSUME NEW u \in tasks', NEW v \in tasks' PROVE InOrder(u, v)
    <3>1. PICK s \in tasks :
             /\ u.spawned = s.spawned /\ u.writes = s.writes
             /\ u.queued = IF s.queued.account \in accounts THEN NoRow ELSE s.queued
             /\ u = [s EXCEPT !.queued = u.queued]
      BY <1>1, <1>7, RowsGoEffect
    <3>2. PICK t \in tasks :
             /\ v.spawned = t.spawned /\ v.writes = t.writes
             /\ v.queued = IF t.queued.account \in accounts THEN NoRow ELSE t.queued
             /\ v = [t EXCEPT !.queued = v.queued]
      BY <1>1, <1>7, RowsGoEffect
    <3>3. InOrder(s, t)
      BY <1>3
    <3>4. s = t => u = v
      BY <3>1, <3>2
    <3>5. QED BY <3>1, <3>2, <3>3, <3>4 DEF InOrder
  <2>3. QED BY <2>1, <2>2
<1>8. ASSUME NEW t \in tasks, TaskMove(t)
      PROVE  /\ \A u \in tasks' : u.writes = 0 => u.queued = NoRow
             /\ \A s, u \in tasks' : InOrder(s, u)
  <2>1. CASE tasks' = (tasks \ {t}) \cup {Started(t)} /\ Pinned /\ First(t)
    <3>1. /\ Started(t).spawned = t.spawned /\ Started(t).writes = barriers
          /\ barriers \in 1..barriers
      BY <1>1, <2>1, StartedEffect DEF TypesIInv, PinIInv
    <3>2. ASSUME NEW s \in tasks \ {t} PROVE InOrder(s, Started(t)) /\ InOrder(Started(t), s)
      <4>1. /\ InOrder(s, t) /\ InOrder(t, s) /\ s # t /\ t.writes = 0
            /\ s.writes = 0 => t.spawned <= s.spawned
        BY <1>3, <2>1, <3>2 DEF First, Waiting
      <4>2. /\ s.spawned \in 1..barriers /\ t.spawned \in 1..barriers
            /\ s.writes \in 0..barriers
        BY <1>2
      <4>3. QED BY <1>1, <3>1, <4>1, <4>2 DEF InOrder
    <3>3. InOrder(Started(t), Started(t))
      BY <3>1 DEF InOrder
    <3>4. Started(t).writes # 0
      BY <3>1
    <3>5. QED BY <1>3, <2>1, <3>2, <3>3, <3>4 DEF QueueIInv
  <2>2. CASE tasks' = (tasks \ {t}) \cup {Quiet(t)}
    <3>1. /\ Quiet(t).spawned = t.spawned /\ Quiet(t).writes = t.writes
          /\ Quiet(t).queued = NoRow
      BY <1>1, QuietEffect
    <3>2. ASSUME NEW s \in tasks \ {t} PROVE InOrder(s, Quiet(t)) /\ InOrder(Quiet(t), s)
      <4>1. InOrder(s, t) /\ InOrder(t, s) /\ s # t
        BY <1>3, <3>2
      <4>2. QED BY <3>1, <4>1 DEF InOrder
    <3>3. InOrder(Quiet(t), Quiet(t))
      BY <1>2, <3>1 DEF InOrder
    <3>4. QED BY <1>3, <2>2, <3>1, <3>2, <3>3 DEF QueueIInv
  <2>3. CASE tasks' = tasks \ {t}
    BY <1>3, <2>3 DEF QueueIInv
  <2>4. QED BY <1>8, <2>1, <2>2, <2>3, TaskMoveTasks
<1>9. QED BY <1>5, <1>6, <1>7, <1>8, TasksChange DEF RowsGone

\* What DurableIInv says of the writes of the pin's generation.
OwnWrites == \A t \in tasks : t.writes = pin.barrier => t.queued \in {PinRow, NoRow}
WriteDone ==
  Settled => \/ pin.barrier \in failed
             \/ row = PinRow /\ \A t \in Pending : t.writes = pin.barrier

\* A barrier that is new has no write yet.
LEMMA FreshBarrierUnknown ==
  ASSUME TasksIInv, TaskAdded, pin'.barrier = barriers + 1
  PROVE  OwnWrites' /\ ~Settled'
<1>1. barriers \in Nat /\ barriers + 1 \notin resolved'
  BY DEF TasksIInv, TaskAdded
<1>2. \A t \in tasks : t.writes \in 0..barriers
  BY DEF TasksIInv, Task
<1>3. \A t \in tasks' : t.writes # barriers + 1
  BY <1>1, <1>2 DEF TaskAdded, WithBarrier
<1>4. QED BY <1>1, <1>3 DEF OwnWrites, Settled

\* A task's step keeps what the writes of the pin's generation hold.
LEMMA TaskMoveDurable ==
  ASSUME TypesIInv, QueueIInv, Pinned, OwnWrites, WriteDone, UNCHANGED pin,
         NEW t \in tasks, TaskMove(t)
  PROVE  OwnWrites' /\ WriteDone'
<1>1. TasksIInv /\ pin.barrier = barriers /\ barriers \in Nat /\ PinRow' = PinRow
  BY DEF TypesIInv, PinIInv, TasksIInv, PinRow
<1>2. \A s \in tasks : s.spawned \in 1..barriers /\ s.writes \in 0..barriers
  BY <1>1 DEF TasksIInv, Task
<1>3. CASE TaskStarts(t)
  <2>1. tasks' = (tasks \ {t}) \cup {Started(t)}
    BY <1>3 DEF TaskStarts, Started, PinRow
  <2>2. Started(t).writes = pin.barrier /\ Started(t).queued = PinRow /\ PinRow # NoRow
    BY <1>1, StartedEffect
  <2>3. Settled' => Settled
    BY <1>3, <2>1, <2>2 DEF Settled, Pending, TaskStarts
  <2>4. \A s \in Pending' : s \in Pending \/ s.writes = pin.barrier
    BY <2>1, <2>2 DEF Pending
  <2>5. OwnWrites'
    BY <1>1, <2>1, <2>2 DEF OwnWrites
  <2>6. QED BY <1>1, <1>3, <2>3, <2>4, <2>5 DEF WriteDone, TaskStarts
<1>4. CASE NotSubmitted(t)
  BY <1>1, <1>4 DEF NotSubmitted, OwnWrites, WriteDone
<1>5. CASE WriteCommits(t)
  <2>1. tasks' = (tasks \ {t}) \cup {Quiet(t)} /\ t \in Pending /\ row' = t.queued
    BY <1>5 DEF WriteCommits, Quiet
  <2>2. Quiet(t).writes = t.writes /\ Quiet(t).queued = NoRow
    BY <1>1, QuietEffect
  <2>3. OwnWrites'
    BY <1>1, <2>1, <2>2 DEF OwnWrites
  <2>4. Pending' \subseteq Pending
    BY <2>1, <2>2 DEF Pending
  <2>5. CASE t.writes = pin.barrier
    <3>1. row' = PinRow
      BY <2>1, <2>5 DEF OwnWrites, Pending
    <3>2. ASSUME NEW s \in Pending PROVE s.writes = pin.barrier
      <4>1. t.spawned <= s.spawned /\ s \in tasks /\ s.writes # 0 /\ t.writes # 0
        BY <1>5, <2>1 DEF WriteCommits, QueueIInv, Pending
      <4>2. t.writes <= s.writes
        BY <4>1 DEF QueueIInv
      <4>3. QED BY <1>1, <1>2, <2>5, <4>1, <4>2
    <3>3. QED BY <1>1, <2>3, <2>4, <3>1, <3>2 DEF WriteDone
  <2>6. CASE t.writes # pin.barrier
    <3>1. Settled' => Settled
      BY <1>5, <2>1, <2>2, <2>6 DEF Settled, Pending, WriteCommits
    <3>2. Settled' => pin.barrier \in failed'
      BY <1>5, <2>1, <2>6, <3>1 DEF WriteDone, WriteCommits
    <3>3. QED BY <2>3, <3>2 DEF WriteDone
  <2>7. QED BY <2>5, <2>6
<1>6. CASE WriteFails(t)
  <2>1. /\ tasks' = (tasks \ {t}) \cup {Quiet(t)}
        /\ failed' = failed \cup {t.writes} /\ row' = row /\ resolved' = resolved
    BY <1>6 DEF WriteFails, Quiet
  <2>2. Quiet(t).writes = t.writes /\ Quiet(t).queued = NoRow
    BY <1>1, QuietEffect
  <2>3. OwnWrites' /\ Pending' \subseteq Pending
    BY <1>1, <2>1, <2>2 DEF OwnWrites, Pending
  <2>4. t.writes # pin.barrier /\ Settled' => Settled
    BY <2>1, <2>2 DEF Settled, Pending
  <2>5. QED BY <1>1, <2>1, <2>3, <2>4 DEF WriteDone
<1>7. CASE TaskEnds(t)
  <2>1. /\ tasks' = tasks \ {t} /\ t \notin Pending /\ row' = row /\ failed' = failed
        /\ resolved' = resolved \cup {t.writes}
    BY <1>7 DEF TaskEnds
  <2>2. Settled' => Settled
    BY <2>1 DEF Settled, Pending
  <2>3. QED BY <1>1, <2>1, <2>2 DEF OwnWrites, WriteDone, Pending
<1>8. QED BY <1>3, <1>4, <1>5, <1>6, <1>7 DEF TaskMove

\* The deletion of other accounts' rows keeps them too.
LEMMA RowsGoDurable ==
  ASSUME TypesIInv, Pinned, OwnWrites, WriteDone, UNCHANGED <<resolved, failed>>,
         NEW accounts, RowsGo(accounts), pin.account \notin accounts,
         PinRow' = PinRow, pin'.barrier = pin.barrier
  PROVE  OwnWrites' /\ WriteDone'
<1>1. TasksIInv /\ row \in Row \cup {NoRow} /\ PinRow.account = pin.account
  BY DEF TypesIInv, RestIInv, PinRow
<1>2. PinRow # NoRow
  BY Assumption DEF TypesIInv, PinIInv, Pinned, Pin, PinRow, NoRow
<1>3. \A u \in tasks' : \E t \in tasks :
         /\ u.writes = t.writes
         /\ u.queued = IF t.queued.account \in accounts THEN NoRow ELSE t.queued
  BY <1>1, RowsGoEffect
<1>4. OwnWrites'
  BY <1>3 DEF OwnWrites
<1>5. \A u \in Pending' : \E t \in Pending : u.writes = t.writes
  BY <1>3 DEF Pending
<1>6. Settled' => Settled
  <2>1. ASSUME NEW u \in tasks' \ Pending', u.writes = pin.barrier
        PROVE  \E t \in tasks \ Pending : t.writes = pin.barrier
    <3>1. PICK t \in tasks :
            /\ u.writes = t.writes
            /\ u.queued = IF t.queued.account \in accounts THEN NoRow ELSE t.queued
      BY <1>3
    <3>2. t.queued \in {PinRow, NoRow} /\ u.queued = NoRow
      BY <2>1, <3>1 DEF OwnWrites, Pending
    <3>3. t.queued = NoRow
      BY <1>1, <1>2, <3>1, <3>2
    <3>4. QED BY <2>1, <3>1, <3>3 DEF Pending
  <2>2. QED BY <2>1 DEF Settled
<1>7. row = PinRow => row' = PinRow
  BY <1>1, RowsGoEffect
<1>8. QED BY <1>4, <1>5, <1>6, <1>7 DEF WriteDone

\* Every step keeps a resolved barrier durable, or its write failed.
LEMMA NextDurable ==
  ASSUME TypesIInv, LocalIInv, QueueIInv, DurableIInv, [Next]_vars
  PROVE  DurableIInv'
<1> SUFFICES ASSUME Pinned', pin'.account \notin removed' PROVE OwnWrites' /\ WriteDone'
  BY DEF DurableIInv, OwnWrites, WriteDone
<1>1. TasksIInv /\ PinIInv /\ barriers \in Nat
  BY DEF TypesIInv, TasksIInv
<1>2. removed \subseteq removed'
  BY RemovedKept DEF RouterRemoves
<1>3. CASE barriers' # barriers
  <2>1. TaskAdded
    BY <1>3, TasksChange, TaskMovesKeep
    DEF TasksStay, RowsGone, TaskMoves, TaskSteps, TaskFaults, TaskMove
  <2>2. pin'.barrier = barriers + 1
    BY <1>3, PinChanges, PlacedPin, MovedPin DEF PinStays, PinGone, PinPlaced, PinMoves, LocalIInv
  <2>3. QED BY <1>1, <2>1, <2>2, FreshBarrierUnknown DEF WriteDone
<1>4. CASE barriers' = barriers
  <2>1. PinStays
    BY <1>1, <1>4, PinChanges, PlacedPin, MovedPin
    DEF PinGone, PinPlaced, PinMoves, LocalIInv, Pinned
  <2>2. /\ Pinned /\ pin'.account = pin.account /\ pin'.gen = pin.gen
        /\ pin'.barrier = pin.barrier /\ pin.account \notin removed
    BY <1>1, <1>2, <2>1, PinStaysSame
  <2>3. OwnWrites /\ WriteDone /\ PinRow' = PinRow
    BY <2>2 DEF DurableIInv, OwnWrites, WriteDone, PinRow
  <2>4. CASE TasksStay
    BY <2>2, <2>3, <2>4 DEF TasksStay, OwnWrites, WriteDone, Settled, Pending
  <2>5. CASE RowsGone
    <3>1. ~Evict
      BY <2>1 DEF Evict, PinStays, Unreserved, Protected, Pinned
    <3>2. PICK a \in Accounts : RouterRemoves(a) /\ RowsGo({a})
      BY <2>5, <3>1 DEF RowsGone
    <3>3. pin.account # a
      BY <2>2, <3>2 DEF RouterRemoves
    <3>4. QED BY <2>2, <2>3, <2>5, <3>2, <3>3, RowsGoDurable DEF RowsGone
  <2>6. ASSUME NEW t \in tasks, TaskMove(t) PROVE OwnWrites' /\ WriteDone'
    <3>1. pin' = pin
      BY <2>6, TaskMovesKeep DEF TaskMoves, TaskSteps, TaskFaults, TaskMove
    <3>2. QED BY <2>2, <2>3, <2>6, <3>1, TaskMoveDurable
  <2>7. ~TaskAdded
    BY <1>1, <1>4 DEF TaskAdded, WithBarrier, FreshBarrier
  <2>8. QED BY <2>4, <2>5, <2>6, <2>7, TasksChange
<1>5. QED BY <1>3, <1>4
-------------------------------------------------------------------------------
(* The registry, the reservation and the rest of the types *)

\* Every step keeps the registry of accounts typed.
LEMMA NextRegistry ==
  ASSUME TypesIInv, LocalIInv, [Next]_vars
  PROVE  RegistryIInv'
<1>1. RegistryIInv
  BY DEF TypesIInv
<1>2. ASSUME NEW r \in Requests, QuotaRefused(r) PROVE RegistryIInv'
  <2>1. req[r].target \in Accounts
    BY <1>2 DEF QuotaRefused, LocalIInv, Local, Trying
  <2>2. QED BY <1>1, <1>2, <2>1 DEF QuotaRefused, RegistryIInv
<1>3. ASSUME NEW r \in Requests, Arrive(r) \/ Step(r) \/ Cancel(r), ~QuotaRefused(r)
      PROVE  RegistryIInv'
  BY <1>1, <1>3 DEF Arrive, Step, Cancel, Woken, ReservationResolved, PlaceAgain, BeginAttempt,
     SkipAttempt, Connect, AttemptFails, Answered, OwnerAnswered, Commit, CommitLost, StreamEnds,
     TransportError, GiveUp, Exhausted, WaitForMigration, Reserve, shared, RegistryIInv
<1>4. CASE TaskMoves \/ Environment \/ UNCHANGED vars
  BY <1>1, <1>4, TaskMovesKeep DEF Environment, RegistryRemoves, RouterRemoves,
     CooldownEnds, Evict, Expire, vars, shared, RegistryIInv
<1>5. QED BY <1>2, <1>3, <1>4 DEF Next, TaskMoves

\* What a step may do to the reservation: keep it, resolve it, or make one when
\* there is none.
LEMMA ReservationChanges ==
  ASSUME [Next]_vars
  PROVE  \/ reservation' = reservation
         \/ reservation' = NoReservation
         \/ \E r \in Requests, a \in Accounts : Reserve(r, a)
<1>1. ASSUME NEW r \in Requests, Arrive(r) \/ Step(r) \/ Cancel(r), ~\E a \in Accounts : Reserve(r, a)
      PROVE  reservation' = reservation \/ reservation' = NoReservation
  BY <1>1 DEF Arrive, Step, Cancel, Woken, ReservationResolved, PlaceAgain, BeginAttempt,
              SkipAttempt,
     Connect, QuotaRefused, AttemptFails, Answered, OwnerAnswered, Commit, CommitLost, StreamEnds,
     TransportError, GiveUp, Exhausted, WaitForMigration, shared, OwnerTerminal, PreheaderFailure
<1>2. CASE TaskMoves \/ Environment \/ UNCHANGED vars
  BY <1>2, TaskMovesKeep DEF Environment, RegistryRemoves, RouterRemoves,
     CooldownEnds, Evict, Expire, vars, shared
<1>3. QED BY <1>1, <1>2 DEF Next, TaskMoves

\* Every step keeps the reservation typed.
LEMMA NextReservation ==
  ASSUME TypesIInv, LocalIInv, [Next]_vars
  PROVE  ReservationIInv'
<1>1. ASSUME NEW r \in Requests, NEW a \in Accounts, Reserve(r, a)
      PROVE  reservation' \in Reservation
  <2>1. req[r].source \in Source /\ req[r].source.entry \in 1..barriers
    BY <1>1 DEF Reserve, LocalIInv, Local, Trying
  <2>2. pin.entry = req[r].source.entry => pin \in Pin
    BY <2>1 DEF TypesIInv, TasksIInv, PinIInv, NoPin
  <2>3. SourceOf(r).account \in Accounts /\ SourceOf(r).gen \in Nat
    BY <2>1, <2>2 DEF SourceOf, PinRead, Source, Pin
  <2>4. NewAttempt(r, a) \in Attempt
    BY <1>1, ReserveEffect DEF LocalIInv
  <2>5. reservation' = [source |-> SourceOf(r).account, gen |-> SourceOf(r).gen,
                        owner |-> NewAttempt(r, a)]
    BY <1>1 DEF Reserve, NewAttempt
  <2>6. QED BY <2>3, <2>4, <2>5 DEF Reservation
<1>2. QED BY <1>1, ReservationChanges DEF TypesIInv, ReservationIInv

\* Every step keeps the turn and the faults typed.
LEMMA NextRest ==
  ASSUME TypesIInv, [Next]_vars
  PROVE  turn' \in Requests \cup {Nobody} /\ faults' \in [count : 0..MaxFaults, calm : BOOLEAN]
<1>1. turn \in Requests \cup {Nobody} /\ faults \in [count : 0..MaxFaults, calm : BOOLEAN]
  BY DEF TypesIInv, RestIInv
<1>2. ASSUME NEW kind, Fault(kind)
      PROVE  faults' \in [count : 0..MaxFaults, calm : BOOLEAN]
  <2>1. faults.count + 1 \in 0..MaxFaults /\ (faults.calm /\ kind \in {"cancel", "store"}) \in BOOLEAN
    BY <1>1, <1>2, Assumption DEF Fault
  <2>2. QED BY <1>2, <2>1 DEF Fault
<1>3. ASSUME NEW r \in Requests, Arrive(r) \/ Step(r) \/ Cancel(r)
      PROVE  turn' \in Requests \cup {Nobody} /\ faults' \in [count : 0..MaxFaults, calm : BOOLEAN]
  BY <1>1, <1>2, <1>3 DEF Arrive, Step, Cancel, Woken, ReservationResolved, PlaceAgain,
                          BeginAttempt,
     SkipAttempt, Connect, QuotaRefused, AttemptFails, Answered, OwnerAnswered, Commit, CommitLost,
     StreamEnds, TransportError, GiveUp, Exhausted, WaitForMigration, Reserve
<1>4. CASE TaskMoves \/ Environment \/ UNCHANGED vars
  BY <1>1, <1>2, <1>4, TaskMovesKeep DEF Environment, RegistryRemoves,
                          RouterRemoves,
     CooldownEnds, Evict, Expire, vars
<1>5. QED BY <1>3, <1>4 DEF Next, TaskMoves
-------------------------------------------------------------------------------
(* The count of attempts *)

TokensFor(a) == {t \in tokens : t.to = a}
IsPlain(r) == req[r].at \in Attempting /\ ~Owns(r)

\* What a step does to the count: nothing, or begin or end a plain attempt, or
\* take or release a token.
CountStays ==
  /\ UNCHANGED <<tokens, inFlight>>
  /\ \A a \in Accounts : PlainAttempts(a)' = PlainAttempts(a)
PlainBegins(r) ==
  /\ ~IsPlain(r) /\ IsPlain(r)' /\ Others(r) /\ req'[r].target \in Accounts
  /\ tokens' = tokens
  /\ inFlight' = [inFlight EXCEPT ![req'[r].target] = @ + 1]
PlainEnds(r) ==
  /\ IsPlain(r) /\ ~IsPlain(r)' /\ Others(r) /\ req[r].target \in Accounts
  /\ tokens' = tokens /\ inFlight' = Lowered(inFlight, req[r].target)
TokenReleased(r) ==
  /\ ~IsPlain(r) /\ ~IsPlain(r)' /\ Others(r)
  /\ ReleaseToken(req[r].owner)
TokenTaken(r, a) ==
  /\ ~IsPlain(r) /\ ~IsPlain(r)' /\ Others(r)
  /\ Reserve(r, a)

\* A step of r changes at most whether r is among the attempts.
LEMMA PlainOthers ==
  ASSUME NEW r \in Requests, Others(r), NEW a \in Accounts
  PROVE  PlainAttempts(a)' \ {r} = PlainAttempts(a) \ {r}
BY DEF Others, PlainAttempts, Owns

\* The plain attempts on an account are finitely many.
LEMMA PlainFinite == ASSUME NEW a \in Accounts PROVE IsFiniteSet(PlainAttempts(a))
BY Assumption, FS_Subset DEF PlainAttempts

\* A request that is not on a plain attempt does not count.
LEMMA NotPlain ==
  ASSUME NEW r \in Requests, Others(r), ~IsPlain(r), ~IsPlain(r)', NEW a \in Accounts
  PROVE  PlainAttempts(a)' = PlainAttempts(a)
<1>1. r \notin PlainAttempts(a) /\ r \notin PlainAttempts(a)'
  BY DEF PlainAttempts, IsPlain, Owns
<1>2. QED BY <1>1, PlainOthers

\* So are the tokens held for it.
LEMMA TokensForFinite ==
  ASSUME TokensIInv, NEW a
  PROVE  IsFiniteSet(TokensFor(a)) /\ Cardinality(TokensFor(a)) \in Nat
<1>1. IsFiniteSet(TokensFor(a))
  BY FS_Subset DEF TokensIInv, TokensFor
<1>2. QED BY <1>1, FS_CardinalityType

\* The count goes up and down with the set it counts.
LEMMA PlainBeginsCount ==
  ASSUME TypesIInv, CountIInv, NEW r \in Requests, PlainBegins(r)
  PROVE  inFlight' \in [Accounts -> Nat] /\ CountIInv'
<1>1. inFlight \in [Accounts -> Nat] /\ req'[r].target \in Accounts
  BY DEF TypesIInv, TokensIInv, PlainBegins
<1>2. SUFFICES ASSUME NEW a \in Accounts
              PROVE  inFlight'[a] = Cardinality(PlainAttempts(a)') + Cardinality(TokensFor(a))
  BY <1>1 DEF CountIInv, PlainBegins, TokensFor
<1>3. /\ inFlight[a] = Cardinality(PlainAttempts(a)) + Cardinality(TokensFor(a))
      /\ Cardinality(TokensFor(a)) \in Nat /\ IsFiniteSet(PlainAttempts(a))
      /\ Cardinality(PlainAttempts(a)) \in Nat
  BY TokensForFinite, PlainFinite, FS_CardinalityType DEF CountIInv, TypesIInv, TokensFor
<1>4. r \notin PlainAttempts(a) /\ (r \in PlainAttempts(a)' <=> req'[r].target = a)
  BY DEF PlainBegins, IsPlain, PlainAttempts, Owns
<1>5. PlainAttempts(a)' \ {r} = PlainAttempts(a) \ {r}
  BY PlainOthers DEF PlainBegins
<1>6. CASE req'[r].target = a
  <2>1. PlainAttempts(a)' = PlainAttempts(a) \cup {r}
    BY <1>4, <1>5, <1>6
  <2>2. Cardinality(PlainAttempts(a)') = Cardinality(PlainAttempts(a)) + 1
    BY <1>3, <1>4, <2>1, FS_AddElement
  <2>3. QED BY <1>1, <1>3, <1>6, <2>2 DEF PlainBegins
<1>7. CASE req'[r].target # a
  <2>1. PlainAttempts(a)' = PlainAttempts(a)
    BY <1>4, <1>5, <1>7
  <2>2. QED BY <1>1, <1>3, <1>7, <2>1 DEF PlainBegins
<1>8. QED BY <1>6, <1>7

\* A plain attempt that ends takes one off the counter.
LEMMA PlainEndsCount ==
  ASSUME TypesIInv, CountIInv, NEW r \in Requests, PlainEnds(r)
  PROVE  inFlight' \in [Accounts -> Nat] /\ CountIInv'
<1>1. inFlight \in [Accounts -> Nat] /\ req[r].target \in Accounts
  BY DEF TypesIInv, TokensIInv, PlainEnds
<1>2. SUFFICES ASSUME NEW a \in Accounts
              PROVE  inFlight'[a] = Cardinality(PlainAttempts(a)') + Cardinality(TokensFor(a))
  BY <1>1 DEF CountIInv, PlainEnds, Lowered, TokensFor
<1>3. /\ inFlight[a] = Cardinality(PlainAttempts(a)) + Cardinality(TokensFor(a))
      /\ Cardinality(TokensFor(a)) \in Nat /\ IsFiniteSet(PlainAttempts(a))
      /\ Cardinality(PlainAttempts(a)) \in Nat
  BY TokensForFinite, PlainFinite, FS_CardinalityType DEF CountIInv, TypesIInv, TokensFor
<1>4. r \notin PlainAttempts(a)' /\ (r \in PlainAttempts(a) <=> req[r].target = a)
  BY DEF PlainEnds, IsPlain, PlainAttempts, Owns
<1>5. PlainAttempts(a)' \ {r} = PlainAttempts(a) \ {r}
  BY PlainOthers DEF PlainEnds
<1>6. CASE req[r].target = a
  <2>1. PlainAttempts(a)' = PlainAttempts(a) \ {r}
    BY <1>4, <1>5
  <2>2. /\ Cardinality(PlainAttempts(a)') = Cardinality(PlainAttempts(a)) - 1
        /\ Cardinality(PlainAttempts(a)) # 0
    BY <1>3, <1>4, <1>6, <2>1, FS_RemoveElement, FS_EmptySet
  <2>3. QED BY <1>1, <1>3, <1>6, <2>2 DEF PlainEnds, Lowered
<1>7. CASE req[r].target # a
  <2>1. PlainAttempts(a)' = PlainAttempts(a)
    BY <1>4, <1>5, <1>7
  <2>2. QED BY <1>1, <1>3, <1>7, <2>1 DEF PlainEnds, Lowered
<1>8. QED BY <1>6, <1>7

\* So does a token that is released.
LEMMA TokenReleasedCount ==
  ASSUME TypesIInv, CountIInv, NEW r \in Requests, TokenReleased(r)
  PROVE  inFlight' \in [Accounts -> Nat] /\ CountIInv'
<1> DEFINE attempt == req[r].owner
<1>1. inFlight \in [Accounts -> Nat] /\ tokens \subseteq Attempt
  BY DEF TypesIInv, TokensIInv
<1>2. \A a \in Accounts : PlainAttempts(a)' = PlainAttempts(a)
  BY NotPlain DEF TokenReleased
<1>3. CASE attempt \notin tokens
  BY <1>1, <1>2, <1>3 DEF TokenReleased, ReleaseToken, CountIInv
<1>4. CASE attempt \in tokens
  <2>1. attempt.to \in Accounts /\ tokens' = tokens \ {attempt}
        /\ inFlight' = Lowered(inFlight, attempt.to)
    BY <1>1, <1>4 DEF TokenReleased, ReleaseToken, Attempt
  <2> HIDE DEF attempt
  <2>2. SUFFICES ASSUME NEW a \in Accounts
                PROVE  inFlight'[a] = Cardinality(PlainAttempts(a)') + Cardinality(TokensFor(a)')
    BY <1>1, <2>1 DEF CountIInv, Lowered, TokensFor
  <2>3. /\ inFlight[a] = Cardinality(PlainAttempts(a)) + Cardinality(TokensFor(a))
        /\ IsFiniteSet(TokensFor(a)) /\ Cardinality(TokensFor(a)) \in Nat
        /\ Cardinality(PlainAttempts(a)) \in Nat
    BY TokensForFinite, PlainFinite, FS_CardinalityType DEF CountIInv, TypesIInv, TokensFor
  <2>4. CASE attempt.to = a
    <3>1. TokensFor(a)' = TokensFor(a) \ {attempt} /\ attempt \in TokensFor(a)
      BY <1>4, <2>1, <2>4 DEF TokensFor
    <3>2. /\ Cardinality(TokensFor(a)') = Cardinality(TokensFor(a)) - 1
          /\ Cardinality(TokensFor(a)) # 0
      BY <2>3, <3>1, FS_RemoveElement, FS_EmptySet
    <3>3. QED BY <1>1, <1>2, <2>1, <2>3, <2>4, <3>2 DEF Lowered
  <2>5. CASE attempt.to # a
    <3>1. TokensFor(a)' = TokensFor(a)
      BY <2>1, <2>5 DEF TokensFor
    <3>2. QED BY <1>1, <1>2, <2>1, <2>3, <2>5, <3>1 DEF Lowered
  <2>6. QED BY <2>4, <2>5
<1>5. QED BY <1>3, <1>4

\* An attempt id is fresh when it is made.
LEMMA AttemptIsFresh ==
  ASSUME NEW r \in Requests, Fresh(r), NEW a \in Accounts, Reserve(r, a), Local(r)
  PROVE  NewAttempt(r, a) \notin tokens
<1>1. /\ req[r].at = "pick" /\ ~Owns(r) /\ a \notin req[r].attempted
      /\ req[r].source.entry \in Nat
  BY DEF Reserve, Candidates, Local, Trying, Source
<1>2. ASSUME NewAttempt(r, a) \in tokens PROVE FALSE
  <2>1. NewAttempt(r, a).by = r /\ NewAttempt(r, a).to = a
        /\ NewAttempt(r, a).entry = req[r].source.entry
    BY DEF NewAttempt
  <2>2. NewAttempt(r, a) # req[r].owner
    BY <1>1, <2>1, Assumption DEF Owns, NoAttempt
  <2>3. Stale(r, NewAttempt(r, a))
    BY <1>1, <1>2, <2>1, <2>2 DEF Fresh
  <2>4. QED BY <1>1, <2>1, <2>3 DEF Stale, Trying
<1>3. QED BY <1>2

\* A token that is taken adds one.
LEMMA TokenTakenCount ==
  ASSUME TypesIInv, CountIInv, NEW r \in Requests, NEW b \in Accounts, TokenTaken(r, b),
         NewAttempt(r, b) \notin tokens
  PROVE  inFlight' \in [Accounts -> Nat] /\ CountIInv'
<1>1. /\ inFlight \in [Accounts -> Nat]
      /\ tokens' = tokens \cup {NewAttempt(r, b)} /\ NewAttempt(r, b).to = b
      /\ inFlight' = [inFlight EXCEPT ![b] = @ + 1]
  BY DEF TypesIInv, TokensIInv, TokenTaken, Reserve, NewAttempt
<1>2. SUFFICES ASSUME NEW a \in Accounts
              PROVE  inFlight'[a] = Cardinality(PlainAttempts(a)') + Cardinality(TokensFor(a)')
  BY <1>1 DEF CountIInv, TokensFor
<1>3. /\ inFlight[a] = Cardinality(PlainAttempts(a)) + Cardinality(TokensFor(a))
      /\ IsFiniteSet(TokensFor(a)) /\ Cardinality(TokensFor(a)) \in Nat
      /\ Cardinality(PlainAttempts(a)) \in Nat
  BY TokensForFinite, PlainFinite, FS_CardinalityType DEF CountIInv, TypesIInv, TokensFor
<1>4. PlainAttempts(a)' = PlainAttempts(a)
  BY NotPlain DEF TokenTaken
<1>5. CASE a = b
  <2>1. TokensFor(a)' = TokensFor(a) \cup {NewAttempt(r, b)} /\ NewAttempt(r, b) \notin TokensFor(a)
    BY <1>1, <1>5 DEF TokensFor
  <2>2. Cardinality(TokensFor(a)') = Cardinality(TokensFor(a)) + 1
    BY <1>3, <2>1, FS_AddElement
  <2>3. QED BY <1>1, <1>3, <1>4, <1>5, <2>2
<1>6. CASE a # b
  <2>1. TokensFor(a)' = TokensFor(a)
    BY <1>1, <1>6 DEF TokensFor
  <2>2. QED BY <1>1, <1>3, <1>4, <1>6, <2>1
<1>7. QED BY <1>5, <1>6
CountChanges ==
  \/ CountStays
  \/ \E r \in Requests : \/ PlainBegins(r) \/ PlainEnds(r) \/ TokenReleased(r)
                         \/ \E a \in Accounts : TokenTaken(r, a)

\* Steps that leave M(a) and the tokens alone, and the attempt of r if it has one.
LEMMA QuietRequest ==
  ASSUME NEW r \in Requests, Others(r), UNCHANGED <<tokens, inFlight>>,
         \/ ~IsPlain(r) /\ ~IsPlain(r)'
         \/ IsPlain(r) /\ IsPlain(r)' /\ req'[r].target = req[r].target
  PROVE  CountStays
<1>1. CASE ~IsPlain(r) /\ ~IsPlain(r)'
  BY <1>1, NotPlain DEF CountStays
<1>2. CASE IsPlain(r) /\ IsPlain(r)' /\ req'[r].target = req[r].target
  <2>1. \A a \in Accounts : r \in PlainAttempts(a)' <=> r \in PlainAttempts(a)
    BY <1>2 DEF PlainAttempts, IsPlain, Owns
  <2>2. QED BY <2>1, PlainOthers DEF CountStays
<1>3. QED BY <1>1, <1>2

\* All that a step of a request does to the counter.
LEMMA RequestCount ==
  ASSUME TypesIInv, [Next]_vars, NEW r \in Requests, Local(r),
         Arrive(r) \/ Step(r) \/ Cancel(r)
  PROVE  CountChanges
<1>1. /\ ReqsTyped' /\ Others(r) /\ Local(r)' /\ ReqsTyped
      /\ req[r].target \in Accounts \cup {Nobody}
  BY RequestLocals DEF TypesIInv, ReqsTyped, Request
<1>2. ASSUME ~IsPlain(r), ~IsPlain(r)', UNCHANGED <<tokens, inFlight>> PROVE CountChanges
  BY <1>1, <1>2, QuietRequest DEF CountChanges
<1>3. Ends(r) => ~IsPlain(r)'
  BY <1>1, EndsEffect DEF IsPlain, Attempting
<1>4. Streams(r) => ~IsPlain(r)'
  BY <1>1, StreamsEffect DEF IsPlain, Attempting
<1>5. CASE Arrive(r)
  <2>1. ~IsPlain(r) /\ ~IsPlain(r)'
    BY <1>3, <1>5, ArriveEffect DEF Arrive, GoesOn, IsPlain, Attempting
  <2>2. QED BY <1>2, <1>5, <2>1 DEF Arrive
<1>6. CASE Woken(r)
  <2>1. ~IsPlain(r)
    BY <1>6 DEF Woken, IsPlain, Attempting, Local
  <2>2. ~IsPlain(r)'
    BY <1>4, <1>6, WokenEffect DEF IsPlain, Attempting
  <2>3. QED BY <1>2, <1>6, <2>1, <2>2 DEF Woken, shared
<1>7. CASE ReservationResolved(r)
  <2>1. ~IsPlain(r) /\ ~IsPlain(r)'
    BY <1>7, ResolvedEffect DEF ReservationResolved, GoesOn, IsPlain, Attempting
  <2>2. QED BY <1>2, <1>7, <2>1 DEF ReservationResolved, shared
<1>8. CASE PlaceAgain(r)
  <2>1. ~IsPlain(r) /\ ~IsPlain(r)'
    BY <1>3, <1>8, PlaceAgainEffect DEF PlaceAgain, GoesOn, IsPlain, Attempting
  <2>2. QED BY <1>2, <1>8, <2>1 DEF PlaceAgain
<1>9. CASE BeginAttempt(r)
  <2>1. /\ req'[r].at = "connecting" /\ req'[r].owner = req[r].owner
        /\ Attempted(r) \in Accounts /\ req'[r].target = Attempted(r) /\ ~IsPlain(r)
    BY <1>9, AttemptEffect DEF BeginAttempt, IsPlain, Attempting
  <2>2. CASE Owns(r)
    <3>1. ~IsPlain(r)'
      BY <2>1, <2>2 DEF IsPlain, Owns
    <3>2. QED BY <1>2, <1>9, <2>1, <2>2, <3>1 DEF BeginAttempt
  <2>3. CASE ~Owns(r)
    <3>1. IsPlain(r)'
      BY <2>1, <2>3 DEF IsPlain, Owns, Attempting
    <3>2. PlainBegins(r)
      BY <1>1, <1>9, <2>1, <2>3, <3>1 DEF BeginAttempt, PlainBegins
    <3>3. QED BY <3>2 DEF CountChanges
  <2>4. QED BY <2>2, <2>3
<1>10. CASE SkipAttempt(r)
  <2>1. req'[r].at = "pick" \/ BeginAttempt(r)
    BY <1>10, AttemptEffect
  <2>2. QED
    <3>1. CASE BeginAttempt(r)
      BY <1>9, <3>1
    <3>2. CASE req'[r].at = "pick"
      <4>1. ~IsPlain(r) /\ ~IsPlain(r)'
        BY <1>10, <3>2 DEF SkipAttempt, IsPlain, Attempting
      <4>2. QED BY <1>2, <1>10, <4>1 DEF SkipAttempt, shared
    <3>3. QED BY <2>1, <3>1, <3>2
<1>11. CASE Connect(r) \/ QuotaRefused(r)
  <2>1. PICK place \in {"upstream", "refused"} : Goes(r, place)
    BY <1>11 DEF Connect, QuotaRefused
  <2>2. GoesOn(r, place) /\ req[r].at \in Attempting
    BY <1>1, <1>11, <2>1, GoesEffect DEF Connect, QuotaRefused, Places, Awaiting, Attempting
  <2>3. UNCHANGED <<tokens, inFlight>>
    BY <1>11 DEF Connect, QuotaRefused, shared
  <2>4. (IsPlain(r)' <=> IsPlain(r)) /\ req'[r].target = req[r].target
    BY <2>2 DEF GoesOn, IsPlain, Owns, Attempting
  <2>5. QED BY <1>1, <2>3, <2>4, QuietRequest DEF CountChanges
<1>12. CASE AttemptFails(r) \/ Answered(r)
  <2>1. /\ req[r].at \in Attempting /\ req[r].target \in Accounts /\ ~IsPlain(r)'
        /\ EndAttempt(r) /\ tokens' = tokens
    <3>1. Goes(r, "pick") => GoesOn(r, "pick")
      BY <1>1, GoesEffect DEF Places
    <3>2. QED BY <1>3, <1>12, <3>1
              DEF AttemptFails, Answered, GoesOn, IsPlain, Attempting, Local, Trying
  <2>2. CASE Owns(r)
    BY <1>2, <2>1, <2>2 DEF EndAttempt, IsPlain
  <2>3. CASE ~Owns(r)
    <3>1. PlainEnds(r)
      BY <1>1, <2>1, <2>3 DEF PlainEnds, EndAttempt, IsPlain
    <3>2. QED BY <3>1 DEF CountChanges
  <2>4. QED BY <2>2, <2>3
<1>13. CASE OwnerAnswered(r) \/ CommitLost(r) \/ TransportError(r) \/ Exhausted(r)
  <2>1. ~IsPlain(r) /\ ~IsPlain(r)'
    BY <1>3, <1>4, <1>13
       DEF OwnerAnswered, CommitLost, TransportError, Exhausted, IsPlain, Attempting
  <2>2. QED BY <1>2, <1>13, <2>1 DEF OwnerAnswered, CommitLost, TransportError, Exhausted, shared
<1>14. CASE Commit(r)
  <2>1. ~IsPlain(r) /\ ~IsPlain(r)'
    BY <1>14, CommitEffect DEF Commit, IsPlain, Owns
  <2>2. QED BY <1>2, <1>14, <2>1 DEF Commit
<1>15. CASE StreamEnds(r)
  <2>1. ~IsPlain(r) /\ ~IsPlain(r)' /\ ReleaseToken(req[r].owner)
    BY <1>3, <1>15 DEF StreamEnds, OwnerTerminal, IsPlain, Attempting
  <2>2. QED BY <1>1, <2>1 DEF TokenReleased, CountChanges
<1>16. CASE GiveUp(r)
  <2>1. req[r].at = "pick" /\ req'[r].at = "pick" /\ ReleaseToken(req[r].owner)
    BY <1>16, GiveUpEffect DEF GiveUp, PreheaderFailure
  <2>2. QED BY <1>1, <2>1 DEF TokenReleased, CountChanges, IsPlain, Attempting
<1>17. CASE WaitForMigration(r)
  <2>1. ~IsPlain(r) /\ ~IsPlain(r)'
    BY <1>17, WaitEffect DEF WaitForMigration, IsPlain, Attempting
  <2>2. QED BY <1>2, <1>17, <2>1 DEF WaitForMigration, shared
<1>18. CASE \E a \in Accounts : Reserve(r, a)
  <2>1. PICK a \in Accounts : Reserve(r, a)
    BY <1>18
  <2>2. req[r].at = "pick" /\ req'[r].at = "top"
    BY <2>1, ReserveEffect DEF Reserve
  <2>3. QED BY <1>1, <2>1, <2>2 DEF TokenTaken, CountChanges, IsPlain, Attempting
<1>19. CASE Cancel(r)
  <2>1. CASE req[r].at \notin Attempting
    BY <1>2, <1>3, <1>19, <2>1 DEF Cancel, IsPlain
  <2>2. CASE req[r].at \in Attempting /\ Owns(r)
    <3>1. ~IsPlain(r) /\ ~IsPlain(r)' /\ ReleaseToken(req[r].owner)
      BY <1>3, <1>19, <2>2 DEF Cancel, OwnerTerminal, IsPlain
    <3>2. QED BY <1>1, <3>1 DEF TokenReleased, CountChanges
  <2>3. CASE req[r].at \in Attempting /\ ~Owns(r)
    <3>1. req[r].target \in Accounts
      BY <2>3 DEF Local, Attempting, Trying
    <3>2. PlainEnds(r)
      BY <1>1, <1>3, <1>19, <2>3, <3>1 DEF Cancel, PlainEnds, EndAttempt, IsPlain
    <3>3. QED BY <3>2 DEF CountChanges
  <2>4. QED BY <2>1, <2>2, <2>3
<1>20. QED BY <1>5, <1>6, <1>7, <1>8, <1>9, <1>10, <1>11, <1>12, <1>13, <1>14, <1>15, <1>16, <1>17,
              <1>18, <1>19 DEF Step

\* All that any step does to the counter.
LEMMA NextCountChanges == ASSUME TypesIInv, LocalIInv, [Next]_vars PROVE CountChanges
<1>1. ASSUME NEW r \in Requests, Arrive(r) \/ Step(r) \/ Cancel(r) PROVE CountChanges
  BY <1>1, RequestCount DEF LocalIInv
<1>2. ASSUME NEW a \in Accounts, CooldownEnds(a) PROVE CountChanges
  <2>1. \A b \in Accounts : PlainAttempts(b)' = PlainAttempts(b)
    BY <1>2, CooldownEffect DEF PlainAttempts, Owns
  <2>2. QED BY <1>2, <2>1 DEF CooldownEnds, CountStays, CountChanges
<1>3. CASE \/ TaskMoves \/ Evict \/ Expire \/ UNCHANGED vars
           \/ \E a \in Accounts : RegistryRemoves(a) \/ RouterRemoves(a)
  <2>1. UNCHANGED <<req, tokens, inFlight>>
    BY <1>3, TaskMovesKeep DEF Evict, Expire, RegistryRemoves, RouterRemoves, vars, shared
  <2>2. \A b \in Accounts : PlainAttempts(b)' = PlainAttempts(b)
    BY <2>1 DEF PlainAttempts, Owns
  <2>3. QED BY <2>1, <2>2 DEF CountStays, CountChanges
<1>4. QED BY <1>1, <1>2, <1>3 DEF Next, TaskMoves, Environment

\* Every step keeps the counter equal to what is under way.
LEMMA NextCount ==
  ASSUME TypesIInv, LocalIInv, FreshIInv, CountIInv, [Next]_vars
  PROVE  TokensIInv' /\ CountIInv'
<1>1. inFlight' \in [Accounts -> Nat] /\ CountIInv'
  <2>1. CASE CountStays
    BY <2>1 DEF CountStays, CountIInv, TypesIInv, TokensIInv
  <2>2. ASSUME NEW r \in Requests, NEW a \in Accounts, TokenTaken(r, a)
        PROVE  inFlight' \in [Accounts -> Nat] /\ CountIInv'
    <3>1. NewAttempt(r, a) \notin tokens
      BY <2>2, AttemptIsFresh DEF TokenTaken, FreshIInv, LocalIInv
    <3>2. QED BY <2>2, <3>1, TokenTakenCount
  <2>3. QED BY <2>1, <2>2, NextCountChanges, PlainBeginsCount, PlainEndsCount, TokenReleasedCount
            DEF CountChanges
<1>2. TokensIInv /\ barriers \in Nat /\ (barriers' = barriers \/ barriers' = barriers + 1)
  BY BarriersGrow DEF TypesIInv, TasksIInv
<1>3. /\ tokens' \in SUBSET Attempt /\ IsFiniteSet(tokens')
      /\ \A t \in tokens' : t.entry <= barriers
  <2>1. CASE tokens' \subseteq tokens
    BY <1>2, <2>1, FS_Subset DEF TokensIInv
  <2>2. ASSUME NEW r \in Requests, NEW a \in Accounts, Reserve(r, a)
        PROVE  /\ tokens' \in SUBSET Attempt /\ IsFiniteSet(tokens')
               /\ \A t \in tokens' : t.entry <= barriers
    <3>1. tokens' = tokens \cup {NewAttempt(r, a)} /\ NewAttempt(r, a) \in Attempt
      BY <2>2, ReserveEffect DEF Reserve, NewAttempt, LocalIInv
    <3>2. NewAttempt(r, a).entry \in 1..barriers
      BY <2>2 DEF Reserve, NewAttempt, LocalIInv, Local, Trying
    <3>3. QED BY <1>2, <3>1, <3>2, FS_AddElement DEF TokensIInv
  <2>3. QED BY <2>1, <2>2, NextCountChanges DEF CountChanges, CountStays, PlainBegins, PlainEnds,
            TokenReleased, TokenTaken, ReleaseToken
<1>4. \A t \in tokens' : t.entry <= barriers'
  BY <1>2, <1>3 DEF Attempt
<1>5. QED BY <1>1, <1>3, <1>4 DEF TokensIInv
-------------------------------------------------------------------------------
(* Fresh attempt ids *)

\* A pin entry is never younger than the one it takes the place of.
LEMMA PinAges ==
  ASSUME TypesIInv, LocalIInv, [Next]_vars, NEW t \in tokens, Pinned => t.entry < pin.entry
  PROVE  Pinned' => t.entry < pin'.entry
<1>1. t.entry \in Nat /\ t.entry <= barriers /\ barriers \in Nat /\ PinIInv
  BY DEF TypesIInv, TokensIInv, TasksIInv, Attempt
<1>2. CASE PinStays
  BY <1>1, <1>2, PinStaysSame
<1>3. CASE PinGone
  BY <1>3 DEF PinGone, Pinned
<1>4. CASE PinPlaced
  BY <1>1, <1>4, PlacedPin DEF PinPlaced
<1>5. CASE PinMoves
  BY <1>1, <1>5, MovedPin DEF PinMoves, LocalIInv
<1>6. QED BY <1>2, <1>3, <1>4, <1>5, PinChanges

\* The only token a step of r adds is r's.
LEMMA TokensAdded ==
  ASSUME [Next]_vars, NEW r \in Requests, Arrive(r) \/ Step(r) \/ Cancel(r)
  PROVE  \A t \in tokens' : t \in tokens \/ \E a \in Accounts : Reserve(r, a) /\ t = NewAttempt(r, a)
<1>1. CASE \E a \in Accounts : Reserve(r, a)
  BY <1>1 DEF Reserve, NewAttempt
<1>2. CASE ~\E a \in Accounts : Reserve(r, a)
  BY <1>2 DEF Arrive, Step, Cancel, Woken, ReservationResolved, PlaceAgain, BeginAttempt,
              SkipAttempt,
     Connect, QuotaRefused, AttemptFails, Answered, OwnerAnswered, Commit, CommitLost, StreamEnds,
     TransportError, GiveUp, Exhausted, WaitForMigration, shared, OwnerTerminal, PreheaderFailure,
     ReleaseToken
<1>3. QED BY <1>1, <1>2

\* A request that is left alone, or keeps what it attempted in a place where
\* its source does not matter or is the same.
LEMMA FreshKept ==
  ASSUME TypesIInv, LocalIInv, [Next]_vars, NEW r \in Requests, Fresh(r),
         req[r].at \notin {"committed", "streaming", "done"},
         \A t \in tokens' : t.by = r => t \in tokens,
         req'[r].attempted = req[r].attempted,
         req'[r].at # "replaced",
         req'[r].owner = req[r].owner \/ req[r].owner \notin tokens' \/ req[r].at = "replaced",
         req'[r].at \in Trying => req[r].at \in Trying /\ req'[r].source = req[r].source
  PROVE  Fresh(r)'
<1> SUFFICES ASSUME NEW t \in tokens', t.by = r, t.to \notin req[r].attempted,
                    t # req'[r].owner
             PROVE  Stale(r, t)'
  BY DEF Fresh
<1>1. t \in tokens
  OBVIOUS
<1>2. t # req[r].owner \/ req[r].at = "replaced"
  OBVIOUS
<1>3. Stale(r, t)
  BY <1>1, <1>2 DEF Fresh
<1>4. Pinned' => t.entry < pin'.entry
  BY <1>1, <1>3, PinAges DEF Stale
<1>5. QED BY <1>3, <1>4 DEF Stale

\* A request that another one's step, or no one's, leaves alone.
LEMMA FreshAlone ==
  ASSUME TypesIInv, LocalIInv, [Next]_vars, NEW r \in Requests, Fresh(r),
         \A t \in tokens' : t.by = r => t \in tokens,
         req'[r].at = req[r].at, req'[r].owner = req[r].owner,
         req'[r].source = req[r].source, req'[r].attempted = req[r].attempted
  PROVE  Fresh(r)'
<1> SUFFICES ASSUME req[r].at \notin {"committed", "streaming", "done"},
                    NEW t \in tokens', t.by = r, t.to \notin req[r].attempted
             PROVE  (t = req[r].owner /\ req[r].at # "replaced") \/ Stale(r, t)'
  BY DEF Fresh
<1>1. CASE t = req[r].owner /\ req[r].at # "replaced"
  BY <1>1
<1>2. CASE Stale(r, t)
  BY <1>2, PinAges DEF Stale
<1>3. QED BY <1>1, <1>2 DEF Fresh

\* A step of a request leaves it no live token for an account it has yet to try.
LEMMA RequestFresh ==
  ASSUME TypesIInv, LocalIInv, [Next]_vars, NEW r \in Requests, Fresh(r),
         Arrive(r) \/ Step(r) \/ Cancel(r)
  PROVE  Fresh(r)'
<1> DEFINE Reserves == \E a \in Accounts : Reserve(r, a)
           Over == req'[r].at \in {"committed", "streaming", "done"}
<1>1. ReqsTyped /\ Local(r) /\ barriers \in Nat
  BY DEF TypesIInv, LocalIInv, TasksIInv
<1>2. Over => Fresh(r)'
  BY DEF Fresh
<1>3. ~Reserves => \A t \in tokens' : t \in tokens
  BY TokensAdded
<1>4. (Ends(r) \/ Streams(r) \/ Commit(r)) => Over
  BY <1>1, EndsEffect, StreamsEffect, CommitEffect
<1>5. CASE Arrive(r) /\ ~Ends(r)
  <2>1. GoesOn(r, "placed") /\ req[r].at = "new" /\ tokens' = tokens
    BY <1>5, ArriveEffect DEF Arrive
  <2>2. QED BY <2>1, FreshKept DEF GoesOn, Trying
<1>6. CASE Woken(r) /\ ~Streams(r)
  <2>1. /\ req'[r].at = "top" /\ req'[r].attempted = req[r].attempted
        /\ req'[r].owner = req[r].owner \/ req[r].at = "replaced"
        /\ req[r].at \in {"placed", "replaced"} /\ tokens' = tokens
    BY <1>6, WokenEffect DEF Woken, shared
  <2>2. QED BY <2>1, FreshKept DEF Trying
<1>7. CASE ReservationResolved(r)
  <2>1. GoesOn(r, "top") /\ req[r].at = "waiting" /\ tokens' = tokens
    BY <1>7, ResolvedEffect DEF ReservationResolved, shared
  <2>2. QED BY <2>1, FreshKept DEF GoesOn, Trying
<1>8. CASE PlaceAgain(r) /\ ~Ends(r)
  <2>1. req'[r].at = "replaced" /\ tokens' = tokens
    BY <1>8, PlaceAgainEffect DEF PlaceAgain, GoesOn
  <2>2. \E a \in Accounts : PlaceOn(a)
    BY <1>1, <1>8 DEF PlaceAgain, ReqsTyped, Request
  <2>3. pin'.entry = barriers + 1
    BY <2>2, PlacedPin
  <2>4. \A t \in tokens : t.entry \in Nat /\ t.entry <= barriers
    BY DEF TypesIInv, TokensIInv, Attempt
  <2>5. \A t \in tokens' : Stale(r, t)'
    BY <1>1, <2>1, <2>3, <2>4 DEF Stale, Trying
  <2>6. QED BY <2>5 DEF Fresh
<1>9. CASE BeginAttempt(r) \/ SkipAttempt(r)
  <2>1. /\ req'[r].owner = req[r].owner /\ req'[r].source = PinRead
        /\ req[r].attempted \subseteq req'[r].attempted
        /\ req'[r].at \in {"connecting", "pick"} /\ req[r].at = "top"
        /\ Pinned /\ UNCHANGED <<tokens, pin>>
    BY <1>1, <1>9, AttemptEffect DEF BeginAttempt, SkipAttempt, shared
  <2>2. ASSUME NEW t \in tokens, Stale(r, t) PROVE Stale(r, t)'
    BY <2>1, <2>2 DEF Stale, PinRead, Pinned
  <2>3. QED BY <2>1, <2>2 DEF Fresh
<1>10. CASE Connect(r) \/ QuotaRefused(r) \/ AttemptFails(r)
  <2>1. PICK place \in {"upstream", "refused", "pick"} : Goes(r, place)
    BY <1>10 DEF Connect, QuotaRefused, AttemptFails
  <2>2. GoesOn(r, place) /\ req[r].at \in Trying /\ tokens' = tokens
    BY <1>1, <1>10, <2>1, GoesEffect
       DEF Connect, QuotaRefused, AttemptFails, Places, Awaiting, Trying, shared
  <2>3. QED BY <2>2, FreshKept DEF GoesOn, Trying
<1>11. CASE GiveUp(r)
  <2>1. /\ req[r].at = "pick" /\ req'[r].at = "pick" /\ req[r].owner \notin tokens'
        /\ req'[r].source = req[r].source /\ req'[r].attempted = req[r].attempted
        /\ \A t \in tokens' : t \in tokens
    BY <1>11, GiveUpEffect DEF GiveUp, PreheaderFailure, ReleaseToken
  <2>2. QED BY <2>1, FreshKept DEF Trying
<1>12. CASE WaitForMigration(r)
  <2>1. /\ req[r].at = "pick" /\ req'[r].at = "waiting" /\ tokens' = tokens
        /\ req'[r].owner = req[r].owner /\ req'[r].attempted = req[r].attempted
    BY <1>12, WaitEffect DEF WaitForMigration, shared
  <2>2. QED BY <2>1, FreshKept DEF Trying
<1>13. CASE Reserves
  <2>1. PICK a \in Accounts : Reserve(r, a)
    BY <1>13
  <2>2. /\ req[r].at = "pick" /\ req'[r].at = "top" /\ req[r].owner = NoAttempt
        /\ req'[r].owner = NewAttempt(r, a) /\ req'[r].attempted = req[r].attempted
        /\ tokens' = tokens \cup {NewAttempt(r, a)}
    BY <1>1, <2>1, ReserveEffect DEF Reserve, NewAttempt, Owns
  <2>3. SUFFICES ASSUME NEW t \in tokens, t.by = r, t.to \notin req[r].attempted
                 PROVE  Stale(r, t)'
    BY <2>2 DEF Fresh
  <2>4. t # NoAttempt
    BY Assumption DEF TypesIInv, TokensIInv, Attempt, NoAttempt
  <2>5. Stale(r, t)
    BY <2>2, <2>3, <2>4 DEF Fresh
  <2>6. QED BY <2>2, <2>5, PinAges DEF Stale, Trying
<1>14. CASE Cancel(r)
  BY <1>2, <1>4, <1>14 DEF Cancel
<1>15. CASE Step(r)
  <2>1. CASE \/ Answered(r) \/ OwnerAnswered(r) \/ Commit(r) \/ CommitLost(r) \/ StreamEnds(r)
             \/ TransportError(r) \/ Exhausted(r)
    BY <1>2, <1>4, <2>1
       DEF Answered, OwnerAnswered, CommitLost, StreamEnds, TransportError, Exhausted
  <2>2. QED BY <1>2, <1>4, <1>6, <1>7, <1>8, <1>9, <1>10, <1>11, <1>12, <1>13, <1>15, <2>1
            DEF Step
<1>16. QED BY <1>2, <1>4, <1>5, <1>14, <1>15

\* Every step leaves no request a live token for an account it has yet to try.
LEMMA NextFresh ==
  ASSUME TypesIInv, LocalIInv, FreshIInv, [Next]_vars
  PROVE  FreshIInv'
<1>1. ASSUME NEW r \in Requests, Arrive(r) \/ Step(r) \/ Cancel(r) PROVE FreshIInv'
  <2>1. Fresh(r)' /\ Others(r)
    BY <1>1, RequestFresh, RequestLocals DEF FreshIInv, LocalIInv
  <2>2. ASSUME NEW q \in Requests, q # r PROVE Fresh(q)'
    <3>1. \A t \in tokens' : t.by = q => t \in tokens
      BY <1>1, <2>2, TokensAdded DEF NewAttempt
    <3>2. QED BY <2>1, <2>2, <3>1, FreshAlone DEF FreshIInv, Others
  <2>3. QED BY <2>1, <2>2 DEF FreshIInv
<1>2. ASSUME NEW a \in Accounts, CooldownEnds(a) PROVE FreshIInv'
  <2>1. tokens' = tokens
    BY <1>2 DEF CooldownEnds
  <2>2. QED BY <1>2, <2>1, CooldownEffect, FreshAlone DEF FreshIInv
<1>3. CASE UNCHANGED <<req, tokens>>
  BY <1>3, FreshAlone DEF FreshIInv
<1>4. QED BY <1>1, <1>2, <1>3, TaskMovesKeep DEF Next, TaskMoves, Environment, RegistryRemoves,
             RouterRemoves, Evict, Expire, vars, shared
-------------------------------------------------------------------------------
(* The target of a reservation *)

\* Only remove_account adds to the removed accounts and makes none ready again.
LEMMA RequestsKeepRemoved ==
  ASSUME NEW r \in Requests, Arrive(r) \/ Step(r) \/ Cancel(r)
  PROVE  removed' = removed /\ ready' = ready
BY DEF Arrive, Step, Cancel, Woken, ReservationResolved, PlaceAgain, BeginAttempt, SkipAttempt,
   Connect, QuotaRefused, AttemptFails, Answered, OwnerAnswered, Commit, CommitLost, StreamEnds,
   TransportError, GiveUp, Exhausted, WaitForMigration, Reserve, shared

\* A request goes upstream only with the credentials it has just read.
LEMMA OnlyConnectGoesUpstream ==
  ASSUME TypesIInv, LocalIInv, NEW r \in Requests, Arrive(r) \/ Step(r) \/ Cancel(r),
         req'[r].at = "upstream"
  PROVE  Connect(r)
<1>1. ReqsTyped /\ Local(r)
  BY DEF TypesIInv, LocalIInv
<1>2. ~Ends(r) /\ ~Streams(r)
  BY <1>1, EndsEffect, StreamsEffect
<1>3. ~Arrive(r) /\ ~PlaceAgain(r)
  BY <1>2, ArriveEffect, PlaceAgainEffect DEF GoesOn
<1>4. ~Woken(r) /\ ~ReservationResolved(r)
  BY <1>2, WokenEffect, ResolvedEffect DEF GoesOn
<1>5. ~BeginAttempt(r) /\ ~SkipAttempt(r)
  BY <1>1, AttemptEffect
<1>6. ~QuotaRefused(r) /\ ~AttemptFails(r)
  <2>1. ASSUME NEW place \in {"refused", "pick"}, Goes(r, place) PROVE FALSE
    BY <1>1, <2>1, GoesEffect DEF GoesOn, Places, Awaiting
  <2>2. QED BY <2>1 DEF QuotaRefused, AttemptFails
<1>7. ~Commit(r) /\ ~GiveUp(r) /\ ~WaitForMigration(r)
  BY CommitEffect, GiveUpEffect, WaitEffect
<1>8. ASSUME NEW a \in Accounts PROVE ~Reserve(r, a)
  BY <1>1, ReserveEffect
<1>9. ~Cancel(r)
  BY <1>2 DEF Cancel
<1>10. QED BY <1>2, <1>3, <1>4, <1>5, <1>6, <1>7, <1>8, <1>9
           DEF Step, Answered, OwnerAnswered, CommitLost, StreamEnds, TransportError, Exhausted

\* The owner of a reservation is an attempt of the request that holds it.
LEMMA OwnedAttempt ==
  ASSUME TypesIInv, LocalIInv, NEW r \in Requests, OwnedBy(req[r].owner)
  PROVE  Owns(r) /\ reservation.owner.by = r
<1>1. reservation.owner \in Attempt /\ reservation.owner = req[r].owner
  BY DEF OwnedBy, Reserved, TypesIInv, ReservationIInv, Reservation
<1>2. NoAttempt \notin Attempt
  BY Assumption DEF Attempt, NoAttempt
<1>3. QED BY <1>1, <1>2 DEF Owns, LocalIInv, Local

\* Every step takes the reservation from an owner whose target was removed.
LEMMA NextTarget ==
  ASSUME TypesIInv, LocalIInv, TargetIInv, [Next]_vars, TypesIInv', LocalIInv'
  PROVE  TargetIInv'
<1> SUFFICES ASSUME NEW q \in Requests, req'[q].at = "upstream", OwnedBy(req[q].owner)'
             PROVE  req'[q].owner.to \notin removed'
  BY DEF TargetIInv
<1>1. reservation'.owner.by = q /\ reservation' # NoReservation
  <2>1. reservation'.owner = req'[q].owner /\ reservation' # NoReservation
    BY DEF OwnedBy, Reserved
  <2>2. reservation'.owner \in Attempt
    BY <2>1 DEF TypesIInv, ReservationIInv, Reservation
  <2>3. NoAttempt \notin Attempt
    BY Assumption DEF Attempt, NoAttempt
  <2>4. QED BY <2>1, <2>2, <2>3 DEF LocalIInv, Local, Owns
<1>2. ASSUME NEW r \in Requests, Arrive(r) \/ Step(r) \/ Cancel(r)
      PROVE  req'[q].owner.to \notin removed'
  <2>1. removed' = removed /\ Others(r)
    BY <1>2, RequestsKeepRemoved, RequestLocals DEF LocalIInv
  <2>2. CASE q = r
    <3>1. Connect(r)
      BY <1>2, <2>2, OnlyConnectGoesUpstream
    <3>2. req[r].target \in ready /\ reservation' = reservation /\ req'[r].owner = req[r].owner
      <4>1. Goes(r, "upstream") /\ "upstream" \in Places
        BY <3>1 DEF Connect, Places, Awaiting
      <4>2. QED BY <3>1, <4>1, GoesEffect DEF Connect, shared, GoesOn, TypesIInv
    <3>3. Owns(r)
      BY <2>2, <3>2, OwnedAttempt DEF OwnedBy, Reserved
    <3>4. req[r].target = req[r].owner.to
      BY <3>1, <3>3 DEF Connect, LocalIInv, Local, Trying
    <3>5. QED BY <2>1, <2>2, <3>2, <3>4 DEF TypesIInv, RegistryIInv
  <2>3. CASE q # r
    <3>1. req'[q] = req[q]
      BY <2>1, <2>3 DEF Others
    <3>2. ASSUME NEW a \in Accounts, Reserve(r, a) PROVE FALSE
      <4>1. reservation'.owner = NewAttempt(r, a)
        BY <3>2 DEF Reserve, NewAttempt
      <4>2. QED BY <1>1, <2>3, <4>1 DEF NewAttempt
    <3>3. reservation' = reservation
      <4>1. ASSUME NEW p \in Requests, NEW a \in Accounts, Reserve(p, a) PROVE p = r
        <5>1. req[p].at = "pick" /\ req'[p].at = "top"
          BY <4>1, ReserveEffect DEF Reserve, LocalIInv
        <5>2. QED BY <2>1, <5>1 DEF Others
      <4>2. QED BY <1>1, <3>2, <4>1, ReservationChanges
    <3>4. QED BY <2>1, <3>1, <3>3 DEF TargetIInv, OwnedBy, Reserved
  <2>4. QED BY <2>2, <2>3
<1>3. ASSUME NEW a \in Accounts, RouterRemoves(a) PROVE req'[q].owner.to \notin removed'
  <2>1. req' = req /\ reservation' = reservation /\ removed' = removed \cup {a}
    BY <1>1, <1>3 DEF RouterRemoves
  <2>2. req[q].owner.to \notin removed /\ reservation.owner = req[q].owner /\ Reserved
    BY <2>1 DEF TargetIInv, OwnedBy, Reserved
  <2>3. req[q].owner.to # a
    BY <1>1, <1>3, <2>1, <2>2 DEF RouterRemoves, Reserved
  <2>4. QED BY <2>1, <2>2, <2>3
<1>4. ASSUME NEW a \in Accounts, CooldownEnds(a) PROVE req'[q].owner.to \notin removed'
  <2>1. req'[q].at = req[q].at /\ req'[q].owner = req[q].owner /\ UNCHANGED <<reservation, removed>>
    BY <1>4, CooldownEffect DEF CooldownEnds
  <2>2. QED BY <2>1 DEF TargetIInv, OwnedBy, Reserved
<1>5. CASE UNCHANGED <<req, reservation, removed>>
  BY <1>5 DEF TargetIInv, OwnedBy, Reserved
<1>6. QED BY <1>2, <1>3, <1>4, <1>5, TaskMovesKeep DEF Next, TaskMoves, Environment,
             RegistryRemoves, Evict, Expire, vars, shared
-------------------------------------------------------------------------------
(* As long as nothing but cancellations and failed writes goes wrong *)

\* What a calm run excludes.
LEMMA CalmSteps ==
  ASSUME [Next]_vars, faults'.calm
  PROVE  /\ faults.calm /\ ~Evict /\ ~Expire
         /\ \A a \in Accounts : ~RegistryRemoves(a)
         /\ \A r \in Requests : ~TransportError(r)
<1>1. ASSUME NEW kind, Fault(kind) PROVE faults.calm /\ kind \in {"cancel", "store"}
  BY <1>1 DEF Fault
<1>2. /\ ~Evict /\ ~Expire /\ \A a \in Accounts : ~RegistryRemoves(a)
      /\ \A r \in Requests : ~TransportError(r)
  BY <1>1 DEF Evict, Expire, RegistryRemoves, TransportError
<1>3. (\E r \in Requests : Cancel(r)) => faults.calm
  BY <1>1 DEF Cancel
<1>4. ASSUME NEW r \in Requests, Arrive(r) \/ Step(r) PROVE faults.calm
  BY <1>2, <1>4 DEF Arrive, Step, Woken, ReservationResolved, PlaceAgain, BeginAttempt, SkipAttempt,
     Connect, QuotaRefused, AttemptFails, Answered, OwnerAnswered, Commit, CommitLost, StreamEnds,
     GiveUp, Exhausted, WaitForMigration, Reserve
<1>5. CASE TaskMoves \/ UNCHANGED vars \/ \E a \in Accounts : RouterRemoves(a) \/ CooldownEnds(a)
  <2>1. faults' = faults \/ Fault("store")
    BY <1>5, TaskMovesKeep DEF RouterRemoves, CooldownEnds, vars
  <2>2. QED BY <1>1, <1>2, <2>1
<1>6. QED BY <1>2, <1>3, <1>4, <1>5 DEF Next, TaskMoves, Environment

\* The pin stays, and so does every account.
LEMMA CalmKeepsPin ==
  ASSUME TypesIInv, LocalIInv, CalmIInv, [Next]_vars, faults'.calm
  PROVE  /\ removed' = {} /\ ready' = Accounts /\ (Pinned => Pinned')
         /\ \A a \in Accounts : ~RouterRemoves(a)
<1>1. removed = {} /\ ready = Accounts
  BY CalmSteps DEF CalmIInv
<1>2. \A a \in Accounts : ~RouterRemoves(a)
  BY <1>1 DEF RouterRemoves
<1>3. removed' = {} /\ ready' = Accounts
  <2>1. CASE TaskMoves \/ UNCHANGED vars \/ \E a \in Accounts : CooldownEnds(a)
    BY <1>1, <2>1, TaskMovesKeep DEF CooldownEnds, vars, shared
  <2>2. QED BY <1>1, <1>2, <2>1, CalmSteps, RequestsKeepRemoved DEF Next, TaskMoves, Environment
<1>4. Pinned => Pinned'
  <2>1. ~PinGone
    BY <1>1, <1>2, CalmSteps DEF PinGone
  <2>2. QED BY <2>1, PinChanges, PinStaysSame, MovedPin DEF PinPlaced, PinMoves, TypesIInv, LocalIInv
<1>5. QED BY <1>2, <1>3, <1>4

\* What the end of an owner leaves behind: neither its token nor its reservation.
Resolved(attempt) ==
  /\ attempt \notin tokens'
  /\ reservation' # NoReservation => reservation'.owner # attempt

\* An attempt that ends is resolved.
LEMMA OwnerEnds ==
  ASSUME NEW attempt, OwnerTerminal(attempt) \/ PreheaderFailure(attempt)
  PROVE  Resolved(attempt)
<1>1. attempt \notin tokens'
  BY DEF OwnerTerminal, PreheaderFailure, ReleaseToken
<1>2. reservation' # NoReservation => reservation'.owner # attempt
  BY DEF OwnerTerminal, PreheaderFailure, OwnedBy, Reserved
<1>3. QED BY <1>1, <1>2 DEF Resolved

\* An owner goes on with its attempt, or ends and leaves nothing.
LEMMA OwnerGoesOn ==
  ASSUME TypesIInv, LocalIInv, CalmIInv, [Next]_vars, faults'.calm,
         NEW r \in Requests, Owns(r), Arrive(r) \/ Step(r) \/ Cancel(r)
  PROVE  \/ req'[r].owner = req[r].owner /\ req'[r].at # "done"
         \/ Resolved(req[r].owner)
<1> DEFINE Keeps == req'[r].owner = req[r].owner /\ req'[r].at # "done"
<1>1. /\ ReqsTyped /\ Local(r)
      /\ req[r].at \notin {"new", "done", "placed", "waiting", "replaced"} /\ Pinned
  BY CalmSteps DEF TypesIInv, LocalIInv, Local, CalmIInv
<1>2. Streams(r) \/ Commit(r) => Keeps
  BY <1>1, StreamsEffect, CommitEffect
<1>3. ~Arrive(r) /\ ~ReservationResolved(r) /\ ~PlaceAgain(r) /\ ~Answered(r)
  BY <1>1 DEF Arrive, ReservationResolved, PlaceAgain, Answered
<1>4. ~Exhausted(r) /\ ~WaitForMigration(r) /\ ~TransportError(r) /\ \A a \in Accounts : ~Reserve(r, a)
  BY <1>1, CalmSteps DEF Exhausted, WaitForMigration, Reserve
<1>5. Woken(r) => Keeps
  BY <1>1, <1>2, WokenEffect
<1>6. BeginAttempt(r) \/ SkipAttempt(r) => Keeps
  BY <1>1, AttemptEffect
<1>7. CASE Connect(r) \/ QuotaRefused(r) \/ AttemptFails(r)
  <2>1. PICK place \in {"upstream", "refused", "pick"} : Goes(r, place)
    BY <1>7 DEF Connect, QuotaRefused, AttemptFails
  <2>2. GoesOn(r, place)
    BY <1>1, <2>1, GoesEffect DEF Places, Awaiting
  <2>3. QED BY <2>2 DEF GoesOn
<1>8. CASE StreamEnds(r) \/ GiveUp(r)
  BY <1>8, OwnerEnds DEF StreamEnds, GiveUp
<1>9. CASE Cancel(r)
  <2>1. req[r].at \in Attempting
    BY <1>1, <1>9 DEF Cancel, Awaiting, Attempting
  <2>2. QED BY <1>9, <2>1, OwnerEnds DEF Cancel
<1>10. QED BY <1>2, <1>3, <1>4, <1>5, <1>6, <1>7, <1>8, <1>9 DEF Step, OwnerAnswered, CommitLost

Owned(attempt) == \E q \in Requests : req[q].at # "done" /\ req[q].owner = attempt

\* A request is replaced only when its pin was gone.
LEMMA OnlyPlaceAgainReplaces ==
  ASSUME TypesIInv, LocalIInv, NEW r \in Requests, Step(r) \/ Cancel(r), req'[r].at = "replaced"
  PROVE  PlaceAgain(r)
<1>1. ReqsTyped /\ Local(r)
  BY DEF TypesIInv, LocalIInv
<1>2. ~Ends(r) /\ ~Streams(r)
  BY <1>1, EndsEffect, StreamsEffect
<1>3. ~Woken(r) /\ ~ReservationResolved(r)
  BY <1>2, WokenEffect, ResolvedEffect DEF GoesOn
<1>4. ~BeginAttempt(r) /\ ~SkipAttempt(r)
  BY <1>1, AttemptEffect
<1>5. ~Connect(r) /\ ~QuotaRefused(r) /\ ~AttemptFails(r)
  <2>1. ASSUME NEW place \in {"upstream", "refused", "pick"}, Goes(r, place) PROVE FALSE
    BY <1>1, <2>1, GoesEffect DEF GoesOn, Places, Awaiting
  <2>2. QED BY <2>1 DEF Connect, QuotaRefused, AttemptFails
<1>6. ~Commit(r) /\ ~GiveUp(r) /\ ~WaitForMigration(r)
  BY CommitEffect, GiveUpEffect, WaitEffect
<1>7. ASSUME NEW a \in Accounts PROVE ~Reserve(r, a)
  BY <1>1, ReserveEffect
<1>8. QED BY <1>2, <1>3, <1>4, <1>5, <1>6, <1>7 DEF Step, Cancel, Answered, OwnerAnswered, CommitLost,
             StreamEnds, TransportError, Exhausted

\* What is reserved or counted belongs to a request.
LEMMA OwnedByRequest ==
  ReservationOwned <=>
    (Reserved => Owned(reservation.owner)) /\ \A t \in tokens : Owned(t)
BY DEF ReservationOwned, Owned

\* An attempt stays a request's until it is resolved.
LEMMA StillOwned ==
  ASSUME TypesIInv, LocalIInv, CalmIInv, [Next]_vars, faults'.calm,
         NEW attempt \in Attempt, Owned(attempt), ~Resolved(attempt)
  PROVE  Owned(attempt)'
<1>1. PICK q \in Requests : req[q].at # "done" /\ req[q].owner = attempt
  BY DEF Owned
<1>2. Owns(q)
  BY <1>1, Assumption DEF Owns, Attempt, NoAttempt
<1>3. ASSUME NEW r \in Requests, Arrive(r) \/ Step(r) \/ Cancel(r)
      PROVE  req'[q].owner = attempt /\ req'[q].at # "done"
  <2>1. CASE q = r
    BY <1>1, <1>2, <1>3, <2>1, OwnerGoesOn
  <2>2. CASE q # r
    BY <1>1, <1>3, <2>2, RequestLocals DEF LocalIInv, Others
  <2>3. QED BY <2>1, <2>2
<1>4. ASSUME NEW a \in Accounts, CooldownEnds(a)
      PROVE  req'[q].owner = attempt /\ req'[q].at # "done"
  BY <1>1, <1>4, CooldownEffect
<1>5. ASSUME TaskMoves \/ UNCHANGED vars
      PROVE  req'[q].owner = attempt /\ req'[q].at # "done"
  <2>1. req' = req
    BY <1>5, TaskMovesKeep DEF vars
  <2>2. QED BY <1>1, <1>2, <2>1
<1>6. req'[q].owner = attempt /\ req'[q].at # "done"
  <2>1. ~Environment \/ \E a \in Accounts : CooldownEnds(a)
    BY CalmSteps, CalmKeepsPin DEF Environment
  <2>2. QED BY <1>3, <1>4, <1>5, <2>1 DEF Next, TaskMoves
<1>7. QED BY <1>6 DEF Owned

\* A new reservation belongs to the request that made it.
LEMMA NewIsOwned ==
  ASSUME TypesIInv, LocalIInv, NEW r \in Requests, NEW a \in Accounts, Reserve(r, a)
  PROVE  Owned(reservation.owner)' /\ tokens' = tokens \cup {reservation'.owner}
<1>1. req'[r].at = "top" /\ req'[r].owner = NewAttempt(r, a)
  BY ReserveEffect DEF LocalIInv
<1>2. reservation'.owner = NewAttempt(r, a) /\ tokens' = tokens \cup {NewAttempt(r, a)}
  BY DEF Reserve, NewAttempt
<1>3. QED BY <1>1, <1>2 DEF Owned

\* Every calm step leaves nothing reserved without its request.
LEMMA NextOwned ==
  ASSUME TypesIInv, LocalIInv, CalmIInv, [Next]_vars, faults'.calm
  PROVE  ReservationOwned'
<1>1. /\ Reserved => Owned(reservation.owner)
      /\ \A t \in tokens : Owned(t)
  BY CalmSteps, OwnedByRequest DEF CalmIInv
<1>2. SUFFICES /\ Reserved' => Owned(reservation.owner)'
               /\ \A t \in tokens' : Owned(t)'
  BY DEF ReservationOwned, Owned
<1>3. tokens \subseteq Attempt /\ (Reserved => reservation.owner \in Attempt)
  BY DEF TypesIInv, TokensIInv, ReservationIInv, Reservation, Reserved
<1>4. ASSUME NEW t \in tokens, t \in tokens' PROVE Owned(t)'
  BY <1>1, <1>3, <1>4, StillOwned DEF Resolved
<1>5. ASSUME reservation' = reservation, Reserved PROVE Owned(reservation.owner)'
  <2>1. reservation.owner \in Attempt /\ Owned(reservation.owner) /\ ~Resolved(reservation.owner)
    BY <1>1, <1>3, <1>5 DEF Resolved, Reserved
  <2>2. Owned(reservation.owner)' <=> \E q \in Requests : req'[q].at # "done" /\ req'[q].owner = reservation.owner
    BY <1>5 DEF Owned
  <2>3. \E q \in Requests : req'[q].at # "done" /\ req'[q].owner = reservation.owner
    BY <2>1, StillOwned DEF Owned
  <2>4. QED BY <2>2, <2>3
<1>6. CASE \E r \in Requests, a \in Accounts : Reserve(r, a)
  BY <1>4, <1>6, NewIsOwned
<1>7. CASE ~\E r \in Requests, a \in Accounts : Reserve(r, a)
  <2>1. tokens' \subseteq tokens
    BY <1>7, NextCountChanges DEF CountChanges, CountStays, PlainBegins, PlainEnds, TokenReleased,
       TokenTaken, ReleaseToken
  <2>2. QED BY <1>4, <1>5, <1>7, <2>1, ReservationChanges DEF Reserved
<1>8. QED BY <1>6, <1>7

\* Every step keeps a calm run without leftovers.
LEMMA NextCalm ==
  ASSUME TypesIInv, LocalIInv, CalmIInv, [Next]_vars
  PROVE  CalmIInv'
<1> SUFFICES ASSUME faults'.calm
             PROVE  /\ removed' = {} /\ ready' = Accounts
                    /\ \A q \in Requests :
                         req'[q].at \notin {"new", "done"} => Pinned' /\ req'[q].at # "replaced"
                    /\ ReservationOwned'
  BY DEF CalmIInv
<1>1. /\ removed' = {} /\ ready' = Accounts /\ (Pinned => Pinned') /\ ReservationOwned'
      /\ \A q \in Requests : req[q].at \notin {"new", "done"} => Pinned /\ req[q].at # "replaced"
      /\ ReqsTyped
  BY CalmSteps, CalmKeepsPin, NextOwned DEF CalmIInv, TypesIInv
<1>2. ASSUME NEW q \in Requests, req'[q].at = req[q].at, req'[q].at \notin {"new", "done"}
      PROVE  Pinned' /\ req'[q].at # "replaced"
  BY <1>1, <1>2
<1>3. ASSUME NEW r \in Requests, Arrive(r) \/ Step(r) \/ Cancel(r), req'[r].at \notin {"new", "done"}
      PROVE  Pinned' /\ req'[r].at # "replaced"
  <2>1. ~Ends(r)
    BY <1>1, <1>3, EndsEffect
  <2>2. CASE Arrive(r)
    <3>1. req'[r].at = "placed"
      BY <2>1, <2>2, ArriveEffect DEF GoesOn
    <3>2. CASE Pinned
      BY <1>1, <3>1, <3>2
    <3>3. CASE ~Pinned
      <4>1. ready \subseteq Accounts
        BY DEF TypesIInv, RegistryIInv
      <4>2. \E a \in Accounts : PlaceOn(a)
        BY <2>1, <2>2, <3>3, <4>1 DEF Arrive
      <4>3. QED BY <3>1, <4>2, PlacedPin
    <3>4. QED BY <3>2, <3>3
  <2>3. CASE Step(r) \/ Cancel(r)
    <3>1. req[r].at \notin {"new", "done"}
      BY <2>3 DEF Step, Cancel, Woken, ReservationResolved, PlaceAgain, BeginAttempt, SkipAttempt,
         Connect, QuotaRefused, AttemptFails, Answered, OwnerAnswered, Commit, CommitLost,
         StreamEnds, TransportError, GiveUp, Exhausted, WaitForMigration, Reserve, Awaiting
    <3>2. ~PlaceAgain(r) /\ Pinned'
      BY <1>1, <3>1 DEF PlaceAgain
    <3>3. req'[r].at # "replaced"
      BY <1>3, <2>3, <3>2, OnlyPlaceAgainReplaces DEF Step, Cancel
    <3>4. QED BY <3>2, <3>3
  <2>4. QED BY <1>3, <2>2, <2>3
<1>4. ASSUME NEW r \in Requests, Arrive(r) \/ Step(r) \/ Cancel(r), NEW q \in Requests, q # r
      PROVE  req'[q].at = req[q].at
  BY <1>4, RequestLocals DEF LocalIInv, Others
<1>5. ASSUME NEW a \in Accounts, CooldownEnds(a), NEW q \in Requests PROVE req'[q].at = req[q].at
  BY <1>5, CooldownEffect
<1>6. ASSUME NEW q \in Requests, req'[q].at \notin {"new", "done"}
      PROVE  Pinned' /\ req'[q].at # "replaced"
  <2>1. CASE UNCHANGED req
    BY <1>2, <1>6, <2>1
  <2>2. CASE \E a \in Accounts : CooldownEnds(a)
    BY <1>2, <1>5, <1>6, <2>2
  <2>3. CASE \E r \in Requests : Arrive(r) \/ Step(r) \/ Cancel(r)
    BY <1>2, <1>3, <1>4, <1>6, <2>3
  <2>4. QED BY <2>1, <2>2, <2>3, TaskMovesKeep DEF Next, TaskMoves, Environment, RegistryRemoves,
             RouterRemoves, Evict, Expire, vars
<1>7. QED BY <1>1, <1>6
-------------------------------------------------------------------------------
(* The inductive invariant *)

\* Every step keeps the types.
LEMMA NextTypes ==
  ASSUME TypesIInv, LocalIInv, FreshIInv, CountIInv, QueueIInv, [Next]_vars
  PROVE  TypesIInv'
<1>1. RegistryIInv' /\ PinIInv' /\ ReservationIInv'
  BY NextRegistry, NextPin, NextReservation
<1>2. TasksIInv' /\ TokensIInv' /\ ReqsTyped' /\ RestIInv'
  BY NextTasks, NextCount, NextLocals, NextRest DEF RestIInv
<1>3. QED BY <1>1, <1>2 DEF TypesIInv

\* The initial states satisfy the invariant.
LEMMA InitIInv == Init => IInv
<1> SUFFICES ASSUME Init PROVE IInv
  OBVIOUS
<1>1. NewRequest \in Request
  BY DEF NewRequest, Request, Places
<1>2. ReqsTyped /\ \A r \in Requests : req[r] = NewRequest
  BY <1>1 DEF Init, ReqsTyped
<1>3. TypesIInv
  <2>1. RegistryIInv /\ PinIInv /\ ReservationIInv
    BY DEF Init, RegistryIInv, PinIInv, ReservationIInv, Pinned
  <2>2. TasksIInv /\ TokensIInv /\ RestIInv
    BY FS_EmptySet, Assumption DEF Init, TasksIInv, TokensIInv, RestIInv
  <2>3. QED BY <1>2, <2>1, <2>2 DEF TypesIInv
<1>4. LocalIInv
  BY <1>2 DEF LocalIInv, Local, Owns, NewRequest, Trying
<1>5. CountIInv
  <2>1. ASSUME NEW a \in Accounts PROVE PlainAttempts(a) = {} /\ {t \in tokens : t.to = a} = {}
    BY <1>2 DEF Init, PlainAttempts, NewRequest, Attempting
  <2>2. QED BY <2>1, FS_EmptySet DEF Init, CountIInv
<1>6. FreshIInv
  BY DEF Init, FreshIInv, Fresh
<1>7. TargetIInv /\ QueueIInv /\ DurableIInv
  BY <1>2 DEF Init, TargetIInv, QueueIInv, DurableIInv, NewRequest, Pinned
<1>8. CalmIInv
  BY <1>2 DEF Init, CalmIInv, NewRequest, ReservationOwned, Reserved
<1>9. QED BY <1>3, <1>4, <1>5, <1>6, <1>7, <1>8 DEF IInv

\* Every step keeps the invariant.
LEMMA NextIInv == IInv /\ [Next]_vars => IInv'
<1> SUFFICES ASSUME IInv, [Next]_vars PROVE IInv'
  OBVIOUS
<1>1. TypesIInv' /\ LocalIInv'
  BY NextTypes, NextLocals DEF IInv
<1>2. CountIInv' /\ FreshIInv' /\ QueueIInv' /\ DurableIInv' /\ CalmIInv'
  BY NextCount, NextFresh, NextQueue, NextDurable, NextCalm DEF IInv
<1>3. TargetIInv'
  BY <1>1, NextTarget DEF IInv
<1>4. QED BY <1>1, <1>2, <1>3 DEF IInv

(* The parts of the invariant hold in every reachable state, whatever the      *)
(* requests, the accounts and the faults.                                      *)
THEOREM Invariance == Spec => []IInv
<1>1. QED BY InitIInv, NextIInv, PTL DEF Spec

\* The invariant implies the checked type invariant.
LEMMA Typed == TypesIInv => TypeOK
BY DEF TypesIInv, RegistryIInv, PinIInv, TasksIInv, Task, TokensIInv, ReservationIInv,
   ReqsTyped, RestIInv, TypeOK

(* M(a), which selection compares to choose the least loaded account, counts   *)
(* each plain attempt and each migration token once, on every path by which an *)
(* attempt ends: begin_attempt, end_attempt, release_migration_token.          *)
THEOREM InFlightExactThm == Spec => []InFlightExact
<1>1. IInv => InFlightExact
  BY Typed DEF IInv, CountIInv, InFlightExact
<1>2. QED BY <1>1, Invariance, PTL

(* A request that was told its pin's generation is settled finds that very     *)
(* generation in the store, unless the account's removal took the row or the   *)
(* store failed to make that generation's own write: submit_new_pin_durability *)
(* resolves the barrier it read with the pin, in either case, and a write      *)
(* never lands over that of a later generation.                                *)
THEOREM BarrierMeansDurableThm == Spec => []BarrierMeansDurable
<1>1. IInv => BarrierMeansDurable
  BY DEF IInv, DurableIInv, Settled, PinRow, BarrierMeansDurable
<1>2. QED BY <1>1, Invariance, PTL

(* Cancelling requests, at whatever await and however often, and failing to    *)
(* write, leaves neither a pending reservation nor a token that nobody is left *)
(* to release (resolve_migration_owner_terminal on every owner exit).          *)
THEOREM CancellationsLeaveNothingThm == Spec => []CancellationsLeaveNothing
<1>1. IInv => CancellationsLeaveNothing
  BY DEF IInv, CalmIInv, CancellationsLeaveNothing
<1>2. QED BY <1>1, Invariance, PTL

\* The account of a pin entry changes in one step only.
LEMMA OnlyCommitMoves ==
  ASSUME IInv, [Next]_vars, pin.entry # 0, pin'.entry = pin.entry, pin'.account # pin.account
  PROVE  PinMoves
<1>1. TypesIInv /\ barriers \in Nat
  BY DEF IInv, TypesIInv, TasksIInv
<1>2. ~PinStays
  BY <1>1, PinStaysSame DEF TypesIInv
<1>3. ~PinGone
  BY DEF PinGone, NoPin
<1>4. ~PinPlaced
  BY DEF PinPlaced, Pinned, NoPin
<1>5. QED BY <1>1, <1>2, <1>3, <1>4, PinChanges

(* A session's pin entry is moved only by the migration in flight, to the      *)
(* target it reserved and never onto an account the router was told is gone:   *)
(* the compare-and-set of commit_at_headers against remove_account and against *)
(* the owner of a later migration.                                             *)
THEOREM OnlyReservedMovesThm == Spec => OnlyReservedMoves
<1> DEFINE Moves == pin.entry # 0 /\ pin'.entry = pin.entry /\ pin'.account # pin.account
           ByReservation == /\ Reserved /\ ~Reserved'
                            /\ pin'.account = reservation.owner.to /\ pin'.gen = pin.gen + 1
                            /\ pin'.account \notin removed
<1>1. IInv /\ [Next]_vars => [Moves => ByReservation]_vars
  <2> SUFFICES ASSUME IInv, [Next]_vars, Moves PROVE ByReservation
    OBVIOUS
  <2>1. PICK r \in Requests : Commit(r)
    BY OnlyCommitMoves DEF PinMoves
  <2>2. /\ req[r].at = "upstream" /\ Owns(r) /\ OwnedBy(req[r].owner)
        /\ reservation' = NoReservation
    BY <2>1 DEF Commit, CanCommit
  <2>3. pin'.account = req[r].target /\ pin'.gen = pin.gen + 1
    BY <2>1, MovedPin DEF IInv, LocalIInv
  <2>4. req[r].target = req[r].owner.to
    BY <2>2 DEF IInv, LocalIInv, Local, Trying
  <2>5. req[r].owner.to \notin removed /\ reservation.owner = req[r].owner
    BY <2>2 DEF IInv, TargetIInv, OwnedBy
  <2>6. QED BY <2>2, <2>3, <2>4, <2>5 DEF OwnedBy, Reserved
<1>2. QED BY <1>1, Invariance, PTL DEF Spec, OnlyReservedMoves
=============================================================================
