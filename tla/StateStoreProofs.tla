--------------------------- MODULE StateStoreProofs ---------------------------
(***************************************************************************)
(* Proofs about StateStore for every set of rows and incarnations and      *)
(* every bound: type correctness, the order of the queue, the fence that   *)
(* keeps removed incarnations and rotated epochs from coming back, commit  *)
(* order within a row, and what an acknowledgement means.                  *)
(***************************************************************************)
EXTENDS StateStore, TLAPS

(* The operations a caller submits are well formed: an upsert names a row and
   an incarnation, a deletion of an incarnation names it. *)
CallerOp(op) ==
  /\ op \in Op
  /\ op.kind = "upsert" => op.key \in Keys /\ op.inc \in Incarnations
  /\ op.kind = "deleteIncarnation" => op.inc \in Incarnations

(* The fence of a well-formed operation is a set of barrier scopes. *)
LEMMA FenceType ==
  ASSUME NEW op, CallerOp(op)
  PROVE  FenceOf(op) \in SUBSET Barriers
BY DEF CallerOp, FenceOf, Barriers

(* The bounds are numbers. *)
LEMMA Bounds == /\ MaxSeq \in Nat /\ MaxFailures \in Nat
                /\ MaxEpoch \in Nat /\ MaxLives \in Nat
BY Assumption

(* A new job, and a job whose payload was replaced, are jobs. *)
LEMMA JobTypes ==
  ASSUME next \in Nat, NEW op, CallerOp(op), NEW high \in BOOLEAN
  PROVE  /\ NewJob(op, high) \in Job
         /\ \A j \in Job : Coalesced(j, op) \in Job
BY FenceType DEF NewJob, Coalesced, Job, CallerOp

(* Ending every debounce changes nothing else of the queue. *)
LEMMA FlushedType ==
  ASSUME NEW queue \in Seq(Job)
  PROVE  /\ Flushed(queue) \in Seq(Job)
         /\ DOMAIN Flushed(queue) = DOMAIN queue
         /\ \A i \in DOMAIN queue : Flushed(queue)[i] = [queue[i] EXCEPT !.due = TRUE]
<1>1. \A j \in Job : [j EXCEPT !.due = TRUE] \in Job
  BY DEF Job
<1>2. \A i \in DOMAIN queue : [queue[i] EXCEPT !.due = TRUE] \in Job
  BY <1>1
<1>3. QED BY <1>2 DEF Flushed

(* What a submission does to the queue is again a queue of jobs: either one
   job longer, or the same jobs with one scope's payload replaced. *)
QueueAfter(op, high) ==
  IF SameScope(op) = {}
    THEN Append(pending, NewJob(op, high))
    ELSE [i \in DOMAIN pending |->
            IF i \in SameScope(op) THEN Coalesced(pending[i], op) ELSE pending[i]]

\* A queue that takes a job stays a queue.
LEMMA QueueType ==
  ASSUME TypeOK, NEW op, CallerOp(op), NEW high \in BOOLEAN
  PROVE  QueueAfter(op, high) \in Seq(Job)
<1>1. /\ next \in Nat /\ pending \in Seq(Job)
  BY Assumption DEF TypeOK
<1>2. /\ NewJob(op, high) \in Job
      /\ \A j \in Job : Coalesced(j, op) \in Job
  BY <1>1, JobTypes
<1>3. CASE SameScope(op) = {}
  BY <1>1, <1>2, <1>3 DEF QueueAfter
<1>4. CASE SameScope(op) # {}
  <2> DEFINE queue == [i \in DOMAIN pending |->
                        IF i \in SameScope(op) THEN Coalesced(pending[i], op)
                                               ELSE pending[i]]
  <2>1. \A i \in DOMAIN pending :
          (IF i \in SameScope(op) THEN Coalesced(pending[i], op) ELSE pending[i]) \in Job
    BY <1>1, <1>2
  <2>2. queue \in Seq(Job)
    BY <1>1, <2>1
  <2>3. QED BY <1>4, <2>2 DEF QueueAfter
<1>5. QED BY <1>3, <1>4

(* Every submission is Submit of a well-formed operation; all it adds is that
   a rotation mints an epoch id. *)
LEMMA CallerSubmits ==
  ASSUME TypeOK, Caller
  PROVE  \/ Close
         \/ \E op \in Op, h \in BOOLEAN : CallerOp(op) /\ Submit(op, h) /\ minted' \in Nat
<1> USE DEF CallerOp, Op, AllKinds
<1>0. minted \in Nat
  BY DEF TypeOK
<1>1. ASSUME NEW k \in Keys, NEW i \in Incarnations, NEW e \in 0..memEpoch,
             NEW high \in BOOLEAN, SubmitUpsert(k, i, e, high)
      PROVE  \E op \in Op, h \in BOOLEAN : CallerOp(op) /\ Submit(op, h) /\ minted' \in Nat
  <2>1. CallerOp(Upsert(k, i, e))
    BY DEF Upsert, TypeOK
  <2>2. QED BY <1>0, <1>1, <2>1 DEF SubmitUpsert
<1>2. ASSUME NEW k \in Keys, NEW high \in BOOLEAN, SubmitDelete(k, high)
      PROVE  \E op \in Op, h \in BOOLEAN : CallerOp(op) /\ Submit(op, h) /\ minted' \in Nat
  <2>1. CallerOp(OnKey("delete", k))
    BY DEF OnKey
  <2>2. QED BY <1>0, <1>2, <2>1 DEF SubmitDelete
<1>3. ASSUME NEW k \in PinKeys, SubmitTouch(k)
      PROVE  \E op \in Op, h \in BOOLEAN : CallerOp(op) /\ Submit(op, h) /\ minted' \in Nat
  <2>1. CallerOp(OnKey("touch", k))
    BY DEF OnKey, Keys
  <2>2. QED BY <1>0, <1>3, <2>1 DEF SubmitTouch
<1>4. ASSUME SubmitRotate
      PROVE  \E op \in Op, h \in BOOLEAN : CallerOp(op) /\ Submit(op, h) /\ minted' \in Nat
  <2>1. minted + 1 \in Nat
    BY <1>0
  <2>2. CallerOp(Rotate(minted + 1))
    BY <2>1 DEF Rotate
  <2>3. Submit(Rotate(minted + 1), TRUE) /\ minted' \in Nat
    BY <1>4, <2>1 DEF SubmitRotate
  <2>4. QED BY <2>2, <2>3
<1>5. ASSUME SubmitInvalidate \/ SubmitRestore
      PROVE  \E op \in Op, h \in BOOLEAN : CallerOp(op) /\ Submit(op, h) /\ minted' \in Nat
  <2>1. CallerOp(Global("invalidate")) /\ CallerOp(Global("restore"))
    BY DEF Global, OnKey
  <2>2. QED BY <1>0, <1>5, <2>1 DEF SubmitInvalidate, SubmitRestore
<1>6. ASSUME NEW i \in Incarnations, SubmitDeleteIncarnation(i)
      PROVE  \E op \in Op, h \in BOOLEAN : CallerOp(op) /\ Submit(op, h) /\ minted' \in Nat
  <2>1. CallerOp(DeleteIncarnation(i))
    BY DEF DeleteIncarnation
  <2>2. QED BY <1>0, <1>6, <2>1 DEF SubmitDeleteIncarnation
<1>7. QED BY <1>1, <1>2, <1>3, <1>4, <1>5, <1>6 DEF Caller

(* Completing waiters keeps the shape of outcome. *)
LEMMA SettledType ==
  ASSUME outcome \in [1..MaxSeq -> Outcomes], NEW w, NEW r \in Outcomes
  PROVE  Settled(w, r) \in [1..MaxSeq -> Outcomes]
BY DEF Settled

(* Recording a barrier keeps the shape of a barrier map and lowers nothing. *)
LEMMA RaisedType ==
  ASSUME NEW m \in [Barriers -> Nat], NEW j \in Job
  PROVE  /\ Raised(m, j) \in [Barriers -> Nat]
         /\ \A b \in Barriers : Raised(m, j)[b] >= m[b]
         /\ \A b \in Barriers : b # BarrierOf(j.op) => Raised(m, j)[b] = m[b]
         /\ \A b \in Barriers : b = BarrierOf(j.op) =>
               Raised(m, j)[b] = Larger(m[b], j.payload)
BY DEF Raised, Larger, Job

(* What a successful attempt writes keeps its shape. *)
LEMMA CommitType ==
  ASSUME TypeOK, NEW expired \in SUBSET Keys, Commit(expired)
  PROVE  /\ rows' \in [Keys -> Row] /\ diskEpoch' \in Nat /\ memEpoch' \in Nat
         /\ committed' \in [Barriers -> Nat] /\ durable' \in [Barriers -> Nat]
         /\ applied' \in [Keys -> Nat] /\ wiped' \in Nat
<1> USE DEF TypeOK
<1>1. CASE Fenced(job)
  BY <1>1 DEF Commit, disk, history
<1>2. CASE ~Fenced(job)
  <2>1. /\ rows' = RowsAfter(job, expired)
        /\ memEpoch' = EpochInMemory(job)
        /\ diskEpoch' = IF job.op.kind = "rotate" THEN job.op.epoch ELSE diskEpoch
        /\ committed' = Raised(committed, job)
        /\ durable' = Raised(durable, job)
        /\ wiped' = IF job.op.kind = "rotate" THEN Larger(wiped, job.payload) ELSE wiped
        /\ applied' = [k \in Keys |-> IF Scope(job.op) = <<"row", k>>
                                         THEN job.payload ELSE applied[k]]
    BY <1>2 DEF Commit
  <2>2. job.op \in Op /\ job.payload \in Nat
    BY DEF Job
  <2>3. RowsAfter(job, expired) \in [Keys -> Row]
    <3> SUFFICES ASSUME NEW k \in Keys
                 PROVE  RowsAfter(job, expired)[k] \in Row
      BY DEF RowsAfter
    <3>1. rows[k] \in Row /\ NoRow \in Row
      BY DEF NoRow, Row
    <3>2. [rows[k] EXCEPT !.seen = job.payload] \in Row
      BY <3>1, <2>2 DEF Row
    <3>3. [inc |-> job.op.inc, epoch |-> job.op.epoch, payload |-> job.payload,
           seen |-> job.payload] \in Row
      BY <2>2 DEF Op, Row
    <3>4. QED BY <3>1, <3>2, <3>3 DEF RowsAfter
  <2>4. EpochInMemory(job) \in Nat /\ diskEpoch' \in Nat
    BY <2>1, <2>2 DEF EpochInMemory, Op
  <2>5. wiped' \in Nat /\ applied' \in [Keys -> Nat]
    BY <2>1, <2>2 DEF Larger
  <2>6. committed' \in [Barriers -> Nat] /\ durable' \in [Barriers -> Nat]
    BY <2>1, RaisedType
  <2>7. QED BY <2>1, <2>3, <2>4, <2>5, <2>6
<1>3. QED BY <1>1, <1>2

(* TypeOK is inductive. *)
LEMMA TypeStep == TypeOK /\ [Next]_vars => TypeOK'
<1> SUFFICES ASSUME TypeOK, [Next]_vars
             PROVE  TypeOK'
  OBVIOUS
<1> USE DEF TypeOK
<1>j. NoJob \in Job
  BY DEF NoJob, Job, Op, Global, OnKey, AllKinds
<1>1. CASE Close
  BY <1>1, FlushedType DEF Close, disk, history, counters
<1>2. ASSUME NEW op \in Op, NEW high \in BOOLEAN, CallerOp(op), Submit(op, high),
             minted' \in Nat
      PROVE  TypeOK'
  <2>1. QueueAfter(op, high) \in Seq(Job)
    BY <1>2, QueueType
  <2>2. pending' = IF high THEN Flushed(QueueAfter(op, high)) ELSE QueueAfter(op, high)
    BY <1>2 DEF Submit, QueueAfter
  <2>3. pending' \in Seq(Job)
    BY <2>1, <2>2, FlushedType
  <2>4. next' \in 1..(MaxSeq + 1)
    BY <1>2, Assumption DEF Submit
  <2>5. outcome' \in [1..MaxSeq -> Outcomes]
    BY <1>2 DEF Submit, Outcomes
  <2>6. QED BY <1>2, <2>3, <2>4, <2>5 DEF Submit, disk, history
<1>3. CASE DebounceEnds
  <2>1. \A j \in Job : [j EXCEPT !.due = TRUE] \in Job
    BY DEF Job
  <2>2. pending' \in Seq(Job)
    BY <1>3, <2>1 DEF DebounceEnds
  <2>3. QED BY <1>3, <2>2 DEF DebounceEnds, disk, history, counters
<1>4. CASE TakePending
  BY <1>4 DEF TakePending, HeadIsDue, WriterStates, disk, history, counters
<1>5. ASSUME NEW r \in retrying, TakeRetry(r)
      PROVE  TypeOK'
  BY <1>5 DEF TakeRetry, WriterStates, disk, history, counters
<1>6. CASE Stop
  BY <1>6 DEF Stop, WriterStates, disk, history, counters
<1>7. ASSUME NEW expired \in SUBSET Keys, Commit(expired)
      PROVE  TypeOK'
  BY <1>7, CommitType DEF Commit, WriterStates, counters
<1>8. CASE Acknowledge
  <2>1. outcome' \in [1..MaxSeq -> Outcomes]
    BY <1>8, SettledType DEF Acknowledge, Outcomes
  <2>2. QED BY <1>8, <2>1, <1>j DEF Acknowledge, WriterStates, disk, history, counters
<1>9. ASSUME NEW atCommit \in BOOLEAN, RolledBack(atCommit),
             retrying' \in SUBSET Job, degraded' \in BOOLEAN,
             outcome' \in [1..MaxSeq -> Outcomes]
      PROVE  TypeOK'
  <2>1. committed' \in [Barriers -> Nat]
    <3>1. committed' \in {committed, Raised(committed, job)}
      BY <1>9 DEF RolledBack
    <3>2. committed \in [Barriers -> Nat] /\ Raised(committed, job) \in [Barriers -> Nat]
      BY RaisedType
    <3>3. QED BY <3>1, <3>2
  <2>2. memEpoch' \in Nat
    <3>1. memEpoch' \in {memEpoch, EpochInMemory(job)}
      BY <1>9 DEF RolledBack
    <3>2. memEpoch \in Nat /\ job.op.epoch \in Nat
      BY DEF Job, Op
    <3>3. QED BY <3>1, <3>2 DEF EpochInMemory
  <2>3. QED BY <1>9, <1>j, <2>1, <2>2 DEF RolledBack, WriterStates, disk, history
<1>10. ASSUME NEW atCommit \in BOOLEAN, FailTransient(atCommit)
       PROVE  TypeOK'
  <2>1. [job EXCEPT !.due = TRUE, !.tried = TRUE] \in Job
    BY DEF Job
  <2>2. QED BY <1>10, <1>9, <2>1 DEF FailTransient
<1>11. ASSUME NEW atCommit \in BOOLEAN, FailForGood(atCommit)
       PROVE  TypeOK'
  <2>1. outcome' \in [1..MaxSeq -> Outcomes]
    BY <1>11, SettledType DEF FailForGood, Outcomes
  <2>2. QED BY <1>11, <1>9, <2>1 DEF FailForGood
<1>12. CASE FailIntegrity
  <2>1. outcome' \in [1..MaxSeq -> Outcomes]
    BY <1>12, SettledType DEF FailIntegrity, Outcomes
  <2>2. QED BY <1>12, <1>9, <2>1 DEF FailIntegrity
<1>13. CASE Crash
  <2>1. outcome' \in [1..MaxSeq -> Outcomes]
    BY <1>13, SettledType DEF Crash, Outcomes
  <2>2. pending' \in Seq(Job) /\ retrying' \in SUBSET Job /\ job' \in Job
        /\ writer' \in WriterStates
    BY <1>13, <1>j DEF Crash, WriterStates
  <2>3. UNCHANGED <<closed, next, committed, memEpoch, degraded, disk, history, counters>>
    BY <1>13 DEF Crash
  <2>4. QED BY <2>1, <2>2, <2>3 DEF disk, history, counters
<1>14. CASE Reopen
  <2>1. rows' \in [Keys -> Row]
    BY <1>14 DEF Reopen, Row
  <2>2. next' = 1 /\ lives' = lives + 1
    BY <1>14, Zenon DEF Reopen
  <2>3. next' \in 1..(MaxSeq + 1) /\ lives' \in Nat
    BY <2>2, Bounds
  <2>4. committed' \in [Barriers -> Nat] /\ durable' \in [Barriers -> Nat]
    BY <1>14, Bounds DEF Reopen
  <2>5. applied' \in [Keys -> Nat] /\ outcome' \in [1..MaxSeq -> Outcomes]
    BY <1>14, Bounds DEF Reopen, Outcomes
  <2>6. QED BY <1>14, <2>1, <2>3, <2>4, <2>5 DEF Reopen, WriterStates
<1>15. CASE UNCHANGED vars
  BY <1>15 DEF vars, memory, disk, history, counters
<1>16. QED
  BY <1>1, <1>2, <1>3, <1>4, <1>5, <1>6, <1>7, <1>8, <1>10, <1>11, <1>12, <1>13,
     <1>14, <1>15, CallerSubmits DEF Next, Writer

(* Every state of the store has its types, whatever the rows, the incarnations
   and the bounds. *)
THEOREM TypeCorrect == Spec => []TypeOK
<1>1. Init => TypeOK
  <2> SUFFICES ASSUME Init PROVE TypeOK
    OBVIOUS
  <2>1. NoJob \in Job /\ job \in Job
    BY DEF Init, NoJob, Job, Op, Global, OnKey, AllKinds
  <2>2. rows \in [Keys -> Row]
    BY DEF Init, NoRow, Row
  <2>3. next \in 1..(MaxSeq + 1)
    BY Bounds DEF Init
  <2>4. pending \in Seq(Job) /\ retrying \in SUBSET Job
    BY DEF Init
  <2>5. QED BY <2>1, <2>2, <2>3, <2>4 DEF Init, TypeOK, WriterStates, Outcomes
<1>2. QED BY <1>1, TypeStep, PTL DEF Spec

-----------------------------------------------------------------------------
(* The fence *)

(* An upsert is fenced by the incarnation it names and, for a pin, by the
   epoch, whatever was coalesced into it. *)
Fences(j) == j.op.kind = "upsert" =>
  /\ j.op.key \in Keys /\ j.op.inc \in Incarnations
  /\ j.op.inc \in j.fence
  /\ j.op.key \in PinKeys => EpochBarrier \in j.fence

FencesHold ==
  /\ \A i \in DOMAIN pending : Fences(pending[i])
  /\ \A r \in retrying : Fences(r)
  /\ Fences(job)

(* The barriers in memory are never behind the ones on disk. *)
BarriersAhead ==
  /\ \A b \in Barriers : committed[b] >= durable[b]
  /\ durable[EpochBarrier] >= wiped

FenceInv == FencesHold /\ BarriersAhead /\ NoResurrection

\* Neither a new job nor a coalesced one loses its fence.
LEMMA FencesKept ==
  ASSUME NEW op, CallerOp(op), NEW high \in BOOLEAN
  PROVE  /\ Fences(NewJob(op, high))
         /\ \A j \in Job : Fences(Coalesced(j, op))
BY DEF CallerOp, Fences, NewJob, Coalesced, FenceOf, Job

\* Every step keeps the fences.
LEMMA FencesHoldStep == TypeOK /\ FencesHold /\ [Next]_vars => FencesHold'
<1> SUFFICES ASSUME TypeOK, FencesHold, [Next]_vars
             PROVE  FencesHold'
  OBVIOUS
<1> USE DEF FencesHold
<1>t. pending \in Seq(Job) /\ retrying \in SUBSET Job /\ job \in Job
  BY DEF TypeOK
<1>j. Fences(NoJob)
  BY DEF Fences, NoJob, Global, OnKey
<1>d. \A j \in Job : Fences(j) => /\ Fences([j EXCEPT !.due = TRUE])
                                /\ Fences([j EXCEPT !.due = TRUE, !.tried = TRUE])
  BY DEF Fences, Job
<1>f. ASSUME NEW queue \in Seq(Job), \A i \in DOMAIN queue : Fences(queue[i])
      PROVE  \A i \in DOMAIN Flushed(queue) : Fences(Flushed(queue)[i])
  <2> SUFFICES ASSUME NEW i \in DOMAIN queue
               PROVE  Fences(Flushed(queue)[i])
    BY <1>f, FlushedType
  <2>1. queue[i] \in Job /\ Fences(queue[i])
    BY <1>f
  <2>2. Flushed(queue)[i] = [queue[i] EXCEPT !.due = TRUE]
    BY FlushedType
  <2>3. QED BY <2>1, <2>2, <1>d
<1>1. CASE Close
  BY <1>1, <1>t, <1>f DEF Close
<1>2. ASSUME NEW op \in Op, NEW high \in BOOLEAN, CallerOp(op), Submit(op, high)
      PROVE  FencesHold'
  <2>1. QueueAfter(op, high) \in Seq(Job)
    BY <1>2, QueueType
  <2>2. \A i \in DOMAIN QueueAfter(op, high) : Fences(QueueAfter(op, high)[i])
    <3>1. CASE SameScope(op) = {}
      BY <1>2, <1>t, <3>1, FencesKept DEF QueueAfter
    <3>2. CASE SameScope(op) # {}
      BY <1>2, <1>t, <3>2, FencesKept DEF QueueAfter
    <3>3. QED BY <3>1, <3>2
  <2>3. pending' = IF high THEN Flushed(QueueAfter(op, high)) ELSE QueueAfter(op, high)
    BY <1>2 DEF Submit, QueueAfter
  <2>4. QED BY <1>2, <1>f, <2>1, <2>2, <2>3 DEF Submit
<1>3. CASE DebounceEnds
  <2>1. \A i \in DOMAIN pending' : Fences(pending'[i])
    <3>1. \A i \in DOMAIN pending : pending[i] \in Job
      BY <1>t
    <3>2. \A i \in DOMAIN pending : \/ pending'[i] = pending[i]
                                   \/ pending'[i] = [pending[i] EXCEPT !.due = TRUE]
      BY <1>3, <1>t DEF DebounceEnds
    <3>3. DOMAIN pending' = DOMAIN pending
      BY <1>3, <1>t DEF DebounceEnds
    <3>4. QED BY <3>1, <3>2, <3>3, <1>d
  <2>2. QED BY <1>3, <2>1 DEF DebounceEnds
<1>4. CASE TakePending
  <2>1. /\ pending # <<>>
        /\ \A i \in DOMAIN Tail(pending) : Fences(Tail(pending)[i])
    BY <1>4, <1>t DEF TakePending, HeadIsDue
  <2>2. QED BY <1>4, <1>t, <2>1 DEF TakePending
<1>5. ASSUME NEW r \in retrying, TakeRetry(r)
      PROVE  FencesHold'
  BY <1>5 DEF TakeRetry
<1>6. ASSUME NEW expired \in SUBSET Keys, Commit(expired)
      PROVE  FencesHold'
  BY <1>6 DEF Commit
<1>7. CASE Acknowledge
  BY <1>7, <1>j DEF Acknowledge
<1>8. ASSUME NEW atCommit \in BOOLEAN, FailTransient(atCommit)
      PROVE  FencesHold'
  BY <1>8, <1>j, <1>d, <1>t DEF FailTransient, RolledBack
<1>9. ASSUME NEW atCommit \in BOOLEAN, RolledBack(atCommit), UNCHANGED retrying
      PROVE  FencesHold'
  BY <1>9, <1>j DEF RolledBack
<1>10. CASE Crash
  BY <1>10, <1>j DEF Crash
<1>11. CASE Stop \/ Reopen \/ UNCHANGED vars
  BY <1>11 DEF Stop, Reopen, vars, memory
<1>12. QED
  BY <1>1, <1>2, <1>3, <1>4, <1>5, <1>6, <1>7, <1>8, <1>9, <1>10, <1>11, CallerSubmits
     DEF Next, Writer, FailForGood, FailIntegrity

(* A commit that was not fenced leaves no row behind its own barrier or any
   older one. *)
LEMMA CommitNoResurrection ==
  ASSUME TypeOK, FenceInv, NEW expired \in SUBSET Keys, Commit(expired)
  PROVE  NoResurrection' /\ BarriersAhead'
<1> USE DEF TypeOK, FenceInv
<1>1. CASE Fenced(job)
  BY <1>1 DEF Commit, disk, history, NoResurrection, Present, BarriersAhead
<1>2. CASE ~Fenced(job)
  <2>1. /\ rows' = RowsAfter(job, expired)
        /\ committed' = Raised(committed, job)
        /\ durable' = Raised(durable, job)
        /\ wiped' = IF job.op.kind = "rotate" THEN Larger(wiped, job.payload) ELSE wiped
    BY <1>2 DEF Commit
  <2>2. job.op \in Op /\ job.payload \in Nat /\ job.fence \in SUBSET Barriers
    BY DEF Job
  <2>3. EpochBarrier \in Barriers /\ Incarnations \subseteq Barriers
        /\ EpochBarrier \notin Incarnations /\ None \notin Barriers
    BY Assumption DEF Barriers
  <2>4. BarriersAhead'
    <3>1. ASSUME NEW b \in Barriers PROVE committed'[b] >= durable'[b]
      BY <2>1, <2>2 DEF BarriersAhead, Raised, Larger
    <3>2. durable'[EpochBarrier] >= wiped'
      BY <2>1, <2>2, <2>3 DEF BarriersAhead, Raised, Larger, BarrierOf
    <3>3. QED BY <3>1, <3>2 DEF BarriersAhead
  <2>5. ASSUME NEW k \in Keys, rows'[k].inc # None
        PROVE  /\ rows'[k].payload >= durable'[rows'[k].inc]
               /\ k \in PinKeys => rows'[k].payload >= wiped'
    <3>1. ~Removes(job, k, expired)
      BY <2>1, <2>5 DEF RowsAfter, NoRow
    <3>2. CASE job.op.kind = "upsert" /\ k = job.op.key
      <4>1. rows'[k].inc = job.op.inc /\ rows'[k].payload = job.payload
        BY <2>1, <3>1, <3>2 DEF RowsAfter
      <4>2. durable' = durable /\ wiped' = wiped
        BY <2>1, <2>3, <3>2 DEF Raised, BarrierOf
      <4>3. job.op.inc \in job.fence /\ job.op.inc \in Incarnations
            /\ (k \in PinKeys => EpochBarrier \in job.fence)
        BY <3>2 DEF FencesHold, Fences
      <4>4. \A b \in job.fence : committed[b] <= job.payload
        BY <1>2, <2>2 DEF Fenced
      <4>5. QED BY <2>2, <2>3, <4>1, <4>2, <4>3, <4>4 DEF BarriersAhead
    <3>3. CASE ~(job.op.kind = "upsert" /\ k = job.op.key)
      <4>1. rows'[k].inc = rows[k].inc /\ rows'[k].payload = rows[k].payload
            /\ rows[k] \in Row
        BY <2>1, <3>1, <3>3 DEF RowsAfter, Row
      <4>2. rows[k].inc \in Incarnations
        BY <2>5, <4>1 DEF Row
      <4>3. /\ rows[k].payload >= durable[rows[k].inc]
            /\ k \in PinKeys => rows[k].payload >= wiped
        BY <2>5, <4>1 DEF NoResurrection, Present
      <4>4. rows[k].inc # BarrierOf(job.op)
        BY <2>3, <3>1, <4>2 DEF Removes, BarrierOf
      <4>5. durable'[rows[k].inc] = durable[rows[k].inc]
        BY <2>1, <2>3, <4>2, <4>4 DEF Raised
      <4>6. k \in PinKeys => wiped' = wiped
        BY <2>1, <3>1 DEF Removes
      <4>7. QED BY <4>1, <4>3, <4>5, <4>6
    <3>4. QED BY <3>2, <3>3
  <2>6. QED BY <2>4, <2>5 DEF NoResurrection, Present
<1>3. QED BY <1>1, <1>2

(* The fence invariant is inductive: only a commit, a failed commit and a
   reopened database touch what it speaks of besides the jobs themselves. *)
LEMMA FenceStep == TypeOK /\ FenceInv /\ [Next]_vars => FenceInv'
<1> SUFFICES ASSUME TypeOK, FenceInv, [Next]_vars
             PROVE  NoResurrection' /\ BarriersAhead'
  BY FencesHoldStep DEF FenceInv
<1>1. ASSUME UNCHANGED <<rows, durable, wiped, committed>>
      PROVE  NoResurrection' /\ BarriersAhead'
  BY <1>1 DEF FenceInv, NoResurrection, Present, BarriersAhead
<1>2. ASSUME NEW expired \in SUBSET Keys, Commit(expired)
      PROVE  NoResurrection' /\ BarriersAhead'
  BY <1>2, CommitNoResurrection
<1>3. ASSUME NEW atCommit \in BOOLEAN, RolledBack(atCommit)
      PROVE  NoResurrection' /\ BarriersAhead'
  <2>1. UNCHANGED <<rows, durable, wiped>>
    BY <1>3 DEF RolledBack, disk, history
  <2>2. committed' = Raised(committed, job) \/ committed' = committed
    BY <1>3 DEF RolledBack
  <2>3. \A b \in Barriers : committed'[b] >= committed[b] /\ committed'[b] \in Nat
    <3>1. job \in Job /\ committed \in [Barriers -> Nat]
      BY DEF TypeOK
    <3>2. /\ Raised(committed, job) \in [Barriers -> Nat]
          /\ \A b \in Barriers : Raised(committed, job)[b] >= committed[b]
      BY <3>1, RaisedType
    <3>3. CASE committed' = committed
      BY <3>1, <3>3
    <3>4. QED BY <2>2, <3>2, <3>3
  <2>4. \A b \in Barriers : committed'[b] >= durable'[b]
    BY <2>1, <2>3 DEF FenceInv, BarriersAhead, TypeOK
  <2>5. QED BY <2>1, <2>4 DEF FenceInv, NoResurrection, Present, BarriersAhead
<1>4. CASE Reopen
  <2>1. \A k \in Keys : /\ rows'[k].payload = 0
                        /\ rows'[k].inc = rows[k].inc
                        /\ rows[k].inc \in Incarnations \cup {None}
    BY <1>4 DEF Reopen, TypeOK, Row
  <2>2. /\ \A b \in Barriers : durable'[b] = 0 /\ committed'[b] = 0
        /\ wiped' = 0
    BY <1>4 DEF Reopen
  <2>3. EpochBarrier \in Barriers /\ Incarnations \subseteq Barriers
    BY DEF Barriers
  <2>4. QED BY <2>1, <2>2, <2>3 DEF NoResurrection, Present, BarriersAhead
<1>5. ASSUME NEW op \in Op, NEW high \in BOOLEAN, Submit(op, high)
      PROVE  UNCHANGED <<rows, durable, wiped, committed>>
  BY <1>5 DEF Submit, disk, history
<1>6. ASSUME NEW r \in retrying, TakeRetry(r)
      PROVE  UNCHANGED <<rows, durable, wiped, committed>>
  BY <1>6 DEF TakeRetry, disk, history
<1>7. ASSUME Close \/ DebounceEnds \/ TakePending \/ Stop \/ Acknowledge \/ Crash
             \/ UNCHANGED vars
      PROVE  UNCHANGED <<rows, durable, wiped, committed>>
  BY <1>7 DEF Close, DebounceEnds, TakePending, Stop, Acknowledge, Crash, vars, memory,
              disk, history
<1>8. QED
  BY <1>1, <1>2, <1>3, <1>4, <1>5, <1>6, <1>7, CallerSubmits
     DEF Next, Writer, FailTransient, FailForGood, FailIntegrity

(* A removed incarnation and a rotated epoch never come back: for every set of
   rows and incarnations, whatever is retried, coalesced or reopened. *)
THEOREM NeverResurrected == Spec => []NoResurrection
<1>1. Init => FenceInv
  <2> SUFFICES ASSUME Init PROVE FenceInv
    OBVIOUS
  <2>1. EpochBarrier \in Barriers
    BY DEF Barriers
  <2>2. QED BY <2>1 DEF Init, FenceInv, FencesHold, Fences, BarriersAhead, NoResurrection,
                        Present, NoRow, NoJob, Global, OnKey
<1>2. FenceInv => NoResurrection
  BY DEF FenceInv
<1>3. QED BY <1>1, <1>2, FenceStep, TypeCorrect, PTL DEF Spec

-----------------------------------------------------------------------------
(* Commit order *)

SameRow(i, j) == Scope(i.op) # NoScope /\ Scope(i.op) = Scope(j.op)

(* Every job carries sequence numbers already handed out, the payload's no
   older than the position's or any waiter's. *)
Numbered(j) ==
  /\ j.seq <= j.payload /\ j.payload < next
  /\ \A s \in j.waiters : s <= j.payload

Numbers ==
  /\ \A i \in DOMAIN pending : Numbered(pending[i])
  /\ \A r \in retrying : Numbered(r)
  /\ Numbered(job)
  /\ \A k \in Keys : applied[k] < next

(* What is queued for a scope is newer than what has left the queue, and two
   jobs of a scope that have left it carry different payloads. *)
QueueIsNewest ==
  /\ \A i \in DOMAIN pending :
       /\ \A r \in retrying : SameRow(pending[i], r) => pending[i].payload > r.payload
       /\ SameRow(pending[i], job) => pending[i].payload > job.payload
  /\ \A r \in retrying :
       /\ SameRow(r, job) => r.payload # job.payload
       /\ \A q \in retrying : SameRow(r, q) /\ r.payload = q.payload => r = q

(* Nothing that can still be written to a row is older than what the row's
   scope has committed, except a retry the current commit is about to retire. *)
RowOf(j, k) == Scope(j.op) = <<"row", k>>
NothingOlder ==
  \A k \in Keys :
    /\ \A i \in DOMAIN pending : RowOf(pending[i], k) => pending[i].payload > applied[k]
    /\ RowOf(job, k) => \/ job.payload > applied[k] /\ (writer = "committed" => Fenced(job))
                        \/ job.payload = applied[k] /\ writer = "committed"
    /\ \A r \in retrying : RowOf(r, k) =>
         \/ r.payload > applied[k]
         \/ writer = "committed" /\ RowOf(job, k) /\ r.payload < job.payload

(* The writer holds a job only while it attempts or has just committed it, and
   a store that is down or stopped holds none at all. *)
Idle ==
  /\ writer \notin {"attempting", "committed"} => job = NoJob
  /\ writer \in {"down", "stopped"} => pending = <<>> /\ retrying = {}

OrderInv == Idle /\ Numbers /\ QueueInOrder /\ QueueIsNewest /\ NothingOlder

(* Two versions of a job that differ at most in when it is due and whether an
   attempt failed. *)
Kept(i, j) == /\ i.seq = j.seq /\ i.payload = j.payload /\ i.op = j.op
              /\ i.fence = j.fence /\ i.waiters = j.waiters

\* A job made due is the same job.
LEMMA KeptWhenFlushed ==
  \A j \in Job : /\ Kept(j, j)
                 /\ Kept([j EXCEPT !.due = TRUE], j)
                 /\ Kept([j EXCEPT !.due = TRUE, !.tried = TRUE], j)
BY DEF Kept, Job

(* The end of a debounce, of one job or of all, keeps the queue's jobs. *)
QueueKept == /\ DOMAIN pending' = DOMAIN pending
             /\ \A i \in DOMAIN pending : Kept(pending'[i], pending[i])

\* A flush drops no job.
LEMMA FlushKeeps ==
  ASSUME TypeOK, Close \/ DebounceEnds
  PROVE  QueueKept
<1>t. pending \in Seq(Job) /\ \A i \in DOMAIN pending : pending[i] \in Job
  BY DEF TypeOK
<1>1. CASE Close
  BY <1>1, <1>t, FlushedType, KeptWhenFlushed DEF Close, QueueKept
<1>2. CASE DebounceEnds
  <2>1. DOMAIN pending' = DOMAIN pending
    BY <1>2, <1>t DEF DebounceEnds
  <2>2. \A i \in DOMAIN pending : \/ pending'[i] = pending[i]
                                 \/ pending'[i] = [pending[i] EXCEPT !.due = TRUE]
    BY <1>2, <1>t DEF DebounceEnds
  <2>3. QED BY <1>t, <2>1, <2>2, KeptWhenFlushed DEF QueueKept
<1>3. QED BY <1>1, <1>2

(* A submission either joins the end of the queue or takes over the place of
   its scope; every other place keeps its job. *)
LEMMA SubmitQueue ==
  ASSUME TypeOK, NEW op, CallerOp(op), NEW high \in BOOLEAN, Submit(op, high)
  PROVE  /\ DOMAIN pending' = IF SameScope(op) = {} THEN 1..(Len(pending) + 1)
                                                    ELSE 1..Len(pending)
         /\ \A i \in 1..Len(pending) : i \notin SameScope(op) => Kept(pending'[i], pending[i])
         /\ \A i \in SameScope(op) : /\ pending'[i].seq = pending[i].seq
                                     /\ pending'[i].payload = next
                                     /\ pending'[i].op = op
                                     /\ pending'[i].waiters = pending[i].waiters \cup {next}
         /\ SameScope(op) = {} => /\ pending'[Len(pending) + 1].seq = next
                                  /\ pending'[Len(pending) + 1].payload = next
                                  /\ pending'[Len(pending) + 1].op = op
                                  /\ pending'[Len(pending) + 1].waiters = {next}
                                  /\ pending'[Len(pending) + 1].fence = FenceOf(op)
<1> DEFINE queue == QueueAfter(op, high)
           n == Len(pending)
<1>t. /\ pending \in Seq(Job) /\ DOMAIN pending = 1..n /\ n \in Nat /\ next \in Nat
      /\ \A i \in 1..n : pending[i] \in Job
  BY Bounds DEF TypeOK
<1>1. queue \in Seq(Job)
  BY QueueType
<1>2. /\ DOMAIN queue = IF SameScope(op) = {} THEN 1..(n + 1) ELSE 1..n
      /\ \A i \in 1..n : i \notin SameScope(op) => queue[i] = pending[i]
      /\ \A i \in SameScope(op) : queue[i] = Coalesced(pending[i], op)
      /\ SameScope(op) = {} => queue[n + 1] = NewJob(op, high)
  <2>1. NewJob(op, high) \in Job
    BY <1>t, JobTypes
  <2>2. CASE SameScope(op) = {}
    BY <1>t, <2>1, <2>2 DEF QueueAfter
  <2>3. CASE SameScope(op) # {}
    BY <1>t, <2>3 DEF QueueAfter, SameScope
  <2>4. QED BY <2>2, <2>3
<1>3. /\ DOMAIN pending' = DOMAIN queue
      /\ \A i \in DOMAIN queue : Kept(pending'[i], queue[i])
  <2>1. \A i \in DOMAIN queue : queue[i] \in Job
    BY <1>1
  <2>2. pending' = IF high THEN Flushed(queue) ELSE queue
    BY DEF Submit, QueueAfter
  <2>3. QED BY <1>1, <2>1, <2>2, FlushedType, KeptWhenFlushed
<1>4. \A i \in SameScope(op) : i \in 1..n /\ i \in DOMAIN queue /\ pending[i] \in Job
  BY <1>t, <1>2 DEF SameScope
<1>5. \A j \in Job : /\ Coalesced(j, op).seq = j.seq
                     /\ Coalesced(j, op).payload = next
                     /\ Coalesced(j, op).op = op
                     /\ Coalesced(j, op).waiters = j.waiters \cup {next}
  BY DEF Coalesced, Job
<1>6. \A i \in 1..n : i \notin SameScope(op) => Kept(pending'[i], pending[i])
  BY <1>2, <1>3, <1>t
<1>7. \A i \in SameScope(op) : /\ pending'[i].seq = pending[i].seq
                              /\ pending'[i].payload = next
                              /\ pending'[i].op = op
                              /\ pending'[i].waiters = pending[i].waiters \cup {next}
  <2> SUFFICES ASSUME NEW i \in SameScope(op)
               PROVE  /\ pending'[i].seq = pending[i].seq
                      /\ pending'[i].payload = next
                      /\ pending'[i].op = op
                      /\ pending'[i].waiters = pending[i].waiters \cup {next}
    OBVIOUS
  <2>1. Kept(pending'[i], Coalesced(pending[i], op))
    BY <1>2, <1>3, <1>4
  <2>2. QED BY <2>1, <1>4, <1>5 DEF Kept
<1>8. ASSUME SameScope(op) = {}
      PROVE  /\ pending'[n + 1].seq = next /\ pending'[n + 1].payload = next
             /\ pending'[n + 1].op = op /\ pending'[n + 1].waiters = {next}
             /\ pending'[n + 1].fence = FenceOf(op)
  <2>1. Kept(pending'[n + 1], NewJob(op, high))
    BY <1>2, <1>3, <1>8, <1>t
  <2>2. QED BY <2>1 DEF Kept, NewJob
<1>9. QED BY <1>2, <1>3, <1>6, <1>7, <1>8

(* Nothing is scoped to no row at all. *)
LEMMA ScopeFacts ==
  /\ \A k : <<"row", k>> # NoScope
  /\ Scope(NoJob.op) = NoScope
BY DEF NoScope, Scope, NoJob, Global, OnKey

(* The fields of a job that are numbers. *)
IsNumbered(j) == j.seq \in Nat /\ j.payload \in Nat /\ j.waiters \subseteq Nat

(* What TypeOK says of the jobs, spelled out. *)
LEMMA TypeFacts ==
  ASSUME TypeOK
  PROVE  /\ pending \in Seq(Job) /\ DOMAIN pending = 1..Len(pending)
         /\ Len(pending) \in Nat /\ next \in Nat
         /\ \A i \in 1..Len(pending) : pending[i] \in Job /\ IsNumbered(pending[i])
         /\ \A r \in retrying : r \in Job /\ IsNumbered(r)
         /\ job \in Job /\ IsNumbered(job)
         /\ applied \in [Keys -> Nat]
<1>1. \A j \in Job : IsNumbered(j)
  BY DEF Job, IsNumbered
<1>2. /\ pending \in Seq(Job) /\ retrying \in SUBSET Job /\ job \in Job
      /\ next \in Nat /\ applied \in [Keys -> Nat]
  BY Bounds DEF TypeOK
<1>3. QED BY <1>1, <1>2

\* Every step keeps an idle store without a job.
LEMMA IdleStep == TypeOK /\ Idle /\ [Next]_vars => Idle'
<1> SUFFICES ASSUME TypeOK, Idle, [Next]_vars PROVE Idle'
  OBVIOUS
<1> USE DEF Idle
<1>1. ASSUME NEW op \in Op, NEW high \in BOOLEAN, Submit(op, high) PROVE Idle'
  BY <1>1 DEF Submit
<1>2. CASE Close \/ DebounceEnds
  BY <1>2 DEF Close, DebounceEnds
<1>3. ASSUME TakePending \/ (\E r \in retrying : TakeRetry(r)) \/ Stop PROVE Idle'
  BY <1>3 DEF TakePending, TakeRetry, Stop
<1>4. ASSUME NEW expired \in SUBSET Keys, Commit(expired) PROVE Idle'
  BY <1>4 DEF Commit
<1>5. CASE Acknowledge \/ Crash \/ Reopen
  BY <1>5 DEF Acknowledge, Crash, Reopen
<1>6. ASSUME NEW atCommit \in BOOLEAN, RolledBack(atCommit) PROVE Idle'
  BY <1>6 DEF RolledBack
<1>7. CASE UNCHANGED vars
  BY <1>7 DEF vars, memory
<1>8. QED BY <1>1, <1>2, <1>3, <1>4, <1>5, <1>6, <1>7, CallerSubmits
          DEF Next, Writer, FailTransient, FailForGood, FailIntegrity

(* The order invariant looks at jobs only up to Kept, so an action that keeps
   the queue and leaves the rest alone preserves it. *)
LEMMA OrderKept ==
  ASSUME TypeOK, OrderInv, QueueKept,
         UNCHANGED <<retrying, job, writer, next, applied, committed>>
  PROVE  Numbers' /\ QueueInOrder' /\ QueueIsNewest' /\ NothingOlder'
<1>1. Numbers'
  <2>1. \A i \in DOMAIN pending' : Numbered(pending[i])'
    BY DEF OrderInv, Numbers, Numbered, QueueKept, Kept
  <2>2. (\A r \in retrying : Numbered(r)') /\ Numbered(job)'
    BY DEF OrderInv, Numbers, Numbered
  <2>3. QED BY <2>1, <2>2 DEF OrderInv, Numbers
<1>2. QueueInOrder'
  BY DEF OrderInv, QueueInOrder, QueueKept, Kept
<1>3. QueueIsNewest'
  BY DEF OrderInv, QueueIsNewest, QueueKept, Kept, SameRow
<1>4. NothingOlder'
  BY DEF OrderInv, NothingOlder, QueueKept, Kept, RowOf, Fenced
<1>5. QED BY <1>1, <1>2, <1>3, <1>4

(* A submission carries the newest sequence number, so it can take over its
   scope's place or join the end without disturbing the order. *)
LEMMA OrderSubmit ==
  ASSUME TypeOK, OrderInv, NEW op, CallerOp(op), NEW high \in BOOLEAN, Submit(op, high)
  PROVE  Numbers' /\ QueueInOrder' /\ QueueIsNewest' /\ NothingOlder'
<1> DEFINE n == Len(pending)
<1>t. /\ pending \in Seq(Job) /\ DOMAIN pending = 1..n /\ n \in Nat /\ next \in Nat
      /\ \A i \in 1..n : pending[i] \in Job /\ IsNumbered(pending[i])
      /\ \A r \in retrying : r \in Job /\ IsNumbered(r)
      /\ job \in Job /\ IsNumbered(job)
      /\ applied \in [Keys -> Nat]
  BY TypeFacts
<1>u. /\ UNCHANGED <<retrying, job, writer, applied, committed>>
      /\ next' = next + 1
  BY DEF Submit, history
<1>s. \A i \in SameScope(op) : /\ i \in 1..n /\ Scope(op) # NoScope
                              /\ Scope(pending[i].op) = Scope(op)
  BY <1>t DEF SameScope
<1>o. \A i \in 1..n : i \notin SameScope(op) =>
        (Scope(op) # NoScope => Scope(pending[i].op) # Scope(op))
  BY <1>t DEF SameScope
<1>q. \A i, j \in 1..n : i < j =>
        /\ pending[i].seq < pending[j].seq
        /\ Scope(pending[i].op) # NoScope => Scope(pending[i].op) # Scope(pending[j].op)
  BY <1>t DEF OrderInv, QueueInOrder
<1>1. ASSUME NEW i \in DOMAIN pending'
      PROVE  \/ i \in 1..n /\ i \notin SameScope(op) /\ Kept(pending'[i], pending[i])
             \/ /\ i \in SameScope(op) /\ i \in 1..n
                /\ pending'[i].seq = pending[i].seq /\ pending'[i].payload = next
                /\ pending'[i].op = op
                /\ pending'[i].waiters = pending[i].waiters \cup {next}
             \/ /\ i = n + 1 /\ SameScope(op) = {}
                /\ pending'[i].seq = next /\ pending'[i].payload = next
                /\ pending'[i].op = op /\ pending'[i].waiters = {next}
  BY <1>1, <1>t, <1>s, SubmitQueue
<1>2. Numbers'
  <2>2. ASSUME NEW i \in DOMAIN pending' PROVE Numbered(pending[i])'
    <3>1. i \in 1..n => /\ pending[i].seq <= pending[i].payload
                        /\ pending[i].payload < next
                        /\ \A s \in pending[i].waiters : s <= pending[i].payload
      BY <1>t DEF OrderInv, Numbers, Numbered
    <3>2. QED BY <1>1, <1>t, <1>u, <3>1 DEF Numbered, Kept, IsNumbered
  <2>3. \A r \in retrying : Numbered(r)'
    BY <1>t, <1>u DEF OrderInv, Numbers, Numbered, IsNumbered
  <2>4. Numbered(job)'
    BY <1>t, <1>u DEF OrderInv, Numbers, Numbered, IsNumbered
  <2>5. \A k \in Keys : applied'[k] < next'
    BY <1>t, <1>u DEF OrderInv, Numbers
  <2>6. QED BY <1>u, <2>2, <2>3, <2>4, <2>5 DEF Numbers, Numbered
<1>3. QueueInOrder'
  <2>1. \A i \in 1..n : pending[i].seq < next
    BY <1>t DEF OrderInv, Numbers, Numbered, IsNumbered
  <2>2. SUFFICES ASSUME NEW i \in DOMAIN pending', NEW j \in DOMAIN pending', i < j
        PROVE  /\ pending'[i].seq < pending'[j].seq
               /\ Scope(pending'[i].op) # NoScope =>
                    Scope(pending'[i].op) # Scope(pending'[j].op)
    BY DEF QueueInOrder
  <2>3. i \in 1..n
    BY <1>1, <1>t, <2>2
  <2>4. pending'[i].seq = pending[i].seq /\ Scope(pending'[i].op) = Scope(pending[i].op)
    BY <1>1, <1>s, <1>t, <2>3 DEF Kept
  <2>5. CASE j \in 1..n
    <3>1. pending'[j].seq = pending[j].seq /\ Scope(pending'[j].op) = Scope(pending[j].op)
      BY <1>1, <1>s, <1>t, <2>5 DEF Kept
    <3>2. QED BY <1>q, <2>2, <2>3, <2>4, <2>5, <3>1
  <2>6. CASE j \notin 1..n
    <3>1. SameScope(op) = {} /\ pending'[j].seq = next /\ pending'[j].op = op
      BY <1>1, <1>t, <2>6
    <3>2. QED BY <1>o, <2>1, <2>3, <2>4, <3>1
  <2>7. QED BY <2>5, <2>6
<1>4. QueueIsNewest'
  <2>1. /\ \A r \in retrying : r.payload < next
        /\ job.payload < next
    BY DEF OrderInv, Numbers, Numbered
  <2>2. ASSUME NEW i \in DOMAIN pending'
        PROVE  /\ \A r \in retrying : SameRow(pending'[i], r) => pending'[i].payload > r.payload
               /\ SameRow(pending'[i], job) => pending'[i].payload > job.payload
    <3>1. CASE i \in 1..n /\ Kept(pending'[i], pending[i])
      BY <1>t, <3>1 DEF OrderInv, QueueIsNewest, Kept, SameRow
    <3>2. CASE pending'[i].payload = next
      BY <1>t, <2>1, <3>2
    <3>3. QED BY <1>1, <3>1, <3>2
  <2>3. QED BY <1>u, <2>2 DEF OrderInv, QueueIsNewest, SameRow
<1>5. NothingOlder'
  <2>1. \A k \in Keys : applied[k] < next
    BY DEF OrderInv, Numbers
  <2>2. ASSUME NEW k \in Keys, NEW i \in DOMAIN pending'
        PROVE  RowOf(pending'[i], k) => pending'[i].payload > applied[k]
    <3>1. CASE i \in 1..n /\ Kept(pending'[i], pending[i])
      BY <1>t, <3>1 DEF OrderInv, NothingOlder, Kept, RowOf
    <3>2. CASE pending'[i].payload = next
      BY <1>t, <2>1, <3>2
    <3>3. QED BY <1>1, <3>1, <3>2
  <2>3. QED BY <1>u, <2>2 DEF OrderInv, NothingOlder, RowOf, Fenced
<1>6. QED BY <1>2, <1>3, <1>4, <1>5

(* Taking the head of the queue: it is newer than what left the queue before
   it and older than what stays. *)
LEMMA OrderTakePending ==
  ASSUME TypeOK, OrderInv, TakePending
  PROVE  Numbers' /\ QueueInOrder' /\ QueueIsNewest' /\ NothingOlder'
<1> DEFINE n == Len(pending)
<1>t. /\ pending \in Seq(Job) /\ DOMAIN pending = 1..n /\ n \in Nat /\ next \in Nat
      /\ \A i \in 1..n : pending[i] \in Job /\ IsNumbered(pending[i])
      /\ \A r \in retrying : r \in Job /\ IsNumbered(r)
      /\ applied \in [Keys -> Nat]
  BY TypeFacts
<1>u. /\ UNCHANGED <<retrying, next, applied, committed>>
      /\ writer = "waiting" /\ writer' = "attempting" /\ pending # <<>>
      /\ job' = Head(pending) /\ pending' = Tail(pending)
  BY DEF TakePending, history, HeadIsDue
<1>1. /\ n >= 1 /\ job' = pending[1]
      /\ DOMAIN pending' = 1..(n - 1)
      /\ \A i \in 1..(n - 1) : pending'[i] = pending[i + 1] /\ i + 1 \in 1..n
  BY <1>t, <1>u
<1>2. Numbers'
  BY <1>u, <1>1, <1>t DEF OrderInv, Numbers, Numbered
<1>3. QueueInOrder'
  <2> SUFFICES ASSUME NEW i \in 1..(n - 1), NEW j \in 1..(n - 1), i < j
               PROVE  /\ pending'[i].seq < pending'[j].seq
                      /\ Scope(pending'[i].op) # NoScope =>
                           Scope(pending'[i].op) # Scope(pending'[j].op)
    BY <1>1 DEF QueueInOrder
  <2>1. i + 1 \in DOMAIN pending /\ j + 1 \in DOMAIN pending /\ i + 1 < j + 1
    BY <1>1, <1>t
  <2>2. QueueInOrder
    BY DEF OrderInv
  <2>3. /\ pending[i + 1].seq < pending[j + 1].seq
        /\ Scope(pending[i + 1].op) # NoScope =>
             Scope(pending[i + 1].op) # Scope(pending[j + 1].op)
    BY <2>1, <2>2 DEF QueueInOrder
  <2>4. pending'[i] = pending[i + 1] /\ pending'[j] = pending[j + 1]
    BY <1>1
  <2>5. QED BY <2>3, <2>4
<1>4. QueueIsNewest'
  <2>1. ASSUME NEW i \in 1..(n - 1), SameRow(pending'[i], job') PROVE FALSE
    <3>1. Scope(pending[1].op) = Scope(pending[i + 1].op) /\ Scope(pending[1].op) # NoScope
      BY <1>1, <2>1 DEF SameRow
    <3>2. 1 \in 1..n /\ i + 1 \in 1..n /\ 1 < i + 1
      BY <1>1, <1>t
    <3>3. QED BY <3>1, <3>2, <1>t DEF OrderInv, QueueInOrder
  <2>2. \A i \in 1..(n - 1), r \in retrying :
          SameRow(pending'[i], r) => pending'[i].payload > r.payload
    BY <1>1, <1>t DEF OrderInv, QueueIsNewest
  <2>3. \A r \in retrying : SameRow(r, job') => r.payload # job'.payload
    <3> SUFFICES ASSUME NEW r \in retrying, SameRow(r, pending[1])
                 PROVE  r.payload # pending[1].payload
      BY <1>1
    <3>1. 1 \in DOMAIN pending /\ SameRow(pending[1], r)
      BY <1>1, <1>t DEF SameRow
    <3>2. pending[1].payload > r.payload
      BY <3>1 DEF OrderInv, QueueIsNewest
    <3>3. QED BY <3>2, <1>t, <1>1 DEF IsNumbered
  <2>4. QED BY <1>u, <1>1, <2>1, <2>2, <2>3 DEF OrderInv, QueueIsNewest
<1>5. NothingOlder'
  <2>1. ASSUME NEW k \in Keys
        PROVE  /\ \A i \in 1..(n - 1) : RowOf(pending'[i], k) => pending'[i].payload > applied[k]
               /\ RowOf(job', k) => job'.payload > applied[k]
               /\ \A r \in retrying : RowOf(r, k) => r.payload > applied[k]
    BY <1>u, <1>1, <1>t DEF OrderInv, NothingOlder
  <2>2. QED BY <1>u, <1>1, <2>1 DEF NothingOlder, RowOf
<1>6. QED BY <1>2, <1>3, <1>4, <1>5

(* Taking a retry. *)
LEMMA OrderTakeRetry ==
  ASSUME TypeOK, OrderInv, NEW r \in retrying, TakeRetry(r)
  PROVE  Numbers' /\ QueueInOrder' /\ QueueIsNewest' /\ NothingOlder'
<1>u. /\ UNCHANGED <<pending, next, applied, committed>>
      /\ writer = "waiting" /\ writer' = "attempting"
      /\ job' = r /\ retrying' = retrying \ {r}
  BY DEF TakeRetry, history
<1>1. Numbers' /\ QueueInOrder'
  BY <1>u DEF OrderInv, Numbers, Numbered, QueueInOrder
<1>2. QueueIsNewest'
  <2>1. \A i \in DOMAIN pending : SameRow(pending[i], r) => pending[i].payload > r.payload
    BY DEF OrderInv, QueueIsNewest
  <2>2. \A q \in retrying \ {r} : SameRow(q, r) => q.payload # r.payload
    BY DEF OrderInv, QueueIsNewest
  <2>3. QED BY <1>u, <2>1, <2>2 DEF OrderInv, QueueIsNewest
<1>3. NothingOlder'
  BY <1>u DEF OrderInv, NothingOlder, RowOf
<1>4. QED BY <1>1, <1>2, <1>3

(* The writer lets its job go: what stays queued or retried was in order. *)
LEMMA OrderDropJob ==
  ASSUME TypeOK, OrderInv, job' = NoJob, retrying' \subseteq retrying,
         writer' # "committed", UNCHANGED <<next, applied>>,
         pending' = pending \/ pending' = <<>>,
         \A k \in Keys : \A r \in retrying' : RowOf(r, k) => r.payload > applied[k]
  PROVE  Numbers' /\ QueueInOrder' /\ QueueIsNewest' /\ NothingOlder'
<1>t. next \in Nat /\ next >= 1
  BY Bounds DEF TypeOK
<1>1. DOMAIN pending' \subseteq DOMAIN pending
      /\ \A i \in DOMAIN pending' : pending'[i] = pending[i]
  OBVIOUS
<1>2. Numbered(NoJob)'
  BY <1>t DEF Numbered, NoJob
<1>3. Numbers'
  BY <1>1, <1>2 DEF OrderInv, Numbers, Numbered
<1>4. QueueInOrder'
  BY <1>1 DEF OrderInv, QueueInOrder
<1>5. \A j : ~SameRow(j, NoJob)
  BY ScopeFacts DEF SameRow
<1>6. QueueIsNewest'
  BY <1>1, <1>5 DEF OrderInv, QueueIsNewest
<1>7. \A k \in Keys : ~RowOf(NoJob, k)
  BY ScopeFacts DEF RowOf
<1>8. NothingOlder'
  BY <1>1, <1>7 DEF OrderInv, NothingOlder, RowOf
<1>9. QED BY <1>3, <1>4, <1>6, <1>8

(* A commit: unless fenced, the row's scope has now committed this payload. *)
LEMMA OrderCommit ==
  ASSUME TypeOK, OrderInv, NEW expired \in SUBSET Keys, Commit(expired)
  PROVE  Numbers' /\ QueueInOrder' /\ QueueIsNewest' /\ NothingOlder'
<1>t. /\ \A i \in DOMAIN pending : IsNumbered(pending[i])
      /\ \A r \in retrying : IsNumbered(r)
      /\ IsNumbered(job) /\ next \in Nat /\ applied \in [Keys -> Nat]
  BY TypeFacts
<1>u. /\ UNCHANGED <<pending, retrying, job, next>>
      /\ writer = "attempting" /\ writer' = "committed"
  BY DEF Commit
<1>1. CASE Fenced(job)
  <2>1. UNCHANGED <<applied, committed>>
    BY <1>1 DEF Commit, history
  <2>2. Numbers' /\ QueueInOrder' /\ QueueIsNewest'
    BY <1>u, <2>1 DEF OrderInv, Numbers, Numbered, QueueInOrder, QueueIsNewest
  <2>3. NothingOlder'
    BY <1>u, <1>1, <2>1 DEF OrderInv, NothingOlder, RowOf, Fenced
  <2>4. QED BY <2>2, <2>3
<1>2. CASE ~Fenced(job)
  <2>1. applied' = [k \in Keys |-> IF Scope(job.op) = <<"row", k>>
                                     THEN job.payload ELSE applied[k]]
    BY <1>2 DEF Commit
  <2>2. Numbers'
    BY <1>u, <2>1 DEF OrderInv, Numbers, Numbered
  <2>3. QueueInOrder' /\ QueueIsNewest'
    BY <1>u DEF OrderInv, QueueInOrder, QueueIsNewest
  <2>4. NothingOlder'
    <3> SUFFICES ASSUME NEW k \in Keys
          PROVE  /\ \A i \in DOMAIN pending :
                      RowOf(pending[i], k) => pending[i].payload > applied'[k]
                 /\ RowOf(job, k) => job.payload = applied'[k]
                 /\ \A r \in retrying : RowOf(r, k) =>
                      \/ r.payload > applied'[k]
                      \/ RowOf(job, k) /\ r.payload < job.payload
      BY <1>u DEF NothingOlder, RowOf
    <3>1. CASE ~RowOf(job, k)
      BY <1>u, <2>1, <3>1 DEF OrderInv, NothingOlder, RowOf
    <3>2. CASE RowOf(job, k)
      <4>1. applied'[k] = job.payload
        BY <2>1, <3>2 DEF RowOf
      <4>2. \A j : RowOf(j, k) => SameRow(j, job)
        BY <3>2, ScopeFacts DEF RowOf, SameRow
      <4>3. \A i \in DOMAIN pending : RowOf(pending[i], k) => pending[i].payload > job.payload
        BY <4>2 DEF OrderInv, QueueIsNewest
      <4>4. \A r \in retrying : RowOf(r, k) => r.payload # job.payload
        BY <4>2 DEF OrderInv, QueueIsNewest
      <4>5. QED BY <1>t, <3>2, <4>1, <4>3, <4>4 DEF IsNumbered
    <3>3. QED BY <3>1, <3>2
  <2>5. QED BY <2>2, <2>3, <2>4
<1>3. QED BY <1>1, <1>2

(* A failed attempt puts its job on the retry track, newer than its row. *)
LEMMA OrderFailTransient ==
  ASSUME TypeOK, OrderInv, NEW atCommit \in BOOLEAN, FailTransient(atCommit)
  PROVE  Numbers' /\ QueueInOrder' /\ QueueIsNewest' /\ NothingOlder'
<1> DEFINE again == [job EXCEPT !.due = TRUE, !.tried = TRUE]
<1>u. /\ UNCHANGED <<pending, next, applied>>
      /\ writer = "attempting" /\ writer' = "waiting" /\ job' = NoJob
      /\ retrying' = retrying \cup {again}
  BY DEF FailTransient, RolledBack, history
<1>k. Kept(again, job)
  BY TypeFacts, KeptWhenFlushed
<1>t. next \in Nat /\ next >= 1
  BY Bounds DEF TypeOK
<1>1. Numbers'
  <2>1. Numbered(NoJob)'
    BY <1>t, <1>u DEF Numbered, NoJob
  <2>2. /\ again.seq <= again.payload /\ again.payload < next'
        /\ \A s \in again.waiters : s <= again.payload
    BY <1>u, <1>k DEF OrderInv, Numbers, Numbered, Kept
  <2>3. QED BY <1>u, <2>1, <2>2 DEF OrderInv, Numbers, Numbered
<1>2. QueueInOrder'
  BY <1>u DEF OrderInv, QueueInOrder
<1>3. QueueIsNewest'
  <2>1. \A j : ~SameRow(j, NoJob)
    BY ScopeFacts DEF SameRow
  <2>2. \A i \in DOMAIN pending : SameRow(pending[i], again) => pending[i].payload > again.payload
    BY <1>k DEF OrderInv, QueueIsNewest, SameRow, Kept
  <2>3. \A r \in retrying : (SameRow(r, again) \/ SameRow(again, r)) => r.payload # again.payload
    BY <1>k DEF OrderInv, QueueIsNewest, SameRow, Kept
  <2>4. QED BY <1>u, <2>1, <2>2, <2>3 DEF OrderInv, QueueIsNewest
<1>4. NothingOlder'
  <2>1. \A k \in Keys : ~RowOf(NoJob, k)
    BY ScopeFacts DEF RowOf
  <2>2. \A k \in Keys : RowOf(again, k) => again.payload > applied[k]
    BY <1>u, <1>k DEF OrderInv, NothingOlder, RowOf, Kept
  <2>3. QED BY <1>u, <2>1, <2>2 DEF OrderInv, NothingOlder, RowOf
<1>5. QED BY <1>1, <1>2, <1>3, <1>4

(* The order invariant is inductive. *)
LEMMA OrderStep == TypeOK /\ OrderInv /\ [Next]_vars => OrderInv'
<1> SUFFICES ASSUME TypeOK, OrderInv, [Next]_vars
             PROVE  Numbers' /\ QueueInOrder' /\ QueueIsNewest' /\ NothingOlder'
  BY IdleStep DEF OrderInv
<1>1. CASE Close \/ DebounceEnds
  BY <1>1, FlushKeeps, OrderKept DEF Close, DebounceEnds, history
<1>2. ASSUME NEW op \in Op, NEW high \in BOOLEAN, CallerOp(op), Submit(op, high)
      PROVE  Numbers' /\ QueueInOrder' /\ QueueIsNewest' /\ NothingOlder'
  BY <1>2, OrderSubmit
<1>3. CASE TakePending
  BY <1>3, OrderTakePending
<1>4. ASSUME NEW r \in retrying, TakeRetry(r)
      PROVE  Numbers' /\ QueueInOrder' /\ QueueIsNewest' /\ NothingOlder'
  BY <1>4, OrderTakeRetry
<1>5. ASSUME NEW expired \in SUBSET Keys, Commit(expired)
      PROVE  Numbers' /\ QueueInOrder' /\ QueueIsNewest' /\ NothingOlder'
  BY <1>5, OrderCommit
<1>6. CASE Acknowledge
  <2>1. ASSUME NEW k \in Keys, NEW r \in retrying \ Retired, RowOf(r, k)
        PROVE  r.payload > applied[k]
    BY <2>1, ScopeFacts DEF OrderInv, NothingOlder, RowOf, Retired
  <2>2. QED BY <1>6, <2>1, OrderDropJob DEF Acknowledge, history
<1>7. ASSUME NEW atCommit \in BOOLEAN, FailTransient(atCommit)
      PROVE  Numbers' /\ QueueInOrder' /\ QueueIsNewest' /\ NothingOlder'
  BY <1>7, OrderFailTransient
<1>8. ASSUME NEW atCommit \in BOOLEAN, RolledBack(atCommit), UNCHANGED retrying
      PROVE  Numbers' /\ QueueInOrder' /\ QueueIsNewest' /\ NothingOlder'
  <2>1. \A k \in Keys : \A r \in retrying : RowOf(r, k) => r.payload > applied[k]
    BY <1>8 DEF RolledBack, OrderInv, NothingOlder
  <2>2. QED BY <1>8, <2>1, OrderDropJob DEF RolledBack, history
<1>9. CASE Crash
  BY <1>9, OrderDropJob DEF Crash, history
<1>10. CASE Reopen
  <2>1. pending' = <<>> /\ retrying' = {} /\ job' = NoJob /\ next' = 1
        /\ applied' = [k \in Keys |-> 0]
    BY <1>10 DEF Reopen, OrderInv, Idle
  <2>2. Numbers' /\ QueueInOrder' /\ QueueIsNewest'
    BY <2>1, ScopeFacts DEF Numbers, Numbered, NoJob, QueueInOrder, QueueIsNewest, SameRow
  <2>3. NothingOlder'
    BY <2>1, ScopeFacts DEF NothingOlder, RowOf
  <2>4. QED BY <2>2, <2>3
<1>11. CASE Stop \/ UNCHANGED vars
  <2>1. UNCHANGED <<pending, retrying, job, next, applied, committed>>
        /\ (writer' = "committed" <=> writer = "committed")
    BY <1>11 DEF Stop, vars, memory, history
  <2>2. QED BY <2>1 DEF OrderInv, Numbers, Numbered, QueueInOrder, QueueIsNewest, SameRow,
                        NothingOlder, RowOf, Fenced
<1>12. QED
  BY <1>1, <1>2, <1>3, <1>4, <1>5, <1>6, <1>7, <1>8, <1>9, <1>10, <1>11, CallerSubmits
     DEF Next, Writer, FailForGood, FailIntegrity

\* The initial state satisfies OrderInv.
LEMMA OrderInit == Init => OrderInv
<1> SUFFICES ASSUME Init PROVE OrderInv
  OBVIOUS
<1>1. pending = <<>> /\ retrying = {} /\ job = NoJob /\ next = 1 /\ writer = "waiting"
      /\ applied = [k \in Keys |-> 0]
  BY DEF Init
<1>2. Idle /\ Numbers /\ QueueInOrder
  BY <1>1 DEF Idle, Numbers, Numbered, NoJob, QueueInOrder
<1>3. QueueIsNewest /\ NothingOlder
  BY <1>1, ScopeFacts DEF QueueIsNewest, SameRow, NothingOlder, RowOf
<1>4. QED BY <1>2, <1>3 DEF OrderInv

(* The queue stays in submission order with one place per scope. *)
THEOREM QueueOrdered == Spec => []QueueInOrder
<1>1. OrderInv => QueueInOrder
  BY DEF OrderInv
<1>2. QED BY <1>1, OrderInit, OrderStep, TypeCorrect, PTL DEF Spec

(* Within a row commits follow submission order, whatever is retried when. *)
THEOREM CommitsInOrder == Spec => AppliedInOrder
<1>1. ASSUME TypeOK, OrderInv, [Next]_vars, lives' = lives, NEW k \in Keys
      PROVE  applied'[k] >= applied[k]
  <2>t. applied[k] \in Nat /\ IsNumbered(job)
    BY <1>1, TypeFacts
  <2>1. ASSUME UNCHANGED applied PROVE applied'[k] >= applied[k]
    BY <2>1, <2>t
  <2>2. ASSUME NEW expired \in SUBSET Keys, Commit(expired)
        PROVE  applied'[k] >= applied[k]
    <3>1. \/ applied' = applied
          \/ applied' = [m \in Keys |-> IF Scope(job.op) = <<"row", m>>
                                          THEN job.payload ELSE applied[m]]
      BY <2>2 DEF Commit, history
    <3>2. RowOf(job, k) => job.payload >= applied[k]
      BY <1>1, <2>t DEF OrderInv, NothingOlder, IsNumbered
    <3>3. QED BY <2>t, <3>1, <3>2 DEF RowOf
  <2>3. ASSUME NEW op \in Op, NEW high \in BOOLEAN, Submit(op, high) PROVE UNCHANGED applied
    BY <2>3 DEF Submit, history
  <2>4. ASSUME NEW r \in retrying, TakeRetry(r) PROVE UNCHANGED applied
    BY <2>4 DEF TakeRetry, history
  <2>5. ASSUME NEW atCommit \in BOOLEAN, RolledBack(atCommit) PROVE UNCHANGED applied
    BY <2>5 DEF RolledBack, history
  <2>6. ASSUME Close \/ DebounceEnds \/ TakePending \/ Stop \/ Acknowledge \/ Crash
               \/ UNCHANGED vars
        PROVE  UNCHANGED applied
    BY <2>6 DEF Close, DebounceEnds, TakePending, Stop, Acknowledge, Crash, vars, history
  <2>7. ~Reopen
    <3>1. lives \in Nat /\ lives' # lives + 1
      BY <1>1 DEF TypeOK
    <3>2. QED BY <3>1, Zenon DEF Reopen
  <2>8. QED
    BY <1>1, <2>1, <2>2, <2>3, <2>4, <2>5, <2>6, <2>7, CallerSubmits
       DEF Next, Writer, FailTransient, FailForGood, FailIntegrity
<1>2. TypeOK /\ OrderInv /\ [Next]_vars =>
        [lives' = lives => \A k \in Keys : applied'[k] >= applied[k]]_vars
  BY <1>1
<1>3. QED BY <1>2, OrderInit, OrderStep, TypeCorrect, PTL DEF Spec, AppliedInOrder

-----------------------------------------------------------------------------
(* Waiters *)

Apart(i, j) == i.waiters \cap j.waiters = {}

(* No caller waits on two jobs. *)
WaitersApart ==
  /\ \A m, n \in DOMAIN pending : m # n => Apart(pending[m], pending[n])
  /\ \A m \in DOMAIN pending : /\ \A r \in retrying : Apart(pending[m], r)
                              /\ Apart(pending[m], job)
  /\ \A r \in retrying : /\ Apart(r, job)
                        /\ \A q \in retrying : r # q => Apart(r, q)

Holds(s) == \/ \E m \in DOMAIN pending : s \in pending[m].waiters
            \/ \E r \in retrying : s \in r.waiters
            \/ s \in job.waiters

(* The callers that wait are exactly the waiters of the jobs. *)
WaitersWait ==
  /\ \A s : Holds(s) => s \in 1..MaxSeq /\ outcome[s] = "waiting"
  /\ \A s \in 1..MaxSeq : outcome[s] = "waiting" => Holds(s)
  /\ \A s \in 1..MaxSeq : s >= next => outcome[s] = "none"

WaiterInv == WaitersApart /\ WaitersWait

(* WaiterInv looks at jobs only up to Kept. *)
LEMMA WaitersKept ==
  ASSUME WaiterInv, QueueKept, UNCHANGED <<retrying, job, outcome, next>>
  PROVE  WaiterInv'
<1>1. WaitersApart'
  BY DEF WaiterInv, WaitersApart, QueueKept, Kept, Apart
<1>2. \A s : Holds(s)' <=> Holds(s)
  BY DEF Holds, QueueKept, Kept
<1>3. QED BY <1>1, <1>2 DEF WaiterInv, WaitersWait

(* A submission adds one waiter, whose sequence number nobody holds yet. *)
LEMMA WaitersSubmit ==
  ASSUME TypeOK, OrderInv, WaiterInv, NEW op, CallerOp(op), NEW high \in BOOLEAN,
         Submit(op, high)
  PROVE  WaiterInv'
<1> DEFINE n == Len(pending)
<1>t. /\ DOMAIN pending = 1..n /\ n \in Nat /\ next \in 1..MaxSeq
      /\ outcome \in [1..MaxSeq -> Outcomes]
  BY TypeFacts, Bounds DEF Submit, TypeOK
<1>u. /\ UNCHANGED <<retrying, job>>
      /\ next' = next + 1 /\ outcome' = [outcome EXCEPT ![next] = "waiting"]
  BY DEF Submit
<1>n. outcome[next] = "none" /\ ~Holds(next)
  <2>1. outcome[next] = "none"
    BY <1>t DEF WaiterInv, WaitersWait
  <2>2. QED BY <2>1 DEF WaiterInv, WaitersWait
<1>s. \A i \in SameScope(op) : i \in 1..n
  BY <1>t DEF SameScope
<1>1. DOMAIN pending' = IF SameScope(op) = {} THEN 1..(n + 1) ELSE 1..n
  BY SubmitQueue
<1>2. \A i \in 1..n : \/ pending'[i].waiters = pending[i].waiters
                      \/ /\ i \in SameScope(op)
                         /\ pending'[i].waiters = pending[i].waiters \cup {next}
  BY SubmitQueue DEF Kept
<1>3. SameScope(op) = {} => pending'[n + 1].waiters = {next}
  BY SubmitQueue
<1>4. \A i, j \in SameScope(op) : i = j
  BY <1>t DEF SameScope, OrderInv, QueueInOrder
<1>5. WaitersApart'
  <2>1. ASSUME NEW i \in DOMAIN pending', NEW j \in DOMAIN pending', i # j
        PROVE  Apart(pending'[i], pending'[j])
    <3>1. \A l \in 1..n : /\ next \notin pending[l].waiters
                         /\ \A m \in 1..n : l # m => Apart(pending[l], pending[m])
      BY <1>t, <1>n DEF Holds, WaiterInv, WaitersApart
    <3>2. CASE i \in 1..n /\ j \in 1..n
      BY <1>2, <1>4, <2>1, <3>1, <3>2 DEF Apart
    <3>3. CASE SameScope(op) = {} /\ (i = n + 1 \/ j = n + 1)
      BY <1>1, <1>2, <1>3, <1>t, <2>1, <3>1, <3>3 DEF Apart
    <3>4. QED BY <1>1, <1>s, <1>t, <3>2, <3>3
  <2>2. ASSUME NEW i \in DOMAIN pending', NEW j \in retrying \cup {job}
        PROVE  Apart(pending'[i], j)
    <3>1. next \notin j.waiters /\ \A l \in 1..n : Apart(pending[l], j)
      BY <1>t, <1>n DEF Holds, WaiterInv, WaitersApart
    <3>2. QED BY <1>1, <1>2, <1>3, <1>t, <3>1 DEF Apart
  <2>3. QED BY <1>u, <2>1, <2>2 DEF WaiterInv, WaitersApart
<1>6. \A s : Holds(s)' <=> Holds(s) \/ s = next
  <2>1. ASSUME NEW s, \E i \in DOMAIN pending' : s \in pending'[i].waiters
        PROVE  Holds(s) \/ s = next
    BY <1>1, <1>2, <1>3, <1>t, <2>1 DEF Holds
  <2>2. ASSUME NEW s, NEW i \in DOMAIN pending, s \in pending[i].waiters
        PROVE  i \in DOMAIN pending' /\ s \in pending'[i].waiters
    BY <1>1, <1>2, <1>t, <2>2
  <2>3. \E i \in DOMAIN pending' : next \in pending'[i].waiters
    <3>1. CASE SameScope(op) = {}
      BY <1>1, <1>3, <1>t, <3>1
    <3>2. CASE SameScope(op) # {}
      <4>1. PICK i \in SameScope(op) : TRUE
        BY <3>2
      <4>2. pending'[i].waiters = pending[i].waiters \cup {next} /\ i \in DOMAIN pending'
        BY <1>1, <1>s, <3>2, SubmitQueue
      <4>3. QED BY <4>2
    <3>3. QED BY <3>1, <3>2
  <2>4. QED BY <1>u, <2>1, <2>2, <2>3 DEF Holds
<1>7. WaitersWait'
  <2>1. \A s \in 1..MaxSeq : outcome'[s] = IF s = next THEN "waiting" ELSE outcome[s]
    BY <1>t, <1>u
  <2>2. \A s \in 1..MaxSeq : s >= next' => outcome'[s] = "none"
    BY <1>t, <1>u, <2>1, Bounds DEF WaiterInv, WaitersWait
  <2>3. QED BY <1>t, <1>6, <2>1, <2>2 DEF WaiterInv, WaitersWait
<1>8. QED BY <1>5, <1>7 DEF WaiterInv

(* Completing exactly the waiters of the jobs that leave the store. *)
LEMMA WaitersSettle ==
  ASSUME TypeOK, WaiterInv, NEW done, NEW result \in {"ok", "error", "lost"},
         outcome' = Settled(done, result),
         DOMAIN pending' \subseteq DOMAIN pending,
         \A i \in DOMAIN pending' : pending'[i] = pending[i],
         retrying' \subseteq retrying, job' = NoJob, next' = next,
         \A s \in done : Holds(s),
         \A s : Holds(s) => (s \in done <=> ~Holds(s)')
  PROVE  WaiterInv'
<1>j. NoJob.waiters = {}
  BY DEF NoJob
<1>1. WaitersApart'
  BY <1>j DEF WaiterInv, WaitersApart, Apart
<1>2. \A s : Holds(s)' => Holds(s)
  BY <1>j DEF Holds
<1>3. \A s \in 1..MaxSeq : outcome'[s] = IF s \in done THEN result ELSE outcome[s]
  BY DEF Settled, TypeOK
<1>4. \A s : Holds(s)' => s \in 1..MaxSeq /\ outcome'[s] = "waiting"
  BY <1>2, <1>3 DEF WaiterInv, WaitersWait
<1>5. \A s \in 1..MaxSeq : outcome'[s] = "waiting" => Holds(s)'
  BY <1>3 DEF WaiterInv, WaitersWait
<1>6. \A s \in 1..MaxSeq : s >= next => outcome'[s] = "none"
  BY <1>3 DEF WaiterInv, WaitersWait
<1>7. QED BY <1>1, <1>4, <1>5, <1>6 DEF WaiterInv, WaitersWait

(* A job that moves between the queue, the writer and the retries takes its
   waiters along. *)
LEMMA WaitersTakePending ==
  ASSUME TypeOK, OrderInv, WaiterInv, TakePending
  PROVE  WaiterInv'
<1> DEFINE n == Len(pending)
<1>u. /\ UNCHANGED <<retrying, next, outcome>> /\ writer = "waiting" /\ pending # <<>>
      /\ job' = Head(pending) /\ pending' = Tail(pending)
  BY DEF TakePending, HeadIsDue
<1>t. pending \in Seq(Job) /\ DOMAIN pending = 1..n /\ n \in Nat
  BY TypeFacts
<1>1. /\ n >= 1 /\ 1 \in 1..n /\ job' = pending[1]
      /\ DOMAIN pending' = 1..(n - 1)
      /\ \A i \in 1..(n - 1) : /\ pending'[i] = pending[i + 1]
                              /\ i + 1 \in 1..n /\ i + 1 # 1
  BY <1>t, <1>u
<1>2. \A i \in 2..n : i - 1 \in 1..(n - 1) /\ pending'[i - 1] = pending[i]
  BY <1>1, <1>t
<1>j. job.waiters = {}
  BY <1>u DEF OrderInv, Idle, NoJob
<1>3. WaitersApart'
  <2>1. ASSUME NEW i \in 1..(n - 1), NEW j \in 1..(n - 1), i # j
        PROVE  Apart(pending'[i], pending'[j])
    <3>1. i + 1 \in 1..n /\ j + 1 \in 1..n /\ i + 1 # j + 1
      BY <1>1, <1>t, <2>1
    <3>2. Apart(pending[i + 1], pending[j + 1])
      BY <1>t, <3>1 DEF WaiterInv, WaitersApart
    <3>3. QED BY <1>1, <3>2
  <2>2. ASSUME NEW i \in 1..(n - 1)
        PROVE  /\ Apart(pending'[i], job')
               /\ \A r \in retrying : Apart(pending'[i], r)
    BY <1>1, <1>t DEF WaiterInv, WaitersApart
  <2>3. \A r \in retrying : Apart(r, job')
    BY <1>1, <1>t DEF WaiterInv, WaitersApart, Apart
  <2>4. QED BY <1>1, <1>u, <2>1, <2>2, <2>3 DEF WaiterInv, WaitersApart
<1>4. \A s : Holds(s)' <=> Holds(s)
  <2>1. ASSUME NEW s, Holds(s) PROVE Holds(s)'
    <3>1. CASE \E m \in 1..n : s \in pending[m].waiters
      <4>1. PICK m \in 1..n : s \in pending[m].waiters
        BY <3>1
      <4>2. CASE m = 1
        BY <1>1, <4>1, <4>2 DEF Holds
      <4>3. CASE m # 1
        <5>1. m \in 2..n
          BY <1>t, <4>3
        <5>2. QED BY <1>1, <1>2, <4>1, <5>1 DEF Holds
      <4>4. QED BY <4>2, <4>3
    <3>2. CASE \E r \in retrying : s \in r.waiters
      BY <1>u, <3>2 DEF Holds
    <3>3. QED BY <1>j, <1>t, <2>1, <3>1, <3>2 DEF Holds
  <2>2. ASSUME NEW s, Holds(s)' PROVE Holds(s)
    BY <1>1, <1>t, <1>u, <2>2 DEF Holds
  <2>3. QED BY <2>1, <2>2
<1>5. QED BY <1>u, <1>3, <1>4 DEF WaiterInv, WaitersWait

\* A job that is retried keeps its waiters.
LEMMA WaitersTakeRetry ==
  ASSUME TypeOK, OrderInv, WaiterInv, NEW r \in retrying, TakeRetry(r)
  PROVE  WaiterInv'
<1>u. /\ UNCHANGED <<pending, next, outcome>> /\ writer = "waiting"
      /\ job' = r /\ retrying' = retrying \ {r}
  BY DEF TakeRetry
<1>j. job.waiters = {}
  BY <1>u DEF OrderInv, Idle, NoJob
<1>1. WaitersApart'
  BY <1>u DEF WaiterInv, WaitersApart, Apart
<1>2. \A s : Holds(s)' <=> Holds(s)
  BY <1>u, <1>j DEF Holds
<1>3. QED BY <1>u, <1>1, <1>2 DEF WaiterInv, WaitersWait

\* So does one that failed and may be retried.
LEMMA WaitersFailTransient ==
  ASSUME TypeOK, OrderInv, WaiterInv, NEW atCommit \in BOOLEAN, FailTransient(atCommit)
  PROVE  WaiterInv'
<1> DEFINE again == [job EXCEPT !.due = TRUE, !.tried = TRUE]
<1>u. /\ UNCHANGED <<pending, next, outcome>> /\ job' = NoJob
      /\ retrying' = retrying \cup {again}
  BY DEF FailTransient, RolledBack
<1>j. again.waiters = job.waiters /\ NoJob.waiters = {}
  BY TypeFacts DEF Job, NoJob
<1>1. WaitersApart'
  BY <1>u, <1>j DEF WaiterInv, WaitersApart, Apart
<1>2. \A s : Holds(s)' <=> Holds(s)
  BY <1>u, <1>j DEF Holds
<1>3. QED BY <1>u, <1>1, <1>2 DEF WaiterInv, WaitersWait

(* The writer completes the waiters of its job, and on success those of the
   older retries the job retires. *)
LEMMA WaitersAcknowledge ==
  ASSUME TypeOK, WaiterInv, Acknowledge
  PROVE  WaiterInv'
<1>u. /\ UNCHANGED <<pending, next>> /\ job' = NoJob
      /\ retrying' = retrying \ Retired /\ outcome' = Settled(Acknowledged, "ok")
  BY DEF Acknowledge
<1>r. Retired \subseteq retrying /\ NoJob.waiters = {}
  BY DEF Retired, NoJob
<1>1. \A s \in Acknowledged : Holds(s)
  BY <1>r DEF Acknowledged, Holds
<1>2. \A s \in Acknowledged : ~Holds(s)'
  BY <1>u, <1>r DEF Acknowledged, Holds, WaiterInv, WaitersApart, Apart
<1>3. \A s : Holds(s) /\ s \notin Acknowledged => Holds(s)'
  BY <1>u, <1>r DEF Acknowledged, Holds
<1>4. QED BY <1>u, <1>1, <1>2, <1>3, WaitersSettle

\* A job that failed for good settles its waiters.
LEMMA WaitersFail ==
  ASSUME TypeOK, WaiterInv, NEW atCommit \in BOOLEAN, RolledBack(atCommit),
         UNCHANGED retrying, outcome' = Settled(job.waiters, "error")
  PROVE  WaiterInv'
<1>u. UNCHANGED <<pending, next>> /\ job' = NoJob /\ NoJob.waiters = {}
  BY DEF RolledBack, NoJob
<1>1. \A s \in job.waiters : Holds(s) /\ ~Holds(s)'
  BY <1>u DEF Holds, WaiterInv, WaitersApart, Apart
<1>2. \A s : Holds(s) /\ s \notin job.waiters => Holds(s)'
  BY <1>u DEF Holds
<1>3. QED BY <1>u, <1>1, <1>2, WaitersSettle

\* A crash settles every waiter.
LEMMA WaitersCrash ==
  ASSUME TypeOK, WaiterInv, Crash
  PROVE  WaiterInv'
<1> DEFINE done == {s \in DOMAIN outcome : outcome[s] = "waiting"}
<1>u. /\ pending' = <<>> /\ retrying' = {} /\ job' = NoJob /\ next' = next
      /\ outcome' = Settled(done, "lost") /\ NoJob.waiters = {}
  BY DEF Crash, NoJob
<1>1. \A s : ~Holds(s)'
  BY <1>u DEF Holds
<1>2. DOMAIN outcome = 1..MaxSeq
  BY DEF TypeOK
<1>3. \A s : Holds(s) <=> s \in done
  BY <1>2 DEF WaiterInv, WaitersWait
<1>4. DOMAIN pending' = {}
  BY <1>u
<1> HIDE DEF done
<1>5. QED BY <1>u, <1>1, <1>3, <1>4, WaitersSettle

\* Every step keeps the waiters with a job that will settle them.
LEMMA WaiterStep == TypeOK /\ OrderInv /\ WaiterInv /\ [Next]_vars => WaiterInv'
<1> SUFFICES ASSUME TypeOK, OrderInv, WaiterInv, [Next]_vars PROVE WaiterInv'
  OBVIOUS
<1>1. CASE Close \/ DebounceEnds
  BY <1>1, FlushKeeps, WaitersKept DEF Close, DebounceEnds
<1>2. ASSUME NEW op \in Op, NEW high \in BOOLEAN, CallerOp(op), Submit(op, high)
      PROVE  WaiterInv'
  BY <1>2, WaitersSubmit
<1>3. CASE TakePending
  BY <1>3, WaitersTakePending
<1>4. ASSUME NEW r \in retrying, TakeRetry(r) PROVE WaiterInv'
  BY <1>4, WaitersTakeRetry
<1>5. ASSUME UNCHANGED <<pending, retrying, job, outcome, next>> PROVE WaiterInv'
  BY <1>5 DEF WaiterInv, WaitersApart, WaitersWait, Holds, Apart
<1>6. ASSUME Stop \/ (\E expired \in SUBSET Keys : Commit(expired)) \/ UNCHANGED vars
      PROVE  WaiterInv'
  BY <1>5, <1>6 DEF Stop, Commit, vars, memory
<1>7. CASE Acknowledge
  BY <1>7, WaitersAcknowledge
<1>8. ASSUME NEW atCommit \in BOOLEAN, FailTransient(atCommit) PROVE WaiterInv'
  BY <1>8, WaitersFailTransient
<1>9. ASSUME NEW atCommit \in BOOLEAN, FailForGood(atCommit) PROVE WaiterInv'
  BY <1>9, WaitersFail DEF FailForGood
<1>10. CASE FailIntegrity
  BY <1>10, WaitersFail DEF FailIntegrity
<1>11. CASE Crash
  BY <1>11, WaitersCrash
<1>12. CASE Reopen
  <2>0. /\ writer \in {"down", "stopped"} /\ UNCHANGED <<pending, retrying, job>>
        /\ outcome' = [s \in 1..MaxSeq |-> "none"]
    BY <1>12, Zenon DEF Reopen
  <2>1. pending' = <<>> /\ retrying' = {} /\ job' = NoJob
    BY <2>0 DEF OrderInv, Idle
  <2>2. NoJob.waiters = {}
    BY DEF NoJob
  <2>3. QED BY <2>0, <2>1, <2>2 DEF WaiterInv, WaitersApart, WaitersWait, Holds, Apart
<1>13. QED
  BY <1>1, <1>2, <1>3, <1>4, <1>6, <1>7, <1>8, <1>9, <1>10, <1>11, <1>12, CallerSubmits
     DEF Next, Writer

\* Nobody waits at first.
LEMMA WaiterInit == Init => WaiterInv
<1> SUFFICES ASSUME Init PROVE WaiterInv
  OBVIOUS
<1>1. /\ pending = <<>> /\ retrying = {} /\ job = NoJob
      /\ outcome = [s \in 1..MaxSeq |-> "none"] /\ NoJob.waiters = {}
  BY DEF Init, NoJob
<1>2. QED BY <1>1 DEF WaiterInv, WaitersApart, WaitersWait, Holds, Apart

(* A waiting caller always has a job in the store, and only a waiting one. *)
THEOREM WaitersRemembered == Spec => []NoWaiterForgotten
<1>1. TypeOK /\ OrderInv /\ WaiterInv => NoWaiterForgotten
  <2> SUFFICES ASSUME TypeOK, OrderInv, WaiterInv, NEW s \in 1..MaxSeq
               PROVE  /\ outcome[s] = "waiting" => \E j \in Owed : s \in j.waiters
                      /\ outcome[s] # "waiting" => \A j \in Owed : s \notin j.waiters
    BY DEF NoWaiterForgotten, TypeOK
  <2>1. job.waiters # {} => InHand = {job}
    BY DEF OrderInv, Idle, NoJob, InHand
  <2>2. Holds(s) <=> \E j \in Owed : s \in j.waiters
    BY <2>1 DEF Holds, Owed, Queued, InHand
  <2>3. QED BY <2>2 DEF WaiterInv, WaitersWait
<1>2. QED BY <1>1, OrderInit, OrderStep, WaiterInit, WaiterStep, TypeCorrect, PTL DEF Spec

(* Only the writer's acknowledgement tells a waiting caller "ok". *)
LEMMA OnlyAcknowledged ==
  ASSUME TypeOK, [Next]_vars, NEW s \in 1..MaxSeq, outcome[s] = "waiting", outcome'[s] = "ok"
  PROVE  Acknowledge /\ s \in Acknowledged
<1>t. DOMAIN outcome = 1..MaxSeq /\ outcome \in [1..MaxSeq -> Outcomes]
  BY DEF TypeOK
<1>1. ASSUME UNCHANGED outcome PROVE FALSE
  BY <1>1
<1>2. ASSUME NEW done, NEW result, outcome' = Settled(done, result)
      PROVE  s \in done /\ result = "ok"
  BY <1>2, <1>t DEF Settled
<1>3. ASSUME NEW op \in Op, NEW high \in BOOLEAN, Submit(op, high) PROVE FALSE
  <2>1. outcome' = [outcome EXCEPT ![next] = "waiting"]
    BY <1>3 DEF Submit
  <2>2. QED BY <1>t, <2>1
<1>4. ASSUME NEW r \in retrying, TakeRetry(r) PROVE FALSE
  BY <1>1, <1>4 DEF TakeRetry
<1>5. ASSUME NEW expired \in SUBSET Keys, Commit(expired) PROVE FALSE
  BY <1>1, <1>5 DEF Commit
<1>6. ASSUME NEW atCommit \in BOOLEAN,
             FailTransient(atCommit) \/ FailForGood(atCommit) \/ FailIntegrity
      PROVE  FALSE
  <2>1. UNCHANGED outcome \/ outcome' = Settled(job.waiters, "error")
    BY <1>6 DEF FailTransient, FailForGood, FailIntegrity
  <2>2. QED BY <1>1, <1>2, <2>1
<1>7. ASSUME Close \/ DebounceEnds \/ TakePending \/ Stop \/ UNCHANGED vars PROVE FALSE
  BY <1>1, <1>7 DEF Close, DebounceEnds, TakePending, Stop, vars, memory
<1>8. ~Crash
  <2>1. Crash => outcome' = Settled({m \in DOMAIN outcome : outcome[m] = "waiting"}, "lost")
    BY Zenon DEF Crash
  <2>2. QED BY <1>2, <2>1
<1>9. ~Reopen
  <2>1. Reopen => outcome' = [m \in 1..MaxSeq |-> "none"]
    BY Zenon DEF Reopen
  <2>2. QED BY <2>1
<1>10. CASE Acknowledge
  BY <1>2, <1>10 DEF Acknowledge
<1>11. QED
  BY <1>3, <1>4, <1>5, <1>6, <1>7, <1>8, <1>9, <1>10, CallerSubmits DEF Next, Writer

-----------------------------------------------------------------------------
(* Barriers whose COMMIT failed *)

(* A job that leaves a barrier is never coalesced: it is fenced by nothing and
   its caller alone waits for it. *)
LeavesBarrier(j) == BarrierOf(j.op) # None => j.waiters = {j.payload} /\ j.fence = {}
BarrierJobs ==
  /\ \A i \in DOMAIN pending : LeavesBarrier(pending[i])
  /\ \A r \in retrying : LeavesBarrier(r)
  /\ LeavesBarrier(job)

(* If somebody waits on job j for the submission that left b's barrier, j is the
   job that left it. *)
Left(j, b) == committed[b] \in j.waiters => BarrierOf(j.op) = b /\ j.payload = committed[b]
Uncommitted(b) ==
  /\ committed[b] < next /\ outcome[committed[b]] # "ok"
  /\ \A i \in DOMAIN pending : Left(pending[i], b)
  /\ \A r \in retrying : Left(r, b)
  /\ Left(job, b)

(* A barrier that is newer in memory than on disk is of a submission whose caller
   has not been told "ok". *)
BarrierInv ==
  /\ BarrierJobs
  /\ \A b \in Barriers :
       /\ writer = "committed" /\ BarrierOf(job.op) = b => durable[b] >= job.payload
       /\ committed[b] > durable[b] => Uncommitted(b)

\* A barrier scope is a name, and what has a scope leaves no barrier.
LEMMA BarrierFacts ==
  /\ None \notin Barriers
  /\ \A op : Scope(op) # NoScope => BarrierOf(op) = None
  /\ BarrierOf(NoJob.op) = None
  /\ \A op : CallerOp(op) /\ BarrierOf(op) # None => FenceOf(op) = {} /\ Scope(op) = NoScope
BY Assumption DEF Scope, NoScope, BarrierOf, NoJob, Global, OnKey, CallerOp, FenceOf, Barriers, Keys

\* BarrierInv looks at jobs only up to Kept.
LEMMA BarrierKept ==
  ASSUME BarrierInv, QueueKept,
         UNCHANGED <<retrying, job, writer, outcome, next, committed, durable>>
  PROVE  BarrierInv'
BY DEF BarrierInv, BarrierJobs, LeavesBarrier, Uncommitted, Left, QueueKept, Kept

\* A submission joins the queue with a number no barrier has.
LEMMA BarrierSubmit ==
  ASSUME TypeOK, BarrierInv, NEW op, CallerOp(op), NEW high \in BOOLEAN, Submit(op, high)
  PROVE  BarrierInv'
<1> DEFINE n == Len(pending)
<1>t. /\ DOMAIN pending = 1..n /\ n \in Nat /\ next \in 1..MaxSeq
      /\ outcome \in [1..MaxSeq -> Outcomes] /\ committed \in [Barriers -> Nat]
  BY TypeFacts, Bounds DEF Submit, TypeOK
<1>u. /\ UNCHANGED <<retrying, job, writer, committed, durable>>
      /\ next' = next + 1 /\ outcome' = [outcome EXCEPT ![next] = "waiting"]
  BY DEF Submit, history
<1>s. \A i \in SameScope(op) : i \in 1..n /\ BarrierOf(op) = None /\ BarrierOf(pending[i].op) = None
  BY <1>t, BarrierFacts DEF SameScope
<1>1. DOMAIN pending' = IF SameScope(op) = {} THEN 1..(n + 1) ELSE 1..n
  BY SubmitQueue
<1>2. \A i \in 1..n : \/ Kept(pending'[i], pending[i])
                      \/ /\ i \in SameScope(op) /\ pending'[i].op = op
                         /\ pending'[i].waiters = pending[i].waiters \cup {next}
  BY SubmitQueue
<1>3. SameScope(op) = {} =>
        /\ pending'[n + 1].waiters = {next} /\ pending'[n + 1].payload = next
        /\ pending'[n + 1].op = op /\ pending'[n + 1].fence = FenceOf(op)
  BY SubmitQueue
<1>4. ASSUME NEW i \in DOMAIN pending' PROVE LeavesBarrier(pending'[i])
  <2>1. CASE i \in 1..n
    BY <1>2, <1>s, <1>t, <2>1 DEF BarrierInv, BarrierJobs, LeavesBarrier, Kept
  <2>2. CASE i = n + 1 /\ SameScope(op) = {}
    BY <1>3, <2>2, BarrierFacts DEF LeavesBarrier
  <2>3. QED BY <1>1, <1>t, <2>1, <2>2
<1>5. ASSUME NEW b \in Barriers, committed[b] > durable[b] PROVE Uncommitted(b)'
  <2>1. Uncommitted(b) /\ b # None /\ committed[b] \in Nat
    BY <1>5, <1>t, BarrierFacts DEF BarrierInv
  <2>2. committed[b] < next' /\ committed[b] # next
    BY <1>t, <1>u, <2>1 DEF Uncommitted
  <2>3. outcome'[committed[b]] # "ok"
    BY <1>u, <2>1, <2>2 DEF Uncommitted
  <2>4. ASSUME NEW i \in DOMAIN pending', committed[b] \in pending'[i].waiters
        PROVE  BarrierOf(pending'[i].op) = b /\ pending'[i].payload = committed[b]
    <3>1. CASE i \in 1..n
      BY <1>2, <1>s, <1>t, <2>1, <2>2, <2>4, <3>1 DEF Uncommitted, Left, Kept
    <3>2. CASE i = n + 1 /\ SameScope(op) = {}
      BY <1>3, <2>2, <2>4, <3>2
    <3>3. QED BY <1>1, <1>t, <3>1, <3>2
  <2>5. QED BY <1>u, <2>1, <2>2, <2>3, <2>4 DEF Uncommitted, Left
<1>6. QED BY <1>u, <1>4, <1>5 DEF BarrierInv, BarrierJobs

\* The writer takes a job as it is.
LEMMA BarrierTake ==
  ASSUME TypeOK, BarrierInv, TakePending \/ \E r \in retrying : TakeRetry(r)
  PROVE  BarrierInv'
<1>1. /\ UNCHANGED <<outcome, next, committed, durable>> /\ writer' = "attempting"
      /\ retrying' \subseteq retrying
  BY DEF TakePending, TakeRetry, history
<1>2. /\ \A i \in DOMAIN pending' : \E m \in DOMAIN pending : pending'[i] = pending[m]
      /\ job' \in retrying \/ \E m \in DOMAIN pending : job' = pending[m]
  <2>1. CASE TakePending
    <3>1. pending # <<>> /\ job' = Head(pending) /\ pending' = Tail(pending) /\ pending \in Seq(Job)
      BY <2>1 DEF TakePending, HeadIsDue, TypeOK
    <3>2. /\ 1 \in DOMAIN pending /\ job' = pending[1]
          /\ \A i \in DOMAIN pending' : i + 1 \in DOMAIN pending /\ pending'[i] = pending[i + 1]
      BY <3>1
    <3>3. QED BY <3>2
  <2>2. CASE \E r \in retrying : TakeRetry(r)
    BY <2>2 DEF TakeRetry
  <2>3. QED BY <2>1, <2>2
<1>3. BarrierJobs'
  BY <1>1, <1>2 DEF BarrierInv, BarrierJobs
<1>4. ASSUME NEW b \in Barriers, Uncommitted(b) PROVE Uncommitted(b)'
  BY <1>1, <1>2, <1>4 DEF Uncommitted, Left
<1>5. QED BY <1>1, <1>3, <1>4 DEF BarrierInv

\* A commit makes its barrier durable.
LEMMA BarrierCommit ==
  ASSUME TypeOK, BarrierInv, NEW expired \in SUBSET Keys, Commit(expired)
  PROVE  BarrierInv'
<1>1. UNCHANGED <<pending, retrying, job, next, outcome>> /\ writer = "attempting"
  BY DEF Commit
<1>2. /\ committed \in [Barriers -> Nat] /\ durable \in [Barriers -> Nat]
      /\ job \in Job /\ job.payload \in Nat
  BY DEF TypeOK, Job
<1>3. CASE Fenced(job)
  <2>1. UNCHANGED <<committed, durable>> /\ BarrierOf(job.op) = None
    BY <1>3 DEF Commit, history, Fenced, BarrierInv, BarrierJobs, LeavesBarrier
  <2>2. QED BY <1>1, <2>1, BarrierFacts DEF BarrierInv, BarrierJobs, LeavesBarrier, Uncommitted, Left
<1>4. CASE ~Fenced(job)
  <2>1. committed' = Raised(committed, job) /\ durable' = Raised(durable, job)
    BY <1>4 DEF Commit
  <2>2. ASSUME NEW b \in Barriers
        PROVE  /\ BarrierOf(job.op) = b => durable'[b] >= job.payload
               /\ committed'[b] > durable'[b] => committed'[b] = committed[b] /\ committed[b] > durable[b]
    BY <1>2, <2>1, RaisedType DEF Larger
  <2>3. QED BY <1>1, <2>2 DEF BarrierInv, BarrierJobs, LeavesBarrier, Uncommitted, Left
<1>5. QED BY <1>3, <1>4

\* Whoever is told "ok" waited for a job that committed.
LEMMA BarrierAcknowledge ==
  ASSUME TypeOK, BarrierInv, Acknowledge
  PROVE  BarrierInv'
<1>1. /\ UNCHANGED <<pending, next, committed, durable>> /\ job' = NoJob
      /\ retrying' \subseteq retrying /\ writer = "committed" /\ writer' = "waiting"
      /\ outcome' = Settled(Acknowledged, "ok") /\ NoJob.waiters = {}
  BY DEF Acknowledge, history, NoJob
<1>2. BarrierJobs'
  BY <1>1, BarrierFacts DEF BarrierInv, BarrierJobs, LeavesBarrier
<1>3. ASSUME NEW b \in Barriers, committed[b] > durable[b] PROVE Uncommitted(b)'
  <2>1. Uncommitted(b) /\ committed[b] \in Nat /\ durable[b] \in Nat /\ b # None
    BY <1>3, BarrierFacts DEF BarrierInv, TypeOK
  <2>2. committed[b] \notin job.waiters
    BY <1>1, <1>3, <2>1 DEF Uncommitted, Left, BarrierInv
  <2>3. ASSUME NEW r \in Retired PROVE committed[b] \notin r.waiters
    BY <2>1, BarrierFacts DEF Retired, Uncommitted, Left
  <2>4. outcome'[committed[b]] = outcome[committed[b]]
    <3>1. committed[b] \in DOMAIN outcome
      BY <1>3, <2>1, Bounds DEF Uncommitted, TypeOK
    <3>2. committed[b] \notin Acknowledged
      BY <2>2, <2>3 DEF Acknowledged
    <3>3. QED BY <1>1, <3>1, <3>2 DEF Settled
  <2>5. QED BY <1>1, <2>1, <2>4 DEF Uncommitted, Left
<1>4. QED BY <1>1, <1>2, <1>3 DEF BarrierInv

\* A failed COMMIT may leave a barrier in memory; its caller waits or gets an error.
LEMMA BarrierRolledBack ==
  ASSUME TypeOK, OrderInv, WaiterInv, BarrierInv, NEW atCommit \in BOOLEAN, RolledBack(atCommit),
         \/ outcome' = outcome /\ retrying' = retrying \cup {[job EXCEPT !.due = TRUE, !.tried = TRUE]}
         \/ outcome' = Settled(job.waiters, "error") /\ retrying' = retrying
  PROVE  BarrierInv'
<1> DEFINE again == [job EXCEPT !.due = TRUE, !.tried = TRUE]
<1>1. /\ UNCHANGED <<pending, next, durable>> /\ job' = NoJob /\ writer' = "waiting"
      /\ committed' \in {committed, Raised(committed, job)} /\ NoJob.waiters = {}
  BY DEF RolledBack, history, NoJob
<1>2. /\ committed \in [Barriers -> Nat] /\ durable \in [Barriers -> Nat]
      /\ outcome \in [1..MaxSeq -> Outcomes] /\ job \in Job /\ IsNumbered(job)
  BY TypeFacts DEF TypeOK
<1>3. Kept(again, job)
  BY <1>2, KeptWhenFlushed
<1> HIDE DEF again
<1>4. BarrierJobs'
  BY <1>1, <1>3, BarrierFacts DEF BarrierInv, BarrierJobs, LeavesBarrier, Kept, again
<1>5. \A s \in 1..MaxSeq : outcome'[s] = "ok" => outcome[s] = "ok"
  BY <1>2 DEF Settled
<1>6. ASSUME NEW b \in Barriers, committed'[b] > durable'[b] PROVE Uncommitted(b)'
  <2>1. CASE committed'[b] = committed[b]
    <3>1. Uncommitted(b) /\ committed[b] \in 1..MaxSeq
      BY <1>1, <1>2, <1>6, <2>1, Bounds DEF BarrierInv, Uncommitted, TypeOK
    <3>2. outcome'[committed[b]] # "ok"
      BY <1>5, <3>1 DEF Uncommitted
    <3>3. QED BY <1>1, <1>3, <2>1, <3>1, <3>2 DEF Uncommitted, Left, Kept, again
  <2>2. CASE committed'[b] # committed[b]
    <3>1. /\ BarrierOf(job.op) = b /\ committed'[b] = job.payload /\ b # None
      BY <1>1, <1>2, <2>2, RaisedType, BarrierFacts DEF Larger
    <3>2. job.waiters = {job.payload}
      BY <3>1 DEF BarrierInv, BarrierJobs, LeavesBarrier
    <3>3. Holds(job.payload) /\ job.payload < next
      BY <3>2 DEF Holds, OrderInv, Numbers, Numbered
    <3>4. job.payload \in 1..MaxSeq /\ outcome[job.payload] = "waiting"
      BY <3>3 DEF WaiterInv, WaitersWait
    <3>5. outcome'[job.payload] # "ok"
      BY <1>5, <3>4
    <3>6. /\ \A i \in DOMAIN pending : job.payload \notin pending[i].waiters
          /\ \A r \in retrying : job.payload \notin r.waiters
      BY <3>2 DEF WaiterInv, WaitersApart, Apart
    <3>7. \A r \in retrying' : job.payload \in r.waiters => BarrierOf(r.op) = b /\ r.payload = job.payload
      BY <1>3, <3>1, <3>6 DEF Kept, again
    <3>8. committed'[b] < next' /\ outcome'[committed'[b]] # "ok"
      BY <1>1, <3>1, <3>3, <3>5
    <3>9. \A i \in DOMAIN pending' : committed'[b] \notin pending'[i].waiters
      BY <1>1, <3>1, <3>6
    <3>10. committed'[b] \notin job'.waiters
      BY <1>1
    <3>11. \A r \in retrying' :
             committed'[b] \in r.waiters => BarrierOf(r.op) = b /\ r.payload = committed'[b]
      BY <3>1, <3>7
    <3>12. QED BY <3>8, <3>9, <3>10, <3>11 DEF Uncommitted, Left
  <2>3. QED BY <2>1, <2>2
<1>7. QED BY <1>1, <1>4, <1>6 DEF BarrierInv

\* Every step keeps an uncommitted barrier's caller from being told "ok".
LEMMA BarrierStep == TypeOK /\ OrderInv /\ WaiterInv /\ BarrierInv /\ [Next]_vars => BarrierInv'
<1> SUFFICES ASSUME TypeOK, OrderInv, WaiterInv, BarrierInv, [Next]_vars PROVE BarrierInv'
  OBVIOUS
<1>1. CASE Close \/ DebounceEnds
  BY <1>1, FlushKeeps, BarrierKept DEF Close, DebounceEnds, history
<1>2. ASSUME NEW op \in Op, NEW high \in BOOLEAN, CallerOp(op), Submit(op, high)
      PROVE  BarrierInv'
  BY <1>2, BarrierSubmit
<1>3. CASE TakePending \/ \E r \in retrying : TakeRetry(r)
  BY <1>3, BarrierTake
<1>4. CASE Stop \/ UNCHANGED vars
  <2>1. UNCHANGED <<pending, retrying, job, outcome, next, committed, durable>>
    BY <1>4 DEF Stop, vars, memory, history
  <2>2. writer' = "committed" => writer = "committed"
    BY <1>4 DEF Stop, vars, memory
  <2>3. QED BY <2>1, <2>2 DEF BarrierInv, BarrierJobs, LeavesBarrier, Uncommitted, Left
<1>5. ASSUME NEW expired \in SUBSET Keys, Commit(expired) PROVE BarrierInv'
  BY <1>5, BarrierCommit
<1>6. CASE Acknowledge
  BY <1>6, BarrierAcknowledge
<1>7. ASSUME NEW atCommit \in BOOLEAN, FailTransient(atCommit) \/ FailForGood(atCommit) \/ FailIntegrity
      PROVE  BarrierInv'
  BY <1>7, BarrierRolledBack DEF FailTransient, FailForGood, FailIntegrity
<1>8. CASE Crash
  <2>1. /\ pending' = <<>> /\ retrying' = {} /\ job' = NoJob /\ writer' = "down"
        /\ UNCHANGED <<next, committed, durable>> /\ NoJob.waiters = {}
    BY <1>8 DEF Crash, history, NoJob
  <2>2. outcome' = Settled({s \in DOMAIN outcome : outcome[s] = "waiting"}, "lost")
    BY <1>8 DEF Crash
  <2>3. \A s \in 1..MaxSeq : outcome'[s] = "ok" => outcome[s] = "ok"
    BY <2>2 DEF Settled, TypeOK
  <2>4. ASSUME NEW b \in Barriers, committed[b] > durable[b] PROVE Uncommitted(b)'
    <3>1. Uncommitted(b) /\ committed[b] \in 1..MaxSeq
      BY <2>4, Bounds DEF BarrierInv, Uncommitted, TypeOK
    <3>2. QED BY <2>1, <2>3, <3>1 DEF Uncommitted, Left
  <2>5. QED BY <2>1, <2>4, BarrierFacts DEF BarrierInv, BarrierJobs, LeavesBarrier
<1>9. CASE Reopen
  <2>0. /\ writer \in {"down", "stopped"} /\ UNCHANGED <<pending, retrying, job>>
        /\ committed' = [b \in Barriers |-> 0] /\ durable' = [b \in Barriers |-> 0]
        /\ writer' = "waiting"
    BY <1>9, Zenon DEF Reopen
  <2>1. QED BY <2>0 DEF BarrierInv, BarrierJobs, LeavesBarrier
<1>10. QED
  BY <1>1, <1>2, <1>3, <1>4, <1>5, <1>6, <1>7, <1>8, <1>9, CallerSubmits DEF Next, Writer

\* No barrier at first.
LEMMA BarrierInit == Init => BarrierInv
<1> SUFFICES ASSUME Init PROVE BarrierInv
  OBVIOUS
<1>1. /\ pending = <<>> /\ retrying = {} /\ job = NoJob /\ writer = "waiting"
      /\ committed = [b \in Barriers |-> 0] /\ durable = [b \in Barriers |-> 0]
  BY DEF Init
<1>2. QED BY <1>1, BarrierFacts DEF BarrierInv, BarrierJobs, LeavesBarrier

(* An acknowledged upsert or delete is covered: by its own commit, by a newer
   one of its row, or by a barrier of the fence of the write that stands for it,
   which has committed or else is of an invalidation that was not told "ok". *)
THEOREM Acknowledgements == Spec => OkMeansApplied
<1> DEFINE Covered(s, k) ==
             \/ applied[k] >= s
             \/ \E w \in StandsFor(k, s) : \E b \in w.fence :
                  \/ durable[b] > w.payload
                  \/ committed[b] > w.payload /\ outcome[committed[b]] # "ok"
<1>1. ASSUME TypeOK, OrderInv, WaiterInv, BarrierInv, [Next]_vars, NEW j \in Owed, NEW k \in Keys,
             Scope(j.op) = <<"row", k>>, NEW s \in j.waiters, outcome'[s] = "ok"
      PROVE  Covered(s, k)
  <2>t. /\ applied \in [Keys -> Nat] /\ job \in Job /\ IsNumbered(job)
        /\ \A r \in retrying : IsNumbered(r)
        /\ committed \in [Barriers -> Nat]
    BY <1>1, TypeFacts DEF TypeOK
  <2>1. j = job \/ j \in retrying \/ \E m \in DOMAIN pending : j = pending[m]
    BY <1>1 DEF Owed, Queued, InHand
  <2>2. Holds(s)
    BY <1>1, <2>1 DEF Holds
  <2>3. s \in 1..MaxSeq /\ outcome[s] = "waiting"
    BY <1>1, <2>2 DEF WaiterInv, WaitersWait
  <2>4. Acknowledge /\ s \in Acknowledged
    BY <1>1, <2>3, OnlyAcknowledged
  <2>5. writer = "committed"
    BY <2>4 DEF Acknowledge
  <2>6. RowOf(job, k) /\ s <= job.payload
    <3>1. CASE s \in job.waiters
      <4>1. j = job
        BY <1>1, <2>1, <3>1 DEF WaiterInv, WaitersApart, Apart
      <4>2. QED BY <1>1, <3>1, <4>1 DEF RowOf, OrderInv, Numbers, Numbered
    <3>2. CASE s \notin job.waiters
      <4>1. PICK r \in Retired : s \in r.waiters
        BY <2>4, <3>2 DEF Acknowledged
      <4>2. /\ r \in retrying /\ Scope(r.op) = Scope(job.op) /\ r.payload < job.payload
        BY <4>1 DEF Retired
      <4>3. j = r
        BY <1>1, <2>1, <3>2, <4>1, <4>2 DEF WaiterInv, WaitersApart, Apart
      <4>4. s <= r.payload /\ s \in Nat
        BY <1>1, <2>3, <4>1, <4>2 DEF OrderInv, Numbers, Numbered
      <4>5. QED BY <1>1, <2>t, <4>2, <4>3, <4>4 DEF RowOf, IsNumbered
    <3>3. QED BY <3>1, <3>2
  <2>7. job.payload = applied[k] \/ Fenced(job)
    BY <1>1, <2>5, <2>6 DEF OrderInv, NothingOlder
  <2>8. CASE Fenced(job)
    <3>1. PICK b \in job.fence : committed[b] > job.payload
      BY <2>8 DEF Fenced
    <3>2. b \in Barriers /\ committed[b] \in Nat /\ durable[b] \in Nat
      BY <1>1, <2>t DEF Job, TypeOK
    <3>3. durable[b] > job.payload \/ committed[b] > durable[b]
      BY <2>t, <3>1, <3>2 DEF IsNumbered
    <3>4. committed[b] > durable[b] => outcome[committed[b]] # "ok"
      BY <1>1, <3>2 DEF BarrierInv, Uncommitted
    <3>5. job \in StandsFor(k, s)
      BY <2>3, <2>5, <2>6, <2>t DEF StandsFor, Owed, InHand, RowOf, IsNumbered
    <3>6. QED BY <3>1, <3>3, <3>4, <3>5
  <2>9. QED BY <2>6, <2>7, <2>8
<1>2. TypeOK /\ OrderInv /\ WaiterInv /\ BarrierInv /\ [Next]_vars =>
        [\A j \in Owed, k \in Keys : Scope(j.op) = <<"row", k>> =>
           \A s \in j.waiters : outcome'[s] = "ok" =>
             \/ applied[k] >= s
             \/ \E w \in StandsFor(k, s) : \E b \in w.fence :
                  \/ durable[b] > w.payload
                  \/ committed[b] > w.payload /\ outcome[committed[b]] # "ok"]_vars
  BY <1>1
<1>3. QED
  BY <1>2, OrderInit, OrderStep, WaiterInit, WaiterStep, BarrierInit, BarrierStep, TypeCorrect, PTL
     DEF Spec, OkMeansApplied
=============================================================================
