------------------------------ MODULE StateStore ------------------------------
(***************************************************************************)
(* The durable runtime-state store of the balanced Claude router           *)
(* (src/claudex/balanced/state_store.py): callers submit mutations under a *)
(* condition variable, one writer thread takes them off a coalescing queue *)
(* and commits each in its own SQLite transaction.  A write that fails     *)
(* transiently moves to a retry side track; epoch rotations and            *)
(* incarnation deletions leave a barrier that fences older row writes.     *)
(*                                                                         *)
(* Sequence numbers are the code's persistence sequence numbers.  A row is *)
(* abstracted to the account incarnation and epoch it names and to the     *)
(* sequence number of the payload that wrote it.                           *)
(***************************************************************************)
EXTENDS Naturals, Sequences

CONSTANTS
  PinKeys,      \* session-key digests: rows of the table pins
  AccountKeys,  \* rows of cooldowns, usage_observations, capability_evidence
  Incarnations, \* account incarnation ids
  EpochBarrier, \* the barrier scope ("epoch",)
  None,         \* no key, no incarnation, no barrier
  Kinds,        \* the operations the callers use
  MaxSeq,       \* bound: submissions accepted by one opened store
  MaxFailures,  \* bound: failed write attempts
  MaxEpoch,     \* bound: epoch ids minted
  MaxLives      \* bound: times the database is opened

Keys == PinKeys \cup AccountKeys
Barriers == {EpochBarrier} \cup Incarnations
AllKinds == {"upsert", "delete", "touch", "rotate", "invalidate",
             "deleteIncarnation", "restore"}

ASSUME Assumption ==
  /\ PinKeys \cap AccountKeys = {}
  /\ None \notin Keys \cup Barriers
  /\ EpochBarrier \notin Incarnations
  /\ Kinds \subseteq AllKinds
  /\ {MaxSeq, MaxFailures, MaxEpoch, MaxLives} \subseteq Nat

VARIABLES
  pending,    \* _pending: the coalescing queue
  retrying,   \* _retrying: jobs waiting for their backoff to end
  writer,     \* what the writer thread is doing
  job,        \* the job it is doing it with
  closed,     \* _closed and _stopping, always set together
  next,       \* _next_sequence
  committed,  \* _committed_barriers: barrier scope -> highest sequence
  memEpoch,   \* _balanced_epoch_id
  degraded,   \* _persistence_degraded
  outcome,    \* sequence -> what its PendingWrite shows the caller
  rows,       \* on disk: the rows
  diskEpoch,  \* on disk: meta.balanced_epoch_id
  minted,     \* epoch ids minted so far
  failures,   \* failed attempts so far (bounded)
  lives,      \* times the database was opened (bounded)
  applied,    \* history: row -> newest payload of its scope that committed
  durable,    \* history: barrier scope -> newest barrier that committed
  wiped       \* history: newest rotation that committed

memory == <<pending, retrying, writer, job, closed, next, committed,
            memEpoch, degraded, outcome>>
disk == <<rows, diskEpoch>>
history == <<applied, durable, wiped>>
counters == <<minted, failures, lives>>
vars == <<memory, disk, history, counters>>

-----------------------------------------------------------------------------
(* Operations, rows and jobs *)

Op == [kind : AllKinds, key : Keys \cup {None},
       inc : Incarnations \cup {None}, epoch : Nat]

Upsert(k, i, e) == [kind |-> "upsert", key |-> k, inc |-> i, epoch |-> e]
OnKey(kind, k) == [kind |-> kind, key |-> k, inc |-> None, epoch |-> 0]
DeleteIncarnation(i) ==
  [kind |-> "deleteIncarnation", key |-> None, inc |-> i, epoch |-> 0]
Rotate(e) == [kind |-> "rotate", key |-> None, inc |-> None, epoch |-> e]
Global(kind) == OnKey(kind, None)

(* upsert and delete of a row share one coalescing scope; the heartbeat of a
   pin has another; the remaining operations have none. *)
NoScope == <<"none", None>>
Scope(op) == IF op.kind \in {"upsert", "delete"} THEN <<"row", op.key>>
             ELSE IF op.kind = "touch" THEN <<"last_seen", op.key>>
             ELSE NoScope

(* mutant: a row write is fenced by its epoch only *)
FenceOf_NoIncarnation(op) ==
  IF op.kind \in {"upsert", "touch"} THEN {EpochBarrier} ELSE {}

FenceOf(op) == IF op.kind = "upsert"
                 THEN {op.inc} \cup (IF op.key \in PinKeys THEN {EpochBarrier} ELSE {})
               ELSE IF op.kind = "touch" THEN {EpochBarrier}
               ELSE {}

BarrierOf(op) == IF op.kind \in {"rotate", "invalidate"} THEN EpochBarrier
                 ELSE IF op.kind = "deleteIncarnation" THEN op.inc
                 ELSE None

Row == [inc : Incarnations \cup {None}, epoch : Nat, payload : Nat, seen : Nat]
NoRow == [inc |-> None, epoch |-> 0, payload |-> 0, seen |-> 0]
Present(k) == rows[k].inc # None

Job == [seq : Nat, payload : Nat, op : Op, fence : SUBSET Barriers,
        due : BOOLEAN, tried : BOOLEAN, waiters : SUBSET Nat]

NoJob == [seq |-> 0, payload |-> 0, op |-> Global("restore"), fence |-> {},
          due |-> FALSE, tried |-> FALSE, waiters |-> {}]

NewJob(op, high) ==
  [seq |-> next, payload |-> next, op |-> op, fence |-> FenceOf(op),
   due |-> high, tried |-> FALSE, waiters |-> {next}]

(* The latest payload replaces the queued one in place; a submission with no
   fence (a delete) leaves the fence of the payload it replaces. *)
Coalesced(j, op) ==
  [j EXCEPT !.payload = next, !.op = op, !.waiters = @ \cup {next},
            !.fence = IF FenceOf(op) # {} THEN FenceOf(op) ELSE @]

SameScope(op) == {i \in DOMAIN pending :
                    Scope(op) # NoScope /\ Scope(pending[i].op) = Scope(op)}

Flushed(queue) == [i \in DOMAIN queue |-> [queue[i] EXCEPT !.due = TRUE]]

Settled(waiters, result) ==
  [s \in DOMAIN outcome |-> IF s \in waiters THEN result ELSE outcome[s]]

-----------------------------------------------------------------------------
(* The callers *)

(* _submit: coalesce with the queued job of the same scope or join the queue;
   a high-priority submission ends the debounce of everything queued. *)
Submit(op, high) ==
  /\ writer \notin {"down", "stopped"}
  /\ ~closed
  /\ next <= MaxSeq
  /\ next' = next + 1
  /\ outcome' = [outcome EXCEPT ![next] = "waiting"]
  /\ LET queue == IF SameScope(op) = {}
                    THEN Append(pending, NewJob(op, high))
                    ELSE [i \in DOMAIN pending |->
                            IF i \in SameScope(op) THEN Coalesced(pending[i], op)
                                                   ELSE pending[i]]
     IN pending' = IF high THEN Flushed(queue) ELSE queue
  /\ UNCHANGED <<retrying, writer, job, closed, committed, memEpoch, degraded>>
  /\ UNCHANGED <<disk, history, failures, lives>>

SubmitUpsert(k, i, e, high) ==
  /\ "upsert" \in Kinds
  /\ k \in AccountKeys => e = 0
  /\ Submit(Upsert(k, i, e), high)
  /\ UNCHANGED minted

SubmitDelete(k, high) ==
  "delete" \in Kinds /\ Submit(OnKey("delete", k), high) /\ UNCHANGED minted

(* touch_pin_last_seen; its 60-second throttle only drops submissions. *)
SubmitTouch(k) ==
  "touch" \in Kinds /\ Submit(OnKey("touch", k), FALSE) /\ UNCHANGED minted

(* rotate_epoch mints the new id before it submits. *)
SubmitRotate ==
  /\ "rotate" \in Kinds
  /\ minted < MaxEpoch
  /\ minted' = minted + 1
  /\ Submit(Rotate(minted + 1), TRUE)

SubmitInvalidate ==
  "invalidate" \in Kinds /\ Submit(Global("invalidate"), TRUE) /\ UNCHANGED minted

SubmitDeleteIncarnation(i) ==
  /\ "deleteIncarnation" \in Kinds
  /\ Submit(DeleteIncarnation(i), TRUE)
  /\ UNCHANGED minted

(* restore precedes routing: only the rotation an administrative enable awaits
   comes before it. *)
SubmitRestore ==
  /\ "restore" \in Kinds
  /\ next <= 2
  /\ \A s \in 1..(next - 1) : outcome[s] = "ok"
  /\ Submit(Global("restore"), TRUE)
  /\ UNCHANGED minted

(* close: refuse submissions and end every debounce and backoff. *)
Close ==
  /\ writer \notin {"down", "stopped"}
  /\ ~closed
  /\ closed' = TRUE
  /\ pending' = Flushed(pending)
  /\ UNCHANGED <<retrying, writer, job, next, committed, memEpoch, degraded, outcome>>
  /\ UNCHANGED <<disk, history, counters>>

-----------------------------------------------------------------------------
(* The writer thread *)

(* Time reaches the flush_after of the job at the head of the queue.  Later
   jobs are not looked at until they are at the head. *)
DebounceEnds ==
  /\ pending # <<>>
  /\ ~Head(pending).due
  /\ pending' = [pending EXCEPT ![1].due = TRUE]
  /\ UNCHANGED <<retrying, writer, job, closed, next, committed, memEpoch,
                 degraded, outcome>>
  /\ UNCHANGED <<disk, history, counters>>

HeadIsDue == pending # <<>> /\ Head(pending).due

(* _wait_for_next_job: the head of the queue as soon as it is due ... *)
TakePending ==
  /\ writer = "waiting"
  /\ HeadIsDue
  /\ job' = Head(pending)
  /\ pending' = Tail(pending)
  /\ writer' = "attempting"
  /\ UNCHANGED <<retrying, closed, next, committed, memEpoch, degraded, outcome>>
  /\ UNCHANGED <<disk, history, counters>>

(* mutant: a closing store drains its queue and leaves the retries *)
TakeRetry_NotWhenClosed(r) ==
  /\ writer = "waiting"
  /\ ~HeadIsDue
  /\ ~closed
  /\ r \in retrying
  /\ job' = r
  /\ retrying' = retrying \ {r}
  /\ writer' = "attempting"
  /\ UNCHANGED <<pending, closed, next, committed, memEpoch, degraded, outcome>>
  /\ UNCHANGED <<disk, history, counters>>

(* ... else a retry whose backoff has ended, at a moment time chooses. *)
TakeRetry(r) ==
  /\ writer = "waiting"
  /\ ~HeadIsDue
  /\ r \in retrying
  /\ job' = r
  /\ retrying' = retrying \ {r}
  /\ writer' = "attempting"
  /\ UNCHANGED <<pending, closed, next, committed, memEpoch, degraded, outcome>>
  /\ UNCHANGED <<disk, history, counters>>

(* ... and the thread ends once the store is closed and nothing is left. *)
Stop ==
  /\ writer = "waiting"
  /\ closed
  /\ pending = <<>>
  /\ retrying = {}
  /\ writer' = "stopped"
  /\ UNCHANGED <<pending, retrying, job, closed, next, committed, memEpoch,
                 degraded, outcome>>
  /\ UNCHANGED <<disk, history, counters>>

(* _is_fenced *)
Fenced(j) == \E b \in j.fence : committed[b] > j.payload

(* What apply() does to the rows; restore also drops the rows that expired. *)
Removes(j, k, expired) ==
  \/ j.op.kind = "delete" /\ k = j.op.key
  \/ j.op.kind = "deleteIncarnation" /\ rows[k].inc = j.op.inc
  \/ j.op.kind = "rotate" /\ k \in PinKeys
  \/ /\ j.op.kind \in {"invalidate", "restore"}
     /\ k \in PinKeys /\ rows[k].epoch # memEpoch
  \/ k \in expired

RowsAfter(j, expired) ==
  [k \in Keys |->
     IF Removes(j, k, expired) THEN NoRow
     ELSE IF j.op.kind = "upsert" /\ k = j.op.key
       THEN [inc |-> j.op.inc, epoch |-> j.op.epoch, payload |-> j.payload,
             seen |-> j.payload]
     ELSE IF j.op.kind = "touch" /\ k = j.op.key /\ Present(k)
       THEN [rows[k] EXCEPT !.seen = j.payload]
     ELSE rows[k]]

(* apply() of a rotation replaces the epoch in memory inside the transaction. *)
EpochInMemory(j) == IF j.op.kind = "rotate" THEN j.op.epoch ELSE memEpoch

(* The barrier is recorded after apply(), before the COMMIT. *)
Larger(m, n) == IF m >= n THEN m ELSE n
Raised(barriers, j) ==
  [b \in Barriers |-> IF b = BarrierOf(j.op) THEN Larger(barriers[b], j.payload)
                                             ELSE barriers[b]]

(* _attempt, up to and including a successful COMMIT. *)
Commit(expired) ==
  /\ writer = "attempting"
  /\ writer' = "committed"
  /\ expired # {} => job.op.kind = "restore"
  /\ IF Fenced(job)
       THEN UNCHANGED <<disk, history, committed, memEpoch>>
       ELSE /\ rows' = RowsAfter(job, expired)
            /\ memEpoch' = EpochInMemory(job)
            /\ diskEpoch' = IF job.op.kind = "rotate" THEN job.op.epoch ELSE diskEpoch
            /\ committed' = Raised(committed, job)
            /\ durable' = Raised(durable, job)
            /\ wiped' = IF job.op.kind = "rotate" THEN Larger(wiped, job.payload) ELSE wiped
            /\ applied' = [k \in Keys |-> IF Scope(job.op) = <<"row", k>>
                                             THEN job.payload ELSE applied[k]]
  /\ UNCHANGED <<pending, retrying, job, closed, next, degraded, outcome, counters>>

(* mutants: a commit retires nothing; it retires newer retries as well *)
Retired_Nothing == {}
Retired_AnyAge == {r \in retrying : Scope(job.op) # NoScope /\ Scope(r.op) = Scope(job.op)}

(* The rest of _attempt after a success: retire older retries of the scope,
   recompute the flag, then complete the waiters. *)
Retired == {r \in retrying : /\ Scope(job.op) # NoScope
                             /\ Scope(r.op) = Scope(job.op)
                             /\ r.payload < job.payload}

(* mutant: a retired retry is dropped with its waiters *)
Acknowledged_OwnOnly == job.waiters

Acknowledged == job.waiters \cup UNION {r.waiters : r \in Retired}

Acknowledge ==
  /\ writer = "committed"
  /\ writer' = "waiting"
  /\ job' = NoJob
  /\ retrying' = retrying \ Retired
  /\ degraded' = (retrying' # {})
  /\ outcome' = Settled(Acknowledged, "ok")
  /\ UNCHANGED <<pending, closed, next, committed, memEpoch>>
  /\ UNCHANGED <<disk, history, counters>>

(* A failed attempt rolls the transaction back.  If only the COMMIT failed,
   apply() has run: what it and _attempt wrote in memory stays written. *)
RolledBack(atCommit) ==
  /\ writer = "attempting"
  /\ failures < MaxFailures
  /\ failures' = failures + 1
  /\ writer' = "waiting"
  /\ job' = NoJob
  /\ IF atCommit /\ ~Fenced(job)
       THEN committed' = Raised(committed, job) /\ memEpoch' = EpochInMemory(job)
       ELSE UNCHANGED <<committed, memEpoch>>
  /\ UNCHANGED <<pending, closed, next, disk, history, minted, lives>>

(* Transient failure of an open store: back off on the side track. *)
FailTransient(atCommit) ==
  /\ RolledBack(atCommit)
  /\ ~closed
  /\ degraded' = TRUE
  /\ retrying' = retrying \cup {[job EXCEPT !.due = TRUE, !.tried = TRUE]}
  /\ UNCHANGED outcome

(* SQLITE_FULL, or any such failure of a closing store: report the error. *)
FailForGood(atCommit) ==
  /\ RolledBack(atCommit)
  /\ degraded' = TRUE
  /\ outcome' = Settled(job.waiters, "error")
  /\ UNCHANGED retrying

(* A constraint of the schema rejects the row of an upsert. *)
FailIntegrity ==
  /\ RolledBack(FALSE)
  /\ job.op.kind = "upsert"
  /\ ~Fenced(job)
  /\ outcome' = Settled(job.waiters, "error")
  /\ UNCHANGED <<retrying, degraded>>

-----------------------------------------------------------------------------
(* Crash and reopen *)

(* The process dies: only the committed transactions are left. *)
Crash ==
  /\ writer \notin {"down", "stopped"}
  /\ writer' = "down"
  /\ pending' = <<>>
  /\ retrying' = {}
  /\ job' = NoJob
  /\ outcome' = Settled({s \in DOMAIN outcome : outcome[s] = "waiting"}, "lost")
  /\ UNCHANGED <<closed, next, committed, memEpoch, degraded>>
  /\ UNCHANGED <<disk, history, counters>>

(* open_ of an existing database of this schema: the epoch comes from disk and
   sequence numbers start over, so what is on disk is older than all of them. *)
Reopen ==
  /\ writer \in {"down", "stopped"}
  /\ lives < MaxLives
  /\ lives' = lives + 1
  /\ writer' = "waiting"
  /\ closed' = FALSE
  /\ next' = 1
  /\ committed' = [b \in Barriers |-> 0]
  /\ memEpoch' = diskEpoch
  /\ degraded' = FALSE
  /\ outcome' = [s \in 1..MaxSeq |-> "none"]
  /\ rows' = [k \in Keys |-> [rows[k] EXCEPT !.payload = 0, !.seen = 0]]
  /\ applied' = [k \in Keys |-> 0]
  /\ durable' = [b \in Barriers |-> 0]
  /\ wiped' = 0
  /\ UNCHANGED <<pending, retrying, job, diskEpoch, minted, failures>>

-----------------------------------------------------------------------------
(* open_ of a path with no database, or after quarantining one it cannot use *)
Init ==
  /\ pending = <<>>
  /\ retrying = {}
  /\ writer = "waiting"
  /\ job = NoJob
  /\ closed = FALSE
  /\ next = 1
  /\ committed = [b \in Barriers |-> 0]
  /\ memEpoch = 0
  /\ degraded = FALSE
  /\ outcome = [s \in 1..MaxSeq |-> "none"]
  /\ rows = [k \in Keys |-> NoRow]
  /\ diskEpoch = 0
  /\ minted = 0
  /\ failures = 0
  /\ lives = 1
  /\ applied = [k \in Keys |-> 0]
  /\ durable = [b \in Barriers |-> 0]
  /\ wiped = 0

Caller ==
  \/ \E k \in Keys, i \in Incarnations, e \in 0..memEpoch, high \in BOOLEAN :
       SubmitUpsert(k, i, e, high)
  \/ \E k \in Keys, high \in BOOLEAN : SubmitDelete(k, high)
  \/ \E k \in PinKeys : SubmitTouch(k)
  \/ SubmitRotate
  \/ SubmitInvalidate
  \/ \E i \in Incarnations : SubmitDeleteIncarnation(i)
  \/ SubmitRestore
  \/ Close

Writer ==
  \/ TakePending
  \/ \E r \in retrying : TakeRetry(r)
  \/ Stop
  \/ \E expired \in SUBSET Keys : Commit(expired)
  \/ Acknowledge
  \/ \E atCommit \in BOOLEAN : FailTransient(atCommit)
  \/ \E atCommit \in BOOLEAN : FailForGood(atCommit)
  \/ FailIntegrity

Next == Caller \/ DebounceEnds \/ Writer \/ Crash \/ Reopen

Spec == Init /\ [][Next]_vars

(* The writer thread keeps running and time keeps passing.  Nothing makes a
   caller submit or close, and nothing makes the process crash or reopen. *)
Fairness == WF_vars(DebounceEnds) /\ WF_vars(Writer)
FairSpec == Spec /\ Fairness

-----------------------------------------------------------------------------
(* Properties *)

Outcomes == {"none", "waiting", "ok", "error", "lost"}
WriterStates == {"waiting", "attempting", "committed", "stopped", "down"}

(* The types of the store's memory, of the database and of the history. *)
TypeOK ==
  /\ pending \in Seq(Job)
  /\ retrying \in SUBSET Job
  /\ writer \in WriterStates
  /\ job \in Job
  /\ closed \in BOOLEAN
  /\ next \in 1..(MaxSeq + 1)
  /\ committed \in [Barriers -> Nat]
  /\ memEpoch \in Nat
  /\ degraded \in BOOLEAN
  /\ outcome \in [1..MaxSeq -> Outcomes]
  /\ rows \in [Keys -> Row]
  /\ diskEpoch \in Nat
  /\ minted \in Nat /\ failures \in Nat /\ lives \in Nat
  /\ applied \in [Keys -> Nat]
  /\ durable \in [Barriers -> Nat]
  /\ wiped \in Nat

(* The jobs the store still owes an attempt or an acknowledgement. *)
Queued == {pending[i] : i \in DOMAIN pending}
InHand == IF writer \in {"attempting", "committed"} THEN {job} ELSE {}
Owed == Queued \cup retrying \cup InHand

(* A caller that still waits is a waiter of exactly one job the writer will
   attempt or has just committed, through coalescing, retries and the
   retirement of older retries: no caller of PendingWrite.wait is forgotten. *)
NoWaiterForgotten ==
  writer # "down" =>
    \A s \in DOMAIN outcome :
      /\ outcome[s] = "waiting" => \E j \in Owed : s \in j.waiters
      /\ outcome[s] # "waiting" => \A j \in Owed : s \notin j.waiters

(* Once an incarnation's deletion has committed no older write of that
   incarnation is on disk, and once an epoch rotation has committed no older
   pin is, however long the write was held up on the retry track. *)
NoResurrection ==
  \A k \in Keys : Present(k) =>
    /\ rows[k].payload >= durable[rows[k].inc]
    /\ k \in PinKeys => rows[k].payload >= wiped

(* Within a coalescing scope commits follow submission order, whatever the
   retry timing: an upsert or delete never lands on a newer one. *)
AppliedInOrder ==
  [][lives' = lives => \A k \in Keys : applied'[k] >= applied[k]]_vars

(* The queue is in the order of the earliest positions, and coalescing leaves a
   scope one place in it. *)
QueueInOrder ==
  \A m, n \in DOMAIN pending : m < n =>
    /\ pending[m].seq < pending[n].seq
    /\ Scope(pending[m].op) # NoScope => Scope(pending[m].op) # Scope(pending[n].op)

(* Among what the store holds, the writes that stand for submission s of row k:
   its own job, or the newer one of the row that replaced it. *)
StandsFor(k, s) == {w \in Owed : Scope(w.op) = <<"row", k>> /\ w.payload >= s}

(* A caller told that its upsert or delete succeeded can rely on it: the newest
   commit of its row is its payload or a newer one, or the write that stands for
   it was dropped for a barrier of that write's own fence; also when it was
   coalesced away, or retired by a newer write.  The barrier has committed, or
   it is left in memory by an invalidation whose COMMIT failed and whose caller
   has not been told "ok". *)
OkMeansApplied ==
  [][\A j \in Owed, k \in Keys : Scope(j.op) = <<"row", k>> =>
       \A s \in j.waiters : outcome'[s] = "ok" =>
         \/ applied[k] >= s
         \/ \E w \in StandsFor(k, s) : \E b \in w.fence :
              \/ durable[b] > w.payload
              \/ committed[b] > w.payload /\ outcome[committed[b]] # "ok"]_vars

(* Every write is settled in the end: committed, dropped, refused with an
   error, or lost with the process. *)
EveryWriteSettles ==
  \A s \in 1..MaxSeq : outcome[s] = "waiting" ~> outcome[s] # "waiting"
=============================================================================
