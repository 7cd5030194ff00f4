----------------------------- MODULE PinMigration -----------------------------
(***************************************************************************)
(* One pinned session of balanced routing: the requests that share its     *)
(* session key (src/claudex/relay/balanced.py), the router state they      *)
(* share (src/claudex/balanced/router.py), the tasks that make a pin       *)
(* durable, and account removal.                                           *)
(*                                                                         *)
(* The coroutines run on one event loop, so what a request does between    *)
(* two awaits is atomic.  turn names the request that holds the loop in    *)
(* the middle of such a stretch; everyone else moves when it is Nobody.    *)
(* Other sessions appear as capacity pressure (Evict) and cooldowns.       *)
(***************************************************************************)
EXTENDS Naturals, FiniteSets

CONSTANTS
  Requests,   \* the requests that carry this session's key
  Accounts,   \* account ids; an id is never used again once removed
  Nobody,     \* no request, no account
  Faults,     \* what goes wrong around the requests
  MaxFaults   \* bound: how often

AllFaults == {"transport", "remove", "evict", "expire", "cancel", "store"}

ASSUME Assumption ==
  /\ Nobody \notin Requests \cup Accounts
  /\ Faults \subseteq AllFaults
  /\ IsFiniteSet(Requests)
  /\ MaxFaults \in Nat

VARIABLES
  ready,       \* the ready accounts of the registry on disk (external)
  removed,     \* _removed_accounts
  cooling,     \* accounts with a live cooldown
  pin,         \* _pins[digest]
  reservation, \* _reservations[digest], present only while pending
  tokens,      \* _migration_tokens
  inFlight,    \* _in_flight: M(a), as far as this session counts in it
  barriers,    \* durability barriers made so far
  resolved,    \* those that are resolved
  failed,      \* those whose last write the store did not make (history)
  tasks,       \* submit_new_pin_durability tasks that have not ended
  row,         \* the session's durable row once the store has caught up
  turn,        \* the request in the middle of a stretch without await
  req,         \* the local state of each request
  faults       \* faults so far (bounded), and whether all were cancellations or failed writes

shared == <<removed, cooling, pin, reservation, tokens, inFlight, barriers, resolved,
            failed, tasks, row>>
vars == <<ready, shared, turn, req, faults>>

-----------------------------------------------------------------------------
(* Pins, reservations and attempts *)

(* PinEntry: entry tells one map entry from its successors. *)
Pin == [account : Accounts, gen : Nat, reserved : BOOLEAN, barrier : Nat, entry : Nat]
NoPin == [account |-> Nobody, gen |-> 0, reserved |-> FALSE, barrier |-> 0, entry |-> 0]
Pinned == pin # NoPin

(* What a request remembers of the pin it read. *)
Source == [account : Accounts, gen : Nat, entry : Nat]
NoSource == [account |-> Nobody, gen |-> 0, entry |-> 0]
PinRead == [account |-> pin.account, gen |-> pin.gen, entry |-> pin.entry]

(* An attempt id is fresh: a request moves a pin entry to an account once. *)
Attempt == [by : Requests, to : Accounts, entry : Nat]
NoAttempt == [by |-> Nobody, to |-> Nobody, entry |-> 0]

Reservation == [source : Accounts, gen : Nat, owner : Attempt]
NoReservation == [source |-> Nobody, gen |-> 0, owner |-> NoAttempt]
Reserved == reservation # NoReservation

Row == [account : Accounts, gen : Nat]
NoRow == [account |-> Nobody, gen |-> 0]

(* Where a request can be between two stretches, and inside one. *)
Awaiting == {"placed", "replaced", "connecting", "upstream", "refused", "committed",
             "waiting", "streaming"}
Attempting == {"connecting", "upstream", "refused", "committed"}
Places == {"new", "top", "pick", "done"} \cup Awaiting

Request == [at : Places, known : SUBSET Accounts, cooled : SUBSET Accounts,
            attempted : SUBSET Accounts, owner : Attempt \cup {NoAttempt},
            target : Accounts \cup {Nobody}, source : Source \cup {NoSource},
            barrier : Nat, waitsFor : Attempt \cup {NoAttempt}]

NewRequest == [at |-> "new", known |-> {}, cooled |-> {}, attempted |-> {},
               owner |-> NoAttempt, target |-> Nobody, source |-> NoSource,
               barrier |-> 0, waitsFor |-> NoAttempt]

Owns(r) == req[r].owner # NoAttempt

FreshBarrier == barriers + 1
Progress == [r \in Requests |-> <<req[r].at, req[r].attempted>>]
NothingSeen == [r \in Requests |-> <<"new", {}>>]

(* A pin's first or next generation gets a fresh barrier and the task that is
   to resolve it.  The task is last in the event loop's queue: only what was
   ready by then can run before it, which is at most one stretch of a request
   (seen tells whether a request has moved on). *)
WithBarrier ==
  /\ barriers' = FreshBarrier
  /\ tasks' = tasks \cup {[spawned |-> FreshBarrier, writes |-> 0, queued |-> NoRow,
                              seen |-> Progress]}

Free == turn = Nobody
Waiting == {t \in tasks : t.writes = 0}
Runs(r) == Free /\ \A t \in Waiting : t.seen[r] = Progress[r]

-----------------------------------------------------------------------------
(* The router's operations *)

(* set_migration_reserved *)
Protected == IF Pinned THEN [pin EXCEPT !.reserved = TRUE] ELSE pin

(* resolve_migration_reservation, for an attempt that may no longer own it *)
Unreserved == IF Pinned THEN [pin EXCEPT !.reserved = FALSE] ELSE pin
OwnedBy(attempt) == Reserved /\ reservation.owner = attempt

(* release_migration_token: pop the token, then end_attempt *)
Lowered(m, a) == [m EXCEPT ![a] = IF @ = 0 THEN 0 ELSE @ - 1]
ReleaseToken(attempt) ==
  IF attempt \in tokens
    THEN tokens' = tokens \ {attempt} /\ inFlight' = Lowered(inFlight, attempt.to)
    ELSE UNCHANGED <<tokens, inFlight>>

(* mutant: only an attempt that still owns its reservation gives up its token *)
OwnerTerminal_OwnedOnly(attempt) ==
  IF OwnedBy(attempt)
    THEN reservation' = NoReservation /\ pin' = Unreserved /\ ReleaseToken(attempt)
    ELSE UNCHANGED <<reservation, pin, tokens, inFlight>>

(* resolve_migration_owner_terminal *)
OwnerTerminal(attempt) ==
  /\ ReleaseToken(attempt)
  /\ IF OwnedBy(attempt)
       THEN reservation' = NoReservation /\ pin' = Unreserved
       ELSE UNCHANGED <<reservation, pin>>

(* resolve_migration_preheader_failure: a pin left on a removed source goes *)
PreheaderFailure(attempt) ==
  /\ ReleaseToken(attempt)
  /\ IF OwnedBy(attempt)
       THEN /\ reservation' = NoReservation
            /\ pin' = IF reservation.source \in removed THEN NoPin ELSE Unreserved
       ELSE UNCHANGED <<reservation, pin>>

(* place_session of a session without a pin, on one of the eligible accounts *)
PlaceOn(a) ==
  /\ pin' = [account |-> a, gen |-> 0, reserved |-> FALSE,
             barrier |-> FreshBarrier, entry |-> FreshBarrier]
  /\ WithBarrier

-----------------------------------------------------------------------------
(* The requests: _serve_balanced_pinned_message *)

Fault(kind) ==
  /\ kind \in Faults
  /\ faults.count < MaxFaults
  /\ faults' = [count |-> faults.count + 1, calm |-> faults.calm /\ kind \in {"cancel", "store"}]

(* A request keeps of its locals what it reads again. *)
Goes(r, place) == req' = [req EXCEPT ![r].at = place]
Ends(r) == req' = [req EXCEPT ![r] = [NewRequest EXCEPT !.at = "done"]]
Streams(r) ==
  req' = [req EXCEPT ![r] = [NewRequest EXCEPT !.at = "streaming", !.owner = req[r].owner]]

(* A new request reads the registry and the cooldowns once, follows the pin or
   places it, and awaits the pin's barrier.  With no eligible account it ends. *)
Arrive(r) ==
  LET local == [req[r] EXCEPT !.known = ready, !.cooled = cooling]
      awaits(b) == [req EXCEPT ![r] = [local EXCEPT !.at = "placed", !.barrier = b]]
  IN
  /\ Runs(r)
  /\ req[r].at = "new"
  /\ \/ /\ Pinned
        /\ req' = awaits(pin.barrier)
        /\ UNCHANGED <<pin, barriers, tasks>>
     \/ /\ ~Pinned
        /\ \E a \in ready \ cooling : PlaceOn(a)
        /\ req' = awaits(FreshBarrier)
     \/ /\ ~Pinned
        /\ ready \subseteq cooling
        /\ Ends(r)
        /\ UNCHANGED <<pin, barriers, tasks>>
  /\ UNCHANGED <<faults, ready, removed, cooling, reservation, tokens, inFlight, resolved, failed,
                 row, turn>>

(* The barrier a request waits for is resolved.  After a second placement the
   request takes itself for the owner of no attempt. *)
Woken(r) ==
  /\ Runs(r)
  /\ req[r].at \in {"placed", "replaced", "committed"}
  /\ req[r].barrier \in resolved
  /\ IF req[r].at = "committed"
       THEN Streams(r) /\ UNCHANGED turn
       ELSE /\ turn' = r
            /\ req' = [req EXCEPT ![r].at = "top", ![r].barrier = 0,
                                  ![r].owner = IF req[r].at = "replaced" THEN NoAttempt ELSE @]
  /\ UNCHANGED <<faults, ready, shared>>

(* The reservation a request waits for is resolved: read the pin again. *)
ReservationResolved(r) ==
  /\ Runs(r)
  /\ req[r].at = "waiting"
  /\ ~OwnedBy(req[r].waitsFor)
  /\ turn' = r
  /\ req' = [req EXCEPT ![r].at = "top", ![r].waitsFor = NoAttempt]
  /\ UNCHANGED <<faults, ready, shared>>

(* Top of the loop without a pin: place the session again, among the accounts
   the request knew when it arrived. *)
PlaceAgain(r) ==
  /\ turn = r /\ turn' = Nobody
  /\ req[r].at = "top"
  /\ ~Pinned
  /\ \/ /\ \E a \in req[r].known \ cooling : PlaceOn(a)
        /\ req' = [req EXCEPT ![r].at = "replaced", ![r].barrier = FreshBarrier]
     \/ /\ req[r].known \subseteq cooling
        /\ Ends(r)
        /\ UNCHANGED <<pin, barriers, tasks>>
  /\ UNCHANGED <<faults, ready, removed, cooling, reservation, tokens, inFlight, resolved, failed,
                 row>>

(* Top of the loop with a pin: attempt the pin's account, or the target of the
   request's own migration, if it is known and not cooling. *)
Attempted(r) == IF Owns(r) THEN req[r].target ELSE pin.account

BeginAttempt(r) ==
  LET a == Attempted(r) IN
  /\ turn = r /\ turn' = Nobody
  /\ req[r].at = "top"
  /\ Pinned
  /\ a \in req[r].known \ cooling
  /\ req' = [req EXCEPT ![r].at = "connecting", ![r].target = a, ![r].source = PinRead,
                        ![r].attempted = @ \cup {a}]
  /\ inFlight' = IF Owns(r) THEN inFlight ELSE [inFlight EXCEPT ![a] = @ + 1]
  /\ UNCHANGED <<faults, ready, removed, cooling, pin, reservation, tokens, barriers, resolved,
                 failed, tasks, row>>

SkipAttempt(r) ==
  LET a == Attempted(r) IN
  /\ turn = r
  /\ req[r].at = "top"
  /\ Pinned
  /\ a \notin req[r].known \ cooling
  /\ req' = [req EXCEPT ![r].at = "pick", ![r].target = a, ![r].source = PinRead,
                        ![r].attempted = @ \cup {a}]
  /\ UNCHANGED <<faults, ready, shared, turn>>

(* _attempt_with_account reads the credentials from disk, then sends. *)
Connect(r) ==
  /\ Runs(r)
  /\ req[r].at = "connecting"
  /\ req[r].target \in ready
  /\ Goes(r, "upstream")
  /\ UNCHANGED <<faults, ready, shared, turn>>

(* A 429: the cooldown is in memory before the request awaits anything else. *)
QuotaRefused(r) ==
  /\ Runs(r)
  /\ req[r].at = "upstream"
  /\ cooling' = cooling \cup {req[r].target}
  /\ Goes(r, "refused")
  /\ UNCHANGED <<faults, ready, removed, pin, reservation, tokens, inFlight, barriers, resolved,
                 failed, tasks, row, turn>>

(* mutant: the failure path forgets the attempt it began *)
EndAttempt_Forgotten(r) == UNCHANGED inFlight

EndAttempt(r) == inFlight' = IF Owns(r) THEN inFlight ELSE Lowered(inFlight, req[r].target)

(* An account-specific failure: no usable credentials, a rejected token, or the
   429 above.  The request goes on to pick another account. *)
AttemptFails(r) ==
  /\ Runs(r) /\ turn' = r
  /\ req[r].at \in {"connecting", "upstream", "refused"}
  /\ Goes(r, "pick")
  /\ EndAttempt(r)
  /\ UNCHANGED <<faults, ready, removed, cooling, pin, reservation, tokens, barriers, resolved,
                 failed, tasks, row>>

(* Any answer that is relayed to the client ends a plain attempt. *)
Answered(r) ==
  /\ Runs(r)
  /\ req[r].at = "upstream"
  /\ ~Owns(r)
  /\ Ends(r)
  /\ EndAttempt(r)
  /\ UNCHANGED <<faults, ready, removed, cooling, pin, reservation, tokens, barriers, resolved,
                 failed, tasks, row, turn>>

(* An owner relays an answer that is neither a 2xx nor a failure to retry. *)
OwnerAnswered(r) ==
  /\ Runs(r)
  /\ req[r].at = "upstream"
  /\ Owns(r)
  /\ Streams(r)
  /\ UNCHANGED <<faults, ready, shared, turn>>

(* mutant: the reservation's owner is not compared *)
CanCommit_AnyOwner(r) ==
  Reserved /\ pin.account = req[r].source.account /\ pin.gen = req[r].source.gen

(* The compare-and-set of commit_at_headers.  Its membership test is over the
   request's own snapshot, which always holds the target. *)
CanCommit(r) ==
  /\ pin.account = req[r].source.account
  /\ pin.gen = req[r].source.gen
  /\ OwnedBy(req[r].owner)

(* mutant: the next generation keeps the barrier of the last *)
Moved_SameBarrier(r) ==
  [pin EXCEPT !.account = req[r].target, !.gen = @ + 1, !.reserved = FALSE]

Moved(r) == [pin EXCEPT !.account = req[r].target, !.gen = @ + 1, !.reserved = FALSE,
                        !.barrier = FreshBarrier]

(* 2xx headers for the owner of a migration: move the pin and await its new
   barrier, or lose the race and relay the answer all the same. *)
Commit(r) ==
  /\ Runs(r)
  /\ req[r].at = "upstream"
  /\ Owns(r)
  /\ CanCommit(r)
  /\ pin' = Moved(r)
  /\ reservation' = NoReservation
  /\ WithBarrier
  /\ req' = [req EXCEPT ![r] = [NewRequest EXCEPT !.at = "committed", !.barrier = FreshBarrier,
                                                  !.owner = req[r].owner]]
  /\ UNCHANGED <<faults, ready, removed, cooling, tokens, inFlight, resolved, failed, row, turn>>

CommitLost(r) ==
  /\ Runs(r)
  /\ req[r].at = "upstream"
  /\ Owns(r)
  /\ ~CanCommit(r)
  /\ IF OwnedBy(req[r].owner)
       THEN reservation' = NoReservation /\ pin' = Unreserved
       ELSE UNCHANGED <<reservation, pin>>
  /\ Streams(r)
  /\ UNCHANGED <<faults, ready, removed, cooling, tokens, inFlight, barriers, resolved, failed,
                 tasks, row, turn>>

(* The relay of an owner's answer ends, however it ends. *)
StreamEnds(r) ==
  /\ Runs(r)
  /\ req[r].at = "streaming"
  /\ Ends(r)
  /\ OwnerTerminal(req[r].owner)
  /\ UNCHANGED <<faults, ready, removed, cooling, barriers, resolved, failed, tasks, row, turn>>

(* A transport error is answered with a 502 built in _attempt_with_account:
   neither a failure to retry nor an exception, and no relay to end. *)
TransportError(r) ==
  /\ Fault("transport")
  /\ Runs(r)
  /\ req[r].at = "upstream"
  /\ Owns(r)
  /\ Ends(r)
  /\ UNCHANGED <<ready, shared, turn>>

(* mutant: an owner that is cancelled leaves its reservation behind *)
Cancel_NoCleanup(r) ==
  /\ Fault("cancel")
  /\ Runs(r)
  /\ req[r].at \in Awaiting \ {"streaming"}
  /\ Ends(r)
  /\ IF req[r].at \in Attempting /\ ~Owns(r)
       THEN inFlight' = Lowered(inFlight, req[r].target)
       ELSE UNCHANGED inFlight
  /\ UNCHANGED <<ready, removed, cooling, pin, reservation, tokens, barriers, resolved, failed,
                 tasks, row, turn>>

(* The request is cancelled, or an attempt raises.  Only an attempt has
   something to clean up. *)
Cancel(r) ==
  /\ Fault("cancel")
  /\ Runs(r)
  /\ req[r].at \in Awaiting \ {"streaming"}
  /\ Ends(r)
  /\ IF req[r].at \notin Attempting THEN UNCHANGED <<reservation, pin, tokens, inFlight>>
     ELSE IF Owns(r) THEN OwnerTerminal(req[r].owner)
     ELSE EndAttempt(r) /\ UNCHANGED <<reservation, pin, tokens>>
  /\ UNCHANGED <<ready, removed, cooling, barriers, resolved, failed, tasks, row, turn>>

(* After a failure: the owner of a migration gives it up, ... *)
GiveUp(r) ==
  /\ turn = r
  /\ req[r].at = "pick"
  /\ Owns(r)
  /\ PreheaderFailure(req[r].owner)
  /\ req' = [req EXCEPT ![r].owner = NoAttempt]
  /\ UNCHANGED <<faults, ready, removed, cooling, barriers, resolved, failed, tasks, row, turn>>

(* ... the request picks an account it has not attempted, among those it knew
   and whose cooldown, as it was then, is over; with none it ends. *)
Candidates(r) == (req[r].known \ req[r].attempted) \ req[r].cooled

Exhausted(r) ==
  /\ turn = r /\ turn' = Nobody
  /\ req[r].at = "pick"
  /\ ~Owns(r)
  /\ Candidates(r) = {}
  /\ Ends(r)
  /\ UNCHANGED <<faults, ready, shared>>

(* acquire_migration_reservation: wait for the migration in flight, ... *)
WaitForMigration(r) ==
  /\ turn = r /\ turn' = Nobody
  /\ req[r].at = "pick"
  /\ ~Owns(r)
  /\ Candidates(r) # {}
  /\ Reserved
  /\ req' = [req EXCEPT ![r].at = "waiting", ![r].waitsFor = reservation.owner,
                        ![r].target = Nobody, ![r].source = NoSource]
  /\ UNCHANGED <<faults, ready, shared>>

(* ... or start one.  The request still holds the pin entry it read at the top:
   if that is the map's entry it sees what became of it since. *)
SourceOf(r) == IF pin.entry = req[r].source.entry THEN PinRead ELSE req[r].source

Reserve(r, a) ==
  LET attempt == [by |-> r, to |-> a, entry |-> req[r].source.entry] IN
  /\ turn = r
  /\ req[r].at = "pick"
  /\ ~Owns(r)
  /\ a \in Candidates(r)
  /\ ~Reserved
  /\ reservation' = [source |-> SourceOf(r).account, gen |-> SourceOf(r).gen,
                     owner |-> attempt]
  /\ tokens' = tokens \cup {attempt}
  /\ inFlight' = [inFlight EXCEPT ![a] = @ + 1]
  /\ pin' = Protected
  /\ req' = [req EXCEPT ![r].at = "top", ![r].owner = attempt, ![r].target = a]
  /\ UNCHANGED <<faults, ready, removed, cooling, barriers, resolved, failed, tasks, row, turn>>

-----------------------------------------------------------------------------
(* Durability tasks: submit_new_pin_durability.  queued is what the store still
   has to write for the task: NoRow once that is settled or superseded. *)

First(t) == t \in Waiting /\ \A u \in Waiting : t.spawned <= u.spawned
Pending == {t \in tasks : t.queued # NoRow}

(* A task looks the pin up when it first runs: it submits whatever generation
   the map holds by then, and without a pin it ends at once. *)
TaskStarts(t) ==
  /\ Free
  /\ First(t)
  /\ tasks' = (tasks \ {t}) \cup
       IF Pinned THEN {[t EXCEPT !.writes = pin.barrier, !.seen = NothingSeen,
                                 !.queued = [account |-> pin.account, gen |-> pin.gen]]}
                 ELSE {}
  /\ UNCHANGED <<faults, ready, removed, cooling, pin, reservation, tokens, inFlight, barriers,
                 resolved, failed, row, turn, req>>

(* There is no store, or it refuses the write: the barrier is resolved all the
   same, and at once. *)
NotSubmitted(t) ==
  /\ Fault("store")
  /\ Free
  /\ First(t)
  /\ Pinned
  /\ tasks' = tasks \ {t}
  /\ resolved' = resolved \cup {pin.barrier}
  /\ failed' = failed \cup {pin.barrier}
  /\ UNCHANGED <<ready, removed, cooling, pin, reservation, tokens, inFlight, barriers, row, turn,
                 req>>

(* The store makes the writes of a pin in the order of their submission, ... *)
WriteCommits(t) ==
  /\ Free
  /\ t \in Pending
  /\ \A u \in Pending : t.spawned <= u.spawned
  /\ row' = t.queued
  /\ failed' = failed \ {t.writes}
  /\ tasks' = (tasks \ {t}) \cup {[t EXCEPT !.queued = NoRow]}
  /\ UNCHANGED <<faults, ready, removed, cooling, pin, reservation, tokens, inFlight, barriers,
                 resolved, turn, req>>

(* ... or gives one up for good (FailForGood of StateStore): nothing is written. *)
WriteFails(t) ==
  /\ Fault("store")
  /\ Free
  /\ t \in Pending
  /\ failed' = failed \cup {t.writes}
  /\ tasks' = (tasks \ {t}) \cup {[t EXCEPT !.queued = NoRow]}
  /\ UNCHANGED <<ready, removed, cooling, pin, reservation, tokens, inFlight, barriers, resolved,
                 row, turn, req>>

(* The write is settled, well or badly: the barrier is resolved. *)
TaskEnds(t) ==
  /\ Free
  /\ t \in tasks \ (Waiting \cup Pending)
  /\ resolved' = resolved \cup {t.writes}
  /\ tasks' = tasks \ {t}
  /\ UNCHANGED <<faults, ready, removed, cooling, pin, reservation, tokens, inFlight, barriers,
                 failed, row, turn, req>>

(* Rows are deleted: what the store has written and what it still has to write. *)
RowsGo(accounts) ==
  LET Kept(r) == IF r.account \in accounts THEN NoRow ELSE r IN
  /\ row' = Kept(row)
  /\ tasks' = {[t EXCEPT !.queued = Kept(@)] : t \in tasks}

-----------------------------------------------------------------------------
(* Around the requests *)

(* An account leaves the ready set of the registry, by another process or by
   the thread of the admin handler. *)
RegistryRemoves(a) ==
  /\ Fault("remove")
  /\ a \in ready
  /\ ready' = ready \ {a}
  /\ UNCHANGED <<shared, turn, req>>

(* router.remove_account, when the admin handler runs it after the registry:
   the transition matrix, and the deletion of the incarnation's rows. *)
RouterRemoves(a) ==
  LET gone == removed \cup {a}
      sourceGone == reservation.source \in gone
      targetGone == reservation.owner.to \in gone
      touches == pin.account = a \/ a \in {reservation.source, reservation.owner.to}
  IN
  /\ Free
  /\ a \notin ready \cup removed
  /\ removed' = gone
  /\ cooling' = cooling \ {a}
  /\ RowsGo({a})
  /\ IF ~Reserved
       THEN /\ pin' = IF pin.account = a THEN NoPin ELSE pin
            /\ UNCHANGED reservation
     ELSE IF touches /\ targetGone
       THEN /\ reservation' = NoReservation
            /\ pin' = IF sourceGone THEN NoPin ELSE Unreserved
     ELSE UNCHANGED <<pin, reservation>>
  /\ UNCHANGED <<faults, ready, tokens, inFlight, barriers, resolved, failed, turn, req>>

(* A cooldown passes its deadline, also for the candidates read earlier. *)
CooldownEnds(a) ==
  /\ Free
  /\ a \in cooling
  /\ cooling' = cooling \ {a}
  /\ req' = [r \in Requests |-> [req[r] EXCEPT !.cooled = @ \ {a}]]
  /\ UNCHANGED <<faults, ready, removed, pin, reservation, tokens, inFlight, barriers, resolved,
                 failed, tasks, row, turn>>

(* Another session's placement evicts this pin (_ensure_capacity). *)
Evict ==
  /\ Fault("evict")
  /\ Free
  /\ Pinned
  /\ ~pin.reserved
  /\ pin' = NoPin
  /\ RowsGo(Accounts)
  /\ UNCHANGED <<ready, removed, cooling, reservation, tokens, inFlight, barriers, resolved,
                 failed, turn, req>>

(* The pin outlives its TTL (purge_expired_pins); a reservation is no reason to
   keep it, and its durable row expires by itself. *)
Expire ==
  /\ Fault("expire")
  /\ Free
  /\ Pinned
  /\ pin' = NoPin
  /\ UNCHANGED <<ready, removed, cooling, reservation, tokens, inFlight, barriers, resolved,
                 failed, tasks, row, turn, req>>

-----------------------------------------------------------------------------
(* A router that restored no pin *)
Init ==
  /\ ready = Accounts
  /\ removed = {}
  /\ cooling = {}
  /\ pin = NoPin
  /\ reservation = NoReservation
  /\ tokens = {}
  /\ inFlight = [a \in Accounts |-> 0]
  /\ barriers = 0
  /\ resolved = {}
  /\ failed = {}
  /\ tasks = {}
  /\ row = NoRow
  /\ turn = Nobody
  /\ req = [r \in Requests |-> NewRequest]
  /\ faults = [count |-> 0, calm |-> TRUE]

(* What a request does by itself or when its upstream answers. *)
Step(r) ==
  \/ Woken(r)
  \/ ReservationResolved(r)
  \/ PlaceAgain(r)
  \/ BeginAttempt(r)
  \/ SkipAttempt(r)
  \/ Connect(r)
  \/ QuotaRefused(r)
  \/ AttemptFails(r)
  \/ Answered(r)
  \/ OwnerAnswered(r)
  \/ Commit(r)
  \/ CommitLost(r)
  \/ StreamEnds(r)
  \/ TransportError(r)
  \/ GiveUp(r)
  \/ Exhausted(r)
  \/ WaitForMigration(r)
  \/ \E a \in Accounts : Reserve(r, a)

TaskSteps == \E t \in tasks : TaskStarts(t) \/ WriteCommits(t) \/ TaskEnds(t)
TaskFaults == \E t \in tasks : NotSubmitted(t) \/ WriteFails(t)

Environment ==
  \/ \E a \in Accounts : RegistryRemoves(a) \/ RouterRemoves(a) \/ CooldownEnds(a)
  \/ Evict
  \/ Expire

Next ==
  \/ \E r \in Requests : Arrive(r) \/ Step(r) \/ Cancel(r)
  \/ TaskSteps
  \/ TaskFaults
  \/ Environment

Spec == Init /\ [][Next]_vars

(* The event loop runs every coroutine that can run, the upstream answers or
   times out (_UPSTREAM_TIMEOUT), a relay ends, and the store settles every
   write (EveryWriteSettles of StateStore). *)
Fairness ==
  /\ \A r \in Requests : WF_vars(Step(r))
  /\ WF_vars(TaskSteps)
FairSpec == Spec /\ Fairness

-----------------------------------------------------------------------------
(* Properties *)

(* The types of the router's state and of what each request remembers. *)
TypeOK ==
  /\ ready \in SUBSET Accounts
  /\ removed \in SUBSET Accounts
  /\ cooling \in SUBSET Accounts
  /\ pin \in Pin \cup {NoPin}
  /\ reservation \in Reservation \cup {NoReservation}
  /\ tokens \in SUBSET Attempt
  /\ inFlight \in [Accounts -> Nat]
  /\ barriers \in Nat
  /\ resolved \in SUBSET (1..barriers)
  /\ failed \in SUBSET (1..barriers)
  /\ tasks \in SUBSET [spawned : 1..barriers, writes : 0..barriers, queued : Row \cup {NoRow},
                      seen : [Requests -> Places \X SUBSET Accounts]]
  /\ row \in Row \cup {NoRow}
  /\ turn \in Requests \cup {Nobody}
  /\ req \in [Requests -> Request]
  /\ faults \in [count : 0..MaxFaults, calm : BOOLEAN]

(* M(a) is exact on every path: one for each plain attempt on the account and
   one for each migration token, none dropped twice and none kept. *)
PlainAttempts(a) ==
  {r \in Requests : req[r].at \in Attempting /\ ~Owns(r) /\ req[r].target = a}
InFlightExact ==
  /\ TypeOK
  /\ \A a \in Accounts :
       inFlight[a] = Cardinality(PlainAttempts(a)) + Cardinality({t \in tokens : t.to = a})

(* A pin entry changes account only by the migration in flight, which that very
   step ends: to the target it reserved, one generation on.  A migration whose
   reservation was resolved under it (remove_account) cannot move the pin of the
   migration that came after it, and once the router has been told that an
   account is gone no late 2xx moves the session onto it. *)
OnlyReservedMoves ==
  [][pin.entry # 0 /\ pin'.entry = pin.entry /\ pin'.account # pin.account =>
       /\ Reserved /\ ~Reserved'
       /\ pin'.account = reservation.owner.to /\ pin'.gen = pin.gen + 1
       /\ pin'.account \notin removed]_vars

(* When a pin generation's barrier is resolved the durable row is that
   generation, unless the account's removal took the row or the store failed to
   make that generation's own write (the barrier is resolved "either way"): a
   write that failed excuses no other generation, and a write never lands over
   that of a later generation. *)
BarrierMeansDurable ==
  Pinned /\ pin.barrier \in resolved /\ pin.account \notin removed =>
    row = [account |-> pin.account, gen |-> pin.gen] \/ pin.barrier \in failed

(* A pending reservation has an owner that is still to resolve it, and a token
   one that is still to release it (docstring of resolve_migration_owner_terminal:
   every owner exit goes through it). *)
ReservationOwned ==
  LET owned == {req[r].owner : r \in {q \in Requests : req[q].at # "done"}}
  IN (Reserved => reservation.owner \in owned) /\ tokens \subseteq owned

(* As long as nothing but cancellations, at whatever await, and writes that the
   store fails to make goes wrong, no reservation and no token is left without
   an owner. *)
CancellationsLeaveNothing == faults.calm => ReservationOwned

(* ... and every request comes to an end: none waits for a barrier or for a
   migration that another one has left behind. *)
EveryRequestEnds ==
  \A r \in Requests : req[r].at # "new" ~> req[r].at = "done" \/ ~faults.calm
=============================================================================
