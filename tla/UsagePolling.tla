------------------------------ MODULE UsagePolling ------------------------------
(***************************************************************************)
(* Who asks Anthropic for the usage of the registered accounts: the poll   *)
(* coordinator of balanced routing (src/claudex/balanced/polling.py), the  *)
(* dashboard and the refresh after a quota 429, all through one cache      *)
(* (src/claudex/claude/account_usage_cache.py) whose lock lets one of them *)
(* call at a time.                                                         *)
(*                                                                         *)
(* Times are ages and remaining times in units of a clock that passes at   *)
(* any moment; an age stops at Oldest.  A rate limit of manual refreshes,  *)
(* which only refuses some, is left out.                                   *)
(***************************************************************************)
EXTENDS Naturals, Sequences, SequencesExt

CONSTANTS
  Accounts,    \* ids of the ready accounts, numbers: they are tried in this order
  Broken,      \* those whose probe fails every time
  Driver,      \* the poll driver of balanced routing
  Viewers,     \* dashboard requests for the usage of the accounts
  Refreshers,  \* refreshes after a quota 429 of the fallback pool
  Interval,    \* _USAGE_POLL_INTERVAL_SECONDS
  TTL,         \* _TTL_SECONDS
  Backoff,     \* _FAILURE_BACKOFF_SECONDS
  RetryAfters, \* the waits a 429 names
  RetryMin,    \* _RETRY_AFTER_MIN_SECONDS
  RetryMax,    \* _RETRY_AFTER_MAX_SECONDS
  Oldest       \* bound: ages are not told apart beyond it

Callers == {Driver} \cup Viewers \cup Refreshers

ASSUME PollingAssumption ==
  /\ Accounts \subseteq Nat /\ Broken \subseteq Accounts
  /\ Driver \notin Viewers \cup Refreshers /\ Viewers \cap Refreshers = {}
  /\ {Interval, TTL, Backoff, RetryMin, RetryMax, Oldest} \subseteq Nat
  /\ RetryAfters \subseteq Nat
  /\ RetryMin <= RetryMax
  /\ TTL < Oldest /\ Backoff < Oldest

VARIABLES
  entry,    \* _entries: what the cache holds of an account, and for how long
  cooling,  \* what is left until _not_before
  line,     \* _lock: its holder, then those who wait for it
  caller,   \* what each caller does, for which accounts
  routing,     \* balanced routing is off, active or draining
  nap,      \* what is left of the driver's sleep
  serviced, \* _any_automatic_serviced
  pending,  \* _pending_manual, in the order of its times
  quiet     \* history: what is left of the longest cooldown a 429 opened

cache == <<entry, cooling, line>>
coordinator == <<nap, serviced, pending>>
pollingVars == <<cache, caller, routing, coordinator, quiet>>

-----------------------------------------------------------------------------
At(c) == caller[c].at
Resting == [at |-> "idle", todo |-> <<>>, force |-> FALSE]
Wants(todo, force) == [at |-> "line", todo |-> todo, force |-> force]

(* _is_fresh *)
Fresh(a) ==
  \/ entry[a].is = "ok" /\ entry[a].age < TTL
  \/ entry[a].is = "failed" /\ entry[a].age < Backoff

(* Accounts without a successful observation, by id, then the oldest first. *)
Before(a, b) ==
  LET missing(x) == entry[x].is # "ok"
      age(x) == IF missing(x) THEN Oldest + 1 ELSE entry[x].age
  IN age(a) > age(b) \/ (age(a) = age(b) /\ a < b)
DueOrder == SetToSortSeq(Accounts, Before)

(* Fresh entries are passed over until a call seems to be needed. *)
SkipFresh(todo) ==
  LET stale == {i \in DOMAIN todo : ~Fresh(todo[i])}
  IN IF stale = {} THEN <<>>
     ELSE SubSeq(todo, CHOOSE i \in stale : \A j \in stale : i <= j, Len(todo))

Clamped(wait) == IF wait < RetryMin THEN RetryMin ELSE IF wait > RetryMax THEN RetryMax ELSE wait
Longer(m, n) == IF m >= n THEN m ELSE n

-----------------------------------------------------------------------------
(* Callers join the line for the lock *)

(* The dashboard when balanced routing is not active: get, for every account or
   for one.  With all of them fresh it is answered from the cache. *)
View(v, ids) ==
  LET misses == SetToSortSeq({a \in ids : ~Fresh(a)}, <)
  IN /\ routing # "active"
     /\ At(v) = "idle"
     /\ misses # <<>>
     /\ caller' = [caller EXCEPT ![v] = Wants(misses, FALSE)]
     /\ line' = Append(line, v)
     /\ UNCHANGED <<entry, cooling, routing, coordinator, quiet>>

(* The dashboard in active balanced routing is served from the cache; a refresh
   is put down for the coordinator. *)
RequestManualRefresh(a) ==
  /\ routing = "active"
  /\ a \notin ToSet(pending)
  /\ pending' = Append(pending, a)
  /\ UNCHANGED <<cache, caller, routing, nap, serviced, quiet>>

(* The fallback pool met a quota 429: a forced poll in the background. *)
RefreshAfter429(r, a) ==
  /\ routing = "off"
  /\ At(r) = "idle"
  /\ caller' = [caller EXCEPT ![r] = Wants(<<a>>, TRUE)]
  /\ line' = Append(line, r)
  /\ UNCHANGED <<entry, cooling, routing, coordinator, quiet>>

(* run_due_poll with this much of the due order left: poll the first candidate
   whose entry is not fresh, then the oldest manual refresh, else sleep. *)
TryNext(todo, others) ==
  LET due == SkipFresh(todo)
      wants == IF due # <<>> THEN Wants(due, FALSE)
               ELSE IF pending # <<>> /\ serviced THEN Wants(<<Head(pending)>>, TRUE)
               ELSE Resting
  IN /\ caller' = [caller EXCEPT ![Driver] = wants]
     /\ line' = IF wants = Resting THEN others ELSE Append(others, Driver)
     /\ nap' = IF wants = Resting THEN Interval ELSE nap

(* The driver's tick.  It has slept for the interval since its last call ended,
   so the coordinator's own budget never refuses it. *)
DriverWakes ==
  /\ routing # "off"
  /\ At(Driver) = "idle"
  /\ nap = 0
  /\ TryNext(DueOrder, line)
  /\ UNCHANGED <<entry, cooling, routing, serviced, pending, quiet>>

-----------------------------------------------------------------------------
(* The holder of the lock: poll and _refresh *)

Holds(c) == line # <<>> /\ Head(line) = c
Account(c) == Head(caller[c].todo)

(* mutant: what was read before the wait for the lock decides *)
NeedsCall_NoSecondLook(c) == cooling = 0

(* The entry and the cooldown are looked at again under the lock. *)
NeedsCall(c) == (caller[c].force \/ ~Fresh(Account(c))) /\ cooling = 0

StartCall(c) ==
  /\ Holds(c) /\ At(c) = "line"
  /\ NeedsCall(c)
  /\ caller' = [caller EXCEPT ![c].at = "calling"]
  /\ UNCHANGED <<cache, routing, coordinator, quiet>>

(* get goes on with its next account and keeps the lock; a poll gives it back. *)
Advance(c) ==
  LET left == Tail(caller[c].todo)
  IN /\ caller' = [caller EXCEPT ![c] = IF left = <<>> THEN Resting ELSE Wants(left, @.force)]
     /\ line' = IF left = <<>> THEN Tail(line) ELSE line

(* The driver's tick ends with a call, and with a cooldown. *)
TickEnds ==
  /\ caller' = [caller EXCEPT ![Driver] = Resting]
  /\ line' = Tail(line)
  /\ nap' = Interval

(* Served from the cache after all: the entry is fresh now, or nobody may call. *)
ServeCached(c) ==
  /\ Holds(c) /\ At(c) = "line"
  /\ ~NeedsCall(c)
  /\ IF c # Driver THEN Advance(c) /\ UNCHANGED nap
     ELSE IF Fresh(Account(c)) /\ ~caller[c].force
       THEN TryNext(Tail(caller[c].todo), Tail(line))
     ELSE TickEnds
  /\ UNCHANGED <<entry, cooling, routing, serviced, pending, quiet>>

(* The call ends: keep the answer, then what the caller does with it. *)
Answered(c, answer) ==
  /\ At(c) = "calling"
  /\ entry' = [entry EXCEPT ![Account(c)] = [is |-> answer, age |-> 0]]
  /\ IF c = Driver
       THEN /\ TickEnds
            /\ pending' = SelectSeq(pending, LAMBDA a : a # Account(c))
            /\ serviced' = (serviced \/ ~caller[c].force)
       ELSE Advance(c) /\ UNCHANGED coordinator
  /\ UNCHANGED routing

CallSucceeds(c) ==
  /\ Answered(c, "ok")
  /\ Account(c) \notin Broken
  /\ UNCHANGED <<cooling, quiet>>

CallFails(c) == Answered(c, "failed") /\ UNCHANGED <<cooling, quiet>>

(* A 429 stops every caller: for the time it names, within bounds, or for the
   backoff. *)
CallRefused(c, wait) ==
  /\ Answered(c, "failed")
  /\ cooling' = Clamped(wait)
  /\ quiet' = Longer(quiet, Clamped(wait))

-----------------------------------------------------------------------------
(* The lifecycle of balanced routing, and time *)

(* A new coordinator; its driver ticks at once. *)
StartDriver ==
  /\ routing = "off"
  /\ routing' = "active"
  /\ nap' = 0 /\ serviced' = FALSE /\ pending' = <<>>
  /\ UNCHANGED <<cache, caller, quiet>>

(* An exit drains, with the driver running, and may be abandoned. *)
Drain == routing = "active" /\ routing' = "draining" /\ UNCHANGED <<cache, caller, coordinator, quiet>>
AbandonExit == routing = "draining" /\ routing' = "active" /\ UNCHANGED <<cache, caller, coordinator, quiet>>

(* mutant: the cancelled driver does not give the lock back *)
LeavesLine_Never == line

(* A cancelled task gives up the lock, or its wait for it. *)
LeavesLine == RemoveFirst(line, Driver)

(* _stop_usage_poll_driver: the driver is cancelled wherever it is. *)
StopDriver ==
  /\ routing = "draining"
  /\ routing' = "off"
  /\ caller' = [caller EXCEPT ![Driver] = Resting]
  /\ line' = LeavesLine
  /\ nap' = 0 /\ serviced' = FALSE /\ pending' = <<>>
  /\ UNCHANGED <<entry, cooling, quiet>>

Less(n) == IF n = 0 THEN 0 ELSE n - 1
TimePasses ==
  /\ entry' = [a \in Accounts |->
                 IF entry[a].is = "none" \/ entry[a].age = Oldest THEN entry[a]
                 ELSE [entry[a] EXCEPT !.age = @ + 1]]
  /\ cooling' = Less(cooling) /\ quiet' = Less(quiet) /\ nap' = Less(nap)
  /\ UNCHANGED <<line, caller, routing, serviced, pending>>

-----------------------------------------------------------------------------
PollingInit ==
  /\ entry = [a \in Accounts |-> [is |-> "none", age |-> 0]]
  /\ cooling = 0 /\ quiet = 0
  /\ line = <<>>
  /\ caller = [c \in Callers |-> Resting]
  /\ routing = "off"
  /\ nap = 0 /\ serviced = FALSE /\ pending = <<>>

CallEnds(c) ==
  \/ CallSucceeds(c)
  \/ CallFails(c)
  \/ \E wait \in RetryAfters \cup {Backoff} : CallRefused(c, wait)

Run(c) == StartCall(c) \/ ServeCached(c) \/ CallEnds(c)

PollingNext ==
  \/ \E v \in Viewers, ids \in {Accounts} \cup {{a} : a \in Accounts} : View(v, ids)
  \/ \E a \in Accounts : RequestManualRefresh(a)
  \/ \E r \in Refreshers, a \in Accounts : RefreshAfter429(r, a)
  \/ DriverWakes
  \/ \E c \in Callers : Run(c)
  \/ StartDriver \/ Drain \/ AbandonExit \/ StopDriver
  \/ TimePasses

PollingSpec == PollingInit /\ [][PollingNext]_pollingVars

(* Time passes, the driver wakes from its sleep, and whoever holds the lock
   goes on: an upstream call ends, by its timeout if not by an answer.  Nobody
   is made to ask for anything, nor to enable or leave balanced routing. *)
FairPolling ==
  /\ PollingSpec
  /\ WF_pollingVars(TimePasses)
  /\ WF_pollingVars(DriverWakes)
  /\ WF_pollingVars(\E c \in Callers : Run(c))

-----------------------------------------------------------------------------
(* Properties *)

(* What is kept for one caller is kept for all: no call starts beside another,
   during a cooldown that a 429 has opened while its caller was waiting, or,
   unless it is forced, for an account another caller has just asked about. *)
PoliteToUpstream ==
  [][\A c \in Callers : At(c) # "calling" /\ caller'[c].at = "calling" =>
       /\ \A d \in Callers : At(d) # "calling"
       /\ quiet = 0
       /\ caller[c].force \/ ~Fresh(Account(c))]_pollingVars

(* Whoever asks is answered, also when the driver is cancelled in front of it,
   holding the lock or waiting for it. *)
EveryCallerIsAnswered ==
  \A c \in Viewers \cup Refreshers : At(c) # "idle" ~> At(c) = "idle"
=============================================================================
