------------------------------- MODULE Locators -------------------------------
(***************************************************************************)
(* LocatorBook of gptpro/locators.py, and the part of _AskExecution        *)
(* (gptpro/ask.py) that uses it.  Several asks share one book of CSS       *)
(* selectors for the composer and the send button.  When a selector stops  *)
(* matching, one ask at a time may have another one rediscovered, by a     *)
(* language model; the find is pending until its first use proves it.      *)
(*                                                                         *)
(* An ask rediscovers a target at most once, so the ask stands for the     *)
(* attempt id.  The page's language is the same for all asks, so there is  *)
(* one environment.                                                        *)
(***************************************************************************)
EXTENDS Naturals, FiniteSets

CONSTANTS Asks,
          Targets,
          Selectors,
          Seed,      \* SEED_SELECTORS: the selector the program ships with
          Threshold, \* FAILURE_THRESHOLD
          MaxMoves,  \* bound: how often the site changes its markup
          None

ASSUME LocatorsAssumption ==
  /\ Seed \in Selectors /\ Threshold \in Nat \ {0}
  /\ None \notin Asks \union Targets

VARIABLES
  site,    \* per target: the selector that matches the page now
  moves,
  record,  \* per target: the book's selector, failures in a row and suspension
  pending, \* per target: the rediscovered locator that awaits its first use
  lock,    \* per target: the ask that is in _rediscover, or None
  phase,   \* per ask: where it is in _rediscover
  wanted,  \* per ask: the target it rediscovers
  seenPending, \* per ask: what was pending when it got the lock
  sel,     \* per ask and target: locator_selectors, None when not looked up
  unproven,    \* per ask and target: unproven_locators
  tried    \* per ask: rediscovered_targets

bookVars == <<site, moves, record, pending, lock>>
locatorVars == <<bookVars, phase, wanted, seenPending, sel, unproven, tried>>

Finds == [id : Asks \union {None}, selector : Selectors]

LocatorsInit ==
  /\ site = [t \in Targets |-> Seed]
  /\ moves = 0
  /\ record = [t \in Targets |-> [selector |-> Seed, failures |-> 0, suspended |-> "no"]]
  /\ pending = [t \in Targets |-> None]
  /\ lock = [t \in Targets |-> None]
  /\ phase = [a \in Asks |-> "none"]
  /\ wanted = [a \in Asks |-> None]
  /\ seenPending = [a \in Asks |-> None]
  /\ sel = [a \in Asks |-> [t \in Targets |-> None]]
  /\ unproven = [a \in Asks |-> [t \in Targets |-> None]]
  /\ tried = [a \in Asks |-> {}]

---------------------------------------------------------------------------
(* The book *)

\* _record_failure: a third failure in a row, or one after a suspension that has
\* passed, suspends rediscovery for an hour, any other for a minute.
FailedRecord(r) ==
  LET failures == IF r.failures < Threshold THEN r.failures + 1 ELSE Threshold
  IN [r EXCEPT !.failures = failures,
               !.suspended = IF @ = "over" \/ failures >= Threshold
                             THEN "hour" ELSE "minute"]

SucceededRecord(s) == [selector |-> s, failures |-> 0, suspended |-> "no"]

\* refusal
Refusal(t) == record[t].suspended \in {"hour", "minute"}

\* abandon: only the attempt that is pending can be ended.
IsPending(t, find) == find.id # None /\ pending[t] # None /\ pending[t].id = find.id

\* record_success and record_failure, of what was rediscovered: only the attempt
\* that is still pending counts, or an alternative that works.  Writing the book
\* may fail.
Recorded(a, t, result) ==
  LET find == unproven[a][t]
      counts == find # None /\ (IsPending(t, find) \/ (find.id = None /\ result = "success"))
  IN \/ UNCHANGED record
     \/ /\ counts /\ result = "success"
        /\ record' = [record EXCEPT ![t] = SucceededRecord(find.selector)]
     \/ /\ counts /\ result = "failure"
        /\ record' = [record EXCEPT ![t] = FailedRecord(@)]

\* Mutant: the ask forgets its locator, the book does not.
TakenOut_OnlyOfAsk(a, ts) ==
  /\ unproven' = [unproven EXCEPT ![a] = [t \in Targets |-> IF t \in ts THEN None ELSE @[t]]]
  /\ UNCHANGED pending

\* The attempt is taken out of the book before its result is written.
TakenOut(a, ts) ==
  /\ unproven' = [unproven EXCEPT ![a] = [t \in Targets |-> IF t \in ts THEN None ELSE @[t]]]
  /\ pending' = [t \in Targets |->
       IF t \in ts /\ unproven[a][t] # None /\ IsPending(t, unproven[a][t])
       THEN None ELSE pending[t]]

\* _settle_rediscovered, on the way to the next control, which is looked up: what
\* the ask remembers of this one is not read again.
Settle(a, t, result, next) ==
  /\ Recorded(a, t, result)
  /\ TakenOut(a, {t})
  /\ sel' = [sel EXCEPT ![a] = [u \in Targets |-> IF u \in next THEN record[u].selector ELSE None]]
  /\ tried' = [tried EXCEPT ![a] = @ \ {t}]
  /\ UNCHANGED <<site, moves, lock, phase, wanted, seenPending>>

\* The finally of run: whatever was not proven is abandoned, a lock is let go.
AbandonAll(a) ==
  /\ TakenOut(a, Targets)
  /\ phase' = [phase EXCEPT ![a] = "none"]
  /\ lock' = [t \in Targets |-> IF lock[t] = a THEN None ELSE lock[t]]
  /\ wanted' = [wanted EXCEPT ![a] = None]
  /\ seenPending' = [seenPending EXCEPT ![a] = None]
  /\ sel' = [sel EXCEPT ![a] = [t \in Targets |-> None]]
  /\ tried' = [tried EXCEPT ![a] = {}]
  /\ UNCHANGED <<site, moves>>

---------------------------------------------------------------------------
(* Looking a selector up, and checking it against the page *)

\* _selector: the book is asked once, at the first check.
SelectorOf(a, t) == sel[a][t]

LookUp(a, t) == sel' = [sel EXCEPT ![a][t] = record[t].selector]

\* classify_check: a selector is valid when it matches the one usable control, at
\* fault when it does not and there are candidates; a page that shows none yet,
\* or none any more, lets one wait.
Verdicts(a, t) == {IF SelectorOf(a, t) = site[t] THEN "valid" ELSE "fault", "wait"}

---------------------------------------------------------------------------
(* _rediscover, of the ask and of the book *)

\* The ask gives up at once the second time (its second disjunct).
MayRediscover(a, t) == t \notin tried[a]

RediscoveryBegins(a, t) ==
  /\ phase[a] = "none"
  /\ phase' = [phase EXCEPT ![a] = "queueing"]
  /\ wanted' = [wanted EXCEPT ![a] = t]
  /\ tried' = [tried EXCEPT ![a] = @ \union {t}]
  /\ UNCHANGED <<bookVars, seenPending, sel, unproven>>

\* Mutant: there is no lock.
LockFree_Always(t) == TRUE

LockFree(t) == lock[t] = None

LockTaken(a) ==
  LET t == wanted[a] IN
  /\ phase[a] = "queueing" /\ LockFree(t)
  /\ lock' = [lock EXCEPT ![t] = a]
  /\ seenPending' = [seenPending EXCEPT ![a] = pending[t]]
  /\ phase' = [phase EXCEPT ![a] = "checking"]
  /\ UNCHANGED <<site, moves, record, pending, wanted, sel, unproven, tried>>

\* The book's answer: the ask uses it, and has to prove it.
Found(a, find) ==
  LET t == wanted[a] IN
  /\ phase' = [phase EXCEPT ![a] = "none"]
  /\ lock' = [lock EXCEPT ![t] = None]
  /\ sel' = [sel EXCEPT ![a][t] = find.selector]
  /\ unproven' = [unproven EXCEPT ![a][t] = find]
  /\ wanted' = [wanted EXCEPT ![a] = None]
  /\ seenPending' = [seenPending EXCEPT ![a] = None]
  /\ UNCHANGED <<site, moves, record, tried>>

\* What another ask had rediscovered serves this one as well.
PendingReused(a) ==
  /\ phase[a] = "checking" /\ seenPending[a] # None
  /\ seenPending[a].selector = site[wanted[a]]
  /\ Found(a, seenPending[a])
  /\ UNCHANGED pending

\* The book's selector or the seed, unless it is the one that failed.
Alternatives(a) ==
  {record[wanted[a]].selector, Seed} \ {SelectorOf(a, wanted[a])}

AlternativeFound(a) ==
  /\ phase[a] = "checking" /\ seenPending[a] = None
  /\ site[wanted[a]] \in Alternatives(a)
  /\ Found(a, [id |-> None, selector |-> site[wanted[a]]])
  /\ UNCHANGED pending

HealerAsked(a) ==
  /\ phase[a] = "checking" /\ seenPending[a] = None
  /\ ~Refusal(wanted[a])
  /\ phase' = [phase EXCEPT ![a] = "healing"]
  /\ UNCHANGED <<bookVars, wanted, seenPending, sel, unproven, tried>>

Healed(a) ==
  LET t == wanted[a]  find == [id |-> a, selector |-> site[t]] IN
  /\ phase[a] = "healing"
  /\ pending' = [pending EXCEPT ![t] = find]
  /\ Found(a, find)

\* No locator: what is pending awaits its proof, rediscovery is suspended, there
\* is too little time or no healer; or the healer did not find one, which counts
\* unless the book cannot be written.
NoneFound(a) == phase[a] \in {"checking", "healing"}

HealFailed(a) ==
  \/ UNCHANGED record
  \/ phase[a] = "healing" /\ record' = [record EXCEPT ![wanted[a]] = FailedRecord(@)]

Rediscovering(a) ==
  LockTaken(a) \/ PendingReused(a) \/ AlternativeFound(a) \/ HealerAsked(a) \/ Healed(a)

---------------------------------------------------------------------------
(* The site and the clock *)

SiteMoves ==
  /\ moves < MaxMoves
  /\ \E t \in Targets, s \in Selectors : s # site[t] /\ site' = [site EXCEPT ![t] = s]
  /\ moves' = moves + 1
  /\ UNCHANGED <<record, pending, lock, phase, wanted, seenPending, sel, unproven, tried>>

SuspensionPasses ==
  /\ \E t \in Targets :
       /\ Refusal(t)
       /\ record' = [record EXCEPT ![t].suspended = IF @ = "hour" THEN "over" ELSE "no"]
  /\ UNCHANGED <<site, moves, pending, lock, phase, wanted, seenPending, sel, unproven, tried>>
-------------------------------------------------------------------------------
LocatorsTypeOK ==
  /\ site \in [Targets -> Selectors]
  /\ record \in [Targets -> [selector : Selectors, failures : 0..Threshold,
                             suspended : {"no", "minute", "hour", "over"}]]
  /\ \A t \in Targets : pending[t] \in Finds \union {None}
  /\ lock \in [Targets -> Asks \union {None}]
  /\ phase \in [Asks -> {"none", "queueing", "checking", "healing"}]

\* A locator that awaits its first use is in the hands of an ask that will prove
\* or abandon it.  While one is pending every other ask whose selector fails is
\* refused, so a forgotten one would end rediscovery until the next restart.
PendingHasAProver ==
  \A t \in Targets : pending[t] # None =>
    \E a \in Asks : unproven[a][t] = pending[t]

\* One ask at a time has a target rediscovered, and none while rediscovery is
\* suspended or a find awaits its proof (rediscover, refusal).
HealerRespectsBreaker ==
  /\ LocatorsTypeOK
  /\ \A a \in Asks : phase[a] = "healing" =>
       /\ ~Refusal(wanted[a])
       /\ pending[wanted[a]] = None
       /\ \A b \in Asks \ {a} : phase[b] = "healing" => wanted[b] # wanted[a]
===============================================================================
