----------------------------- MODULE AccountPool -----------------------------
(***************************************************************************)
(* The requests that Claude accounts serve: relay/registered.py, and the   *)
(* stateless and token-counting paths of relay/balanced.py (both under     *)
(* src/claudex), with the cooldowns that 429s leave:                       *)
(* those of the fallback pool in memory, those of balanced routing also on *)
(* the disk.                                                               *)
(*                                                                         *)
(* One action per stretch of a request's code between two awaits.  The     *)
(* routing mode does not change (BalancedRuntime is about that), pinned    *)
(* requests are in PinMigration, the credentials' own refresh in           *)
(* AccountLogins and the store's queue in StateStore: here a write is      *)
(* pending until it is on the disk or has failed for good, and then no     *)
(* older write of its row is left.  Left out: an account removed while it  *)
(* serves, a profile that cannot be read, and the evidence of a 2xx, which *)
(* nothing reads.                                                          *)
(***************************************************************************)
EXTENDS AccountSelection, QuotaCooldowns, IncidentLog, SequencesExt

CONSTANTS
  Modes,        \* the routing modes to look at
  Registration, \* the registered accounts, in the order of their registration
  Ambient,      \* the account of the local CLI login, or nobody
  Serving,      \* the configured account
  Initially,    \* the states of the accounts to begin with, under each mode
  Requests,     \* client requests
  Asks,         \* what a request may ask: [kind, family], a message or a token count
  Replies,      \* 429s under each mode: [retryAfter, reset]
  RecordSizes,  \* sizes of incident records under each mode
  Polls,        \* what a usage poll can read: a reading of each window
  NoAccount, NoReply,
  MaxQuotas,    \* bound: 429s
  MaxEvents     \* bound: everything else that happens to the requests: 401s, failures,
                \* logins and logouts, usage polls, steps of the clocks, failing writes, crashes

Registered == ToSet(Registration)
Accounts == Registered \cup Ambient
Keys == Accounts \X {"account", "family"}

ASSUME PoolAssumption ==
  /\ Modes \subseteq {"disabled", "fallback", "balanced"}
  /\ Registration \in Seq(Registered) /\ IsInjective(Registration)
  /\ Serving \in Registered /\ Registered \cap Ambient = {}
  /\ NoAccount \notin Accounts

(* No window is longer than seven days, the longest cooldown: no reset is  *)
(* farther away.                                                           *)
Readings == [used : Int, age : Nat, resetMono : NoReset..MaxCooldown, resetWall : NoReset..MaxCooldown]
States == {"ready", "needs_reauth", "absent"}

ASSUME InputAssumption ==
  /\ \A m \in Modes : /\ Initially[m] \in [Accounts -> States]
                      /\ Replies[m] \subseteq [retryAfter : Int, reset : Int]
                      /\ RecordSizes[m] \subseteq Nat
  /\ \A r \in Requests : Asks[r] \subseteq [kind : {"message", "count"}, family : Families]
  /\ Polls \subseteq [Windows -> Readings]

VARIABLES
  mode,     \* claude_account.routing
  up,       \* whether the gateway runs
  state,    \* the registry's state of an account; for the ambient one, the CLI's login
  glimpse,  \* what the gateway last read of the CLI's login
  login,    \* the login (credential generation) of an account
  profile,  \* the profile of that login
  tracker,  \* AccountCooldownTracker: cooldowns of the fallback pool
  cooldown, \* _account_cooldowns and _family_cooldowns
  pending,  \* cooldown rows whose write is not committed
  unwritten, \* history: the keys of the cooldowns whose write has failed
  disk,     \* cooldown rows of the database
  view,     \* what is known of the accounts' usage
  file,     \* the incident file
  landed,   \* how many lines ever got complete in it
  req,      \* where each request is
  vow,      \* history: the cooldowns whose write a request has waited for
  spent     \* how much of each bound is used up

vars == <<mode, up, state, glimpse, login, profile, tracker, cooldown, pending, unwritten, disk,
          view, file, landed, req, vow, spent>>
memory == <<tracker, cooldown, pending, unwritten, view>>
logins == <<state, glimpse, login, profile>>
log == <<file, landed>>

NoWait == -1
NoKey == <<NoAccount, "account">>

Fresh == [pc |-> "idle", kind |-> "message", family |-> "default", ready |-> {}, chain |-> {},
          skipped |-> {}, tried |-> {}, account |-> NoAccount, login |-> 0,
          limited |-> NoReply, failed |-> FALSE, key |-> NoKey,
          answer |-> "none", wait |-> NoWait, void |-> FALSE]

PCs == {"idle", "credentials", "sent", "refreshing", "resent", "durable", "written", "done"}
Answers == {"none", "served", "unreachable", "limited", "cooling", "failed", "unavailable", "lost"}

(* What the fields hold.                                                   *)
TypeOK ==
  /\ mode \in Modes /\ up \in BOOLEAN
  /\ state \in [Accounts -> States]
  /\ glimpse \in [Ambient -> {"ready", "stale", "absent", "unread"}]
  /\ \A r \in Requests :
       /\ req[r].pc \in PCs /\ req[r].answer \in Answers
       /\ req[r].ready \subseteq Accounts /\ req[r].tried \subseteq req[r].ready
       /\ req[r].pc \in {"credentials", "sent", "refreshing", "resent", "durable", "written"}
            => req[r].account \in req[r].tried
  /\ \A k \in Keys : IsRunning(cooldown[k]) \/ cooldown[k] = NoEntry

Init ==
  /\ mode \in Modes /\ up = TRUE
  /\ state = Initially[mode]
  /\ glimpse = [a \in Ambient |-> "unread"]
  /\ login = [a \in Accounts |-> 0] /\ profile = [a \in Accounts |-> 0]
  /\ tracker = [a \in Accounts |-> NoEntry]
  /\ cooldown = [k \in Keys |-> NoEntry]
  /\ pending = [k \in Keys |-> NoRow] /\ unwritten = {} /\ disk = [k \in Keys |-> NoRow]
  /\ view = [a \in Accounts |-> NothingRead]
  /\ file = EmptyFile /\ landed = 0
  /\ req = [r \in Requests |-> Fresh]
  /\ vow = [k \in Keys |-> NoEntry]
  /\ spent = [quotas |-> 0, events |-> 0]

(* The bounds: so many 429s and so many other events in one step.          *)
Costs(quotas, events) ==
  /\ spent.quotas + quotas <= MaxQuotas /\ spent.events + events <= MaxEvents
  /\ spent' = [quotas |-> spent.quotas + quotas, events |-> spent.events + events]

-----------------------------------------------------------------------------
(* Who can serve.                                                          *)

IsCoolingInPool(a) == IsRunning(tracker[a])

(* The keys under which a cooldown can keep an account from a family.      *)
KeysOf(a, family) == {<<a, "account">>} \cup (IF family = "fable" THEN {<<a, "family">>} ELSE {})

UnblockIn(a, family) ==
  Max({CooldownLeft(cooldown[k], profile[a]) : k \in KeysOf(a, family)})

IsCooling(a, family) == UnblockIn(a, family) > 0

InFlight(r) ==
  [a \in Accounts |-> Cardinality({o \in Requests \ {r} :
     /\ req[o].pc \in {"credentials", "sent", "refreshing", "resent", "durable", "written"}
     /\ req[o].kind = "message" /\ mode = "balanced" /\ req[o].account = a})]

(* The serving account first, then the others as they were registered.     *)
ServingOrder(a) == IF a = Serving THEN 0 ELSE CHOOSE i \in DOMAIN Registration : Registration[i] = a

(* The registry as a request reads it; the local login joins the           *)
(* candidates of balanced routing.                                         *)
ReadyNow(seen) ==
  {a \in Registered : state[a] = "ready"}
    \cup (IF mode = "balanced" THEN {a \in Ambient : seen[a] \in {"ready", "stale"}} ELSE {})

HasFailover(q) == mode = "fallback" \/ (mode = "balanced" /\ q.kind = "message")

-----------------------------------------------------------------------------
(* What a request does next: it attempts another account or is answered.   *)

Attempt(q, a) ==
  [q EXCEPT !.pc = "credentials", !.account = a, !.tried = @ \cup {a},
            !.key = NoKey]

(* The answer, with how long it tells the client to wait, if it does.      *)
AnsweredAfter(q, what, wait) ==
  [Fresh EXCEPT !.pc = "done", !.family = q.family, !.ready = q.ready,
                !.answer = what, !.wait = wait, !.void = q.void]

Answered(q, what) == [Fresh EXCEPT !.pc = "done", !.family = q.family, !.answer = what]

(* The chain of the fallback pool is used up: the last 429 is the most     *)
(* useful answer, else the first failure.                                  *)
PoolExhausted(q) == Answered(q, IF q.limited # NoReply THEN "limited" ELSE "failed")

(* A bug: any account counts, ready or not.                                *)
FirstBackIn_OfAll(ready, family) == Min({UnblockIn(a, family) : a \in Accounts})

FirstBackIn(ready, family) == Min({UnblockIn(a, family) : a \in ready})

(* No account is left for a balanced request.  Its own 429 is passed on,   *)
(* with the time until the first account is back unless it names one.      *)
AllCooling(q) ==
  LET left == Max({1, FirstBackIn(q.ready, q.family)})
  IN  CASE q.limited = NoReply /\ q.failed -> Answered(q, "failed")
        [] q.limited # NoReply /\ q.limited.retryAfter # NoSignal -> Answered(q, "limited")
        [] q.limited # NoReply /\ q.limited.retryAfter = NoSignal ->
             AnsweredAfter(q, "limited", left)
        [] q.limited = NoReply /\ ~q.failed /\ q.ready = {} -> Answered(q, "unavailable")
        [] OTHER -> AnsweredAfter(q, "cooling", left)

Eligible(q) == {a \in q.ready \ q.tried : ~IsCooling(a, q.family)}

NextInPool(q) ==
  LET next == CHOOSE a \in q.chain : \A b \in q.chain : ServingOrder(a) <= ServingOrder(b)
  IN  IF q.chain = {} THEN PoolExhausted(q) ELSE Attempt([q EXCEPT !.chain = @ \ {next}], next)

(* A balanced request goes to one of the eligible accounts, by their       *)
(* weights of this moment.                                                 *)
NextBalanced(r, q) ==
  LET drawn == IF Eligible(q) = {} THEN {}
               ELSE CanBeDrawn(view, Eligible(q), q.family, InFlight(r))
  IN  IF drawn = {} THEN {AllCooling(q)} ELSE {Attempt(q, a) : a \in drawn}

(* The request as it may go on when no attempt of it is under way.         *)
Onward(r, q) == IF mode = "fallback" THEN {NextInPool(q)} ELSE NextBalanced(r, q)

(* An attempt failed for a reason of its account.                          *)
AfterFailure(r, q) ==
  IF HasFailover(q) THEN Onward(r, [q EXCEPT !.failed = TRUE]) ELSE {Answered(q, "failed")}

Goes(r, nexts) == \E n \in nexts : req' = [req EXCEPT ![r] = n]

-----------------------------------------------------------------------------
(* A request arrives.                                                      *)

(* The accounts the fallback pool will try, fixed on arrival.              *)
BuildServingChain(q) ==
  [q EXCEPT !.chain = {a \in q.ready : ~IsCoolingInPool(a)},
            !.skipped = {a \in q.ready : IsCoolingInPool(a)}]

(* The shortest cooldown of the tracker, whoever's it is.                  *)
MinRemaining ==
  LET running == {RemainingSeconds(tracker[a]) : a \in Accounts} \ {0}
  IN  IF running = {} THEN DefaultCooldown ELSE Min(running)

(* The first step under each routing mode.                                 *)
PassthroughWithClaudeAccount(q) ==
  IF Serving \in q.ready THEN Attempt(q, Serving) ELSE Answered(q, "unavailable")

PassthroughWithClaudePool(q) ==
  LET chained == BuildServingChain(q)
  IN  CASE chained.chain # {} -> NextInPool(chained)
        [] chained.chain = {} /\ chained.skipped # {} ->
             AnsweredAfter(chained, "cooling", Max({1, MinRemaining}))
        [] OTHER -> Answered(chained, "unavailable")

(* Reading the ambient login fills the cache when it is empty.             *)
PoolMember == [a \in Ambient |->
               IF glimpse[a] # "unread" THEN glimpse[a]
               ELSE IF state[a] = "ready" THEN "ready" ELSE "absent"]

(* The token of the local login is only read again: it helps if the CLI    *)
(* has refreshed it since the cached glimpse.                              *)
TokenChanged(a) == glimpse[a] = "stale" /\ state[a] = "ready"

AmbientUnusable(q) ==
  IF q.pc = "refreshing" THEN ~TokenChanged(q.account) ELSE PoolMember[q.account] = "absent"

(* A token count goes where a request without a session goes, once.        *)
ServeCountTokens(r, q) == NextBalanced(r, q)

Arrive(r, kind, family) ==
  LET seen == IF mode = "balanced" THEN PoolMember ELSE glimpse
      q == [Fresh EXCEPT !.kind = kind, !.family = family, !.ready = ReadyNow(seen),
                          !.void = \E a \in ReadyNow(seen) : state[a] # "ready"]
  IN  /\ up /\ req[r].pc = "idle"
      /\ glimpse' = seen
      /\ Goes(r, CASE mode = "disabled" -> {PassthroughWithClaudeAccount(q)}
                   [] mode = "fallback" -> {PassthroughWithClaudePool(q)}
                   [] mode = "balanced" /\ kind = "count" -> ServeCountTokens(r, q)
                   [] mode = "balanced" /\ kind = "message" -> NextBalanced(r, q))
      /\ UNCHANGED <<mode, up, state, login, profile, memory, disk, log, vow, spent>>

-----------------------------------------------------------------------------
(* An attempt with an account.                                             *)

(* An account that is no longer ready voids what requests were told, and   *)
(* what those under way will be told.                                      *)
Voided(requests) ==
  [r \in Requests |->
     IF requests[r].pc = "idle" \/ (requests[r].pc = "done" /\ requests[r].wait = NoWait)
     THEN requests[r] ELSE [requests[r] EXCEPT !.void = TRUE]]

GoesVoiding(r, nexts) ==
  \E n \in nexts : req' = Voided([req EXCEPT ![r] = n])

(* A login that replaced the rejected one keeps the account as it is.  The *)
(* ambient account belongs to the CLI and is never marked.                 *)
MarkNeedsReauth(a, rejected) ==
  state' = [state EXCEPT ![a] =
              IF a \in Registered /\ login[a] = rejected THEN "needs_reauth" ELSE @]

CredentialsRead(r) ==
  /\ up /\ req[r].pc = "credentials"
  /\ req[r].account \in Ambient => ~AmbientUnusable(req[r])
  /\ glimpse' = PoolMember
  /\ Goes(r, {[req[r] EXCEPT !.pc = "sent", !.login = login[req[r].account]]})
  /\ UNCHANGED <<mode, up, state, login, profile, memory, disk, log, vow, spent>>

ReadAgain(a) == IF state[a] = "ready" THEN "ready" ELSE "absent"

(* The refresh failed, or the account cannot be used for now.              *)
CredentialsUnusable(r) ==
  /\ up /\ req[r].pc \in {"credentials", "refreshing"}
  /\ \/ req[r].account \in Registered /\ Costs(0, 1)
     \/ req[r].account \in Ambient /\ AmbientUnusable(req[r]) /\ UNCHANGED spent
  /\ glimpse' = [a \in Ambient |->
                   IF a = req[r].account /\ req[r].pc = "refreshing" THEN ReadAgain(a) ELSE PoolMember[a]]
  /\ Goes(r, AfterFailure(r, req[r]))
  /\ UNCHANGED <<mode, up, state, login, profile, memory, disk, log, vow>>

(* The refresh is refused for good.                                        *)
ReauthRequired(r) ==
  /\ up /\ req[r].pc \in {"credentials", "refreshing"} /\ req[r].account \in Registered
  /\ Costs(0, 1)
  /\ MarkNeedsReauth(req[r].account, login[req[r].account])
  /\ GoesVoiding(r, AfterFailure(r, req[r]))
  /\ UNCHANGED <<mode, up, glimpse, login, profile, memory, disk, log, vow>>

(* The first 401 asks for new credentials.                                 *)
Rejected(r) ==
  /\ up /\ req[r].pc = "sent"
  /\ Costs(0, 1)
  /\ Goes(r, {[req[r] EXCEPT !.pc = "refreshing"]})
  /\ UNCHANGED <<mode, up, logins, memory, disk, log, vow>>

(* New credentials: of the ambient account, those the CLI has refreshed    *)
(* since they were last read.                                              *)
Refreshed(r) ==
  LET a == req[r].account
  IN  /\ up /\ req[r].pc = "refreshing"
      /\ a \in Ambient => TokenChanged(a)
      /\ glimpse' = [x \in Ambient |-> IF x = a THEN "ready" ELSE glimpse[x]]
      /\ Goes(r, {[req[r] EXCEPT !.pc = "resent", !.login = login[a]]})
      /\ UNCHANGED <<mode, up, state, login, profile, memory, disk, log, vow, spent>>

(* The second 401 is about the account.                                    *)
RejectedAgain(r) ==
  /\ up /\ req[r].pc = "resent"
  /\ Costs(0, 1)
  /\ MarkNeedsReauth(req[r].account, req[r].login)
  /\ GoesVoiding(r, AfterFailure(r, req[r]))
  /\ UNCHANGED <<mode, up, glimpse, login, profile, memory, disk, log, vow>>

(* Any other answer, a 429 too where there is no failover, is the client's.*)
Relayed(r) ==
  /\ up /\ req[r].pc \in {"sent", "resent"}
  /\ Goes(r, {Answered(req[r], "served")})
  /\ UNCHANGED <<mode, up, logins, memory, disk, log, vow, spent>>

(* A transport error, also while the 429 is read, is not the account's.    *)
Unreachable(r) ==
  /\ up /\ req[r].pc \in {"sent", "resent"}
  /\ Costs(0, 1)
  /\ Goes(r, {Answered(req[r], "unreachable")})
  /\ UNCHANGED <<mode, up, logins, memory, disk, log, vow>>

-----------------------------------------------------------------------------
(* A 429.                                                                  *)

(* The line is in the file, or the failure to write it is swallowed.       *)
Leaves(f) ==
  /\ file' = f
  /\ landed' = IF f.lines # <<>> /\ Last(f.lines).no = landed + 1 THEN landed + 1 ELSE landed

RecordIncident(quotas) ==
  \E bytes \in RecordSizes[mode] :
    LET line == LineOf(landed + 1, bytes)
    IN  \/ Leaves(Appended(file, line)) /\ Costs(quotas, 0)
        \/ \E f \in Interrupted(file, line) : Leaves(f) /\ Costs(quotas, 1)

MarkTracker(a, reply) ==
  tracker' = [tracker EXCEPT ![a] = Entry(RateLimitCooldown(reply, view[a]), NoProfile)]

(* The fallback pool cools the account down, records it and goes on.       *)
FallbackQuota(r, reply) ==
  /\ up /\ req[r].pc \in {"sent", "resent"} /\ mode = "fallback"
  /\ MarkTracker(req[r].account, reply)
  /\ RecordIncident(1)
  /\ Goes(r, Onward(r, [req[r] EXCEPT !.limited = reply]))
  /\ UNCHANGED <<mode, up, logins, cooldown, pending, unwritten, view, disk, vow>>

(* Where a balanced cooldown goes and how long it is.                      *)
ScopeOf(q) == IF FamilyGate(view[q.account], q.family) THEN "family" ELSE "account"

DeadlineOf(q, reply) ==
  IF ScopeOf(q) = "family" THEN view[q.account]["fable_weekly"].resetMono
  ELSE RateLimitCooldown(reply, view[q.account])

(* A bug: the request does not wait for the write.                         *)
AfterInstall_NoWait == "written"

AfterInstall == "durable"

(* The requests when a cooldown is installed: one whose written cooldown   *)
(* is replaced promises nothing more, and those told to wait may find the  *)
(* new one in their way.                                                   *)
Superseded(k) ==
  [o \in Requests |->
     CASE req[o].pc = "done" -> [req[o] EXCEPT !.void = req[o].wait # NoWait]
       [] req[o].pc = "written" /\ req[o].key = k -> [req[o] EXCEPT !.key = NoKey]
       [] OTHER -> req[o]]

(* A cooldown in memory and its write.                                     *)
InstallCooldown(r, q, k, entry) ==
  /\ cooldown' = [cooldown EXCEPT ![k] = entry]
  /\ pending' = [pending EXCEPT ![k] = RowOf(entry)] /\ unwritten' = unwritten \ {k}
  /\ vow' = [vow EXCEPT ![k] = NoEntry]
  /\ req' = [Superseded(k) EXCEPT ![r] = [q EXCEPT !.pc = AfterInstall, !.key = k]]

(* A 429 of a balanced message.                                            *)
BalancedQuota(r, reply) ==
  LET q == [req[r] EXCEPT !.limited = reply]
  IN  /\ up /\ req[r].pc \in {"sent", "resent"} /\ mode = "balanced" /\ HasFailover(q)
      /\ Costs(1, 0)
      /\ MarkTracker(q.account, reply)
      /\ InstallCooldown(r, q, <<q.account, ScopeOf(q)>>, Entry(DeadlineOf(q, reply), profile[q.account]))
      /\ UNCHANGED <<mode, up, logins, view, disk, log>>

(* The wait for the write is over: record the incident and go on.          *)
CooldownWritten(r) ==
  /\ up /\ req[r].pc = "written"
  /\ vow' = IF req[r].key = NoKey THEN vow ELSE [vow EXCEPT ![req[r].key] = cooldown[req[r].key]]
  /\ RecordIncident(0)
  /\ Goes(r, Onward(r, req[r]))
  /\ UNCHANGED <<mode, up, logins, memory, disk>>

WriteEnds(k) ==
  /\ up /\ pending[k] # NoRow
  /\ pending' = [pending EXCEPT ![k] = NoRow]
  /\ req' = [r \in Requests |->
               IF req[r].pc = "durable" /\ req[r].key = k THEN [req[r] EXCEPT !.pc = "written"] ELSE req[r]]
  /\ UNCHANGED <<mode, up, logins, tracker, cooldown, view, log, vow>>

StoreCommits(k) ==
  /\ WriteEnds(k)
  /\ disk' = [disk EXCEPT ![k] = IF pending[k].wall = 0 THEN NoRow ELSE pending[k]]
  /\ UNCHANGED <<unwritten, spent>>

(* The write fails for good, or the store takes none: the request that     *)
(* waits swallows the error and goes on with the cooldown in memory.       *)
StoreFails(k) ==
  /\ WriteEnds(k) /\ Costs(0, 1)
  /\ unwritten' = unwritten \cup {k}
  /\ UNCHANGED disk

-----------------------------------------------------------------------------
(* Around the requests.                                                    *)

IngestUsagePeek(windows, poll) ==
  [w \in Windows |-> IF poll[w] = Unread THEN windows[w] ELSE poll[w]]

(* A usage poll: the windows it read replace what was known of them.       *)
Observe(a, poll) ==
  /\ up /\ Costs(0, 1)
  /\ view' = [view EXCEPT ![a] = IngestUsagePeek(@, poll)]
  /\ UNCHANGED <<mode, up, logins, tracker, cooldown, pending, unwritten, disk, log, req, vow>>

(* Somebody logs in again, perhaps with another profile.                   *)
Relogin(a, p) ==
  /\ a \in Registered /\ Costs(0, 1)
  /\ login' = [login EXCEPT ![a] = @ + 1]
  /\ profile' = [profile EXCEPT ![a] = p]
  /\ state' = [state EXCEPT ![a] = "ready"]
  /\ req' = IF p = profile[a] THEN req ELSE Voided(req)
  /\ UNCHANGED <<mode, up, glimpse, memory, disk, log, vow>>

(* The CLI refreshes its token: what was read of it is stale.              *)
CliRefreshes(a) ==
  /\ state[a] = "ready" /\ glimpse[a] = "ready" /\ Costs(0, 1)
  /\ glimpse' = [glimpse EXCEPT ![a] = "stale"]
  /\ UNCHANGED <<mode, up, state, login, profile, memory, disk, log, req, vow>>

CliLogsOut(a) ==
  /\ state[a] = "ready" /\ Costs(0, 1)
  /\ state' = [state EXCEPT ![a] = "absent"]
  /\ req' = Voided(req)
  /\ UNCHANGED <<mode, up, glimpse, login, profile, memory, disk, log, vow>>

TickedReading(reading) ==
  IF reading = Unread THEN reading
  ELSE [reading EXCEPT !.age = Min({@ + 1, FreshPlus10 + 1}),
                       !.resetMono = Minus(@), !.resetWall = Minus(@)]

Waited == [r \in Requests |-> [req[r] EXCEPT !.wait = Minus(@)]]

(* A step of both clocks, longer than the life of the cached glimpse.      *)
TimePasses ==
  /\ Costs(0, 1)
  /\ glimpse' = [a \in Ambient |-> "unread"]
  /\ tracker' = [a \in Accounts |-> Ticked(tracker[a])]
  /\ cooldown' = [k \in Keys |-> Ticked(cooldown[k])]
  /\ vow' = [k \in Keys |-> Ticked(vow[k])]
  /\ disk' = [k \in Keys |-> RowTicked(disk[k])]
  /\ pending' = [k \in Keys |-> [pending[k] EXCEPT !.wall = Minus(@)]]
  /\ view' = [a \in Accounts |-> [w \in Windows |-> TickedReading(view[a][w])]]
  /\ req' = Waited
  /\ UNCHANGED <<mode, up, state, login, profile, unwritten, log>>

(* The machine sleeps: only the wall clock goes on.                        *)
Sleeps ==
  /\ Costs(0, 1)
  /\ tracker' = [a \in Accounts |-> Slept(tracker[a])]
  /\ cooldown' = [k \in Keys |-> Slept(cooldown[k])]
  /\ vow' = [k \in Keys |-> Slept(vow[k])]
  /\ disk' = [k \in Keys |-> RowTicked(disk[k])]
  /\ pending' = [k \in Keys |-> [pending[k] EXCEPT !.wall = Minus(@)]]
  /\ view' = [a \in Accounts |-> [w \in Windows |->
                [view[a][w] EXCEPT !.resetWall = Minus(@)]]]
  /\ req' = Waited
  /\ UNCHANGED <<mode, up, logins, unwritten, log>>

(* A replacement of a cooldown row that a crash loses: the old row comes   *)
(* back, which voids what clients were told.                               *)
LosesReplacement(k) == (pending[k] # NoRow \/ k \in unwritten) /\ disk[k] # NoRow

Lost(q) ==
  IF q.pc \notin {"idle", "done"} THEN Answered(q, "lost")
  ELSE [q EXCEPT !.void = @ \/ (/\ q.pc = "done" /\ q.wait # NoWait
                                  /\ \E k \in Keys : LosesReplacement(k))]

(* A cooldown that is in memory only goes with it.                         *)
Outlives(k) ==
  IF k \in unwritten THEN NoEntry ELSE [vow[k] EXCEPT !.mono = vow[k].wall]

(* The gateway dies, perhaps in the middle of an append.                   *)
Crash ==
  /\ up /\ up' = FALSE
  /\ tracker' = [a \in Accounts |-> NoEntry] /\ cooldown' = [k \in Keys |-> NoEntry]
  /\ pending' = [k \in Keys |-> NoRow] /\ unwritten' = {} /\ view' = [a \in Accounts |-> NothingRead]
  /\ glimpse' = [a \in Ambient |-> "unread"]
  /\ vow' = [k \in Keys |-> Outlives(k)]
  /\ \/ UNCHANGED log
     \/ /\ \E r \in Requests : req[r].pc \in (IF mode = "fallback" THEN {"sent", "resent"} ELSE {"written"})
        /\ \E bytes \in RecordSizes[mode] : \E f \in Interrupted(file, LineOf(landed + 1, bytes)) : Leaves(f)
  /\ Costs(0, 1)
  /\ req' = [r \in Requests |-> Lost(req[r])]
  /\ UNCHANGED <<mode, state, login, profile, disk>>

(* Balanced routing restores what the disk has.                            *)
Restart ==
  /\ ~up /\ up' = TRUE
  /\ cooldown' = IF mode = "balanced" THEN [k \in Keys |-> Restored(disk[k])] ELSE cooldown
  /\ UNCHANGED <<mode, logins, tracker, pending, unwritten, disk, view, log, req, vow, spent>>

Next ==
  \/ \E r \in Requests :
       \/ \E ask \in Asks[r] : Arrive(r, ask.kind, ask.family)
       \/ CredentialsRead(r) \/ CredentialsUnusable(r) \/ ReauthRequired(r)
       \/ Rejected(r) \/ Refreshed(r) \/ RejectedAgain(r) \/ Relayed(r) \/ Unreachable(r)
       \/ \E reply \in Replies[mode] : FallbackQuota(r, reply) \/ BalancedQuota(r, reply)
       \/ CooldownWritten(r)
  \/ \E k \in Keys : StoreCommits(k) \/ StoreFails(k)
  \/ \E a \in Accounts : \E poll \in Polls : Observe(a, poll)
  \/ \E a \in Registered, p \in {0, 1} : Relogin(a, p)
  \/ \E a \in Ambient : CliRefreshes(a) \/ CliLogsOut(a)
  \/ TimePasses \/ Sleeps \/ Crash \/ Restart

Spec == Init /\ [][Next]_vars

-----------------------------------------------------------------------------
(* Properties.                                                             *)

Begins(r, a) ==
  /\ req'[r].pc = "credentials" /\ req'[r].account = a
  /\ req[r].pc # "credentials" \/ req[r].account # a

(* Once a balanced request has waited for the cooldown its 429 started, no *)
(* balanced attempt begins with that account, for that family and that     *)
(* login, before the time is up on one of the clocks: not of another       *)
(* request, and not after a crash at any moment and a restart.  A cooldown *)
(* whose write failed, which the request goes on as if it had not          *)
(* (_install_balanced_quota_cooldown), holds until the next crash only.    *)
AcknowledgedCooldownHolds ==
  [][\A r \in Requests, a \in Accounts : mode = "balanced" /\ Begins(r, a) =>
       \A k \in KeysOf(a, req'[r].family) : CooldownLeft(vow[k], profile[a]) = 0]_vars

(* A client told by balanced routing to wait, and doing so, finds an       *)
(* account that can take its request: over restarts, and when the machine  *)
(* slept.  Unless, since the client first asked, an account was limited    *)
(* anew, lost its login or got one of another profile (whose old cooldown  *)
(* counts again), or a crash lost the replacement of a longer cooldown,    *)
(* its write pending or failed, or unless the glimpse of the local login   *)
(* was out of date.                                                        *)
ObedientClientIsServed ==
  \A r \in Requests :
    mode = "balanced" /\ req[r].pc = "done" /\ req[r].wait = 0 /\ ~req[r].void
      => \E a \in req[r].ready : state[a] = "ready" /\ ~IsCooling(a, req[r].family)

(* A request is given up for its accounts' sake only after each one that   *)
(* was ready when it came was tried, or was cooling: then, in the fallback *)
(* pool, and now, under balanced routing.                                  *)
EveryUsableAccountTried ==
  [][\A r \in Requests :
       (/\ req[r].pc # "done" /\ req'[r].pc = "done"
        /\ mode # "disabled" /\ req[r].kind = "message"
        /\ req'[r].answer \in {"limited", "cooling", "failed", "unavailable"}) =>
       IF req[r].pc = "idle"
       THEN \A a \in ReadyNow(glimpse') :
              IF mode = "fallback" THEN IsCoolingInPool(a) ELSE IsCooling(a, req'[r].family)
       ELSE \A a \in req[r].ready \ req[r].tried :
              a \in req[r].skipped \/ (mode = "balanced" /\ IsCooling(a, req[r].family))]_vars

(* The incident file holds the newest lines that got complete, in their    *)
(* order, none missing between them and none spoilt, within its bound.     *)
LogIsSound ==
  /\ \A i \in DOMAIN file.lines : file.lines[i].no = landed - Len(file.lines) + i
  /\ SizeOf(file.lines) <= MaxBytes
===============================================================================
