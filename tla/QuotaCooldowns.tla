---------------------------- MODULE QuotaCooldowns ----------------------------
(***************************************************************************)
(* The cooldown a 429 starts: how long it is (src/claudex/claude/          *)
(* account_pool.py) and what becomes of it on two clocks, on the disk and  *)
(* over a restart (src/claudex/balanced/router.py).                        *)
(*                                                                         *)
(* An entry holds the time left on each clock.  The monotonic clock stands *)
(* still while the machine sleeps, the wall clock does not, and the entry  *)
(* is over when either time is up.  A row of the disk has the wall time    *)
(* left only.  The profile says for which login the limit was met.         *)
(***************************************************************************)
EXTENDS Integers, FiniteSets, FiniteSetsExt

CONSTANTS
  MinCooldown,     \* _COOLDOWN_MIN_SECONDS
  MaxCooldown,     \* _COOLDOWN_MAX_SECONDS, and the longest restored
  DefaultCooldown, \* _DEFAULT_RATE_LIMIT_COOLDOWN_SECONDS
  RestoreMin       \* _COOLDOWN_RESTORE_MIN_SECONDS: one second, which is a step of the clocks

ASSUME CooldownAssumption ==
  /\ {MinCooldown, MaxCooldown, DefaultCooldown, RestoreMin} \subseteq Nat
  /\ RestoreMin = 1 /\ RestoreMin <= MinCooldown
  /\ MinCooldown <= DefaultCooldown /\ DefaultCooldown <= MaxCooldown

NoSignal == -1
NoProfile == -1
NoEntry == [mono |-> 0, wall |-> 0, profile |-> NoProfile]

Clamp(low, high, n) == Max({low, Min({high, n})})

Minus(n) == IF n > 0 THEN n - 1 ELSE n

(* A reset in the past says nothing.                                       *)
EpochDelta(left) == IF left > 0 THEN left ELSE NoSignal

(* The first reset named by the headers of a 429, or anywhere in its body. *)
NamedReset(reply) == EpochDelta(reply.reset)

(* The earliest reset still to come among the windows that are used up.    *)
UsageResetDelta(windows) ==
  LET resets == {EpochDelta(windows[w].resetWall) :
                   w \in {w \in DOMAIN windows : windows[w].used >= 99}} \ {NoSignal}
  IN  IF resets = {} THEN NoSignal ELSE Min(resets)

OrElse(signal, next) == IF signal # NoSignal THEN signal ELSE next

(* The first signal there is decides: the 429's Retry-After, a reset named *)
(* by its headers or body that is still to come, the cached usage, or the  *)
(* default.                                                                *)
RateLimitCooldown(reply, windows) ==
  Clamp(MinCooldown, MaxCooldown,
        OrElse(reply.retryAfter,
               OrElse(NamedReset(reply), OrElse(UsageResetDelta(windows), DefaultCooldown))))

Entry(seconds, profile) == [mono |-> seconds, wall |-> seconds, profile |-> profile]

RemainingSeconds(entry) == Min({entry.mono, entry.wall})

IsRunning(entry) == RemainingSeconds(entry) > 0

(* An entry that is over on one clock is over.                             *)
Pruned(entry) == IF IsRunning(entry) THEN entry ELSE NoEntry

Ticked(entry) ==
  Pruned([entry EXCEPT !.mono = Minus(@), !.wall = Minus(@)])

Slept(entry) == Pruned([entry EXCEPT !.wall = Minus(@)])

(* The time left of an entry for the login that asks; 0 when there is none *)
(* or it was made for another one.                                         *)
CooldownLeft(entry, profile) ==
  IF entry.profile = profile THEN RemainingSeconds(entry) ELSE 0

(* Disk rows.  One that is over is as good as none: a restore drops it.    *)
NoRow == [wall |-> 0, profile |-> NoProfile]
RowOf(entry) == [wall |-> entry.wall, profile |-> entry.profile]
RowTicked(row) == IF row.wall <= 1 THEN NoRow ELSE [row EXCEPT !.wall = @ - 1]

Restored(row) ==
  IF row = NoRow THEN NoEntry
  ELSE Entry(Clamp(RestoreMin, MaxCooldown, row.wall), row.profile)
===============================================================================
