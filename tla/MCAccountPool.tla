---------------------------- MODULE MCAccountPool ----------------------------
(* Two registered accounts and the local login, two requests.              *)
EXTENDS AccountPool, TLC

CONSTANTS acct1, acct2, cli, r1, r2

MCRegistration == <<acct1, acct2>>
MCAmbient == {cli}
MCInitially ==
  [m \in {"disabled", "fallback", "balanced"} |->
     (acct1 :> "ready") @@ (acct2 :> IF m = "balanced" THEN "needs_reauth" ELSE "ready")
       @@ (cli :> IF m = "balanced" THEN "ready" ELSE "absent")]
MCRequests == {r1, r2}
Ask(kind, family) == [kind |-> kind, family |-> family]
MCAsks == (r1 :> {Ask("message", "fable")})
            @@ (r2 :> {Ask("message", "default"), Ask("count", "fable")})
Bare == [retryAfter |-> NoSignal, reset |-> NoSignal]
WithRetryAfter == [retryAfter |-> 1, reset |-> NoSignal]
WithReset == [retryAfter |-> NoSignal, reset |-> 1]
MCReplies == ("disabled" :> {}) @@ ("fallback" :> {Bare, WithReset})
               @@ ("balanced" :> {Bare, WithRetryAfter})
MCRecordSizes == ("disabled" :> {}) @@ ("fallback" :> {1, 3}) @@ ("balanced" :> {3})

Reading(used, reset) == [used |-> used, age |-> 0, resetMono |-> reset, resetWall |-> reset]
FableIsFull == [w \in Windows |-> IF w = "fable_weekly" THEN Reading(100, 3) ELSE Reading(10, 3)]
AllIsFull == [w \in Windows |-> IF w = "fable_weekly" THEN Unread ELSE Reading(100, 3)]
MCPolls == {FableIsFull, AllIsFull}
===============================================================================
