------------------------------- MODULE AskRuntime -------------------------------
(***************************************************************************)
(* AskRuntime of gptpro/runtime.py: one lazily launched browser context    *)
(* under the lock of its profile directory, a bounded number of asks that  *)
(* each drive a page of it, and a poller for the turns whose page was      *)
(* given up.  The admission gate and the poller are modules of their own.  *)
(*                                                                         *)
(* An ask is two processes: the call (pc), and the task that drives the    *)
(* page (work), which the call cancels at its deadline and does not wait   *)
(* for.  What a page does is cut down to what the runtime learns of it.    *)
(***************************************************************************)
EXTENDS AdmissionGate

CONSTANTS MaxLaunches,  \* bound: browser launches
          RecoveryIsOn  \* raw_turn_recovery_seconds() is not zero

\* No ask is called as who holds _initialization_lock may be.
ASSUME RuntimeAssumption ==
  /\ MaxLaunches \in Nat
  /\ Asks \intersect {"nobody", "poller", "close"} = {}

VARIABLES
  future, regs, hooks, poller, stopping, page, delivery, forgotten,  \* the poller's
  pc,        \* per call: where ask() or recover() is
  work,      \* per ask: where _execute_in_page is
  outcome,   \* per ask: what _execute_in_page ended with
  submitted, \* the asks whose prompt may be sent and whose turn can be found again
  held,      \* the asks with has_admission
  seen,      \* per ask: the context it drives a page of
  context,   \* _context, 0 for None
  launches,  \* the contexts launched so far, numbered from 1
  alive,     \* the contexts whose browser process runs
  profile,   \* the profile lock: free, ours or other (a login child, a doctor)
  opener,    \* who launches a context under _initialization_lock, or "nobody"
  dropper,   \* who closes one under it: an ask, "close", or "nobody"
  doomed,    \* the context that is being closed
  ending,    \* the poller that was taken out is still being closed
  old        \* per ask: what a closed poller has of its pending future: none, registered,
             \* unstarted or saving (a delivery), or adrift (one that outlives the close)

Poller == INSTANCE DetachPoller

pollerVars == <<future, regs, hooks, poller, stopping, page, delivery, forgotten>>
browserVars == <<context, launches, alive, profile, opener, dropper, doomed, ending, old>>
askVars == <<pc, work, outcome, submitted, held, seen>>
vars == <<gateVars, pollerVars, browserVars, askVars>>

InitLockFree == opener = "nobody" /\ dropper = "nobody"

Init ==
  /\ GateInit
  /\ Poller!PollerInit
  /\ pc = [a \in Asks |-> "idle"]
  /\ work = [a \in Asks |-> "none"]
  /\ outcome = [a \in Asks |-> "none"]
  /\ submitted = {}
  /\ held = {}
  /\ seen = [a \in Asks |-> 0]
  /\ context = 0
  /\ launches = 0
  /\ alive = {}
  /\ profile = "free"
  /\ opener = "nobody"
  /\ dropper = "nobody"
  /\ doomed = 0
  /\ ending = FALSE
  /\ old = [a \in Asks |-> "none"]

Goto(a, place) == pc' = [pc EXCEPT ![a] = place]
Work(a, place) == work' = [work EXCEPT ![a] = place]

\* Every release is passed on, the second one of an ask too.
ReleaseAdmission_Always(a) == held' = held \ {a} /\ Release(a)

\* release_admission
ReleaseAdmission(a) ==
  /\ held' = held \ {a}
  /\ IF a \in held THEN Release(a) ELSE UNCHANGED gateVars

\* A closed poller has the future.
Left(a) == old[a] # "none" \/ a \in forgotten \ regs

\* future.cancel(): nothing of a closed poller is left to tell.
GiveUp(a) ==
  IF future[a] = "pending" /\ ~Left(a)
  THEN Poller!Abandon(a) /\ UNCHANGED old
  ELSE /\ future' = [future EXCEPT ![a] = IF @ = "pending" THEN "cancelled" ELSE @]
       /\ old' = [old EXCEPT ![a] = "none"]
       /\ forgotten' = forgotten \ {a}
       /\ UNCHANGED <<regs, hooks, poller, stopping, page, delivery>>

---------------------------------------------------------------------------
(* _get_context, under _initialization_lock *)

\* Who is in _get_context: calls before the gate and behind it, and the poller.
NeedsContext == {a \in Asks : pc[a] \in {"starting", "reopening"}}
                \union (IF poller = "polling" /\ ~stopping /\ ~page /\ regs # {} THEN {"poller"} ELSE {})

LaunchBegins(who) ==
  /\ InitLockFree /\ who \in NeedsContext
  /\ context = 0 /\ profile = "free" /\ launches < MaxLaunches
  /\ profile' = "ours"
  /\ launches' = launches + 1
  /\ alive' = alive \union {launches'}
  /\ opener' = who
  /\ UNCHANGED <<context, dropper, doomed, ending, old, gateVars, pollerVars, askVars>>

LaunchEnds ==
  /\ opener # "nobody" /\ opener \in NeedsContext
  /\ context' = launches
  /\ opener' = "nobody"
  /\ UNCHANGED <<launches, alive, profile, dropper, doomed, ending, old, gateVars, pollerVars, askVars>>

\* The call returns or raises: the finally of ask.
CallEnds(a) ==
  /\ Goto(a, "ended")
  /\ ReleaseAdmission(a)
  /\ UNCHANGED <<work, outcome, submitted, seen>>

\* The poller does not get its page: it fails what is registered, or the wait
\* was over at the nearest deadline and it goes on.
PollerWithoutPage ==
  \/ Poller!PollerFails
  \/ UNCHANGED pollerVars

\* Launching or clearing the cookies fails, or is cancelled: the browser is
\* stopped, then the lock released.
LaunchFails ==
  /\ opener # "nobody"
  /\ alive' = alive \ {launches}
  /\ profile' = "free"
  /\ opener' = "nobody"
  /\ IF opener \in NeedsContext
     THEN IF opener = "poller"
          THEN PollerWithoutPage /\ UNCHANGED <<gateVars, askVars>>
          ELSE CallEnds(opener) /\ UNCHANGED pollerVars
     ELSE UNCHANGED <<gateVars, askVars, pollerVars>>
  /\ UNCHANGED <<context, launches, dropper, doomed, ending, old>>

\* The profile lock is somebody else's, or (the bound) launches are used up.
ProfileInUse(who) ==
  /\ InitLockFree /\ who \in NeedsContext
  /\ context = 0 /\ (profile = "other" \/ launches = MaxLaunches)
  /\ IF who = "poller"
     THEN PollerWithoutPage /\ UNCHANGED <<gateVars, askVars>>
     ELSE CallEnds(who) /\ UNCHANGED pollerVars
  /\ UNCHANGED browserVars

---------------------------------------------------------------------------
(* ask and recover *)

Call(a) ==
  /\ pc[a] = "idle"
  /\ Goto(a, "starting")
  /\ UNCHANGED <<work, outcome, submitted, held, seen, gateVars, pollerVars, browserVars>>

\* recover registers at once: it needs no admission.
CallRecover(a) ==
  /\ pc[a] = "idle" /\ RecoveryIsOn
  /\ Poller!Register(a)
  /\ Goto(a, "recovering")
  /\ UNCHANGED <<work, outcome, submitted, held, seen, gateVars, browserVars>>

EnterGate(a) ==
  /\ pc[a] = "starting" /\ InitLockFree /\ context # 0
  /\ Acquire(a)
  /\ IF a \in admitted'
     THEN Goto(a, "delaying") /\ held' = held \union {a}
     ELSE Goto(a, "queueing") /\ UNCHANGED held
  /\ UNCHANGED <<work, outcome, submitted, seen, pollerVars, browserVars>>

PassGate(a) ==
  /\ pc[a] = "queueing"
  /\ Awake(a)
  /\ IF a \in admitted'
     THEN Goto(a, "delaying") /\ held' = held \union {a}
     ELSE UNCHANGED <<pc, held>>
  /\ UNCHANGED <<work, outcome, submitted, seen, pollerVars, browserVars>>

DelayOver(a) ==
  /\ pc[a] = "delaying"
  /\ Goto(a, "reopening")
  /\ UNCHANGED <<work, outcome, submitted, held, seen, gateVars, pollerVars, browserVars>>

StartPage(a) ==
  /\ pc[a] = "reopening" /\ InitLockFree /\ context # 0
  /\ Goto(a, "executing")
  /\ Work(a, "driving")
  /\ seen' = [seen EXCEPT ![a] = context]
  /\ UNCHANGED <<outcome, submitted, held, gateVars, pollerVars, browserVars>>

\* After a failure the turn is polled for if it may have been sent.
MayRecover(a) == outcome[a] = "failure" /\ a \in submitted /\ RecoveryIsOn

\* _execute_in_page ended with an answer, or with a failure that stays one.
Return(a) ==
  /\ pc[a] = "executing" /\ work[a] = "gone" /\ ~MayRecover(a)
  /\ CallEnds(a)
  /\ UNCHANGED <<pollerVars, browserVars>>

StartRecovery(a) ==
  /\ pc[a] = "executing" /\ work[a] = "gone" /\ MayRecover(a)
  /\ Poller!Register(a)
  /\ Goto(a, "recovering")
  /\ ReleaseAdmission(a)
  /\ UNCHANGED <<work, outcome, submitted, seen, browserVars>>

Recovered(a) ==
  /\ pc[a] = "recovering" /\ future[a] = "settled"
  /\ CallEnds(a)
  /\ UNCHANGED <<pollerVars, browserVars>>

\* The cancellation of the ask that closes the old poller ends the close at its
\* await: what is registered there is not failed, nor a delivery that never ran.  A
\* delivery that runs goes on.
CloseCutOff ==
  /\ ending' = FALSE
  /\ forgotten' = forgotten \union {a \in Asks : old[a] \in {"registered", "unstarted"}}
  /\ old' = [a \in Asks |-> IF old[a] \in {"saving", "adrift"} THEN "adrift" ELSE "none"]
  /\ UNCHANGED <<future, regs, hooks, poller, stopping, page, delivery>>

\* The execution deadline, or the cancellation of the call, behind the gate: the
\* task that drives the page is cancelled, a future is given up.  Who discards a
\* context waits for no future.
Deadline(a) ==
  /\ pc[a] \in {"delaying", "reopening", "executing", "recovering"}
  /\ Goto(a, "ended")
  /\ ReleaseAdmission(a)
  /\ Work(a, CASE work[a] \in {"driving", "handing"} -> "leaving"
               [] work[a] = "detached" -> "gone"
               [] OTHER -> work[a])
  /\ IF dropper = a /\ ending THEN CloseCutOff ELSE GiveUp(a) /\ UNCHANGED ending
  /\ UNCHANGED <<outcome, submitted, seen>>
  /\ UNCHANGED <<context, launches, alive, profile, opener, dropper, doomed>>

\* The call is cancelled before it is admitted.
CancelStarting(a) ==
  /\ pc[a] = "starting"
  /\ Goto(a, "ended")
  /\ UNCHANGED <<work, outcome, submitted, held, seen, gateVars, pollerVars, browserVars>>

CancelQueueing(a) ==
  /\ pc[a] = "queueing"
  /\ Withdraw(a)
  /\ Goto(a, "ended")
  /\ UNCHANGED <<work, outcome, submitted, held, seen, pollerVars, browserVars>>

---------------------------------------------------------------------------
(* _execute_in_page *)

Submit(a) ==
  /\ work[a] = "driving" /\ seen[a] \in alive
  /\ submitted' = submitted \union {a}
  /\ UNCHANGED <<pc, work, outcome, held, seen, gateVars, pollerVars, browserVars>>

\* The answer is there, the page is being closed; or driving it fails.
DriveEnds(a) ==
  /\ work[a] = "driving"
  /\ Work(a, "leaving")
  /\ \E result \in {"failure", "error"} \union (IF a \in submitted THEN {"answer"} ELSE {}) :
       outcome' = [outcome EXCEPT ![a] = result]
  /\ UNCHANGED <<pc, submitted, held, seen, gateVars, pollerVars, browserVars>>

\* on_detach, while another call waits for admission: the turn is registered,
\* then its page is closed.
Detach(a) ==
  /\ work[a] = "driving" /\ a \in submitted
  /\ \E b \in Asks : pc[b] = "queueing"
  /\ Poller!Register(a)
  /\ Work(a, "handing")
  /\ UNCHANGED <<pc, outcome, submitted, held, seen, gateVars, browserVars>>

HandedOver(a) ==
  /\ work[a] = "handing"
  /\ Work(a, "detached")
  /\ ReleaseAdmission(a)
  /\ UNCHANGED <<pc, outcome, submitted, seen, pollerVars, browserVars>>

HandoverFails(a) ==
  /\ work[a] = "handing"
  /\ GiveUp(a)
  /\ Work(a, "leaving")
  /\ outcome' = [outcome EXCEPT ![a] = "failure"]
  /\ ReleaseAdmission(a)
  /\ UNCHANGED <<pc, submitted, seen>>
  /\ UNCHANGED <<context, launches, alive, profile, opener, dropper, doomed, ending>>

DetachedSettles(a) ==
  /\ work[a] = "detached" /\ future[a] = "settled"
  /\ Work(a, "gone")
  /\ \E result \in {"answer", "failure"} : outcome' = [outcome EXCEPT ![a] = result]
  /\ UNCHANGED <<pc, submitted, held, seen, gateVars, pollerVars, browserVars>>

PageLeft(a) ==
  /\ work[a] = "leaving" /\ dropper # a
  /\ Work(a, "gone")
  /\ UNCHANGED <<pc, outcome, submitted, held, seen, gateVars, pollerVars, browserVars>>

---------------------------------------------------------------------------
(* _discard_context and aclose *)

\* The close of the poller waits for its task, its deliveries or its page.
CloseWaits == poller \in {"polling", "closing"} \/ Poller!Deliveries # {} \/ page

\* What the close finds of a pending future.  A delivery that was just created
\* starts if the task is waited for first; otherwise its cancellation comes before.
Found(a) ==
  CASE a \in regs -> "registered"
    [] delivery[a] = "new" /\ poller \notin {"polling", "closing"} -> "unstarted"
    [] OTHER -> "saving"

\* The context and its poller are taken out; the rest happens to the old ones.
DropBegins(who) ==
  /\ context' = 0
  /\ doomed' = context
  /\ dropper' = who
  /\ ending' = CloseWaits
  /\ LET pending == {a \in Asks : future[a] = "pending" /\ ~Left(a)}
     IN  IF CloseWaits
         THEN /\ old' = [a \in Asks |-> IF a \in pending THEN Found(a) ELSE old[a]]
              /\ UNCHANGED future
         ELSE /\ future' = Poller!Settled(pending)
              /\ UNCHANGED old
  /\ Poller!PollerReplaced
  /\ UNCHANGED <<launches, alive, profile, opener, gateVars, askVars>>

\* A page of a broken context was met; another ask may have discarded it already.
Discard(a) ==
  /\ work[a] = "leaving" /\ seen[a] \notin alive
  /\ InitLockFree /\ seen[a] = context
  /\ DropBegins(a)

\* aclose comes when no job runs: a login begins, or the jobs were cancelled.
Close ==
  /\ InitLockFree /\ context # 0
  /\ \A a \in Asks : pc[a] = "ended"
  /\ DropBegins("close")

\* The registrations are dropped with their futures pending.
OldPollerClosed_Forgets ==
  /\ ending
  /\ ending' = FALSE
  /\ old' = [a \in Asks |-> IF old[a] = "adrift" THEN "adrift" ELSE "none"]
  /\ UNCHANGED pollerVars
  /\ UNCHANGED <<context, launches, alive, profile, opener, dropper, doomed, gateVars, askVars>>

\* The futures of the old poller in these places get their failure.
OldFails(places) ==
  /\ future' = Poller!Settled({a \in Asks : old[a] \in places})
  /\ old' = [a \in Asks |-> IF old[a] \in places THEN "none" ELSE old[a]]
  /\ UNCHANGED <<regs, hooks, poller, stopping, page, delivery, forgotten>>
  /\ UNCHANGED <<context, launches, alive, profile, opener, dropper, doomed, gateVars, askVars>>

\* The deliveries are over, the page is still to be closed.
OldDeliveriesClosed ==
  /\ ending
  /\ \E a \in Asks : old[a] = "unstarted"
  /\ OldFails({"unstarted", "saving"})
  /\ UNCHANGED ending

\* DetachPoller.aclose fails what is still pending.
OldPollerClosed ==
  /\ ending
  /\ ending' = FALSE
  /\ OldFails({"registered", "unstarted", "saving"})

\* A delivery of the old poller settles its future, also when it was cancelled.
OldDeliverySettles(a) ==
  /\ old[a] \in {"saving", "adrift"}
  /\ future' = Poller!Settled({a})
  /\ old' = [old EXCEPT ![a] = "none"]
  /\ UNCHANGED <<regs, hooks, poller, stopping, page, delivery, forgotten>>
  /\ UNCHANGED <<context, launches, alive, profile, opener, dropper, doomed, ending>>
  /\ UNCHANGED <<gateVars, askVars>>

\* The profile lock is released and the browser still runs.
DropEnds_LeavesBrowser ==
  /\ dropper # "nobody" /\ ~ending
  /\ profile' = IF doomed # 0 THEN "free" ELSE profile
  /\ dropper' = "nobody"
  /\ doomed' = 0
  /\ UNCHANGED <<context, launches, alive, opener, ending, old, gateVars, pollerVars, askVars>>

\* The browser is closed, then the profile lock released.
DropEnds ==
  /\ dropper # "nobody" /\ ~ending
  /\ alive' = alive \ {doomed}
  /\ profile' = IF doomed # 0 THEN "free" ELSE profile
  /\ dropper' = "nobody"
  /\ doomed' = 0
  /\ UNCHANGED <<context, launches, opener, ending, old, gateVars, pollerVars, askVars>>

---------------------------------------------------------------------------
(* The surroundings: the browser crashes, others use the profile, the       *)
(* limit is changed.                                                        *)

Crash ==
  /\ context \in alive
  /\ alive' = alive \ {context}
  /\ UNCHANGED <<context, launches, profile, opener, dropper, doomed, ending, old,
                 gateVars, pollerVars, askVars>>

OthersUseProfile ==
  /\ \/ profile = "free" /\ profile' = "other"
     \/ profile = "other" /\ profile' = "free"
  /\ UNCHANGED <<context, launches, alive, opener, dropper, doomed, ending, old,
                 gateVars, pollerVars, askVars>>

ChangeLimit ==
  /\ \E n \in Limits \ {limit} : SetLimit(n)
  /\ UNCHANGED <<pollerVars, browserVars, askVars>>

PollerMoves ==
  /\ \/ opener # "poller" /\ Poller!PollerTask
     \/ InitLockFree /\ context \in alive /\ Poller!OpenPage
     \/ Poller!PollerCallbacks
  /\ UNCHANGED <<gateVars, browserVars, askVars>>
-------------------------------------------------------------------------------
\* What a call does by itself, and what its task does.
CallStep(a) ==
  \/ LaunchBegins(a) \/ ProfileInUse(a)
  \/ EnterGate(a) \/ PassGate(a) \/ DelayOver(a) \/ StartPage(a)
  \/ Return(a) \/ StartRecovery(a) \/ Recovered(a)

WorkStep(a) ==
  \/ Submit(a) \/ DriveEnds(a) \/ Detach(a) \/ HandedOver(a) \/ HandoverFails(a)
  \/ DetachedSettles(a) \/ PageLeft(a) \/ Discard(a)

LockStep == LaunchEnds \/ LaunchFails \/ OldPollerClosed \/ DropEnds

Next ==
  \/ \E a \in Asks :
       \/ Call(a) \/ CallRecover(a) \/ Deadline(a)
       \/ CancelStarting(a) \/ CancelQueueing(a)
       \/ CallStep(a) \/ WorkStep(a) \/ OldDeliverySettles(a)
  \/ LaunchBegins("poller") \/ ProfileInUse("poller") \/ PollerMoves
  \/ LockStep \/ OldDeliveriesClosed \/ Close
  \/ Crash \/ OthersUseProfile \/ ChangeLimit

\* The event loop runs what is ready; a deadline comes.
Fairness ==
  /\ \A a \in Asks : WF_vars(CallStep(a)) /\ WF_vars(Deadline(a))
  /\ WF_vars(LockStep)

Spec == Init /\ [][Next]_vars /\ Fairness
-------------------------------------------------------------------------------
TypeOK ==
  /\ GateTypeOK
  /\ pc \in [Asks -> {"idle", "starting", "queueing", "delaying", "reopening",
                      "executing", "recovering", "ended"}]
  /\ work \in [Asks -> {"none", "driving", "handing", "detached", "leaving", "gone"}]
  /\ regs \union hooks \union submitted \union held \union forgotten \subseteq Asks
  /\ context \in 0..MaxLaunches /\ alive \subseteq 1..MaxLaunches
  /\ profile \in {"free", "ours", "other"}

\* No permit is lost and none is made up: an ask holds one exactly from its
\* admission to the first of its releases, whichever of detaching, a failed
\* detaching, recovery and the end of the call comes first (release_admission).
AdmissionsBalance ==
  /\ TypeOK
  /\ PermitsConserved
  /\ held = admitted
  /\ \A a \in Asks : a \in held =>
       pc[a] \in {"delaying", "reopening", "executing"}

\* A browser runs on the profile only under its lock, one at a time; and the
\* lock is not kept when no browser is there or on its way (_get_context,
\* _discard_context, aclose: the browser is stopped before the lock is let go).
ProfileGuarded ==
  /\ Cardinality(alive) <= 1
  /\ alive # {} => profile = "ours"
  /\ InitLockFree /\ context = 0 => profile # "ours"

\* A future that somebody waits for is with a poller whose task is not done, with
\* a delivery, or with a poller that is being closed and fails it (DetachPoller);
\* but for those that a cancellation made it forget: of the task in its finally
\* (CloseCancelled) or of the close (CloseCutOff).
FuturesHaveAnOwner ==
  \A a \in Asks : future[a] = "pending" =>
    \/ a \in regs /\ poller \in {"polling", "closing"}
    \/ delivery[a] \in {"new", "saving"}
    \/ old[a] \in {"registered", "unstarted", "saving"} /\ ending /\ dropper # "nobody"
    \/ old[a] = "adrift"
    \/ a \in forgotten

\* Every call comes to an end: no lost permit, no lock that stays taken and no
\* forgotten future holds one up.
EveryCallEnds ==
  \A a \in Asks : (pc[a] # "idle") ~> (pc[a] = "ended")
===============================================================================
