------------------------------ MODULE DetachPoller ------------------------------
(***************************************************************************)
(* DetachPoller of gptpro/runtime.py: answers of turns whose own page was  *)
(* given up are fetched by one task through one resident page.  A turn is  *)
(* registered with a future; the task is started by the first registration *)
(* and ends with the last one.  A turn whose answer has files leaves the   *)
(* polled registrations and is finished by a delivery task of its own,     *)
(* which shares the page.                                                  *)
(*                                                                         *)
(* A step here is what runs between two awaits.  A cancelled future tells  *)
(* the poller by a callback of a later step, and a cancelled task notices  *)
(* at a later step: hooks and stopping hold what is on its way.            *)
(***************************************************************************)
EXTENDS Integers, FiniteSets, BackendFetch

CONSTANTS Asks  \* the calls whose turns are registered, each at most once at a time

VARIABLES future,    \* per ask: none, pending, settled or cancelled
          regs,      \* _registrations
          hooks,     \* the cancelled futures whose callback did not run yet
          poller,    \* _task: none, polling, closing (its finally) or dead (done)
          stopping,  \* a cancellation of _task is on its way
          page,      \* the resident page is open
          delivery,  \* per ask, its task: none, new, behind, saving, cancelled or stuck
          forgotten  \* history: the asks with a pending future that nothing settles

pollerVars == <<future, regs, hooks, poller, stopping, page, delivery, forgotten>>

Deliveries == {a \in Asks : delivery[a] # "none"}

PollerInit ==
  /\ future = [a \in Asks |-> "none"]
  /\ regs = {}
  /\ hooks = {}
  /\ poller = "none"
  /\ stopping = FALSE
  /\ page = FALSE
  /\ delivery = [a \in Asks |-> "none"]
  /\ forgotten = {}

Settled(S) == [a \in Asks |-> IF a \in S /\ future[a] = "pending" THEN "settled" ELSE future[a]]

\* register.  A new task polls what an old one left, too.
Register(a) ==
  /\ future[a] # "pending"
  /\ a \notin regs \union hooks \union Deliveries
  /\ future' = [future EXCEPT ![a] = "pending"]
  /\ regs' = regs \union {a}
  /\ poller' = IF poller \in {"none", "dead"} THEN "polling" ELSE poller
  /\ forgotten' = forgotten \ regs
  /\ UNCHANGED <<hooks, stopping, page, delivery>>

\* The caller gives up: its future is cancelled, the callback is scheduled.
Abandon(a) ==
  /\ future[a] = "pending"
  /\ future' = [future EXCEPT ![a] = "cancelled"]
  /\ hooks' = hooks \union {a}
  /\ forgotten' = forgotten \ {a}
  /\ UNCHANGED <<regs, poller, stopping, page, delivery>>

\* _on_registration_done, for a cancelled future.  A delivery that is cancelled
\* before its first step never runs: nothing takes it out of _deliveries.
RegistrationDone(a) ==
  /\ a \in hooks /\ delivery[a] # "new"
  /\ hooks' = hooks \ {a}
  /\ regs' = regs \ {a}
  /\ delivery' = [delivery EXCEPT ![a] =
                    CASE @ = "behind" -> "stuck"
                      [] @ = "saving" -> "cancelled"
                      [] OTHER -> @]
  /\ stopping' = (stopping \/ /\ regs' = {} /\ Deliveries = {}
                              /\ poller \in {"polling", "closing"})
  /\ UNCHANGED <<future, poller, page, forgotten>>

\* _ensure_page
OpenPage ==
  /\ poller = "polling" /\ ~stopping /\ ~page /\ regs # {}
  /\ page' = TRUE
  /\ UNCHANGED <<future, regs, hooks, poller, stopping, delivery, forgotten>>

\* _poll_registration settles a with the answer or with a failure; or its deadline
\* has come (_complete_if_stale), with or without a page.
PollSettles(a) ==
  /\ poller = "polling" /\ ~stopping /\ a \in regs
  /\ \E result \in PollResults \union {"stale"} :
       \/ result = "stale"
       \/ result \in {"answer", "failure"} /\ page
  /\ regs' = regs \ {a}
  /\ future' = Settled({a})
  /\ UNCHANGED <<hooks, poller, stopping, page, delivery, forgotten>>

\* _poll_registration finds an answer, and it has files.  The event loop runs what
\* is ready in order: a callback that is already scheduled comes before the
\* first step of the delivery, one that is scheduled later comes after it.
PollDelivers(a) ==
  /\ poller = "polling" /\ ~stopping /\ page /\ a \in regs
  /\ "answer" \in PollResults
  /\ regs' = regs \ {a}
  /\ delivery' = [delivery EXCEPT ![a] = IF a \in hooks THEN "behind" ELSE "new"]
  /\ UNCHANGED <<future, hooks, poller, stopping, page, forgotten>>

\* The end of _run: its finally, up to the await of page.close().
Finally(rest) ==
  IF Deliveries = {} /\ page
  THEN poller' = "closing" /\ page' = FALSE
  ELSE /\ poller' = IF rest # {} THEN "polling" ELSE "none"
       /\ UNCHANGED page

\* No registration is left, or an unexpected error fails those that are, or
\* the task is cancelled in its loop.
PollerLeaves ==
  /\ poller = "polling" /\ ~stopping /\ regs = {}
  /\ Finally({})
  /\ UNCHANGED <<future, regs, hooks, stopping, delivery, forgotten>>

PollerFails ==
  /\ poller = "polling" /\ ~stopping
  /\ future' = Settled(regs)
  /\ regs' = {}
  /\ Finally({})
  /\ UNCHANGED <<hooks, stopping, delivery, forgotten>>

PollerStops ==
  /\ poller = "polling" /\ stopping
  /\ stopping' = FALSE
  /\ Finally(regs)
  /\ UNCHANGED <<future, regs, hooks, delivery, forgotten>>

\* page.close() returned: the rest of the finally, which starts a new task for
\* what was registered meanwhile.
PageClosed ==
  /\ poller = "closing" /\ ~stopping
  /\ poller' = IF regs # {} THEN "polling" ELSE "none"
  /\ UNCHANGED <<future, regs, hooks, stopping, page, delivery, forgotten>>

\* The cancellation reaches the finally: the rest of it does not run, and nobody
\* polls what was registered meanwhile.
CloseCancelled ==
  /\ poller = "closing" /\ stopping
  /\ poller' = "dead"
  /\ stopping' = FALSE
  /\ forgotten' = forgotten \union {a \in regs : future[a] = "pending"}
  /\ UNCHANGED <<future, regs, hooks, page, delivery>>

\* _deliver
DeliveryStarts(a) ==
  /\ delivery[a] = "new"
  /\ delivery' = [delivery EXCEPT ![a] = "saving"]
  /\ UNCHANGED <<future, regs, hooks, poller, stopping, page, forgotten>>

DeliveryEnds(a) ==
  /\ delivery[a] \in {"saving", "cancelled"}
  /\ delivery' = [delivery EXCEPT ![a] = "none"]
  /\ future' = Settled({a})
  /\ page' = (page /\ ~(regs = {} /\ Deliveries = {a} /\ poller = "none"))
  /\ UNCHANGED <<regs, hooks, poller, stopping, forgotten>>

\* The poller that takes the place of one that is closed: nothing of the old one
\* reaches it.
PollerReplaced ==
  /\ regs' = {}
  /\ hooks' = {}
  /\ poller' = "none"
  /\ stopping' = FALSE
  /\ page' = FALSE
  /\ delivery' = [a \in Asks |-> "none"]
  /\ forgotten' = forgotten \ regs

\* What the polling task does, and what runs beside it.
PollerTask ==
  \/ \E a \in Asks : PollSettles(a) \/ PollDelivers(a)
  \/ PollerLeaves \/ PollerFails \/ PollerStops \/ PageClosed \/ CloseCancelled

PollerCallbacks ==
  \E a \in Asks : RegistrationDone(a) \/ DeliveryStarts(a) \/ DeliveryEnds(a)
===============================================================================
