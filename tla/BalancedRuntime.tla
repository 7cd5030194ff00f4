---------------------------- MODULE BalancedRuntime ----------------------------
(***************************************************************************)
(* The lifecycle of balanced routing (src/claudex/balanced/runtime.py): an *)
(* administrator enables and leaves the mode, the process shuts down,      *)
(* crashes and restarts, while requests are dispatched                     *)
(* (_passthrough_with_claude_balanced) and the usage poll driver runs.     *)
(*                                                                         *)
(* The handlers that change the mode hold admin_lock and the runtime its   *)
(* lifecycle lock, so op is the one operation under way.  An epoch stands  *)
(* for itself and the pins it owns; rotation is the outcome of the epoch   *)
(* rotation that was handed to the runtime store.                          *)
(***************************************************************************)
EXTENDS Naturals

CONSTANTS
  Requests,   \* the requests for unmapped models
  OtherModes, \* the routing modes other than "balanced"
  NoEpoch,    \* no router
  WaitLimit,  \* _BALANCED_TRANSITION_WAIT_LIMIT
  MaxOps,     \* bound: operations of the administrator, shutdowns and crashes
  MaxEpoch    \* bound: epochs minted

Modes == OtherModes \cup {"balanced"}

ASSUME Assumption ==
  /\ "balanced" \notin OtherModes
  /\ NoEpoch \notin Nat
  /\ WaitLimit \in Nat \ {0}
  /\ {MaxOps, MaxEpoch} \subseteq Nat

VARIABLES
  up,        \* the process runs
  persisted, \* claude_account.routing in the settings file
  published, \* app.state.config.claude_account_routing_mode
  status,    \* status
  epoch,     \* epoch_id of the live router
  store,     \* the runtime store of this process is open
  driver,    \* the usage poll driver task
  op,        \* the lifecycle operation under way
  rotation,  \* the PendingWrite of its epoch rotation
  diskEpoch, \* balanced_epoch_id in the runtime database
  minted,    \* epochs minted so far
  retired,   \* history: epochs the administrator has left for good
  req,       \* the requests
  ops        \* operations and crashes so far (bounded)

runtime == <<status, epoch, store, driver>>
modes == <<persisted, published>>
durableEpoch == <<diskEpoch, minted>>
vars == <<up, modes, runtime, op, rotation, durableEpoch, retired, req, ops>>

-----------------------------------------------------------------------------
NoOp == [kind |-> "none", to |-> "balanced"]
Idle == up /\ op = NoOp

(* The transition event is clear exactly in these two states. *)
InTransition == status \in {"acquiring", "draining"}

Slots == {r \in Requests : req[r].at = "serving"}
Woken == {r \in Requests : req[r].at = "woken"}

(* An operation starts in a later turn of the event loop than the requests the
   last transition woke. *)
Starts ==
  /\ Idle
  /\ Woken = {}
  /\ ops < MaxOps
  /\ ops' = ops + 1

(* mutant: the end of the transition is not signalled *)
WakeWaiters_Nobody == UNCHANGED req

(* _transition_event.set *)
WakeWaiters ==
  req' = [r \in Requests |-> IF req[r].at = "waiting"
                               THEN [req[r] EXCEPT !.at = "woken"] ELSE req[r]]

Closed == store' = FALSE /\ epoch' = NoEpoch /\ status' = "disabled"

(* The writer thread of the store settles the rotation. *)
RotationCommits ==
  /\ rotation = "submitted"
  /\ rotation' = "committed"
  /\ diskEpoch' = minted
  /\ UNCHANGED <<up, modes, runtime, op, minted, retired, req, ops>>

RotationFails ==
  /\ rotation = "submitted"
  /\ rotation' = "failed"
  /\ UNCHANGED <<up, modes, runtime, op, durableEpoch, retired, req, ops>>

SubmitRotation ==
  /\ minted < MaxEpoch
  /\ minted' = minted + 1
  /\ rotation' = "submitted"

-----------------------------------------------------------------------------
(* Enabling: prepare_and_publish *)

(* The administrator enables balanced routing, or retries it after startup
   could not restore it: open the store and rotate the epoch. *)
Enable ==
  /\ Starts
  /\ status = "disabled"
  /\ status' = "acquiring"
  /\ store' = TRUE
  /\ op' = [kind |-> "enable", to |-> "balanced"]
  /\ SubmitRotation
  /\ UNCHANGED <<up, modes, epoch, driver, diskEpoch, retired, req>>

(* The rotation is durable and every check passes: restore, construct the
   router, persist the mode, and publish, without an await. *)
Publish ==
  /\ up
  /\ op.kind = "enable"
  /\ rotation = "committed"
  /\ persisted' = "balanced"
  /\ published' = "balanced"
  /\ epoch' = diskEpoch
  /\ status' = "active"
  /\ driver' = "running"
  /\ op' = NoOp
  /\ rotation' = "none"
  /\ WakeWaiters
  /\ UNCHANGED <<up, store, durableEpoch, retired, ops>>

(* The rotation failed, an account has no fingerprint, the restore or the
   settings file failed, or the caller was cancelled.  Closing the store lets a
   rotation that was still queued commit or fail. *)
EnableFails ==
  /\ up
  /\ op.kind = "enable"
  /\ Closed
  /\ op' = NoOp
  /\ rotation' = "none"
  /\ \/ rotation = "submitted" /\ diskEpoch' = minted
     \/ UNCHANGED diskEpoch
  /\ WakeWaiters
  /\ UNCHANGED <<up, modes, driver, minted, retired, ops>>

-----------------------------------------------------------------------------
(* A change between two other modes is a swap of the settings. *)
Switch(mode) ==
  /\ Starts
  /\ published # "balanced"
  /\ persisted' = mode
  /\ published' = mode
  /\ UNCHANGED <<up, runtime, op, rotation, durableEpoch, retired, req>>

-----------------------------------------------------------------------------
(* Leaving: exit_mode and _finalize_exit *)

(* Startup had failed: persist and publish, with nothing to tear down.  When
   persisting fails nothing changes. *)
ExitInactive(mode) ==
  /\ Starts
  /\ status = "disabled"
  /\ published = "balanced"
  /\ persisted' = mode
  /\ published' = mode
  /\ retired' = retired \cup {diskEpoch}
  /\ UNCHANGED <<up, runtime, op, rotation, durableEpoch, req>>

(* mutant: the epoch is rotated before the new mode is persisted *)
BeginExit_RotatesFirst(mode) ==
  /\ Starts
  /\ status = "active"
  /\ status' = "draining"
  /\ op' = [kind |-> "exit", to |-> mode]
  /\ SubmitRotation
  /\ UNCHANGED <<up, modes, epoch, store, driver, diskEpoch, retired, req>>

BeginExit(mode) ==
  /\ Starts
  /\ status = "active"
  /\ status' = "draining"
  /\ op' = [kind |-> "exit", to |-> mode]
  /\ UNCHANGED <<up, modes, epoch, store, driver, rotation, durableEpoch, retired, req>>

(* mutant: the exit does not wait for the requests it found *)
Drained_Always == TRUE

(* _drain_complete *)
Drained == Slots = {}

(* Drained and persisted: the exit is committed. *)
CommitExit ==
  /\ up
  /\ op.kind = "exit"
  /\ Drained
  /\ persisted' = op.to
  /\ retired' = retired \cup {epoch}
  /\ op' = [op EXCEPT !.kind = "finalize"]
  /\ SubmitRotation
  /\ UNCHANGED <<up, published, runtime, diskEpoch, req, ops>>

(* mutant: an abandoned exit leaves the status behind *)
AbortExit_StillDraining ==
  /\ up
  /\ op.kind = "exit"
  /\ op' = NoOp
  /\ WakeWaiters
  /\ UNCHANGED <<up, modes, runtime, rotation, durableEpoch, retired, ops>>

(* The caller is cancelled while draining, or the mode cannot be persisted. *)
AbortExit ==
  /\ up
  /\ op.kind = "exit"
  /\ status' = "active"
  /\ op' = NoOp
  /\ WakeWaiters
  /\ UNCHANGED <<up, modes, epoch, store, driver, rotation, durableEpoch, retired, ops>>

(* The rotation has settled, well or badly: publish the mode.  The poll driver
   is told to stop. *)
PublishExit ==
  /\ up
  /\ op.kind = "finalize"
  /\ rotation \in {"committed", "failed"}
  /\ rotation' = "none"
  /\ published' = op.to
  /\ op' = [op EXCEPT !.kind = "close"]
  /\ driver' = "stopping"
  /\ UNCHANGED <<up, persisted, status, epoch, store, durableEpoch, retired, req, ops>>

DriverEnds ==
  /\ up
  /\ driver = "stopping"
  /\ driver' = "off"
  /\ UNCHANGED <<up, modes, status, epoch, store, op, rotation, durableEpoch, retired, req, ops>>

DriverStopped == driver = "off"

CloseAfterExit ==
  /\ up
  /\ op.kind = "close"
  /\ DriverStopped
  /\ Closed
  /\ op' = NoOp
  /\ WakeWaiters
  /\ UNCHANGED <<up, modes, driver, rotation, durableEpoch, retired, ops>>

-----------------------------------------------------------------------------
(* Shutdown, crash and restart *)

(* shutdown_preserving_epoch, from the lifespan of the server *)
Shutdown ==
  /\ Starts
  /\ IF status = "disabled"
       THEN op' = [NoOp EXCEPT !.kind = "ending"] /\ UNCHANGED status
       ELSE op' = [NoOp EXCEPT !.kind = "shutdown"] /\ status' = "draining"
  /\ UNCHANGED <<up, modes, epoch, store, driver, rotation, durableEpoch, retired, req>>

StopAtShutdown ==
  /\ up
  /\ op.kind = "shutdown"
  /\ Drained
  /\ driver = "running"
  /\ driver' = "stopping"
  /\ UNCHANGED <<up, modes, status, epoch, store, op, rotation, durableEpoch, retired, req, ops>>

CloseAtShutdown ==
  /\ up
  /\ op.kind = "shutdown"
  /\ Drained
  /\ DriverStopped
  /\ Closed
  /\ op' = [op EXCEPT !.kind = "ending"]
  /\ WakeWaiters
  /\ UNCHANGED <<up, modes, driver, rotation, durableEpoch, retired, ops>>

(* The process ends, after a shutdown or by a crash. *)
ProcessGone ==
  /\ up' = FALSE
  /\ Closed
  /\ driver' = "off"
  /\ op' = NoOp
  /\ rotation' = "none"
  /\ req' = [r \in Requests |-> IF req[r].at = "new" THEN req[r]
                                ELSE [req[r] EXCEPT !.at = "done"]]
  /\ UNCHANGED <<modes, durableEpoch, retired>>

End == up /\ op.kind = "ending" /\ Woken = {} /\ Slots = {} /\ ProcessGone /\ UNCHANGED ops
Crash == up /\ ops < MaxOps /\ ops' = ops + 1 /\ ProcessGone

(* The lifespan publishes the persisted mode.  If it is "balanced" it restores
   the runtime, without an await, before any request is accepted; a failure
   leaves the runtime disabled. *)
Restart ==
  /\ ~up
  /\ up' = TRUE
  /\ published' = persisted
  /\ \/ /\ persisted = "balanced"
        /\ status' = "active" /\ store' = TRUE /\ epoch' = diskEpoch /\ driver' = "running"
     \/ UNCHANGED runtime
  /\ UNCHANGED <<persisted, op, rotation, durableEpoch, retired, req, ops>>

-----------------------------------------------------------------------------
(* Requests: _passthrough_with_claude_balanced *)

(* The loop has a turn left after n of them. *)
TurnsLeft(n) == n < WaitLimit

(* The body of the loop: wait for the transition, be admitted, or end in the
   503 that means balanced routing is not active. *)
TryDispatch(r, turns) ==
  req' = [req EXCEPT ![r] =
            IF TurnsLeft(turns) /\ InTransition
              THEN [at |-> "waiting", turns |-> turns + 1, epoch |-> NoEpoch]
            ELSE IF TurnsLeft(turns) /\ status = "active"
              THEN [at |-> "serving", turns |-> turns, epoch |-> epoch]
            ELSE [at |-> "rejected", turns |-> turns, epoch |-> NoEpoch]]

ServedOtherwise(r) == req' = [req EXCEPT ![r].at = "done"]

Arrive(r) ==
  /\ up
  /\ op.kind # "ending"
  /\ req[r].at = "new"
  /\ IF published = "balanced" THEN TryDispatch(r, 0) ELSE ServedOtherwise(r)
  /\ UNCHANGED <<up, modes, runtime, op, rotation, durableEpoch, retired, ops>>

(* After the transition: read the published mode again. *)
Resume(r) ==
  /\ req[r].at = "woken"
  /\ IF published = "balanced" THEN TryDispatch(r, req[r].turns) ELSE ServedOtherwise(r)
  /\ UNCHANGED <<up, modes, runtime, op, rotation, durableEpoch, retired, ops>>

(* end_request: the response, streamed or not, has ended. *)
Finish(r) ==
  /\ req[r].at = "serving"
  /\ req' = [req EXCEPT ![r].at = "done"]
  /\ UNCHANGED <<up, modes, runtime, op, rotation, durableEpoch, retired, ops>>

-----------------------------------------------------------------------------
Init ==
  /\ up = FALSE
  /\ persisted \in Modes
  /\ published = persisted
  /\ status = "disabled" /\ epoch = NoEpoch /\ store = FALSE /\ driver = "off"
  /\ op = NoOp
  /\ rotation = "none"
  /\ diskEpoch = 0 /\ minted = 0
  /\ retired = {}
  /\ req = [r \in Requests |-> [at |-> "new", turns |-> 0, epoch |-> NoEpoch]]
  /\ ops = 0

Administrator ==
  \/ Enable
  \/ \E mode \in OtherModes : Switch(mode) \/ ExitInactive(mode) \/ BeginExit(mode)
  \/ Shutdown

(* What prepare_and_publish and exit_mode do after their first await. *)
PrepareAndPublish == Publish \/ EnableFails
ExitMode == CommitExit \/ AbortExit

Progress ==
  \/ RotationCommits \/ RotationFails
  \/ PrepareAndPublish
  \/ ExitMode \/ PublishExit \/ CloseAfterExit
  \/ DriverEnds
  \/ StopAtShutdown \/ CloseAtShutdown \/ End

Dispatch(r) == Resume(r) \/ Finish(r)

Next ==
  \/ Administrator
  \/ Progress
  \/ Crash
  \/ Restart
  \/ \E r \in Requests : Arrive(r) \/ Dispatch(r)

Spec == Init /\ [][Next]_vars

(* The event loop and the store's writer thread keep running what they have
   been given, and the response of an admitted request ends.  Nothing makes the
   administrator act, or the process crash or come back. *)
FairSpec == Spec /\ WF_vars(Progress) /\ \A r \in Requests : WF_vars(Dispatch(r))

-----------------------------------------------------------------------------
(* Properties *)

Epochs == 0..MaxEpoch
(* The types of the lifecycle; only epochs that were minted are ever retired. *)
TypeOK ==
  /\ up \in BOOLEAN
  /\ persisted \in Modes /\ published \in Modes
  /\ status \in {"disabled", "acquiring", "active", "draining"}
  /\ epoch \in Epochs \cup {NoEpoch}
  /\ store \in BOOLEAN
  /\ driver \in {"off", "running", "stopping"}
  /\ op \in [kind : {"none", "enable", "exit", "finalize", "close", "shutdown", "ending"},
             to : Modes]
  /\ rotation \in {"none", "submitted", "committed", "failed"}
  /\ diskEpoch \in Epochs /\ minted \in Epochs
  /\ retired \in SUBSET Epochs
  /\ req \in [Requests -> [at : {"new", "waiting", "woken", "serving", "rejected", "done"},
                           turns : 0..WaitLimit, epoch : Epochs \cup {NoEpoch}]]
  /\ ops \in 0..MaxOps

(* An admitted request has its router and store until its response ends, and
   they are those of the epoch it was admitted in, through exits that are
   cancelled or cannot be persisted and through shutdowns.  So has the usage
   poll driver, which writes to the store. *)
RequestsKeepTheirEpoch ==
  /\ TypeOK
  /\ \A r \in Slots : store /\ req[r].epoch = epoch
  /\ driver # "off" => store

(* Until an exit is committed, the epoch that routes is the durable one: a crash
   or an aborted exit loses no pin.  And once the administrator has left
   balanced routing, neither a crash at any point of the exit, nor a rotation
   that failed, nor a later enable brings the epoch, and the pins it owns, back
   into routing. *)
RoutedEpochIsDurable ==
  epoch # NoEpoch /\ op.kind \notin {"finalize", "close"} =>
    diskEpoch = epoch /\ epoch \notin retired

(* Every transition ends: an enable, an exit, an exit that was abandoned and a
   shutdown all leave "acquiring" and "draining". *)
TransitionsEnd == InTransition ~> ~InTransition

(* A request held up by a transition is answered in the end, whatever the mode
   is then, or ends with the process. *)
EveryRequestIsAnswered ==
  \A r \in Requests : req[r].at = "waiting" ~> req[r].at \in {"rejected", "done"}
=============================================================================
