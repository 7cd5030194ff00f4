------------------------- MODULE BalancedRuntimeProofs -------------------------
(***************************************************************************)
(* What holds of BalancedRuntime for any requests, modes and limits.  The  *)
(* invariant has four parts: the shape of the runtime in each lifecycle    *)
(* operation, the epochs, the requests that hold the router, and types.    *)
(* At the end, the usage polls that the runtime drives (UsagePolling).     *)
(***************************************************************************)
EXTENDS BalancedRuntime, UsagePolling, WellFoundedInduction, TLAPS

Kinds == {"none", "enable", "exit", "finalize", "close", "shutdown", "ending"}
Spots == {"new", "waiting", "woken", "serving", "rejected", "done"}
ReqRecords == [at : Spots, turns : 0..WaitLimit, epoch : Epochs \cup {NoEpoch}]

IsClosed == status = "disabled" /\ epoch = NoEpoch /\ ~store /\ driver = "off"
IsOpen == status \in {"active", "draining"} /\ epoch \in Epochs /\ store

\* The types, those of the requests apart.
ReqsTyped == req \in [Requests -> ReqRecords]

OthersTyped ==
  /\ up \in BOOLEAN
  /\ persisted \in Modes /\ published \in Modes
  /\ status \in {"disabled", "acquiring", "active", "draining"}
  /\ epoch \in Epochs \cup {NoEpoch}
  /\ store \in BOOLEAN
  /\ driver \in {"off", "running", "stopping"}
  /\ op \in [kind : Kinds, to : Modes]
  /\ rotation \in {"none", "submitted", "committed", "failed"}
  /\ diskEpoch \in Epochs /\ minted \in Epochs
  /\ retired \in SUBSET Epochs
  /\ ops \in 0..MaxOps

\* The operation under way tells which parts of the runtime there are, whether a
\* rotation is with the store, and that the mode is published.
LifecycleIInv ==
  /\ ~up => op = NoOp /\ IsClosed
  /\ op.kind = "none" => IsClosed \/ (IsOpen /\ status = "active")
  /\ op.kind = "enable" =>
       status = "acquiring" /\ epoch = NoEpoch /\ store /\ driver = "off"
  /\ op.kind \in {"exit", "finalize", "close", "shutdown"} => IsOpen /\ status = "draining"
  /\ op.kind = "ending" => IsClosed
  /\ op.kind = "exit" => op.to \in OtherModes
  /\ epoch # NoEpoch /\ op.kind # "close" => published = "balanced"
  /\ rotation # "none" <=> op.kind \in {"enable", "finalize"}

\* A rotation mints an epoch above every retired one, and the settings file says
\* "balanced" only while the durable epoch is not retired.
EpochsIInv ==
  /\ diskEpoch <= minted
  /\ \A e \in retired : e <= minted
  /\ rotation # "none" => minted \notin retired
  /\ rotation = "committed" => diskEpoch = minted
  /\ persisted = "balanced" => diskEpoch \notin retired
  /\ epoch # NoEpoch /\ op.kind \notin {"finalize", "close"} =>
       diskEpoch = epoch /\ persisted = "balanced"

\* A slot is taken in the live epoch, and none is left when an exit is committed.
SlotsIInv ==
  /\ \A r \in Slots : IsOpen /\ req[r].epoch = epoch
  /\ op.kind \in {"finalize", "close"} => Slots = {}

RestIInv == OthersTyped /\ LifecycleIInv /\ EpochsIInv

IInv == ReqsTyped /\ RestIInv /\ SlotsIInv
-------------------------------------------------------------------------------
(* What the steps do to the requests *)

\* Waking the waiters, or leaving the requests alone, gives and takes no slot.
LEMMA SlotsKept ==
  ASSUME ReqsTyped, WakeWaiters \/ UNCHANGED req
  PROVE  ReqsTyped' /\ Slots' = Slots /\ \A r \in Slots : req'[r] = req[r]
<1>1. CASE UNCHANGED req
  BY <1>1 DEF ReqsTyped, ReqRecords, Slots
<1>2. CASE WakeWaiters
  <2>1. ReqsTyped'
    <3>1. SUFFICES ASSUME NEW r \in Requests PROVE req'[r] \in ReqRecords
      BY <1>2 DEF ReqsTyped, WakeWaiters
    <3>2. req[r] \in ReqRecords /\ "woken" \in Spots
      BY DEF ReqsTyped, Spots
    <3>3. QED BY <1>2, <3>2 DEF WakeWaiters, ReqRecords
  <2>2. \A r \in Requests : req[r].at # "waiting" => req'[r] = req[r]
    BY <1>2 DEF WakeWaiters
  <2>3. \A r \in Requests : req[r].at = "waiting" => req'[r].at = "woken"
    BY <1>2 DEF WakeWaiters, ReqsTyped, ReqRecords
  <2>4. QED BY <2>1, <2>2, <2>3 DEF Slots
<1>3. QED BY <1>1, <1>2

\* A request that is not admitted takes no slot.
LEMMA NotAdmitted ==
  ASSUME ReqsTyped, NEW r \in Requests, NEW rec \in ReqRecords, rec.at # "serving",
         req' = [req EXCEPT ![r] = rec]
  PROVE  ReqsTyped' /\ Slots' \subseteq Slots /\ \A s \in Slots' : req'[s] = req[s]
<1>1. ReqsTyped' /\ req'[r] = rec /\ \A s \in Requests : s # r => req'[s] = req[s]
  BY DEF ReqsTyped
<1>2. QED BY <1>1 DEF Slots
\* A request that is admitted takes a slot in the live epoch.
LEMMA AdmittedNow ==
  ASSUME ReqsTyped, NEW r \in Requests, NEW rec \in ReqRecords,
         rec.at = "serving", rec.epoch = epoch,
         req' = [req EXCEPT ![r] = rec]
  PROVE  /\ ReqsTyped' /\ Slots' = Slots \cup {r} /\ req'[r].epoch = epoch
         /\ \A s \in Slots : s # r => req'[s] = req[s]
<1>1. ReqsTyped' /\ req'[r] = rec /\ \A s \in Requests : s # r => req'[s] = req[s]
  BY DEF ReqsTyped
<1>2. QED BY <1>1 DEF Slots

\* Dispatching a request leaves it waiting, admits it to the live router, or
\* ends it; nothing else changes.
LEMMA DispatchStep ==
  ASSUME IInv, NEW r \in Requests, NEW turns \in 0..WaitLimit, TryDispatch(r, turns)
  PROVE  /\ ReqsTyped' /\ \A s \in Slots : s # r => req'[s] = req[s]
         /\ \/ Slots' \subseteq Slots /\ \A s \in Slots' : req'[s] = req[s]
            \/ status = "active" /\ Slots' = Slots \cup {r} /\ req'[r].epoch = epoch
<1>1. ReqsTyped /\ epoch \in Epochs \cup {NoEpoch} /\ WaitLimit \in Nat
  BY Assumption DEF IInv, RestIInv, OthersTyped
<1>2. \A s \in Slots : s # r => req'[s] = req[s]
  BY <1>1 DEF TryDispatch, Slots, ReqsTyped
<1>3. CASE TurnsLeft(turns) /\ InTransition
  <2>1. [at |-> "waiting", turns |-> turns + 1, epoch |-> NoEpoch] \in ReqRecords
    BY <1>1, <1>3 DEF ReqRecords, Spots, TurnsLeft
  <2>2. QED BY <1>1, <1>2, <1>3, <2>1, NotAdmitted DEF TryDispatch
<1>4. CASE TurnsLeft(turns) /\ ~InTransition /\ status = "active"
  <2>1. [at |-> "serving", turns |-> turns, epoch |-> epoch] \in ReqRecords
    BY <1>1 DEF ReqRecords, Spots
  <2>2. QED BY <1>1, <1>2, <1>4, <2>1, AdmittedNow DEF TryDispatch
<1>5. CASE ~(TurnsLeft(turns) /\ (InTransition \/ status = "active"))
  <2>1. [at |-> "rejected", turns |-> turns, epoch |-> NoEpoch] \in ReqRecords
    BY <1>1 DEF ReqRecords, Spots
  <2>2. QED BY <1>1, <1>2, <1>5, <2>1, NotAdmitted DEF TryDispatch
<1>6. QED BY <1>3, <1>4, <1>5

\* A request that has ended takes no slot.
LEMMA EndedStep ==
  ASSUME ReqsTyped, NEW r \in Requests, req' = [req EXCEPT ![r].at = "done"]
  PROVE  ReqsTyped' /\ Slots' \subseteq Slots /\ \A s \in Slots' : req'[s] = req[s]
<1>1. [req[r] EXCEPT !.at = "done"] \in ReqRecords
  BY DEF ReqsTyped, ReqRecords, Spots
<1>2. [req[r] EXCEPT !.at = "done"].at = "done"
  BY DEF ReqsTyped, ReqRecords
<1>3. QED BY <1>1, <1>2, NotAdmitted

\* The process that is gone has no request.
LEMMA GoneStep ==
  ASSUME ReqsTyped, ProcessGone
  PROVE  ReqsTyped' /\ Slots' = {}
<1>1. SUFFICES ASSUME NEW r \in Requests
              PROVE  req'[r] \in ReqRecords /\ req'[r].at # "serving"
  BY DEF ProcessGone, ReqsTyped, Slots
<1>2. req[r] \in ReqRecords /\ "done" \in Spots
  BY DEF ReqsTyped, Spots
<1>3. QED BY <1>2 DEF ProcessGone, ReqRecords
-------------------------------------------------------------------------------
(* What the steps do to the rest.  A step that takes no slot keeps the         *)
(* invariant when it keeps the first three parts.                              *)

\* Operations start from the idle state.
LEMMA EnableRest ==
  ASSUME RestIInv, Enable
  PROVE  RestIInv'
BY Assumption DEF RestIInv, OthersTyped, LifecycleIInv, EpochsIInv,
     IsOpen, IsClosed, Modes, Kinds, Epochs, modes, runtime, durableEpoch,
     Enable, Starts, Idle, NoOp, SubmitRotation

\* A shutdown that finds nothing to drain ends the process as it is.
LEMMA ShutdownRest ==
  ASSUME RestIInv, Shutdown
  PROVE  RestIInv'
BY Assumption DEF RestIInv, OthersTyped, LifecycleIInv, EpochsIInv,
     IsOpen, IsClosed, Modes, Kinds, Epochs, modes, runtime, durableEpoch,
     Shutdown, Starts, Idle, NoOp

\* Without a router a change of mode touches the settings and the history alone.
LEMMA SwitchRest ==
  ASSUME RestIInv, NEW mode \in OtherModes, Switch(mode) \/ ExitInactive(mode)
  PROVE  RestIInv'
<1>1. CASE Switch(mode)
  <2>1. OthersTyped'
    BY <1>1, Assumption DEF RestIInv, OthersTyped, LifecycleIInv, EpochsIInv,
         IsOpen, IsClosed, Modes, Kinds, Epochs, modes, runtime, durableEpoch,
         Switch, Starts, Idle, NoOp
  <2>2. LifecycleIInv'
    BY <1>1, Assumption DEF RestIInv, OthersTyped, LifecycleIInv, EpochsIInv,
         IsOpen, IsClosed, Modes, Kinds, Epochs, modes, runtime, durableEpoch,
         Switch, Starts, Idle, NoOp
  <2>3. EpochsIInv'
    BY <1>1, Assumption DEF RestIInv, OthersTyped, LifecycleIInv, EpochsIInv,
         IsOpen, IsClosed, Modes, Kinds, Epochs, modes, runtime, durableEpoch,
         Switch, Starts, Idle, NoOp
  <2>4. QED BY <2>1, <2>2, <2>3 DEF RestIInv
<1>2. CASE ExitInactive(mode)
  <2>1. OthersTyped'
    BY <1>2, Assumption DEF RestIInv, OthersTyped, LifecycleIInv, EpochsIInv,
         IsOpen, IsClosed, Modes, Kinds, Epochs, modes, runtime, durableEpoch,
         ExitInactive, Starts, Idle, NoOp
  <2>2. LifecycleIInv'
    BY <1>2, Assumption DEF RestIInv, OthersTyped, LifecycleIInv, EpochsIInv,
         IsOpen, IsClosed, Modes, Kinds, Epochs, modes, runtime, durableEpoch,
         ExitInactive, Starts, Idle, NoOp
  <2>3. EpochsIInv'
    BY <1>2, Assumption DEF RestIInv, OthersTyped, LifecycleIInv, EpochsIInv,
         IsOpen, IsClosed, Modes, Kinds, Epochs, modes, runtime, durableEpoch,
         ExitInactive, Starts, Idle, NoOp
  <2>4. QED BY <2>1, <2>2, <2>3 DEF RestIInv
<1>3. QED BY <1>1, <1>2

\* An exit starts to drain.
LEMMA BeginExitRest ==
  ASSUME RestIInv, NEW mode \in OtherModes, BeginExit(mode)
  PROVE  RestIInv'
BY Assumption DEF RestIInv, OthersTyped, LifecycleIInv, EpochsIInv,
     IsOpen, IsClosed, Modes, Kinds, Epochs, modes, runtime, durableEpoch,
     BeginExit, Starts, Idle, NoOp

\* The writer thread settles a rotation: the epoch it makes durable is not retired.
LEMMA RotationRest ==
  ASSUME RestIInv, RotationCommits \/ RotationFails
  PROVE  RestIInv'
<1>1. CASE RotationCommits
  <2>1. OthersTyped'
    BY <1>1, Assumption DEF RestIInv, OthersTyped, LifecycleIInv, EpochsIInv,
         IsOpen, IsClosed, Modes, Kinds, Epochs, modes, runtime, durableEpoch,
         RotationCommits
  <2>2. LifecycleIInv'
    BY <1>1, Assumption DEF RestIInv, OthersTyped, LifecycleIInv, EpochsIInv,
         IsOpen, IsClosed, Modes, Kinds, Epochs, modes, runtime, durableEpoch,
         RotationCommits
  <2>3. EpochsIInv'
    BY <1>1, Assumption DEF RestIInv, OthersTyped, LifecycleIInv, EpochsIInv,
         IsOpen, IsClosed, Modes, Kinds, Epochs, modes, runtime, durableEpoch,
         RotationCommits
  <2>4. QED BY <2>1, <2>2, <2>3 DEF RestIInv
<1>2. CASE RotationFails
  <2>1. OthersTyped'
    BY <1>2, Assumption DEF RestIInv, OthersTyped, LifecycleIInv, EpochsIInv,
         IsOpen, IsClosed, Modes, Kinds, Epochs, modes, runtime, durableEpoch,
         RotationFails
  <2>2. LifecycleIInv'
    BY <1>2, Assumption DEF RestIInv, OthersTyped, LifecycleIInv, EpochsIInv,
         IsOpen, IsClosed, Modes, Kinds, Epochs, modes, runtime, durableEpoch,
         RotationFails
  <2>3. EpochsIInv'
    BY <1>2, Assumption DEF RestIInv, OthersTyped, LifecycleIInv, EpochsIInv,
         IsOpen, IsClosed, Modes, Kinds, Epochs, modes, runtime, durableEpoch,
         RotationFails
  <2>4. QED BY <2>1, <2>2, <2>3 DEF RestIInv
<1>3. QED BY <1>1, <1>2

\* The epoch that is published is the one just minted.
LEMMA PublishRest ==
  ASSUME RestIInv, Publish
  PROVE  RestIInv'
BY Assumption DEF RestIInv, OthersTyped, LifecycleIInv, EpochsIInv,
     IsOpen, IsClosed, Modes, Kinds, Epochs, modes, runtime, durableEpoch,
     Publish, NoOp

\* An enable that fails leaves nothing open.
LEMMA EnableFailsRest ==
  ASSUME RestIInv, EnableFails
  PROVE  RestIInv'
<1>1. CASE EnableFails
  <2>0. op' \in [kind : Kinds, to : Modes] /\ diskEpoch' \in Epochs
    BY <1>1 DEF RestIInv, OthersTyped, EnableFails, NoOp, Kinds, Modes, durableEpoch
  <2>1. OthersTyped'
    BY <1>1, <2>0, Assumption DEF RestIInv, OthersTyped, LifecycleIInv, EpochsIInv,
         IsOpen, IsClosed, Modes, Kinds, Epochs, modes, runtime, durableEpoch,
         EnableFails, Closed, NoOp
  <2>2. LifecycleIInv'
    BY <1>1, Assumption DEF RestIInv, OthersTyped, LifecycleIInv, EpochsIInv,
         IsOpen, IsClosed, Modes, Kinds, Epochs, modes, runtime, durableEpoch,
         EnableFails, Closed, NoOp
  <2>3. EpochsIInv'
    BY <1>1, Assumption DEF RestIInv, OthersTyped, LifecycleIInv, EpochsIInv,
         IsOpen, IsClosed, Modes, Kinds, Epochs, modes, runtime, durableEpoch,
         EnableFails, Closed, NoOp
  <2>4. QED BY <2>1, <2>2, <2>3 DEF RestIInv
<1>2. QED BY <1>1 DEF EnableFails

\* The epoch is retired by the write that takes "balanced" out of the settings file.
LEMMA CommitExitRest ==
  ASSUME RestIInv, CommitExit
  PROVE  RestIInv'
BY Assumption DEF RestIInv, OthersTyped, LifecycleIInv, EpochsIInv,
     IsOpen, IsClosed, Modes, Kinds, Epochs, modes, runtime, durableEpoch,
     CommitExit, SubmitRotation

\* An exit given up routes on in its epoch, which is still the durable one.
LEMMA AbortExitRest ==
  ASSUME RestIInv, AbortExit
  PROVE  RestIInv'
BY Assumption DEF RestIInv, OthersTyped, LifecycleIInv, EpochsIInv,
     IsOpen, IsClosed, Modes, Kinds, Epochs, modes, runtime, durableEpoch,
     AbortExit, NoOp

\* The committed exit is published, then the store is closed.
LEMMA CloseExitRest ==
  ASSUME RestIInv, PublishExit \/ CloseAfterExit
  PROVE  RestIInv'
<1>1. CASE PublishExit
  <2>1. OthersTyped'
    BY <1>1, Assumption DEF RestIInv, OthersTyped, LifecycleIInv, EpochsIInv,
         IsOpen, IsClosed, Modes, Kinds, Epochs, modes, runtime, durableEpoch,
         PublishExit
  <2>2. LifecycleIInv'
    BY <1>1, Assumption DEF RestIInv, OthersTyped, LifecycleIInv, EpochsIInv,
         IsOpen, IsClosed, Modes, Kinds, Epochs, modes, runtime, durableEpoch,
         PublishExit
  <2>3. EpochsIInv'
    BY <1>1, Assumption DEF RestIInv, OthersTyped, LifecycleIInv, EpochsIInv,
         IsOpen, IsClosed, Modes, Kinds, Epochs, modes, runtime, durableEpoch,
         PublishExit
  <2>4. QED BY <2>1, <2>2, <2>3 DEF RestIInv
<1>2. CASE CloseAfterExit
  <2>1. OthersTyped'
    BY <1>2, Assumption DEF RestIInv, OthersTyped, LifecycleIInv, EpochsIInv,
         IsOpen, IsClosed, Modes, Kinds, Epochs, modes, runtime, durableEpoch,
         CloseAfterExit, DriverStopped, Closed, NoOp
  <2>2. LifecycleIInv'
    BY <1>2, Assumption DEF RestIInv, OthersTyped, LifecycleIInv, EpochsIInv,
         IsOpen, IsClosed, Modes, Kinds, Epochs, modes, runtime, durableEpoch,
         CloseAfterExit, DriverStopped, Closed, NoOp
  <2>3. EpochsIInv'
    BY <1>2, Assumption DEF RestIInv, OthersTyped, LifecycleIInv, EpochsIInv,
         IsOpen, IsClosed, Modes, Kinds, Epochs, modes, runtime, durableEpoch,
         CloseAfterExit, DriverStopped, Closed, NoOp
  <2>4. QED BY <2>1, <2>2, <2>3 DEF RestIInv
<1>3. QED BY <1>1, <1>2

\* The poll driver stops before the store closes.
LEMMA DriverRest ==
  ASSUME RestIInv, DriverEnds \/ StopAtShutdown \/ CloseAtShutdown
  PROVE  RestIInv'
<1>1. CASE DriverEnds \/ StopAtShutdown
  BY <1>1 DEF RestIInv, OthersTyped, LifecycleIInv, EpochsIInv, IsOpen, IsClosed, modes, durableEpoch,
     DriverEnds, StopAtShutdown
<1>2. CASE CloseAtShutdown
  <2>1. OthersTyped'
    BY <1>2, Assumption DEF RestIInv, OthersTyped, LifecycleIInv, EpochsIInv,
         IsOpen, IsClosed, Modes, Kinds, Epochs, modes, runtime, durableEpoch,
         CloseAtShutdown, DriverStopped, Closed, NoOp
  <2>2. LifecycleIInv'
    BY <1>2, Assumption DEF RestIInv, OthersTyped, LifecycleIInv, EpochsIInv,
         IsOpen, IsClosed, Modes, Kinds, Epochs, modes, runtime, durableEpoch,
         CloseAtShutdown, DriverStopped, Closed, NoOp
  <2>3. EpochsIInv'
    BY <1>2, Assumption DEF RestIInv, OthersTyped, LifecycleIInv, EpochsIInv,
         IsOpen, IsClosed, Modes, Kinds, Epochs, modes, runtime, durableEpoch,
         CloseAtShutdown, DriverStopped, Closed, NoOp
  <2>4. QED BY <2>1, <2>2, <2>3 DEF RestIInv
<1>3. QED BY <1>1, <1>2

\* Whenever the process goes, the durable state is fit for the next start.
LEMMA GoneRest ==
  ASSUME RestIInv, End \/ Crash
  PROVE  RestIInv'
<1>1. CASE End
  <2>1. OthersTyped'
    BY <1>1, Assumption DEF RestIInv, OthersTyped, LifecycleIInv, EpochsIInv,
         IsOpen, IsClosed, Modes, Kinds, Epochs, modes, runtime, durableEpoch,
         End, ProcessGone, Closed, NoOp
  <2>2. LifecycleIInv'
    BY <1>1, Assumption DEF RestIInv, OthersTyped, LifecycleIInv, EpochsIInv,
         IsOpen, IsClosed, Modes, Kinds, Epochs, modes, runtime, durableEpoch,
         End, ProcessGone, Closed, NoOp
  <2>3. EpochsIInv'
    BY <1>1, Assumption DEF RestIInv, OthersTyped, LifecycleIInv, EpochsIInv,
         IsOpen, IsClosed, Modes, Kinds, Epochs, modes, runtime, durableEpoch,
         End, ProcessGone, Closed, NoOp
  <2>4. QED BY <2>1, <2>2, <2>3 DEF RestIInv
<1>2. CASE Crash
  <2>0. ops' \in 0..MaxOps
    BY <1>2, Assumption DEF RestIInv, OthersTyped, Crash
  <2>1. OthersTyped'
    BY <1>2, <2>0, Assumption DEF RestIInv, OthersTyped, LifecycleIInv, EpochsIInv,
         IsOpen, IsClosed, Modes, Kinds, Epochs, modes, runtime, durableEpoch,
         Crash, ProcessGone, Closed, NoOp
  <2>2. LifecycleIInv'
    BY <1>2, Assumption DEF RestIInv, OthersTyped, LifecycleIInv, EpochsIInv,
         IsOpen, IsClosed, Modes, Kinds, Epochs, modes, runtime, durableEpoch,
         Crash, ProcessGone, Closed, NoOp
  <2>3. EpochsIInv'
    BY <1>2, Assumption DEF RestIInv, OthersTyped, LifecycleIInv, EpochsIInv,
         IsOpen, IsClosed, Modes, Kinds, Epochs, modes, runtime, durableEpoch,
         Crash, ProcessGone, Closed, NoOp
  <2>4. QED BY <2>1, <2>2, <2>3 DEF RestIInv
<1>3. QED BY <1>1, <1>2

\* A start routes in the durable epoch or not at all.
LEMMA RestartRest ==
  ASSUME RestIInv, Restart
  PROVE  RestIInv'
<1>1. CASE Restart
  <2>1. OthersTyped'
    BY <1>1, Assumption DEF RestIInv, OthersTyped, LifecycleIInv, EpochsIInv,
         IsOpen, IsClosed, Modes, Kinds, Epochs, modes, runtime, durableEpoch,
         Restart, NoOp
  <2>2. LifecycleIInv'
    BY <1>1, Assumption DEF RestIInv, OthersTyped, LifecycleIInv, EpochsIInv,
         IsOpen, IsClosed, Modes, Kinds, Epochs, modes, runtime, durableEpoch,
         Restart, NoOp
  <2>3. EpochsIInv'
    BY <1>1, Assumption DEF RestIInv, OthersTyped, LifecycleIInv, EpochsIInv,
         IsOpen, IsClosed, Modes, Kinds, Epochs, modes, runtime, durableEpoch,
         Restart, NoOp
  <2>4. QED BY <2>1, <2>2, <2>3 DEF RestIInv
<1>2. QED BY <1>1

-------------------------------------------------------------------------------
(* The slots *)

\* The router of a taken slot is not taken away: a lifecycle step that closes it,
\* or that commits to closing it, has waited for the requests.
KeepsRouter ==
  /\ IsOpen => (IsOpen' /\ epoch' = epoch) \/ Slots = {}
  /\ op'.kind \in {"finalize", "close"} => op.kind \in {"finalize", "close"} \/ Slots = {}

\* Requests that only wake keep their types and the slots.
LEMMA KeepsRouterEnough ==
  ASSUME IInv, KeepsRouter, WakeWaiters \/ UNCHANGED req
  PROVE  ReqsTyped' /\ SlotsIInv'
<1>1. ReqsTyped' /\ Slots' = Slots /\ \A r \in Slots : req'[r] = req[r]
  BY SlotsKept DEF IInv
<1>2. QED BY <1>1 DEF IInv, KeepsRouter, SlotsIInv

\* What the administrator and the daemon's stop do keeps the invariant.
LEMMA AdministratorStep == ASSUME IInv, Administrator PROVE IInv'
<1>1. RestIInv /\ SlotsIInv
  BY DEF IInv
<1>2. op.kind = "none" /\ UNCHANGED req
  BY DEF Administrator, Enable, Switch, ExitInactive, BeginExit, Shutdown, Starts, Idle, NoOp
<1>3. RestIInv'
  BY <1>1, EnableRest, SwitchRest, BeginExitRest, ShutdownRest DEF Administrator
<1>4. KeepsRouter
  <2>1. CASE Enable
    BY <2>1 DEF Enable, KeepsRouter, IsOpen
  <2>2. CASE \E mode \in OtherModes : Switch(mode) \/ ExitInactive(mode)
    BY <1>2, <2>2 DEF Switch, ExitInactive, KeepsRouter, IsOpen, runtime
  <2>3. CASE \E mode \in OtherModes : BeginExit(mode)
    BY <2>3 DEF BeginExit, KeepsRouter, IsOpen
  <2>4. CASE Shutdown
    BY <2>4 DEF Shutdown, NoOp, KeepsRouter, IsOpen
  <2>5. QED BY <2>1, <2>2, <2>3, <2>4 DEF Administrator
<1>5. QED BY <1>2, <1>3, <1>4, KeepsRouterEnough DEF IInv

\* So does the progress of what is under way.
LEMMA ProgressStep == ASSUME IInv, Progress PROVE IInv'
<1>1. RestIInv /\ SlotsIInv /\ ReqsTyped
  BY DEF IInv
<1>2. RestIInv'
  BY <1>1, RotationRest, PublishRest, EnableFailsRest, CommitExitRest, AbortExitRest,
     CloseExitRest, DriverRest, GoneRest
     DEF Progress, PrepareAndPublish, ExitMode
<1>3. ReqsTyped' /\ SlotsIInv'
  <2>1. CASE RotationCommits \/ RotationFails
    <3>1. KeepsRouter /\ UNCHANGED req
      BY <2>1 DEF RotationCommits, RotationFails, KeepsRouter, IsOpen, runtime
    <3>2. QED BY <3>1, KeepsRouterEnough
  <2>2. CASE Publish \/ EnableFails
    <3>1. KeepsRouter /\ WakeWaiters
      BY <1>1, <2>2 DEF Publish, EnableFails, NoOp, KeepsRouter, IsOpen,
         RestIInv, LifecycleIInv
    <3>2. QED BY <3>1, KeepsRouterEnough
  <2>3. CASE CommitExit
    <3>1. KeepsRouter /\ UNCHANGED req
      BY <2>3 DEF CommitExit, Drained, KeepsRouter
    <3>2. QED BY <3>1, KeepsRouterEnough
  <2>4. CASE AbortExit
    <3>1. KeepsRouter /\ WakeWaiters
      BY <2>4 DEF AbortExit, NoOp, KeepsRouter, IsOpen
    <3>2. QED BY <3>1, KeepsRouterEnough
  <2>5. CASE PublishExit
    <3>1. KeepsRouter /\ UNCHANGED req
      BY <2>5 DEF PublishExit, KeepsRouter, IsOpen
    <3>2. QED BY <3>1, KeepsRouterEnough
  <2>6. CASE CloseAfterExit
    <3>1. KeepsRouter /\ WakeWaiters
      BY <1>1, <2>6 DEF CloseAfterExit, NoOp, KeepsRouter, SlotsIInv
    <3>2. QED BY <3>1, KeepsRouterEnough
  <2>7. CASE DriverEnds \/ StopAtShutdown
    <3>1. KeepsRouter /\ UNCHANGED req
      BY <2>7 DEF DriverEnds, StopAtShutdown, KeepsRouter, IsOpen
    <3>2. QED BY <3>1, KeepsRouterEnough
  <2>8. CASE CloseAtShutdown
    <3>1. Slots = {} /\ WakeWaiters /\ op'.kind = "ending"
      BY <1>1, <2>8 DEF CloseAtShutdown, Drained, RestIInv, OthersTyped
    <3>2. KeepsRouter
      BY <3>1 DEF KeepsRouter
    <3>3. QED BY <3>1, <3>2, KeepsRouterEnough
  <2>9. CASE End
    <3>1. ReqsTyped' /\ Slots' = {}
      BY <1>1, <2>9, GoneStep DEF End
    <3>2. QED BY <3>1 DEF SlotsIInv
  <2>10. QED BY <2>1, <2>2, <2>3, <2>4, <2>5, <2>6, <2>7, <2>8, <2>9
             DEF Progress, PrepareAndPublish, ExitMode
<1>4. QED BY <1>1, <1>2, <1>3 DEF IInv

\* A request is admitted only while the mode is active, which it is not once an
\* exit is committed. DEF IInv
LEMMA RequestStep ==
  ASSUME IInv, NEW r \in Requests, Arrive(r) \/ Dispatch(r)
  PROVE  IInv'
<1>1. RestIInv /\ SlotsIInv /\ ReqsTyped /\ WaitLimit \in Nat
  BY Assumption DEF IInv
<1>2. UNCHANGED <<up, modes, runtime, op, rotation, durableEpoch, retired, ops>>
  BY DEF Arrive, Dispatch, Resume, Finish
<1>3. RestIInv'
  BY <1>1, <1>2 DEF RestIInv, OthersTyped, LifecycleIInv, EpochsIInv, IsOpen, IsClosed,
     modes, runtime, durableEpoch
<1>4. CASE req' = [req EXCEPT ![r].at = "done"]
  <2>1. ReqsTyped' /\ Slots' \subseteq Slots /\ \A s \in Slots' : req'[s] = req[s]
    BY <1>1, <1>4, EndedStep
  <2>2. SlotsIInv'
    BY <1>1, <1>2, <2>1 DEF SlotsIInv, IsOpen, runtime
  <2>3. QED BY <1>3, <2>1, <2>2 DEF IInv
<1>5. CASE \E turns \in 0..WaitLimit : TryDispatch(r, turns)
  <2>1. /\ ReqsTyped' /\ \A s \in Slots : s # r => req'[s] = req[s]
        /\ \/ Slots' \subseteq Slots /\ \A s \in Slots' : req'[s] = req[s]
           \/ status = "active" /\ Slots' = Slots \cup {r} /\ req'[r].epoch = epoch
    BY <1>5, DispatchStep
  <2>2. SlotsIInv'
    <3>1. CASE Slots' \subseteq Slots /\ \A s \in Slots' : req'[s] = req[s]
      BY <1>1, <1>2, <3>1 DEF SlotsIInv, IsOpen, runtime
    <3>2. CASE status = "active" /\ Slots' = Slots \cup {r} /\ req'[r].epoch = epoch
      <4>1. IsOpen /\ op.kind \notin {"finalize", "close"}
        BY <1>1, <3>2 DEF RestIInv, LifecycleIInv, OthersTyped, IsOpen, IsClosed, Kinds
      <4>2. QED BY <1>1, <1>2, <2>1, <3>2, <4>1 DEF SlotsIInv, IsOpen, runtime
    <3>3. QED BY <2>1, <3>1, <3>2
  <2>3. QED BY <1>3, <2>1, <2>2 DEF IInv
<1>6. 0 \in 0..WaitLimit /\ req[r].turns \in 0..WaitLimit
  BY <1>1 DEF ReqsTyped, ReqRecords
<1>7. QED BY <1>4, <1>5, <1>6 DEF Arrive, Dispatch, Resume, Finish, ServedOtherwise
-------------------------------------------------------------------------------
(* The theorems *)

\* The initial state satisfies the invariant.
LEMMA InitIInv == ASSUME Init PROVE IInv
<1>1. ReqsTyped /\ Slots = {}
  BY Assumption DEF Init, ReqsTyped, ReqRecords, Spots, Slots
<1>2. OthersTyped
  <2>1. 0 \in Epochs /\ 0 \in 0..MaxOps
    BY Assumption DEF Epochs
  <2>2. op \in [kind : Kinds, to : Modes]
    BY DEF Init, NoOp, Kinds, Modes
  <2>3. QED BY <2>1, <2>2 DEF Init, OthersTyped
<1>3. LifecycleIInv /\ EpochsIInv
  BY DEF Init, LifecycleIInv, EpochsIInv, IsClosed, NoOp
<1>4. QED BY <1>1, <1>2, <1>3 DEF RestIInv, IInv, SlotsIInv

\* Every step keeps the invariant.
LEMMA NextIInv == ASSUME IInv, [Next]_vars PROVE IInv'
<1>1. RestIInv /\ SlotsIInv /\ ReqsTyped
  BY DEF IInv
<1>2. CASE Administrator
  BY <1>2, AdministratorStep
<1>3. CASE Progress
  BY <1>3, ProgressStep
<1>4. CASE Crash
  <2>1. ReqsTyped' /\ Slots' = {}
    BY <1>1, <1>4, GoneStep DEF Crash
  <2>2. QED BY <1>1, <1>4, <2>1, GoneRest DEF IInv, SlotsIInv
<1>5. CASE Restart
  <2>1. ~IsOpen /\ KeepsRouter /\ UNCHANGED req
    BY <1>1, <1>5 DEF Restart, KeepsRouter, RestIInv, LifecycleIInv, IsOpen, IsClosed
  <2>2. QED BY <1>1, <1>5, <2>1, RestartRest, KeepsRouterEnough DEF IInv
<1>6. CASE \E r \in Requests : Arrive(r) \/ Dispatch(r)
  BY <1>6, RequestStep
<1>7. CASE UNCHANGED vars
  <2>1. KeepsRouter
    BY <1>7 DEF vars, KeepsRouter, IsOpen, runtime
  <2>2. RestIInv'
    BY <1>1, <1>7 DEF vars, RestIInv, OthersTyped, LifecycleIInv, EpochsIInv, IsOpen,
       IsClosed, modes, runtime, durableEpoch
  <2>3. QED BY <1>7, <2>1, <2>2, KeepsRouterEnough DEF IInv, vars
<1>8. QED BY <1>2, <1>3, <1>4, <1>5, <1>6, <1>7 DEF Next

\* The invariant implies the checked type invariant.
LEMMA Typed == IInv => TypeOK
BY DEF IInv, RestIInv, OthersTyped, ReqsTyped, ReqRecords, Spots, Kinds, TypeOK

\* Every reachable state satisfies the inductive invariant.
THEOREM Invariance == Spec => []IInv
<1>1. Init => IInv
  BY InitIInv
<1>2. IInv /\ [Next]_vars => IInv'
  BY NextIInv
<1>3. QED BY <1>1, <1>2, PTL DEF Spec

\* The lifecycle keeps its types: no path of an enable, an exit, a shutdown or a
\* crash leaves a status, a rotation or a request record the code has no name for.
THEOREM TypeCorrect == Spec => []TypeOK
<1>1. QED BY Typed, Invariance, PTL

\* An admitted request has the router and the store of its own epoch until its
\* response ends (begin_request and end_request around exit_mode and
\* shutdown_preserving_epoch), and the poll driver has the store.
THEOREM RequestsKeepTheirEpochThm == Spec => []RequestsKeepTheirEpoch
<1>1. IInv => RequestsKeepTheirEpoch
  <2>1. SUFFICES ASSUME IInv PROVE RequestsKeepTheirEpoch
    OBVIOUS
  <2>2. \A r \in Slots : store /\ req[r].epoch = epoch
    BY <2>1 DEF IInv, SlotsIInv, IsOpen
  <2>3. driver # "off" => store
    BY <2>1 DEF IInv, RestIInv, OthersTyped, Kinds, LifecycleIInv, NoOp, IsOpen, IsClosed
  <2>4. QED BY <2>1, <2>2, <2>3, Typed DEF RequestsKeepTheirEpoch
<1>2. QED BY <1>1, Invariance, PTL

\* Until an exit is committed the epoch that routes is the one in the runtime
\* database, and no epoch the administrator has left routes again (exit_mode,
\* _finalize_exit and the restore at startup).
THEOREM RoutedEpochIsDurableThm == Spec => []RoutedEpochIsDurable
<1>1. IInv => RoutedEpochIsDurable
  BY DEF IInv, RestIInv, EpochsIInv, RoutedEpochIsDurable
<1>2. QED BY <1>1, Invariance, PTL
-----------------------------------------------------------------------------
(***************************************************************************)
(* The polls that balanced routing starts and everybody's use of the usage *)
(* cache, for any accounts, callers, waits and times.                      *)
(***************************************************************************)

\* What is needed of the types: a caller has a place, and the line is of callers.
CallersTyped ==
  /\ DOMAIN caller = Callers
  /\ \A c \in Callers : /\ caller[c] = [at |-> At(c), todo |-> caller[c].todo, force |-> caller[c].force]
                        /\ At(c) \in {"idle", "line", "calling"}
  /\ line \in Seq(Callers)
  /\ cooling \in Nat /\ quiet \in Nat

\* Whoever calls has the lock, and called when no cooldown was left; nothing opens
\* one before the call has ended.
CallsAlone == \A c \in Callers : At(c) = "calling" => Holds(c) /\ quiet = 0

\* A newer cooldown never cuts an older one short: when the cache lets somebody
\* call, all of them are over.
QuietIsCooled == quiet <= cooling

PollingIInv == CallersTyped /\ CallsAlone /\ QuietIsCooled

\* Of a step: no call starts in it.
NobodyStarts == \A c \in Callers : At(c)' = "calling" => At(c) = "calling"

\* Numbers have a least one among them.
LEMMA LeastNumber ==
  ASSUME NEW S \in SUBSET Nat, S # {}
  PROVE  \E n \in S : \A m \in S : n <= m
<1>1. PICK n \in S : \A m \in S : ~(<<m, n>> \in OpToRel(<, Nat))
  BY NatLessThanWellFounded, WFMin
<1>2. \A m \in S : ~(m < n)
  BY <1>1, Zenon DEF OpToRel
<1>3. QED BY <1>2

\* A driver that is cancelled leaves the line, and its head in place if that is
\* another one.
LEMMA DriverLeaves ==
  ASSUME CallersTyped
  PROVE  /\ LeavesLine \in Seq(Callers)
         /\ \A c \in Callers \ {Driver} : Holds(c) => LeavesLine # <<>> /\ Head(LeavesLine) = c
<1> DEFINE places == {i \in 1..Len(line) : line[i] = Driver}
<1>1. line \in Seq(Callers) /\ Len(line) \in Nat
  BY DEF CallersTyped
<1>2. CASE places = {}
  <2>1. LeavesLine = line
    BY <1>2 DEF LeavesLine, RemoveFirst
  <2>2. QED BY <1>1, <2>1 DEF Holds
<1>3. CASE places # {}
  <2>1. places \in SUBSET Nat
    BY <1>1
  <2> DEFINE p == Min(places)
  <2>2. p \in places
    <3> HIDE DEF places
    <3>1. QED BY <1>3, <2>1, LeastNumber DEF Min
  <2>3. LeavesLine = SubSeq(line, 1, p - 1) \o SubSeq(line, p + 1, Len(line))
    BY <1>3 DEF LeavesLine, RemoveFirst, RemoveAt, SelectInSeq
  <2> HIDE DEF p
  <2>4. p \in 1..Len(line) /\ line[p] = Driver
    BY <2>2
  <2> DEFINE front == SubSeq(line, 1, p - 1)
             back == SubSeq(line, p + 1, Len(line))
  <2>5. /\ front \in Seq(Callers) /\ Len(front) = p - 1
        /\ p # 1 => front[1] = line[1]
    BY <1>1, <2>4
  <2>6. back \in Seq(Callers)
    BY <1>1, <2>4
  <2> HIDE DEF front, back
  <2>7. LeavesLine = front \o back
    BY <2>3 DEF front, back
  <2>8. ASSUME NEW c \in Callers \ {Driver}, Holds(c)
        PROVE  LeavesLine # <<>> /\ Head(LeavesLine) = c
    <3>1. line[1] = c
      BY <1>1, <2>8 DEF Holds
    <3>2. p # 1
      BY <2>4, <2>8, <3>1
    <3>3. Len(front) >= 1 /\ front[1] = c
      BY <2>4, <2>5, <3>1, <3>2
    <3>4. QED BY <2>5, <2>6, <2>7, <3>3
  <2>9. QED BY <2>5, <2>6, <2>7, <2>8
<1>4. QED BY <1>2, <1>3

\* No two callers are in a call.
LEMMA OneCalls ==
  ASSUME CallsAlone, NEW c \in Callers, NEW d \in Callers, Holds(c), d # c
  PROVE  At(d) # "calling"
BY DEF CallsAlone, Holds

\* A caller that goes to another place keeps the types.
LEMMA MovesTyped ==
  ASSUME CallersTyped, NEW c \in Callers, NEW place \in {"idle", "line", "calling"}, NEW todo, NEW force,
         caller' = [caller EXCEPT ![c] = [at |-> place, todo |-> todo, force |-> force]],
         line' \in Seq(Callers), cooling' \in Nat, quiet' \in Nat
  PROVE  CallersTyped' /\ At(c)' = place /\ \A d \in Callers \ {c} : At(d)' = At(d)
<1>1. caller'[c] = [at |-> place, todo |-> todo, force |-> force]
  BY DEF CallersTyped
<1>2. \A d \in Callers \ {c} : caller'[d] = caller[d]
  BY DEF CallersTyped
<1>3. DOMAIN caller' = Callers
  BY DEF CallersTyped
<1>4. At(c)' = place /\ \A d \in Callers \ {c} : At(d)' = At(d)
  BY <1>1, <1>2 DEF At
<1>5. ASSUME NEW d \in Callers
      PROVE  /\ caller'[d] = [at |-> At(d)', todo |-> caller'[d].todo, force |-> caller'[d].force]
             /\ At(d)' \in {"idle", "line", "calling"}
  <2>1. CASE d = c
    BY <1>1, <1>4, <2>1
  <2>2. CASE d # c
    BY <1>2, <1>4, <2>2 DEF CallersTyped
  <2>3. QED BY <2>1, <2>2
<1>6. QED BY <1>3, <1>4, <1>5 DEF CallersTyped

\* Joining the line behind the others, or staying away, does not disturb the one
\* that holds the lock.
LEMMA Joins ==
  ASSUME PollingIInv, NEW c \in Callers, At(c) = "idle",
         NEW place \in {"idle", "line"}, NEW todo, NEW force,
         caller' = [caller EXCEPT ![c] = [at |-> place, todo |-> todo, force |-> force]],
         line' \in {line, Append(line, c)}, UNCHANGED <<cooling, quiet>>
  PROVE  PollingIInv' /\ NobodyStarts
<1>1. line' \in Seq(Callers) /\ cooling' \in Nat /\ quiet' \in Nat
  BY DEF PollingIInv, CallersTyped
<1>2. CallersTyped' /\ At(c)' = place /\ \A d \in Callers \ {c} : At(d)' = At(d)
  BY <1>1, MovesTyped DEF PollingIInv
<1>3. \A d \in Callers : Holds(d) => Holds(d)'
  <2>1. line # <<>> => line' # <<>> /\ Head(line') = Head(line)
    BY DEF PollingIInv, CallersTyped
  <2>2. QED BY <2>1 DEF Holds
<1>4. CallsAlone'
  BY <1>2, <1>3 DEF PollingIInv, CallsAlone
<1>5. QED BY <1>2, <1>4 DEF PollingIInv, QuietIsCooled, NobodyStarts

\* The holder of the lock goes on with another account, or lets go: nobody calls
\* then, whatever cooldown its call has brought.
LEMMA HolderMoves ==
  ASSUME PollingIInv, NEW c \in Callers, Holds(c),
         NEW place \in {"idle", "line"}, NEW todo, NEW force,
         caller' = [caller EXCEPT ![c] = [at |-> place, todo |-> todo, force |-> force]],
         line' \in Seq(Callers), cooling' \in Nat, quiet' \in Nat, quiet' <= cooling'
  PROVE  PollingIInv' /\ NobodyStarts
<1>1. CallersTyped' /\ At(c)' = place /\ \A d \in Callers \ {c} : At(d)' = At(d)
  BY MovesTyped DEF PollingIInv
<1>2. \A d \in Callers : At(d)' # "calling"
  BY <1>1, OneCalls DEF PollingIInv
<1>3. QED BY <1>1, <1>2 DEF PollingIInv, CallsAlone, QuietIsCooled, NobodyStarts

\* What the driver wants next is a place at the end of the line, or its sleep.
LEMMA TriesNext ==
  ASSUME NEW todo, NEW others, TryNext(todo, others)
  PROVE  \E place \in {"idle", "line"} : \E left, force :
           /\ caller' = [caller EXCEPT ![Driver] = [at |-> place, todo |-> left, force |-> force]]
           /\ line' \in {others, Append(others, Driver)}
<1> DEFINE due == SkipFresh(todo)
<1>1. CASE due # <<>>
  BY <1>1 DEF TryNext, Wants
<1>2. CASE due = <<>> /\ pending # <<>> /\ serviced
  BY <1>2 DEF TryNext, Wants
<1>3. CASE due = <<>> /\ ~(pending # <<>> /\ serviced)
  <2>1. caller' = [caller EXCEPT ![Driver] = Resting] /\ line' \in {others, Append(others, Driver)}
    BY <1>3 DEF TryNext
  <2>2. QED BY <2>1 DEF Resting
<1>4. QED BY <1>1, <1>2, <1>3

\* After its account the holder goes on with the next one or lets the lock go.
LEMMA Advances ==
  ASSUME CallersTyped, NEW c \in Callers, Holds(c), Advance(c)
  PROVE  /\ \E place \in {"idle", "line"} : \E left, force :
              caller' = [caller EXCEPT ![c] = [at |-> place, todo |-> left, force |-> force]]
         /\ line' \in Seq(Callers)
<1> DEFINE left == Tail(caller[c].todo)
<1>1. line' \in Seq(Callers)
  BY DEF Advance, CallersTyped, Holds
<1>2. CASE left = <<>>
  BY <1>1, <1>2 DEF Advance, Resting
<1>3. CASE left # <<>>
  <2>1. caller' = [caller EXCEPT ![c] = Wants(left, caller[c].force)]
    BY <1>3 DEF Advance, CallersTyped
  <2>2. QED BY <1>1, <2>1 DEF Wants
<1>4. QED BY <1>2, <1>3

\* The end of the driver's tick lets the lock go.
LEMMA TickLetsGo ==
  ASSUME CallersTyped, Holds(Driver), TickEnds
  PROVE  /\ caller' = [caller EXCEPT ![Driver] = [at |-> "idle", todo |-> <<>>, force |-> FALSE]]
         /\ line' \in Seq(Callers)
BY DEF TickEnds, Resting, CallersTyped, Holds

\* The driver is one of the callers.
LEMMA DriverCalls == Driver \in Callers
BY DEF Callers

\* Who joins the line: viewers, refreshers and the driver that wakes.
LEMMA JoiningSteps ==
  ASSUME PollingIInv,
         \/ \E v \in Viewers, ids \in {Accounts} \cup {{a} : a \in Accounts} : View(v, ids)
         \/ \E r \in Refreshers, a \in Accounts : RefreshAfter429(r, a)
         \/ DriverWakes
  PROVE  PollingIInv' /\ NobodyStarts
<1>1. ASSUME NEW v \in Viewers, NEW ids, View(v, ids)
      PROVE  PollingIInv' /\ NobodyStarts
  <2> DEFINE misses == SetToSortSeq({a \in ids : ~Fresh(a)}, <)
  <2>1. /\ At(v) = "idle" /\ caller' = [caller EXCEPT ![v] = Wants(misses, FALSE)]
        /\ line' = Append(line, v) /\ UNCHANGED <<cooling, quiet>>
    BY <1>1 DEF View
  <2> HIDE DEF misses
  <2>2. v \in Callers
    BY DEF Callers
  <2>3. QED BY <2>1, <2>2, Joins DEF Wants
<1>2. ASSUME NEW r \in Refreshers, NEW a \in Accounts, RefreshAfter429(r, a)
      PROVE  PollingIInv' /\ NobodyStarts
  <2>1. r \in Callers
    BY DEF Callers
  <2>2. QED BY <1>2, <2>1, Joins DEF RefreshAfter429, Wants
<1>3. CASE DriverWakes
  <2>1. At(Driver) = "idle" /\ TryNext(DueOrder, line) /\ UNCHANGED <<cooling, quiet>>
    BY <1>3 DEF DriverWakes
  <2>2. QED BY <2>1, TriesNext, DriverCalls, Joins
<1>4. QED BY <1>1, <1>2, <1>3

\* A call starts when nobody else calls and every cooldown is over.
LEMMA CallStarts ==
  ASSUME PollingIInv, NEW c \in Callers, StartCall(c)
  PROVE  /\ \A d \in Callers : At(d) # "calling"
         /\ quiet = 0
         /\ PollingIInv'
<1>1. Holds(c) /\ At(c) = "line" /\ cooling = 0
  BY DEF StartCall, NeedsCall
<1>2. quiet = 0
  BY <1>1 DEF PollingIInv, CallersTyped, QuietIsCooled
<1>3. \A d \in Callers : At(d) # "calling"
  BY <1>1, OneCalls DEF PollingIInv
<1>4. caller' = [caller EXCEPT ![c] = [at |-> "calling", todo |-> caller[c].todo, force |-> caller[c].force]]
  <2>1. [caller[c] EXCEPT !.at = "calling"] = [at |-> "calling", todo |-> caller[c].todo, force |-> caller[c].force]
    BY DEF PollingIInv, CallersTyped
  <2>2. caller' = [caller EXCEPT ![c] = [caller[c] EXCEPT !.at = "calling"]]
    BY DEF StartCall, PollingIInv, CallersTyped
  <2>3. QED BY <2>1, <2>2
<1>5. UNCHANGED <<line, cooling, quiet>>
  BY DEF StartCall, cache
<1>6. CallersTyped' /\ At(c)' = "calling" /\ \A d \in Callers \ {c} : At(d)' = At(d)
  BY <1>4, <1>5, MovesTyped DEF PollingIInv, CallersTyped
<1>7. CallsAlone'
  BY <1>1, <1>2, <1>3, <1>5, <1>6 DEF CallsAlone, Holds
<1>8. QED BY <1>2, <1>3, <1>5, <1>6, <1>7 DEF PollingIInv, QuietIsCooled

\* Served from the cache, the holder moves on.
LEMMA ServedFromCache ==
  ASSUME PollingIInv, NEW c \in Callers, ServeCached(c)
  PROVE  PollingIInv' /\ NobodyStarts
<1>1. Holds(c) /\ UNCHANGED <<cooling, quiet>>
  BY DEF ServeCached
<1>2. cooling' \in Nat /\ quiet' \in Nat /\ quiet' <= cooling'
  BY <1>1 DEF PollingIInv, CallersTyped, QuietIsCooled
<1>3. CASE c # Driver
  <2>1. Advance(c)
    BY <1>3 DEF ServeCached
  <2>2. QED BY <1>1, <1>2, <2>1, Advances, HolderMoves DEF PollingIInv
<1>4. CASE c = Driver /\ Fresh(Account(c)) /\ ~caller[c].force
  <2>1. TryNext(Tail(caller[Driver].todo), Tail(line))
    BY <1>4 DEF ServeCached
  <2>2. Tail(line) \in Seq(Callers) /\ Append(Tail(line), Driver) \in Seq(Callers)
    BY <1>1, DriverCalls DEF PollingIInv, CallersTyped, Holds
  <2>3. PICK place \in {"idle", "line"} : \E left, force :
          /\ caller' = [caller EXCEPT ![Driver] = [at |-> place, todo |-> left, force |-> force]]
          /\ line' \in {Tail(line), Append(Tail(line), Driver)}
    BY <2>1, TriesNext
  <2>4. PICK left, force :
          /\ caller' = [caller EXCEPT ![Driver] = [at |-> place, todo |-> left, force |-> force]]
          /\ line' \in {Tail(line), Append(Tail(line), Driver)}
    BY <2>3
  <2>5. line' \in Seq(Callers)
    BY <2>2, <2>4
  <2>6. QED BY <1>1, <1>2, <1>4, <2>4, <2>5, HolderMoves
<1>5. CASE c = Driver /\ ~(Fresh(Account(c)) /\ ~caller[c].force)
  <2>1. TickEnds
    BY <1>5 DEF ServeCached
  <2>2. QED BY <1>1, <1>2, <1>5, <2>1, TickLetsGo, HolderMoves DEF PollingIInv
<1>6. QED BY <1>3, <1>4, <1>5

\* A call ends: the holder moves on, under the cooldown that its answer brings.
LEMMA CallEnded ==
  ASSUME PollingIInv, NEW c \in Callers, CallEnds(c)
  PROVE  PollingIInv' /\ NobodyStarts
<1>1. PICK answer : Answered(c, answer)
  BY DEF CallEnds, CallSucceeds, CallFails, CallRefused
<1>2. Holds(c) /\ quiet = 0
  BY <1>1 DEF PollingIInv, CallsAlone, Answered
<1>3. cooling' \in Nat /\ quiet' \in Nat /\ quiet' <= cooling'
  <2>1. CASE UNCHANGED <<cooling, quiet>>
    BY <2>1 DEF PollingIInv, CallersTyped, QuietIsCooled
  <2>2. ASSUME NEW wait \in RetryAfters \cup {Backoff}, CallRefused(c, wait)
        PROVE  cooling' \in Nat /\ quiet' \in Nat /\ quiet' <= cooling'
    <3>1. Clamped(wait) \in Nat
      BY PollingAssumption DEF Clamped
    <3>2. cooling' = Clamped(wait) /\ quiet' = Longer(quiet, Clamped(wait))
      BY <2>2 DEF CallRefused
    <3>3. QED BY <1>2, <3>1, <3>2 DEF Longer
  <2>3. QED BY <2>1, <2>2 DEF CallEnds, CallSucceeds, CallFails
<1>4. CASE c = Driver
  <2>1. TickEnds
    BY <1>1, <1>4 DEF Answered
  <2>2. QED BY <1>2, <1>3, <1>4, <2>1, TickLetsGo, HolderMoves DEF PollingIInv
<1>5. CASE c # Driver
  <2>1. Advance(c)
    BY <1>1, <1>5 DEF Answered
  <2>2. QED BY <1>2, <1>3, <2>1, Advances, HolderMoves DEF PollingIInv
<1>6. QED BY <1>4, <1>5

\* A driver that is cancelled, also during its call, leaves the lock to the others.
LEMMA DriverStops ==
  ASSUME PollingIInv, StopDriver
  PROVE  PollingIInv' /\ NobodyStarts
<1>1. /\ caller' = [caller EXCEPT ![Driver] = [at |-> "idle", todo |-> <<>>, force |-> FALSE]]
      /\ line' = LeavesLine /\ UNCHANGED <<cooling, quiet>>
  BY DEF StopDriver, Resting
<1>2. /\ line' \in Seq(Callers)
      /\ \A c \in Callers \ {Driver} : Holds(c) => Holds(c)'
  BY <1>1, DriverLeaves DEF PollingIInv, Holds
<1>3. CallersTyped' /\ At(Driver)' = "idle" /\ \A d \in Callers \ {Driver} : At(d)' = At(d)
  BY <1>1, <1>2, DriverCalls, MovesTyped DEF PollingIInv, CallersTyped
<1>4. CallsAlone'
  BY <1>1, <1>2, <1>3 DEF PollingIInv, CallsAlone
<1>5. QED BY <1>1, <1>3, <1>4 DEF PollingIInv, QuietIsCooled, NobodyStarts

\* The longest cooldown is over when the cache's is.
LEMMA CoolsDown ==
  ASSUME PollingIInv, TimePasses
  PROVE  PollingIInv' /\ NobodyStarts
<1>1. UNCHANGED <<line, caller>> /\ cooling' = Less(cooling) /\ quiet' = Less(quiet)
  BY DEF TimePasses
<1>2. /\ cooling' \in Nat /\ quiet' \in Nat /\ quiet' <= cooling'
      /\ quiet = 0 => quiet' = 0
  BY <1>1 DEF PollingIInv, CallersTyped, QuietIsCooled, Less
<1>3. QED BY <1>1, <1>2 DEF PollingIInv, CallersTyped, CallsAlone, QuietIsCooled, NobodyStarts, At, Holds

\* Whatever happens, who calls has the lock to itself and came after the cooldowns;
\* and a call starts only where the entry and the cooldown were looked at.
LEMMA PollingStep ==
  ASSUME PollingIInv, [PollingNext]_pollingVars
  PROVE  /\ PollingIInv'
         /\ \A c \in Callers : At(c) # "calling" /\ At(c)' = "calling" => StartCall(c)
<1> DEFINE Fine == PollingIInv' /\ \A c \in Callers : At(c) # "calling" /\ At(c)' = "calling" => StartCall(c)
<1> SUFFICES Fine
  OBVIOUS
<1>1. ASSUME PollingIInv', NobodyStarts
      PROVE  Fine
  BY <1>1 DEF NobodyStarts
<1>2. ASSUME NEW c \in Callers, StartCall(c)
      PROVE  Fine
  <2>1. \A d \in Callers \ {c} : At(d)' = At(d)
    BY <1>2 DEF StartCall, PollingIInv, CallersTyped, At
  <2>2. QED BY <1>2, <2>1, CallStarts
<1>3. ASSUME NEW c \in Callers, ServeCached(c) \/ CallEnds(c)
      PROVE  Fine
  BY <1>1, <1>3, ServedFromCache, CallEnded
<1>4. CASE UNCHANGED <<cooling, line, caller, quiet>>
  BY <1>4 DEF PollingIInv, CallersTyped, CallsAlone, QuietIsCooled, At, Holds
<1>5. CASE \/ \E a \in Accounts : RequestManualRefresh(a)
           \/ StartDriver \/ Drain \/ AbandonExit
           \/ UNCHANGED pollingVars
  <2>1. UNCHANGED <<cooling, line, caller, quiet>>
    BY <1>5 DEF RequestManualRefresh, StartDriver, Drain, AbandonExit, pollingVars, cache
  <2>2. QED BY <1>4, <2>1
<1>6. CASE \/ \E v \in Viewers, ids \in {Accounts} \cup {{a} : a \in Accounts} : View(v, ids)
           \/ \E r \in Refreshers, a \in Accounts : RefreshAfter429(r, a)
           \/ DriverWakes \/ StopDriver \/ TimePasses
  BY <1>1, <1>6, JoiningSteps, DriverStops, CoolsDown
<1> HIDE DEF Fine
<1>7. QED BY <1>2, <1>3, <1>5, <1>6 DEF PollingNext, Run

\* Nobody calls to begin with.
LEMMA PollingBegins == ASSUME PollingInit PROVE PollingIInv
<1>1. DOMAIN caller = Callers /\ \A c \in Callers : caller[c] = Resting
  BY DEF PollingInit
<1>2. \A c \in Callers : At(c) = "idle"
  BY <1>1 DEF At, Resting
<1>3. CallersTyped
  BY <1>1, <1>2 DEF PollingInit, CallersTyped, Resting
<1>4. QED BY <1>2, <1>3 DEF PollingIInv, CallsAlone, QuietIsCooled, PollingInit

\* The invariant holds in every reachable state.
THEOREM PollingInvariance == PollingSpec => []PollingIInv
<1>1. QED BY PollingBegins, PollingStep, PTL DEF PollingSpec

(* No call to the usage endpoint starts beside another one, during a cooldown     *)
(* that a 429 opened, or, unless it is forced, for an account whose entry is      *)
(* fresh again: what was seen before the wait for the lock is looked at again     *)
(* under it (poll and _refresh of account_usage_cache.py).                        *)
THEOREM PoliteToUpstreamThm == PollingSpec => PoliteToUpstream
<1> DEFINE Polite == \A c \in Callers : At(c) # "calling" /\ caller'[c].at = "calling" =>
                       /\ \A d \in Callers : At(d) # "calling"
                       /\ quiet = 0
                       /\ caller[c].force \/ ~Fresh(Account(c))
<1>1. ASSUME PollingIInv, [PollingNext]_pollingVars
      PROVE  [Polite]_pollingVars
  <2>1. SUFFICES ASSUME PollingNext, NEW c \in Callers, At(c) # "calling", At(c)' = "calling"
                 PROVE  /\ \A d \in Callers : At(d) # "calling"
                        /\ quiet = 0
                        /\ caller[c].force \/ ~Fresh(Account(c))
    BY <1>1 DEF At
  <2>2. StartCall(c)
    BY <1>1, <2>1, PollingStep
  <2>3. QED BY <1>1, <2>2, CallStarts DEF StartCall, NeedsCall
<1>2. QED BY <1>1, PollingInvariance, PTL DEF PollingSpec, PoliteToUpstream
===============================================================================
