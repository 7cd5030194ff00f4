-------------------------- MODULE AccountLoginsProofs --------------------------
(***************************************************************************)
(* What holds of AccountLogins for any actors, accounts, logins and number *)
(* of failures, deaths and losses of power.  The invariant follows a       *)
(* mutation from file operation to file operation: what each step has      *)
(* already put on disk, whether the registry names it yet, and that each   *)
(* version of the registry a loss of power may bring back is one the next  *)
(* recovery can live with, whatever such a loss leaves of the directories. *)
(* A second part follows the requests: who holds a refresh lock, and that  *)
(* a credential generation never comes back with other contents.           *)
(***************************************************************************)
EXTENDS AccountLogins, TLAPS

Places == {"none", "staging", "final", "tombstone"}
Contents == [gen : Nat, login : Logins, token : Nat]
Registries == {NoFile} \union UNION {[S -> Row] : S \in SUBSET Ids}
Named(r) == DOMAIN (IF r = NoFile THEN <<>> ELSE r)

Ops == {"none", "add", "update", "remove", "mark"}
Early == {"recover", "reconciled"}
Written == {"commit", "settle"}
StepsOf(op) ==
  CASE op = "none"   -> {"none"}
    [] op = "add"    -> Early \union Written \union {"stage", "install", "sync", "rollback"}
    [] op = "update" -> Early \union Written \union {"credentials", "profile"}
    [] op = "remove" -> Early \union Written \union {"rename", "sync", "restore", "purge"}
    [] OTHER         -> Early \union Written
Steps == Early \union Written \union
  {"none", "stage", "install", "sync", "rollback", "credentials", "profile",
   "rename", "restore", "purge"}
Txns == [by : Actors \union {None}, op : Ops, step : Steps, id : Nat, login : Nat, gen : Nat]
Answers == {"none", "ok", "failed", "duplicate", "missing"}

RegistryTyped ==
  /\ registry \in Registries
  /\ place \in [Ids -> Places] /\ mayPlace \in [Ids -> SUBSET Places]
  /\ files \in [Ids -> Contents \union {None}]
  /\ nextId \in Nat \ {0} /\ nextGen \in Nat
  /\ txn \in Txns /\ txn.step \in StepsOf(txn.op)
  /\ txn.op \in {"add", "update"} => txn.login \in Logins
  /\ answer \in [Actors -> Answers]
  /\ promise \in [Ids -> {"none", "in", "out"}]
  /\ trouble \in Nat

Statuses == {"none", "starting", "completing", "awaiting-replace",
             "succeeded", "failed", "cancelled"}
SessionPcs == {"spawn", "wait", "capture", "add", "adding", "lookup", "replace",
               "update", "updating", "finally", "done"}
CliPcs == {"idle", "capture", "add", "adding", "confirmed", "updating", "removing"}

LoginSteps == {"add", "adding", "lookup", "replace", "update", "updating"}
SessionTyped ==
  /\ session \in [status : Statuses, pc : SessionPcs, process : {"none", "running", "ended"},
                  login : Nat, shown : Nat, cancel : BOOLEAN, confirm : BOOLEAN, count : Nat]
  /\ session.pc \in LoginSteps => session.login \in Logins
  /\ Terminal => session.pc \in {"finally", "done"}
CliTyped ==
  /\ cli \in [pc : CliPcs, login : Nat, count : Nat]
  /\ cli.pc \in {"add", "adding", "confirmed", "updating"} => cli.login \in Logins
LoginsTyped ==
  /\ logins \in 0..NumLogins /\ valid \in [Logins -> Nat]
  /\ SessionTyped /\ CliTyped

CallPcs == {"idle", "stale", "posting", "publishing", "cancelled", "rejected",
            "served", "condemn", "marking", "over"}
Busy == {"posting", "publishing", "cancelled", "rejected"}

Calls == [pc : CallPcs, id : Nat, seen : Nat, login : Nat, token : Nat]
CallsTyped ==
  /\ caller \in [Callers -> Calls]
  /\ \A c \in Callers : caller[c].pc \notin {"idle", "over"} => caller[c].id \in Ids
  /\ \A c \in Callers : caller[c].pc \in Busy => caller[c].login \in Logins
CallersTyped == CallsTyped /\ refreshLock \in [Ids -> Callers \union {None}]

TypesIInv == RegistryTyped /\ LoginsTyped /\ CallersTyped

\* The mutation under the lock is that of an actor who waits for its answer, and every
\* login adds at most one account: the logins still to be added cover the ids to come.
DashOwes == session.pc = "add" \/ (txn.by = "dash" /\ txn.op = "add" /\ txn.step \in Early)
CliOwes == cli.pc = "add" \/ (txn.by = "cli" /\ txn.op = "add" /\ txn.step \in Early)

OwnersIInv ==
  /\ txn.op = "none" => txn = Idle
  /\ txn.op # "none" => txn.by \in Actors /\ answer[txn.by] = "none"
  /\ txn.op \in {"add", "update"} => txn.by \in {"dash", "cli"}
  /\ txn.by = "dash" => session.pc \in {"adding", "updating"}
  /\ txn.by = "cli" => cli.pc \in {"adding", "updating", "removing"}
  /\ cli.pc = "removing" => answer["cli"] # "duplicate" /\ (txn.by = "cli" => txn.op = "remove")
  /\ nextId + (IF DashOwes THEN 1 ELSE 0) + (IF CliOwes THEN 1 ELSE 0) <= logins + 1

\* A generation is used once, and a request that posts or has an answer to publish
\* holds the refresh lock and knows what its generation holds.
GenerationsIInv ==
  /\ \A i \in Ids : files[i] # None => files[i].gen < nextGen
  /\ \A c \in Callers : caller[c].pc \notin {"idle", "over"} => caller[c].seen < nextGen
Holds(c) ==
  caller[c].pc \in Busy =>
    /\ refreshLock[caller[c].id] = c
    /\ files[caller[c].id] # None /\ files[caller[c].id].gen = caller[c].seen =>
         /\ files[caller[c].id].login = caller[c].login
         /\ files[caller[c].id].token = caller[c].token
HoldersIInv == \A c \in Callers : Holds(c)
CondemnedIInv ==
  /\ \A c \in Callers : caller[c].pc = "condemn" => caller[c].seen \in condemned
  /\ txn.op = "mark" => txn.gen \in condemned /\ txn.id \in Ids
  /\ txn.op = "mark" /\ txn.step = "commit" =>
       files[txn.id] # None /\ files[txn.id].gen = txn.gen

\* What the mutation has done to the directory it is about.
Past == txn.step \notin Early \union {"none"}
IsNamed == txn.id \in DOMAIN rows
Unnamed(i) == \A r \in mayRegistry : i \notin Named(r)
StepIInv ==
  /\ Past => txn.id \in Ids /\ txn.id < nextId
  /\ txn.op = "remove" => txn.id \in Ids /\ (txn.step # "purge" => promise[txn.id] = "none")
  /\ Past /\ txn.op = "add" =>
       /\ IF txn.step = "settle" THEN IsNamed ELSE Unnamed(txn.id)
       /\ promise[txn.id] = "none"
       /\ txn.step = "stage" => files[txn.id] = None
       /\ txn.step = "install" => place[txn.id] = "staging"
       /\ txn.step \in {"sync", "commit", "settle"} => place[txn.id] = "final"
       /\ txn.step \in {"install", "sync", "commit", "settle"} => files[txn.id] # None
       /\ txn.step = "commit" => mayPlace[txn.id] = {"final"}
  /\ Past /\ txn.op \in {"update", "mark"} =>
       /\ IsNamed
       /\ txn.step # "credentials" => place[txn.id] = "final" /\ files[txn.id] # None
  /\ Past /\ txn.op = "remove" =>
       /\ CASE txn.step = "settle" -> ~IsNamed
            [] txn.step = "purge"  -> Unnamed(txn.id)
            [] OTHER               -> IsNamed
       /\ txn.step = "rename" => place[txn.id] = "final"
       /\ txn.step \in {"sync", "restore"} => place[txn.id] = "tombstone"

\* The directory of an account is kept when no outcome of a loss of power is without
\* its files, and lost when a recovery has purged it too early.
Kept(i) == files[i] # None /\ mayPlace[i] \subseteq {"final", "tombstone"}
Lost(i) == /\ i \in purgedEarly /\ files[i] = None
           /\ mayPlace[i] \subseteq {"none", "final", "tombstone"}
           /\ place[i] = "none" \/ "none" \notin mayPlace[i]

\* What a version of the registry that the disk has or may come back with says of an
\* account: one that it names has its files, and what was answered is so.
Outcome(r, i) ==
  /\ i \in Named(r) => i < nextId /\ (Kept(i) \/ Lost(i))
  /\ promise[i] = "in" => i \in Named(r) /\ mayPlace[i] = {"final"}
  /\ promise[i] = "out" => i \notin Named(r)
AccountIInv(i) ==
  /\ place[i] \in mayPlace[i]
  /\ i >= nextId => files[i] = None /\ promise[i] = "none"
  /\ \A r \in mayRegistry : Outcome(r, i)
AccountsIInv == \A i \in Ids : AccountIInv(i)
VersionsIInv == registry \in mayRegistry /\ mayRegistry \subseteq Registries

DiskIInv == StepIInv /\ AccountsIInv /\ VersionsIInv

IInv ==
  /\ TypesIInv /\ OwnersIInv
  /\ GenerationsIInv /\ HoldersIInv /\ CondemnedIInv
  /\ DiskIInv
-------------------------------------------------------------------------------
(* The rows of the registry and what a mutation makes of them *)

\* A registry is missing or a function from some of the ids to rows.
LEMMA RowsAreRows ==
  ASSUME NEW r \in Registries
  PROVE  /\ Named(r) \subseteq Ids
         /\ (IF r = NoFile THEN <<>> ELSE r) \in [Named(r) -> Row]
         /\ r = NoFile => Named(r) = {}
  BY DEF Registries, Named

\* A function from some of the ids to rows is a registry, and not a missing one.
LEMMA RegistryOf ==
  ASSUME NEW S \in SUBSET Ids, NEW f \in [S -> Row]
  PROVE  f \in Registries /\ f # NoFile /\ Named(f) = S
  BY RegistryAssumption DEF Registries, Named

\* The rows in use are those of the registry, none when it is missing.
LEMMA RowsTyped ==
  ASSUME RegistryTyped
  PROVE  DOMAIN rows = Named(registry) /\ DOMAIN rows \subseteq Ids /\ rows \in [DOMAIN rows -> Row]
  BY RowsAreRows DEF RegistryTyped, rows, Named

\* What the registry says after the write of each mutation.
LEMMA NewRowsOf ==
  ASSUME RegistryTyped, txn.id \in Ids,
         txn.op \in {"update", "mark"} => txn.id \in DOMAIN rows
  PROVE  /\ NewRows \in Registries /\ NewRows # NoFile
         /\ txn.op = "add" => /\ Named(NewRows) = Named(registry) \union {txn.id}
                              /\ NewRows[txn.id].state = "ready"
                              /\ \A i \in DOMAIN rows \ {txn.id} : NewRows[i] = rows[i]
         /\ txn.op = "update" => /\ Named(NewRows) = Named(registry)
                                 /\ NewRows[txn.id].state = "ready"
                                 /\ \A i \in DOMAIN rows \ {txn.id} : NewRows[i] = rows[i]
         /\ txn.op = "mark" => /\ Named(NewRows) = Named(registry)
                               /\ \A i \in DOMAIN rows \ {txn.id} : NewRows[i] = rows[i]
         /\ txn.op \in {"remove", "none"} =>
              /\ Named(NewRows) = Named(registry) \ {txn.id}
              /\ \A i \in DOMAIN rows \ {txn.id} : NewRows[i] = rows[i]
<1> USE RowsTyped DEF Row
<1>1. CASE txn.op = "add"
  <2> DEFINE D == DOMAIN rows \union {txn.id}
             f == [i \in D |-> IF i = txn.id THEN ReadyRow(txn.login) ELSE rows[i]]
  <2>1. NewRows = f
    BY <1>1 DEF NewRows
  <2>2. txn.login \in Logins
    BY <1>1 DEF RegistryTyped
  <2>3. f \in [D -> Row] /\ D \in SUBSET Ids
    BY <2>2 DEF ReadyRow
  <2>4. f[txn.id].state = "ready" /\ \A i \in DOMAIN rows \ {txn.id} : f[i] = rows[i]
    BY DEF ReadyRow
  <2> QED
    BY <1>1, <2>1, <2>3, <2>4, RegistryOf
<1>2. CASE txn.op \in {"update", "mark"}
  <2> DEFINE F(st) == [rows EXCEPT ![txn.id].state = st]
  <2>1. NewRows = F(IF txn.op = "update" THEN "ready" ELSE "needs-reauth")
    BY <1>2 DEF NewRows
  <2>2. \A st \in {"ready", "needs-reauth"} :
          F(st) \in [DOMAIN rows -> Row] /\ F(st)[txn.id].state = st
          /\ \A i \in DOMAIN rows \ {txn.id} : F(st)[i] = rows[i]
    BY <1>2
  <2> HIDE DEF F
  <2> QED
    BY <1>2, <2>1, <2>2, RegistryOf
<1>3. CASE txn.op \in {"remove", "none"}
  <2> DEFINE D == DOMAIN rows \ {txn.id}
  <2>1. NewRows = [i \in D |-> rows[i]]
    BY <1>3 DEF NewRows, Restrict
  <2>2. [i \in D |-> rows[i]] \in [D -> Row] /\ D \in SUBSET Ids
    OBVIOUS
  <2> QED
    BY <1>3, <2>1, <2>2, RegistryOf
<1> QED
  BY <1>1, <1>2, <1>3 DEF RegistryTyped, Txns, Ops

-------------------------------------------------------------------------------
(* The types *)

\* What a step of a mutation that goes on leaves of its record.
SameMutation(step) ==
  /\ txn'.op = txn.op /\ txn'.by = txn.by /\ txn'.id = txn.id /\ txn'.login = txn.login
  /\ txn'.gen = txn.gen /\ txn'.step = step
TxnTyped ==
  /\ txn \in Txns /\ txn.step \in StepsOf(txn.op)
  /\ txn.op \in {"add", "update"} => txn.login \in Logins
  /\ answer \in [Actors -> Answers]

\* A mutation that goes on keeps everything but its step.
LEMMA GotoKeeps ==
  ASSUME TxnTyped, NEW step \in StepsOf(txn.op), Goto(step)
  PROVE  TxnTyped' /\ SameMutation(step) /\ answer' = answer
  BY DEF TxnTyped, Goto, SameMutation, Txns, StepsOf, Ops, Steps, Early, Written

\* A mutation that ends frees the lock and leaves one answer.
LEMMA FinishFrees ==
  ASSUME TxnTyped, NEW outcome \in Answers, Finish(outcome)
  PROVE  TxnTyped' /\ txn' = Idle
  BY DEF TxnTyped, Finish, Idle, Txns, StepsOf, Ops, Steps, Early, Written

\* The steps of _recover keep the types.
LEMMA RecoveryTyped ==
  ASSUME RegistryTyped, TxnTyped, Recovery
  PROVE  RegistryTyped'
<1> USE DEF RegistryTyped
<1>1. CASE SweepStaging
  BY <1>1 DEF SweepStaging, Sync, Recovering, Staged, Places
<1>2. CASE RefuseToGuess
  <2> Finish("failed")
    BY <1>2 DEF RefuseToGuess
  <2> TxnTyped'
    BY FinishFrees DEF Answers
  <2> QED
    BY <1>2 DEF RefuseToGuess, Recovering, TxnTyped
<1>3. CASE ReconcileTombstone
  <2> Goto("reconciled") /\ "reconciled" \in StepsOf(txn.op)
    BY <1>3 DEF ReconcileTombstone, Recovering, TxnTyped, Txns, StepsOf, Ops, Early
  <2> TxnTyped'
    BY GotoKeeps
  <2> QED
    BY <1>3 DEF ReconcileTombstone, Recovering, Move, NoFiles, Tombstones, Places, TxnTyped
<1>4. CASE ReconciledSync
  <2> Goto("recover") /\ "recover" \in StepsOf(txn.op)
    BY <1>4 DEF ReconciledSync, TxnTyped, Txns, StepsOf, Ops, Early
  <2> TxnTyped'
    BY GotoKeeps
  <2> QED
    BY <1>4 DEF ReconciledSync, Sync, Places, TxnTyped
<1>5. CASE RecoverFails
  <2> Finish("failed")
    BY <1>5 DEF RecoverFails
  <2> TxnTyped'
    BY FinishFrees DEF Answers
  <2> QED
    BY <1>5 DEF RecoverFails, Trouble, TxnTyped
<1> QED
  BY <1>1, <1>2, <1>3, <1>4, <1>5 DEF Recovery

\* A mutation past its recovery knows an account, and all but an addition one that
\* the registry names.
KnownAccount ==
  /\ Past => txn.id \in Ids
  /\ txn.op = "remove" => txn.id \in Ids
  /\ txn.op \in {"update", "mark"} /\ txn.step \in Written => txn.id \in DOMAIN rows
  /\ txn.op # "remove" /\ txn.step \in Written => place[txn.id] # "tombstone"

\* So does the choice of the account after it.
LEMMA RecoveredTyped ==
  ASSUME RegistryTyped, TxnTyped, KnownAccount, Recovered
  PROVE  RegistryTyped'
<1>1. UNCHANGED <<registry, mayRegistry, place, mayPlace, files, promise, trouble, nextGen>>
  BY DEF Recovered, Recovering
<1>2. TxnTyped' /\ nextId' \in Nat \ {0}
  <2>1. CASE txn.op = "add"
    <3>1. CASE Finish("duplicate") /\ UNCHANGED nextId
      BY <3>1, FinishFrees DEF Answers, RegistryTyped
    <3>2. CASE /\ txn' = [txn EXCEPT !.id = nextId, !.step = "stage"]
               /\ nextId' = nextId + 1 /\ UNCHANGED answer
      <4>1. nextId \in Nat \ {0} /\ nextId' \in Nat \ {0}
        BY <3>2 DEF RegistryTyped
      <4>2. txn' \in Txns /\ txn'.op = "add" /\ txn'.step = "stage" /\ txn'.login = txn.login
        BY <2>1, <3>2, <4>1 DEF TxnTyped, Txns, Steps
      <4> QED
        BY <2>1, <3>2, <4>1, <4>2 DEF TxnTyped, StepsOf
    <3> QED
      BY <2>1, <3>1, <3>2 DEF Recovered
  <2>2. CASE txn.op = "update"
    <3>1. CASE Finish("missing") /\ UNCHANGED nextId
      BY <3>1, FinishFrees DEF Answers, RegistryTyped
    <3>2. CASE /\ \E i \in RowsOf(txn.login) :
                    txn' = [txn EXCEPT !.id = i, !.step = "credentials"]
               /\ UNCHANGED <<nextId, answer>>
      <4>1. RowsOf(txn.login) \subseteq Nat
        BY RowsTyped, RegistryAssumption DEF RowsOf, Ids
      <4> QED
        BY <2>2, <3>2, <4>1 DEF RegistryTyped, TxnTyped, Txns, StepsOf, Steps
    <3> QED
      BY <2>2, <3>1, <3>2 DEF Recovered
  <2>3. CASE txn.op = "remove"
    <3>1. CASE Finish("missing") /\ UNCHANGED nextId
      BY <3>1, FinishFrees DEF Answers, RegistryTyped
    <3>2. CASE /\ Goto(IF place[txn.id] = "final" THEN "rename" ELSE "commit")
               /\ UNCHANGED nextId
      <4>1. \A step \in {"rename", "commit"} : step \in StepsOf(txn.op)
        BY <2>3 DEF StepsOf, Written
      <4> QED
        BY <3>2, <4>1, GotoKeeps DEF RegistryTyped
    <3> QED
      BY <2>3, <3>1, <3>2 DEF Recovered
  <2>4. CASE txn.op = "mark"
    <3>1. CASE (\E o \in {"missing", "failed", "ok"} : Finish(o)) /\ UNCHANGED nextId
      BY <3>1, FinishFrees DEF Answers, RegistryTyped
    <3>2. CASE Goto("commit") /\ UNCHANGED nextId
      <4>1. "commit" \in StepsOf(txn.op)
        BY <2>4 DEF StepsOf, Written
      <4> QED
        BY <3>2, <4>1, GotoKeeps DEF RegistryTyped
    <3> QED
      BY <2>4, <3>1, <3>2 DEF Recovered
  <2> QED
    BY <2>1, <2>2, <2>3, <2>4 DEF Recovered
<1> QED
  BY <1>1, <1>2 DEF RegistryTyped, TxnTyped

\* A step of a mutation ends it or goes on with one of its steps.
GoesOn == \/ \E step \in StepsOf(txn.op) \ Early : Goto(step)
          \/ \E outcome \in {"ok", "failed"} : Finish(outcome)

\* What either end of a step makes of the mutation's record.
LEMMA GoesOnTyped ==
  ASSUME TxnTyped, GoesOn
  PROVE  TxnTyped'
  BY GotoKeeps, FinishFrees DEF GoesOn, Answers

\* Every step after the recovery goes on to one of its operation, or ends.
LEMMA StepsGoOn ==
  ASSUME TxnTyped, KnownAccount, AddAccount \/ UpdateCredentials \/ RemoveAccount \/ MarkNeedsReauth,
         ~Recovered
  PROVE  GoesOn

<1>1. CASE txn.op = "add" /\ (Stage \/ Install \/ SyncRoot \/ RegistryWrite \/ Rollback)
  <2> USE <1>1 DEF GoesOn, StepsOf, Early, Written, Answers
  <2>1. CASE Stage
    BY <2>1 DEF Stage
  <2>2. CASE Install
    BY <2>2 DEF Install
  <2>3. CASE SyncRoot
    BY <2>3 DEF SyncRoot
  <2>4. CASE Replace
    BY <2>4 DEF Replace
  <2>5. CASE Settle
    BY <2>5 DEF Settle, Settled, KnownAccount
  <2>6. CASE Uncertain
    BY <2>6 DEF Uncertain
  <2>7. CASE CommitFails
    BY <2>7 DEF CommitFails
  <2>8. CASE Rollback
    BY <2>8 DEF Rollback
  <2> QED
    BY <2>1, <2>2, <2>3, <2>4, <2>5, <2>6, <2>7, <2>8 DEF RegistryWrite
<1>2. CASE txn.op = "update" /\ (WriteCredentials \/ WriteProfile \/ RegistryWrite)
  <2> USE <1>2 DEF GoesOn, StepsOf, Early, Written, Answers
  <2>1. CASE WriteCredentials
    BY <2>1 DEF WriteCredentials, WriteFile
  <2>2. CASE WriteProfile
    BY <2>2 DEF WriteProfile, WriteFile
  <2>3. CASE Replace
    BY <2>3 DEF Replace
  <2>4. CASE Settle
    BY <2>4 DEF Settle, Settled, KnownAccount
  <2>5. CASE Uncertain
    BY <2>5 DEF Uncertain
  <2>6. CASE CommitFails
    BY <2>6 DEF CommitFails, KnownAccount
  <2> QED
    BY <2>1, <2>2, <2>3, <2>4, <2>5, <2>6 DEF RegistryWrite
<1>3. CASE txn.op = "remove" /\ (Tombstone \/ SyncRoot \/ RegistryWrite \/ Restore \/ Purge)
  <2> USE <1>3 DEF GoesOn, StepsOf, Early, Written, Answers
  <2>1. CASE Tombstone
    BY <2>1 DEF Tombstone
  <2>2. CASE SyncRoot
    BY <2>2 DEF SyncRoot
  <2>3. CASE Replace
    BY <2>3 DEF Replace
  <2>4. CASE Settle
    BY <2>4 DEF Settle, Settled, KnownAccount
  <2>5. CASE Uncertain
    BY <2>5 DEF Uncertain
  <2>6. CASE CommitFails
    BY <2>6 DEF CommitFails, KnownAccount
  <2>7. CASE Restore
    BY <2>7 DEF Restore
  <2>8. CASE Purge
    BY <2>8 DEF Purge
  <2> QED
    BY <2>1, <2>2, <2>3, <2>4, <2>5, <2>6, <2>7, <2>8 DEF RegistryWrite
<1>4. CASE txn.op = "mark" /\ RegistryWrite
  <2> USE <1>4 DEF GoesOn, StepsOf, Early, Written, Answers
  <2>1. CASE Replace
    BY <2>1 DEF Replace
  <2>2. CASE Settle
    BY <2>2 DEF Settle, Settled, KnownAccount
  <2>3. CASE Uncertain
    BY <2>3 DEF Uncertain
  <2>4. CASE CommitFails
    BY <2>4 DEF CommitFails, KnownAccount
  <2> QED
    BY <2>1, <2>2, <2>3, <2>4 DEF RegistryWrite
<1> QED
  BY <1>1, <1>2, <1>3, <1>4 DEF AddAccount, UpdateCredentials, RemoveAccount, MarkNeedsReauth

\* What a mutation leaves on disk has the right types.
LEMMA DiskTyped ==
  ASSUME RegistryTyped, KnownAccount,
         AddAccount \/ UpdateCredentials \/ RemoveAccount \/ MarkNeedsReauth, ~Recovered
  PROVE  /\ registry' \in Registries
         /\ place' \in [Ids -> Places] /\ mayPlace' \in [Ids -> SUBSET Places]
         /\ files' \in [Ids -> Contents \union {None}]
         /\ nextId' = nextId /\ nextGen' \in Nat
         /\ promise' \in [Ids -> {"none", "in", "out"}]
         /\ trouble' \in Nat
<1>1. \A l \in Logins : NewFiles(l) \in Contents
  BY DEF RegistryTyped, NewFiles, Contents
<1> USE DEF RegistryTyped
<1>p. ASSUME NEW what \in {"none", "in", "out"}, Promise(what)
      PROVE  promise' \in [Ids -> {"none", "in", "out"}]
  BY <1>p DEF Promise
<1>f. ASSUME NoFiles(txn.id)
      PROVE  files' \in [Ids -> Contents \union {None}]
  BY <1>f DEF NoFiles
<1>m. ASSUME NEW to \in Places, MoveAndSync(txn.id, to) \/ Move(txn.id, to)
      PROVE  place' \in [Ids -> Places] /\ mayPlace' \in [Ids -> SUBSET Places]
  BY <1>m DEF MoveAndSync, Move, Sync
<1>2. CASE Stage
  BY <1>1, <1>2 DEF Stage, At, Move, Trouble, Places
<1>3. CASE Install
  BY <1>3 DEF Install, At, Move, Trouble, Places
<1>4. CASE SyncRoot
  BY <1>4 DEF SyncRoot, Sync, Trouble, Places
<1>5. CASE Rollback
  <2>1. place[txn.id] \in Places
    BY <1>5 DEF Rollback, At, KnownAccount, Past, Early
  <2>2. place' \in [Ids -> Places] /\ mayPlace' \in [Ids -> SUBSET Places]
    BY <1>5, <1>m, <2>1 DEF Rollback, Places
  <2>3. files' \in [Ids -> Contents \union {None}] /\ promise' \in [Ids -> {"none", "in", "out"}]
    BY <1>5, <1>f, <1>p DEF Rollback
  <2> QED
    BY <1>5, <2>2, <2>3 DEF Rollback, Trouble
<1>6. CASE WriteCredentials
  <2>1. txn.login \in Logins
    BY <1>6 DEF WriteCredentials, At
  <2>2. [files EXCEPT ![txn.id] = NewFiles(txn.login)] \in [Ids -> Contents \union {None}]
    BY <1>1, <2>1
  <2> QED
    BY <1>6, <2>2 DEF WriteCredentials, WriteFile, Trouble
<1>7. CASE WriteProfile
  BY <1>7 DEF WriteProfile, WriteFile, Trouble
<1>8. CASE Tombstone
  BY <1>8 DEF Tombstone, At, Move, Trouble, Places
<1>9. CASE Restore
  BY <1>9 DEF Restore, At, MoveAndSync, Move, Sync, Promise, Trouble, Places
<1>10. CASE Purge
  <2>1. place' \in [Ids -> Places] /\ mayPlace' \in [Ids -> SUBSET Places]
    BY <1>10, <1>m DEF Purge, Places
  <2>2. files' \in [Ids -> Contents \union {None}]
    BY <1>10, <1>f DEF Purge
  <2> QED
    BY <1>10, <2>1, <2>2 DEF Purge, Trouble
<1>11. CASE Replace
  <2>1. txn.id \in Ids /\ (txn.op \in {"update", "mark"} => txn.id \in DOMAIN rows)
    BY <1>11 DEF Replace, KnownAccount, Past, Early, Written
  <2>2. NewRows \in Registries
    BY <2>1, NewRowsOf
  <2> QED
    BY <1>11, <2>2 DEF Replace
<1>12. CASE Settle
  BY <1>12 DEF Settle, Settled, Sync, Promise, Places
<1>13. CASE Uncertain
  BY <1>13, <1>p DEF Uncertain, Trouble
<1>14. CASE CommitFails
  BY <1>14 DEF CommitFails, Trouble
<1> QED
  BY <1>2, <1>3, <1>4, <1>5, <1>6, <1>7, <1>8, <1>9, <1>10, <1>11, <1>12, <1>13, <1>14
  DEF AddAccount, UpdateCredentials, RemoveAccount, MarkNeedsReauth, RegistryWrite

\* Every step of a mutation keeps the types.
LEMMA MutationTyped ==
  ASSUME RegistryTyped, KnownAccount, MutationStep
  PROVE  RegistryTyped'
<1> TxnTyped
  BY DEF RegistryTyped, TxnTyped
<1>1. CASE Recovery
  BY <1>1, RecoveryTyped
<1>2. CASE Recovered
  BY <1>2, RecoveredTyped
<1>3. CASE /\ AddAccount \/ UpdateCredentials \/ RemoveAccount \/ MarkNeedsReauth
           /\ ~Recovered
  <2>1. TxnTyped'
    BY <1>3, StepsGoOn, GoesOnTyped
  <2> QED
    BY <1>3, <2>1, DiskTyped DEF RegistryTyped, TxnTyped
<1> QED
  BY <1>1, <1>2, <1>3 DEF MutationStep

\* What the disk part of the invariant says of the account of a mutation.
LEMMA AccountIsKnown ==
  ASSUME RegistryTyped, StepIInv
  PROVE  KnownAccount
  BY DEF RegistryTyped, StepIInv, KnownAccount, Past, IsNamed, StepsOf, Txns, Ops, Early, Written

\* A mutation begins well typed.
LEMMA BeginTyped ==
  ASSUME RegistryTyped, NEW a \in Actors, NEW op \in Ops \ {"none"}, NEW i \in Nat, NEW l \in Nat,
         NEW g \in Nat, op \in {"add", "update"} => l \in Logins, Begin(a, op, i, l, g)
  PROVE  /\ RegistryTyped'
         /\ txn' = [by |-> a, op |-> op, step |-> "recover", id |-> i, login |-> l, gen |-> g]
<1>1. txn' = [by |-> a, op |-> op, step |-> "recover", id |-> i, login |-> l, gen |-> g]
  BY DEF Begin
<1>2. txn' \in Txns /\ txn'.step \in StepsOf(txn'.op)
  BY <1>1 DEF Txns, StepsOf, Steps, Ops, Early
<1>3. promise' \in [Ids -> {"none", "in", "out"}]
  BY DEF Begin, RegistryTyped
<1> QED
  BY <1>1, <1>2, <1>3 DEF Begin, RegistryTyped

\* An answer that is taken leaves the types alone.
LEMMA TakenTyped ==
  ASSUME RegistryTyped, NEW a \in Actors, Taken(a), OnlyAnswer
  PROVE  RegistryTyped'
  BY DEF RegistryTyped, Taken, OnlyAnswer, Answers

\* So does the death of a process.
LEMMA DiesTyped ==
  ASSUME RegistryTyped, NEW dead, Dies(dead)
  PROVE  RegistryTyped'
<1>1. txn' = Idle \/ txn' = txn
  BY DEF Dies
<1>2. Idle \in Txns /\ Idle.step \in StepsOf(Idle.op) /\ Idle.op = "none"
  BY DEF Idle, Txns, Ops, Steps, StepsOf
<1>3. answer' \in [Actors -> Answers]
  BY DEF Dies, RegistryTyped, Answers
<1> QED
  BY <1>1, <1>2, <1>3 DEF Dies, Trouble, RegistryTyped

\* Every outcome of a loss of power is a registry.
LEMMA PowerLossTyped ==
  ASSUME RegistryTyped, VersionsIInv, PowerLoss
  PROVE  RegistryTyped' /\ txn' = Idle
<1>1. Idle \in Txns /\ Idle.step \in StepsOf(Idle.op) /\ Idle.op = "none"
  BY DEF Idle, Txns, Ops, Steps, StepsOf
<1>2. registry' \in Registries
  BY DEF PowerLoss, VersionsIInv
<1>3. answer' \in [Actors -> Answers]
  BY DEF PowerLoss, Answers
<1>4. place' \in [Ids -> Places] /\ mayPlace' \in [Ids -> SUBSET Places]
  BY DEF PowerLoss, Places
<1> QED
  BY <1>1, <1>2, <1>3, <1>4 DEF PowerLoss, Trouble, RegistryTyped

\* The session, the command line and the requests are different actors.
LEMMA ActorsAre ==
  "dash" \in Actors /\ "cli" \in Actors /\ Callers \subseteq Actors
  /\ "dash" \notin Callers /\ "cli" \notin Callers /\ None \notin Actors
  BY AccountsAssumption, RegistryAssumption

\* What the session and the command line do while the registry and the requests rest.
OwnStep ==
  \/ LoginPost \/ CancelPost \/ ConfirmPost \/ ClearSlot
  \/ ChildExits \/ Spawn \/ WaitEnds \/ Capture \/ Lookup \/ ReplaceEnds \/ SessionEnds
  \/ CliLogin \/ CliCaptured

\* None of these steps touches the registry or a request.
LEMMA OwnStepKeeps ==
  ASSUME OwnStep
  PROVE  UNCHANGED <<registryVars, callerVars>>
  BY DEF OwnStep, LoginPost, CancelPost, ConfirmPost, ClearSlot, ChildExits, Spawn, WaitEnds,
         Capture, Lookup, ReplaceEnds, SessionEnds, CliLogin, CliCaptured, Quiet, SessionStep,
         CliStep

\* A session that moves to another place of its driver.
LEMMA SessionMoves ==
  ASSUME SessionTyped, NEW status \in Statuses, NEW pc \in SessionPcs, Session(status, pc),
         pc \in LoginSteps => session.pc \in LoginSteps,
         status \in {"none", "succeeded", "failed", "cancelled"} => pc \in {"finally", "done"}
  PROVE  SessionTyped'
<1>1. session' \in [status : Statuses, pc : SessionPcs, process : {"none", "running", "ended"},
                  login : Nat, shown : Nat, cancel : BOOLEAN, confirm : BOOLEAN, count : Nat]
  BY DEF SessionTyped, Session
<1>2. session'.login = session.login /\ session'.pc = pc /\ session'.status = status
  BY DEF SessionTyped, Session
<1> QED
  BY <1>1, <1>2 DEF SessionTyped, Terminal

\* A captured login is one more.
LEMMA OneMoreLogin ==
  ASSUME logins \in 0..NumLogins, logins < NumLogins
  PROVE  logins + 1 \in Logins /\ logins + 1 \in 0..NumLogins /\ logins + 1 \in Nat
  BY RegistryAssumption DEF Logins

\* The session and the command line keep their types on their own.
LEMMA OwnStepTyped ==
  ASSUME RegistryTyped, LoginsTyped, OwnStep
  PROVE  LoginsTyped'
<1>s. SessionTyped /\ CliTyped
  BY DEF LoginsTyped
<1>1. ASSUME Spawn \/ WaitEnds \/ ReplaceEnds \/ ClearSlot \/ ChildExits \/ CancelPost
             \/ ConfirmPost \/ Lookup
      PROVE  UNCHANGED <<logins, valid, cli>>
  BY <1>1 DEF Spawn, WaitEnds, ReplaceEnds, ClearSlot, ChildExits, CancelPost, ConfirmPost,
              Lookup, Quiet, SessionStep
<1>u. CliTyped' \/ cli' # cli
  BY <1>s DEF CliTyped
<1>v. SessionTyped' \/ session' # session
  BY <1>s DEF SessionTyped, Terminal
<1>2. CASE Spawn
  <2>1. CASE Session("failed", "finally")
    BY <1>1, <1>2, <1>s, <1>u, <2>1, SessionMoves DEF LoginsTyped, Statuses, SessionPcs, LoginSteps
  <2>2. CASE session.pc = "spawn" /\ session' = [session EXCEPT !.pc = "wait", !.process = "running"]
    <3> SessionTyped'
      BY <1>s, <2>2 DEF SessionTyped, Terminal, SessionPcs, LoginSteps
    <3> QED
      BY <1>1, <1>2, <1>u DEF LoginsTyped
  <2> QED
    BY <1>2, <2>1, <2>2 DEF Spawn
<1>3. CASE WaitEnds
  <2>1. \/ Session("cancelled", "finally") \/ Session("failed", "finally")
        \/ Session("completing", "capture")
    BY <1>3 DEF WaitEnds
  <2>2. SessionTyped'
    BY <1>s, <2>1, SessionMoves DEF Statuses, SessionPcs, LoginSteps
  <2> QED
    BY <1>1, <1>3, <1>u, <2>2 DEF LoginsTyped
<1>4. CASE ReplaceEnds
  <2>1. /\ session.pc \in LoginSteps
        /\ \/ Session("cancelled", "finally") \/ Session("failed", "finally")
           \/ Session("completing", "update")
    BY <1>4 DEF ReplaceEnds, LoginSteps
  <2>2. /\ {"cancelled", "failed", "completing"} \subseteq Statuses
        /\ {"finally", "update"} \subseteq SessionPcs /\ "finally" \notin LoginSteps
    BY DEF Statuses, SessionPcs, LoginSteps
  <2>3. SessionTyped'
    BY <1>s, <2>1, <2>2, SessionMoves
  <2> QED
    BY <1>1, <1>4, <1>u, <2>3 DEF LoginsTyped
<1>5. CASE ClearSlot
  <2>1. Session("none", session.pc) /\ session.pc \in {"finally", "done"}
    BY <1>5, <1>s DEF ClearSlot, SessionTyped
  <2>2. SessionTyped'
    BY <1>s, <2>1, SessionMoves DEF Statuses, SessionPcs, LoginSteps
  <2> QED
    BY <1>1, <1>5, <1>u, <2>2 DEF LoginsTyped
<1>6. CASE ChildExits \/ CancelPost \/ ConfirmPost
  <2>1. \/ session' = [session EXCEPT !.process = "ended"]
        \/ session' = [session EXCEPT !.cancel = TRUE]
        \/ session' = [session EXCEPT !.confirm = TRUE]
    BY <1>6 DEF ChildExits, CancelPost, ConfirmPost
  <2>2. SessionTyped'
    BY <1>s, <2>1 DEF SessionTyped, Terminal
  <2> QED
    BY <1>1, <1>6, <1>u, <2>2 DEF LoginsTyped
<1>7. CASE Lookup
  <2>1. CASE Session("failed", "finally")
    BY <1>1, <1>7, <1>s, <1>u, <2>1, SessionMoves DEF LoginsTyped, Statuses, SessionPcs, LoginSteps
  <2>2. CASE session.pc = "lookup" /\ \E i \in RowsOf(session.login) :
               session' = [session EXCEPT !.shown = i, !.status = "awaiting-replace", !.pc = "replace"]
    <3>1. RowsOf(session.login) \subseteq Nat
      BY RowsTyped DEF RowsOf, Ids
    <3>2. SessionTyped'
      BY <1>s, <2>2, <3>1 DEF SessionTyped, Terminal, SessionPcs, LoginSteps, Statuses
    <3> QED
      BY <1>1, <1>7, <1>u, <3>2 DEF LoginsTyped
  <2> QED
    BY <1>7, <2>1, <2>2 DEF Lookup
<1>8. CASE LoginPost
  <2>1. session.count + 1 \in Nat
    BY <1>s DEF SessionTyped
  <2>2. session' = [status |-> "starting", pc |-> "spawn", process |-> "none", login |-> 0,
                    shown |-> 0, cancel |-> FALSE, confirm |-> FALSE, count |-> session.count + 1]
    BY <1>8 DEF LoginPost, NoSession
  <2>3. SessionTyped'
    BY <2>1, <2>2 DEF SessionTyped, Terminal, SessionPcs, Statuses, LoginSteps
  <2> QED
    BY <1>8, <1>u, <2>3 DEF LoginPost, SessionStep, LoginsTyped
<1>9. CASE Capture
  <2>1. CASE logins < NumLogins /\ logins' = logins + 1
             /\ session' = [session EXCEPT !.pc = "add", !.login = logins + 1]
    <3>1. SessionTyped'
      BY <1>9, <1>s, <2>1, OneMoreLogin
      DEF Capture, LoginsTyped, SessionTyped, Terminal, SessionPcs, LoginSteps
    <3> QED
      BY <1>9, <1>u, <2>1, <3>1, OneMoreLogin DEF Capture, SessionStep, LoginsTyped
  <2>2. CASE Session("failed", "finally") /\ UNCHANGED logins
    <3>1. SessionTyped'
      BY <1>s, <2>2, SessionMoves DEF Statuses, SessionPcs, LoginSteps
    <3> QED
      BY <1>9, <1>u, <2>2, <3>1 DEF Capture, SessionStep, LoginsTyped
  <2> QED
    BY <1>9, <2>1, <2>2 DEF Capture
<1>10. CASE SessionEnds
  <2>1. SessionTyped'
    BY <1>10, <1>s DEF SessionEnds, SessionTyped, Terminal, SessionPcs, LoginSteps
  <2> QED
    BY <1>10, <1>u, <2>1 DEF SessionEnds, SessionStep, LoginsTyped
<1>11. CASE CliLogin
  <2>1. cli' = [cli EXCEPT !.pc = "capture", !.count = cli.count + 1] /\ cli.count + 1 \in Nat
    BY <1>11, <1>s DEF CliLogin, CliTyped
  <2>2. CliTyped'
    BY <1>s, <2>1 DEF CliTyped, CliPcs
  <2> QED
    BY <1>11, <1>v, <2>2 DEF CliLogin, CliStep, LoginsTyped
<1>12. CASE CliCaptured
  <2>1. CASE logins < NumLogins /\ logins' = logins + 1
             /\ cli' = [cli EXCEPT !.pc = "add", !.login = logins + 1]
    <3>1. CliTyped'
      BY <1>s, <2>1, OneMoreLogin DEF LoginsTyped, CliTyped, CliPcs
    <3> QED
      BY <1>12, <1>v, <2>1, <3>1, OneMoreLogin DEF CliCaptured, CliStep, LoginsTyped
  <2>2. CASE Cli("idle") /\ UNCHANGED logins
    <3>1. CliTyped'
      BY <1>s, <2>2 DEF Cli, CliTyped, CliPcs
    <3> QED
      BY <1>12, <1>v, <2>2, <3>1 DEF CliCaptured, CliStep, LoginsTyped
  <2> QED
    BY <1>12, <2>1, <2>2 DEF CliCaptured
<1> QED
  BY <1>2, <1>3, <1>4, <1>5, <1>6, <1>7, <1>8, <1>9, <1>10, <1>11, <1>12 DEF OwnStep

\* What the calls of a request make of its record.
LEMMA CallMoves ==
  ASSUME CallsTyped, NEW c \in Callers, NEW pc \in CallPcs, NEW gen \in Nat, Call(c, pc, gen),
         caller[c].pc \notin {"idle", "over"}, pc \in Busy => caller[c].pc \in Busy
  PROVE  /\ CallsTyped'
         /\ caller'[c].pc = pc /\ caller'[c].seen = gen /\ caller'[c].id = caller[c].id
         /\ caller'[c].login = caller[c].login /\ caller'[c].token = caller[c].token
         /\ \A d \in Callers \ {c} : caller'[d] = caller[d]
<1>1. caller' = [caller EXCEPT ![c] = [caller[c] EXCEPT !.pc = pc, !.seen = gen]]
  BY DEF Call, CallsTyped
<1>2. caller[c] \in Calls
  BY DEF CallsTyped
<1>3. [caller[c] EXCEPT !.pc = pc, !.seen = gen] \in Calls
  BY <1>2 DEF Calls
<1>4. /\ caller' \in [Callers -> Calls]
      /\ caller'[c].pc = pc /\ caller'[c].seen = gen /\ caller'[c].id = caller[c].id
      /\ caller'[c].login = caller[c].login /\ caller'[c].token = caller[c].token
      /\ \A d \in Callers \ {c} : caller'[d] = caller[d]
  BY <1>1, <1>2, <1>3 DEF CallsTyped, Calls
<1> QED
  BY <1>4 DEF CallsTyped, Busy

\* A request that is over has forgotten its account.
LEMMA CallEnds ==
  ASSUME CallsTyped, NEW c \in Callers, Over(c)
  PROVE  /\ CallsTyped'
         /\ caller'[c].pc = "over" /\ \A d \in Callers \ {c} : caller'[d] = caller[d]
<1>1. [NoCall EXCEPT !.pc = "over"] \in Calls /\ [NoCall EXCEPT !.pc = "over"].pc = "over"
  BY DEF NoCall, Calls, CallPcs
<1>2. /\ caller' \in [Callers -> Calls] /\ caller'[c].pc = "over"
      /\ \A d \in Callers \ {c} : caller'[d] = caller[d]
  BY <1>1 DEF CallsTyped, Over
<1> QED
  BY <1>2 DEF CallsTyped, Busy

\* The generation and the files of an account that can be read.
LEMMA ReadableFiles ==
  ASSUME RegistryTyped, NEW i \in Ids, files[i] # None
  PROVE  /\ files[i] \in Contents /\ files[i].gen \in Nat
         /\ files[i].login \in Logins /\ files[i].token \in Nat
  BY DEF RegistryTyped, Contents

RequestStep(c) ==
  Load(c) \/ Reload(c) \/ TokenAnswer(c) \/ RejectRefresh(c) \/ CancelPublication(c) \/ ApiAnswer(c)

\* Reading, posting and rejecting credentials touches nothing but the request.
LEMMA RequestKeepsDisk ==
  ASSUME NEW c, RequestStep(c)
  PROVE  UNCHANGED <<registryVars, logins, captureLock, session, cli>>
  BY DEF RequestStep, Load, Reload, TokenAnswer, RejectRefresh, CancelPublication, ApiAnswer,
         CallStep, loginVars, registryVars

\* A request keeps its types.
LEMMA RequestTyped ==
  ASSUME TypesIInv, NEW c \in Callers, RequestStep(c)
  PROVE  CallersTyped' /\ valid' \in [Logins -> Nat]
<1> USE DEF TypesIInv, CallersTyped
<1>u. caller[c].pc \notin {"idle", "over"} /\ Unlock(c) => refreshLock' \in [Ids -> Callers \union {None}]
  BY DEF Unlock
<1>v. valid \in [Logins -> Nat] /\ caller[c] \in Calls /\ caller[c].seen \in Nat
  BY DEF LoginsTyped, CallsTyped, Calls
<1>1. CASE Load(c)
  <2>1. PICK i \in Ids : /\ Readable(i)
                         /\ caller' = [caller EXCEPT ![c] =
                              [@ EXCEPT !.pc = "stale", !.id = i, !.seen = files[i].gen]]
    BY <1>1 DEF Load
  <2>2. files[i].gen \in Nat /\ i \in Nat
    BY <2>1, ReadableFiles DEF Readable, Ids
  <2>3. CallsTyped'
    <3> DEFINE rec == [caller[c] EXCEPT !.pc = "stale", !.id = i, !.seen = files[i].gen]
    <3>1. rec \in Calls
      BY <1>v, <2>2 DEF Calls, CallPcs
    <3>2. rec.pc = "stale" /\ rec.id = i
      BY <1>v DEF Calls
    <3>3. caller' = [caller EXCEPT ![c] = rec] /\ i \in Ids
      BY <2>1
    <3> HIDE DEF rec
    <3>4. QED BY <3>1, <3>2, <3>3 DEF CallsTyped, Busy
  <2> QED
    BY <1>1, <1>v, <2>3 DEF Load, CallStep, loginVars
<1>2. CASE Reload(c)
  <2>1. caller[c].pc = "stale" /\ caller[c].id \in Ids
    BY <1>2 DEF Reload, CallsTyped
  <2>2. CASE ~Readable(caller[c].id)
    BY <1>2, <1>v, <2>2, CallEnds DEF Reload, CallStep, loginVars
  <2>3. CASE Readable(caller[c].id) /\ MustRefresh(c)
    <3> DEFINE f == files[caller[c].id]
    <3>1. f.gen \in Nat /\ f.login \in Logins /\ f.token \in Nat /\ f.login \in Nat
      BY <2>1, <2>3, ReadableFiles DEF Readable, Logins
    <3>2. /\ refreshLock' = [refreshLock EXCEPT ![caller[c].id] = c]
          /\ caller' = [caller EXCEPT ![c] = [@ EXCEPT !.pc = "posting", !.seen = f.gen,
                                                      !.login = f.login, !.token = f.token]]
      BY <1>2, <2>3 DEF Reload
    <3>3. caller' \in [Callers -> Calls]
      BY <3>1, <3>2 DEF CallsTyped, Calls, CallPcs
    <3>4. CallsTyped'
      BY <2>1, <3>1, <3>2, <3>3 DEF CallsTyped, Calls, Busy
    <3> QED
      BY <1>2, <1>v, <3>2, <3>4 DEF Reload, CallStep, loginVars
  <2>4. CASE Readable(caller[c].id) /\ ~MustRefresh(c)
    <3>1. files[caller[c].id].gen \in Nat
      BY <2>1, <2>4, ReadableFiles DEF Readable
    <3>2. Call(c, "served", files[caller[c].id].gen) /\ UNCHANGED refreshLock
      BY <1>2, <2>4 DEF Reload
    <3> QED
      BY <1>2, <1>v, <2>1, <3>1, <3>2, CallMoves DEF Reload, CallStep, loginVars, CallPcs, Busy
  <2> QED
    BY <2>2, <2>3, <2>4
<1>3. CASE TokenAnswer(c)
  <2>1. valid' \in [Logins -> Nat]
    BY <1>3, <1>v DEF TokenAnswer
  <2>2. caller[c].pc = "posting"
    BY <1>3 DEF TokenAnswer
  <2>3. \/ Call(c, "publishing", caller[c].seen) /\ UNCHANGED refreshLock
        \/ Call(c, "rejected", caller[c].seen) /\ UNCHANGED refreshLock
        \/ Over(c) /\ Unlock(c)
    BY <1>3 DEF TokenAnswer
  <2>4. CASE Over(c) /\ Unlock(c)
    BY <1>u, <2>1, <2>2, <2>4, CallEnds
  <2>5. CASE \E pc \in {"publishing", "rejected"} : Call(c, pc, caller[c].seen) /\ UNCHANGED refreshLock
    BY <1>v, <2>1, <2>2, <2>5, CallMoves DEF CallPcs, Busy
  <2> QED
    BY <2>3, <2>4, <2>5
<1>4. CASE RejectRefresh(c)
  <2>1. caller[c].pc = "rejected" /\ Unlock(c) /\ caller[c].id \in Ids
    BY <1>4 DEF RejectRefresh, CallsTyped
  <2>2. \/ Over(c)
        \/ Readable(caller[c].id) /\ Call(c, "served", files[caller[c].id].gen)
        \/ Call(c, "condemn", caller[c].seen)
    BY <1>4 DEF RejectRefresh
  <2>3. Readable(caller[c].id) => files[caller[c].id].gen \in Nat
    BY <2>1, ReadableFiles DEF Readable
  <2>4. CallsTyped'
    BY <1>v, <2>1, <2>2, <2>3, CallMoves, CallEnds DEF CallPcs, Busy
  <2> QED
    BY <1>4, <1>u, <1>v, <2>1, <2>4 DEF RejectRefresh, CallStep, loginVars
<1>5. CASE CancelPublication(c)
  BY <1>5, <1>v, CallMoves DEF CancelPublication, CallStep, loginVars, CallPcs, Busy
<1>6. CASE ApiAnswer(c)
  BY <1>6, <1>v, CallMoves, CallEnds DEF ApiAnswer, CallStep, loginVars, CallPcs, Busy
<1> QED
  BY <1>1, <1>2, <1>3, <1>4, <1>5, <1>6 DEF RequestStep

\* The publication replaces, if anything, the credentials of its own account by the
\* rotated ones, under a fresh generation.
Rotated(c, f) ==
  f.gen = nextGen /\ f.login = caller[c].login /\ f.token = caller[c].token + 1

\* All that a publication can do.
LEMMA PublishRefreshDoes ==
  ASSUME TypesIInv, NEW c \in Callers, PublishRefresh(c)
  PROVE  /\ LockFree /\ caller[c].pc \in Busy /\ caller[c].id \in Ids
         /\ Unlock(c) /\ UNCHANGED <<loginVars, condemned>>
         /\ UNCHANGED <<registry, mayRegistry, place, mayPlace, nextId, txn, answer, promise>>
         /\ \/ files' = files /\ nextGen' \in {nextGen, nextGen + 1}
            \/ /\ files[caller[c].id] # None /\ files[caller[c].id].gen = caller[c].seen
               /\ \E f \in Contents : Rotated(c, f) /\ files' = [files EXCEPT ![caller[c].id] = f]
               /\ nextGen' = nextGen + 1
         /\ \/ Over(c)
            \/ /\ Call(c, "served", files[caller[c].id].gen)
               /\ files[caller[c].id] # None /\ files[caller[c].id].gen \in Nat
            \/ Call(c, "served", nextGen) /\ nextGen' = nextGen + 1
         /\ trouble' \in {trouble, trouble + 1}
<1>1. /\ LockFree /\ caller[c].pc \in Busy /\ caller[c].id \in Ids
      /\ Unlock(c) /\ UNCHANGED <<loginVars, condemned>>
      /\ UNCHANGED <<registry, mayRegistry, place, mayPlace, nextId, txn, answer, promise>>
  BY DEF PublishRefresh, TypesIInv, CallersTyped, CallsTyped, Busy
<1>2. ASSUME Readable(caller[c].id)
      PROVE  /\ files[caller[c].id] # None /\ files[caller[c].id].gen \in Nat
             /\ \E f \in Contents :
                  Rotated(c, f) /\ Refreshed(c) = [files EXCEPT ![caller[c].id] = f]
  <2> DEFINE old == files[caller[c].id]
             f == [old EXCEPT !.gen = nextGen, !.login = caller[c].login,
                              !.token = caller[c].token + 1]
  <2>1. old # None
    BY <1>2 DEF Readable
  <2>2. old \in Contents /\ old.gen \in Nat
    BY <1>1, <2>1, ReadableFiles DEF TypesIInv
  <2>3. nextGen \in Nat /\ caller[c].login \in Logins /\ caller[c].token + 1 \in Nat
    BY <1>1 DEF TypesIInv, CallersTyped, CallsTyped, Calls, RegistryTyped
  <2>4. f \in Contents /\ Rotated(c, f)
    BY <2>2, <2>3 DEF Contents, Rotated
  <2>5. Refreshed(c) = [files EXCEPT ![caller[c].id] = f]
    BY DEF Refreshed
  <2> QED
    BY <2>1, <2>2, <2>4, <2>5
<1>3. nextGen \in Nat
  BY DEF TypesIInv, RegistryTyped
<1>4. CASE ~Readable(caller[c].id) /\ Over(c) /\ UNCHANGED <<files, nextGen, trouble>>
  BY <1>1, <1>4
<1>5. CASE /\ Readable(caller[c].id)
           /\ \/ Over(c) \/ Call(c, "served", files[caller[c].id].gen)
           /\ UNCHANGED <<files, nextGen, trouble>>
  BY <1>1, <1>2, <1>5
<1>6. CASE /\ Readable(caller[c].id) /\ ~Overtaken(c)
           /\ files' = Refreshed(c) /\ nextGen' = nextGen + 1
           /\ Over(c) \/ Call(c, "served", nextGen)
           /\ UNCHANGED trouble
  BY <1>1, <1>2, <1>3, <1>6 DEF Overtaken
<1>7. CASE /\ Readable(caller[c].id) /\ ~Overtaken(c) /\ Trouble
           /\ files' \in {files, Refreshed(c)} /\ nextGen' = nextGen + 1 /\ Over(c)
  BY <1>1, <1>2, <1>7 DEF Overtaken, Trouble
<1> QED
  BY <1>4, <1>5, <1>6, <1>7 DEF PublishRefresh

\* A publication keeps the types.
LEMMA PublishRefreshTyped ==
  ASSUME TypesIInv, NEW c \in Callers, PublishRefresh(c)
  PROVE  TypesIInv'
<1>1. CallsTyped /\ caller[c] \in Calls /\ RegistryTyped
  BY DEF TypesIInv, CallersTyped, CallsTyped
<1>3. files' \in [Ids -> Contents \union {None}] /\ nextGen' \in Nat /\ trouble' \in Nat
  BY <1>1, PublishRefreshDoes DEF RegistryTyped
<1>4. RegistryTyped'
  BY <1>1, <1>3, PublishRefreshDoes DEF RegistryTyped
<1>5. CallsTyped'
  BY <1>1, PublishRefreshDoes, CallMoves, CallEnds DEF Busy, CallPcs, RegistryTyped
<1>6. refreshLock' \in [Ids -> Callers \union {None}]
  BY PublishRefreshDoes DEF Unlock, TypesIInv, CallersTyped
<1>7. LoginsTyped'
  BY PublishRefreshDoes DEF TypesIInv, LoginsTyped, SessionTyped, CliTyped, Terminal, loginVars
<1> QED
  BY <1>4, <1>5, <1>6, <1>7 DEF TypesIInv, CallersTyped

\* Each way a mutation begins.
LEMMA SessionMutatesDoes ==
  ASSUME TypesIInv, SessionMutates
  PROVE  /\ \E op \in {"add", "update"} :
              Begin("dash", op, 0, session.login, 0) /\ session.pc = op
         /\ session.login \in Logins /\ session.login \in Nat
         /\ session' = [session EXCEPT !.pc = IF @ = "add" THEN "adding" ELSE "updating"]
         /\ UNCHANGED <<logins, valid, captureLock, cli, callerVars>>
  BY DEF SessionMutates, SessionStep, TypesIInv, LoginsTyped, SessionTyped, LoginSteps, Logins

\* account add begins an addition, or the replacement its user confirmed.
LEMMA CliMutatesDoes ==
  ASSUME TypesIInv, CliMutates
  PROVE  /\ \/ cli.pc = "add" /\ Begin("cli", "add", 0, cli.login, 0) /\ Cli("adding")
            \/ cli.pc = "confirmed" /\ Begin("cli", "update", 0, cli.login, 0) /\ Cli("updating")
         /\ cli.login \in Logins /\ cli.login \in Nat
         /\ UNCHANGED <<logins, valid, captureLock, session, callerVars>>
  BY DEF CliMutates, CliStep, TypesIInv, LoginsTyped, CliTyped, Logins

\* account remove names an account that the registry has.
LEMMA CliRemovesDoes ==
  ASSUME TypesIInv, CliRemoves
  PROVE  /\ cli.pc = "idle" /\ cli' = [cli EXCEPT !.pc = "removing", !.count = @ + 1]
         /\ \E i \in DOMAIN rows : Begin("cli", "remove", i, 0, 0) /\ i \in Ids /\ i \in Nat
         /\ UNCHANGED <<logins, valid, captureLock, session, callerVars>>
<1>1. DOMAIN rows \subseteq Ids
  BY RowsTyped DEF TypesIInv
<1> QED
  BY <1>1 DEF CliRemoves, CliStep, Ids

\* A request marks the account and generation it condemned.
LEMMA MarkDoes ==
  ASSUME TypesIInv, NEW c \in Callers, Mark(c)
  PROVE  /\ caller[c].pc = "condemn" /\ Begin(c, "mark", caller[c].id, 0, caller[c].seen)
         /\ caller[c].id \in Ids /\ caller[c].id \in Nat /\ caller[c].seen \in Nat
         /\ Call(c, "marking", caller[c].seen)
         /\ UNCHANGED <<loginVars, refreshLock, condemned>>
  BY DEF Mark, TypesIInv, CallersTyped, CallsTyped, Calls, Ids

\* Every beginning keeps the types.
LEMMA BeginsTyped ==
  ASSUME TypesIInv, SessionMutates \/ CliMutates \/ CliRemoves \/ \E c \in Callers : Mark(c)
  PROVE  TypesIInv'
<1> USE ActorsAre DEF TypesIInv
<1>c. UNCHANGED callerVars => CallersTyped'
  BY DEF callerVars, CallersTyped, CallsTyped
<1>s. UNCHANGED session => SessionTyped'
  BY DEF LoginsTyped, SessionTyped, Terminal
<1>l. UNCHANGED cli => CliTyped'
  BY DEF LoginsTyped, CliTyped
<1>1. CASE SessionMutates
  <2>1. RegistryTyped'
    BY <1>1, SessionMutatesDoes, BeginTyped DEF Ops
  <2>2. SessionTyped'
    BY <1>1, SessionMutatesDoes DEF LoginsTyped, SessionTyped, Terminal, SessionPcs, LoginSteps
  <2> QED
    BY <1>1, <1>c, <1>l, <2>1, <2>2, SessionMutatesDoes DEF LoginsTyped
<1>2. CASE CliMutates
  <2>1. RegistryTyped'
    BY <1>2, CliMutatesDoes, BeginTyped DEF Ops
  <2>2. CliTyped'
    BY <1>2, CliMutatesDoes DEF LoginsTyped, CliTyped, Cli, CliPcs
  <2> QED
    BY <1>2, <1>c, <1>s, <2>1, <2>2, CliMutatesDoes DEF LoginsTyped
<1>3. CASE CliRemoves
  <2>1. RegistryTyped'
    BY <1>3, CliRemovesDoes, BeginTyped DEF Ops
  <2>2. cli' = [cli EXCEPT !.pc = "removing", !.count = cli.count + 1] /\ cli.count + 1 \in Nat
    BY <1>3, CliRemovesDoes DEF LoginsTyped, CliTyped
  <2>3. CliTyped'
    BY <2>2 DEF LoginsTyped, CliTyped, CliPcs
  <2> QED
    BY <1>3, <1>c, <1>s, <2>1, <2>3, CliRemovesDoes DEF LoginsTyped
<1>4. ASSUME NEW c \in Callers, Mark(c)
      PROVE  TypesIInv'
  <2>1. RegistryTyped'
    BY <1>4, MarkDoes, BeginTyped DEF Ops
  <2>2. CallersTyped'
    BY <1>4, MarkDoes, CallMoves DEF CallersTyped, CallPcs, Busy
  <2> QED
    BY <1>4, <1>s, <1>l, <2>1, <2>2, MarkDoes DEF LoginsTyped, loginVars
<1> QED
  BY <1>1, <1>2, <1>3, <1>4

\* Each way an answer is taken.
LEMMA SessionAnsweredDoes ==
  ASSUME SessionAnswered
  PROVE  /\ session.pc \in {"adding", "updating"} /\ Taken("dash") /\ OnlyAnswer
         /\ \/ Session("succeeded", "finally") \/ Session("failed", "finally")
            \/ Session("completing", "lookup")
         /\ UNCHANGED <<logins, valid, captureLock, cli, callerVars>>
  BY DEF SessionAnswered, SessionStep

\* Only a login can turn out to be a duplicate.
LEMMA CliAnsweredDoes ==
  ASSUME OwnersIInv, CliAnswered
  PROVE  /\ cli.pc \in {"adding", "updating", "removing"} /\ Taken("cli") /\ OnlyAnswer
         /\ Cli("idle") \/ (cli.pc # "removing" /\ Cli("confirmed"))
         /\ UNCHANGED <<logins, valid, captureLock, session, callerVars>>
  BY DEF CliAnswered, CliStep, OwnersIInv

\* A request that marked its account is over.
LEMMA MarkedDoes ==
  ASSUME NEW c \in Callers, Marked(c)
  PROVE  /\ caller[c].pc = "marking" /\ Taken(c) /\ OnlyAnswer /\ Over(c)
         /\ UNCHANGED <<loginVars, refreshLock, condemned>>
  BY DEF Marked

\* Taking an answer keeps the types.
LEMMA AnswersTyped ==
  ASSUME TypesIInv, OwnersIInv, SessionAnswered \/ CliAnswered \/ \E c \in Callers : Marked(c)
  PROVE  TypesIInv'
<1> USE ActorsAre DEF TypesIInv
<1>c. UNCHANGED callerVars => CallersTyped'
  BY DEF callerVars, CallersTyped, CallsTyped
<1>s. UNCHANGED session => SessionTyped'
  BY DEF LoginsTyped, SessionTyped, Terminal
<1>l. UNCHANGED cli => CliTyped'
  BY DEF LoginsTyped, CliTyped
<1>1. CASE SessionAnswered
  <2>1. RegistryTyped'
    BY <1>1, SessionAnsweredDoes, TakenTyped
  <2>2. /\ {"succeeded", "failed", "completing"} \subseteq Statuses
        /\ {"finally", "lookup"} \subseteq SessionPcs /\ "finally" \notin LoginSteps
        /\ session.pc \in LoginSteps
    BY <1>1, SessionAnsweredDoes DEF Statuses, SessionPcs, LoginSteps
  <2>3. SessionTyped'
    BY <1>1, <2>2, SessionAnsweredDoes, SessionMoves DEF LoginsTyped
  <2> QED
    BY <1>1, <1>c, <1>l, <2>1, <2>3, SessionAnsweredDoes DEF LoginsTyped
<1>2. CASE CliAnswered
  <2>1. RegistryTyped'
    BY <1>2, CliAnsweredDoes, TakenTyped
  <2>2. CliTyped'
    BY <1>2, CliAnsweredDoes DEF LoginsTyped, CliTyped, Cli, CliPcs
  <2> QED
    BY <1>2, <1>c, <1>s, <2>1, <2>2, CliAnsweredDoes DEF LoginsTyped
<1>3. ASSUME NEW c \in Callers, Marked(c)
      PROVE  TypesIInv'
  <2>1. RegistryTyped'
    BY <1>3, MarkedDoes, TakenTyped
  <2>2. CallersTyped'
    BY <1>3, MarkedDoes, CallEnds DEF CallersTyped
  <2> QED
    BY <1>3, <1>s, <1>l, <2>1, <2>2, MarkedDoes DEF LoginsTyped, loginVars
<1> QED
  BY <1>1, <1>2, <1>3

\* A process or the machine ends.
LEMMA NoDaemonTyped ==
  ASSUME TypesIInv, NoDaemon
  PROVE  SessionTyped' /\ CallersTyped'
<1>1. session.count \in Nat
  BY DEF TypesIInv, LoginsTyped, SessionTyped
<1>2. session' = [status |-> "none", pc |-> "done", process |-> "none", login |-> 0, shown |-> 0,
                  cancel |-> FALSE, confirm |-> FALSE, count |-> session.count]
  BY DEF NoDaemon, NoSession
<1>3. SessionTyped'
  BY <1>1, <1>2 DEF SessionTyped, Terminal, Statuses, SessionPcs, LoginSteps
<1>4. CallersTyped'
  BY DEF NoDaemon, NoCall, CallersTyped, CallsTyped, Calls, CallPcs, Busy
<1> QED
  BY <1>3, <1>4

\* So do the ends of processes and of the machine.
LEMMA DeathsTyped ==
  ASSUME TypesIInv, VersionsIInv, Deaths
  PROVE  TypesIInv'
<1> USE DEF TypesIInv
<1>i. Cli("idle") => CliTyped'
  BY DEF LoginsTyped, CliTyped, Cli, CliPcs
<1>1. CASE CliDies
  <2>1. RegistryTyped'
    BY <1>1, DiesTyped DEF CliDies
  <2>2. SessionTyped' /\ CallersTyped'
    BY <1>1 DEF CliDies, LoginsTyped, SessionTyped, Terminal, callerVars, CallersTyped, CallsTyped
  <2> QED
    BY <1>1, <1>i, <2>1, <2>2 DEF CliDies, LoginsTyped
<1>2. CASE DaemonDies
  <2>1. RegistryTyped'
    BY <1>2, DiesTyped DEF DaemonDies
  <2>2. CliTyped'
    BY <1>2 DEF DaemonDies, LoginsTyped, CliTyped
  <2> QED
    BY <1>2, <2>1, <2>2, NoDaemonTyped DEF DaemonDies, LoginsTyped
<1>3. CASE MachineStops
  <2>1. RegistryTyped'
    BY <1>3, PowerLossTyped DEF MachineStops
  <2> QED
    BY <1>3, <1>i, <2>1, NoDaemonTyped DEF MachineStops, LoginsTyped
<1> QED
  BY <1>1, <1>2, <1>3 DEF Deaths

\* Every step of the system is one of these.
LEMMA NextIs ==
  ASSUME Next
  PROVE  \/ OwnStep
         \/ SessionMutates \/ CliMutates \/ CliRemoves \/ \E c \in Callers : Mark(c)
         \/ SessionAnswered \/ CliAnswered \/ \E c \in Callers : Marked(c)
         \/ \E c \in Callers : RequestStep(c)
         \/ \E c \in Callers : PublishRefresh(c)
         \/ Mutation \/ Deaths
  BY DEF Next, Commands, Driver, CommandLine, Request, OwnStep, RequestStep

\* Every step keeps the types.
LEMMA TypesInductive ==
  ASSUME TypesIInv, OwnersIInv, StepIInv, VersionsIInv, [Next]_vars
  PROVE  TypesIInv'
<1>r. UNCHANGED registryVars => RegistryTyped'
  BY DEF TypesIInv, RegistryTyped, registryVars
<1>c. UNCHANGED callerVars => CallersTyped'
  BY DEF TypesIInv, callerVars, CallersTyped, CallsTyped
<1>s. UNCHANGED session => SessionTyped'
  BY DEF TypesIInv, LoginsTyped, SessionTyped, Terminal
<1>l. UNCHANGED cli => CliTyped'
  BY DEF TypesIInv, LoginsTyped, CliTyped
<1>1. CASE OwnStep
  BY <1>1, <1>r, <1>c, OwnStepKeeps, OwnStepTyped DEF TypesIInv
<1>2. CASE SessionMutates \/ CliMutates \/ CliRemoves \/ \E c \in Callers : Mark(c)
  BY <1>2, BeginsTyped
<1>3. CASE SessionAnswered \/ CliAnswered \/ \E c \in Callers : Marked(c)
  BY <1>3, AnswersTyped
<1>4. ASSUME NEW c \in Callers, RequestStep(c)
      PROVE  TypesIInv'
  BY <1>4, <1>r, <1>s, <1>l, RequestKeepsDisk, RequestTyped DEF TypesIInv, LoginsTyped
<1>5. CASE \E c \in Callers : PublishRefresh(c)
  BY <1>5, PublishRefreshTyped
<1>6. CASE Mutation
  <2>1. RegistryTyped'
    BY <1>6, AccountIsKnown, MutationTyped DEF Mutation, TypesIInv
  <2> QED
    BY <1>6, <1>c, <1>s, <1>l, <2>1 DEF Mutation, TypesIInv, LoginsTyped, loginVars
<1>7. CASE Deaths
  BY <1>7, DeathsTyped
<1>8. CASE UNCHANGED vars
  BY <1>8, <1>r, <1>c, <1>s, <1>l DEF vars, TypesIInv, LoginsTyped, loginVars
<1> QED
  BY <1>1, <1>2, <1>3, <1>4, <1>5, <1>6, <1>7, <1>8, NextIs

-------------------------------------------------------------------------------
(* Who owns the mutation, and how many accounts are still to come *)

\* What a step makes of the mutation under the lock: it ends with an answer, goes on,
\* or learns after its recovery which account it is about.
Ends == /\ txn' = Idle /\ nextId' = nextId
        /\ \E outcome \in Answers \ {"none"} :
             /\ answer' = [answer EXCEPT ![txn.by] = outcome]
             /\ outcome = "duplicate" => txn.op = "add"
Continues == /\ SameMutation(txn'.step) /\ answer' = answer /\ nextId' = nextId
             /\ txn'.step \in Early => txn.step \in Early
Turns == /\ txn.step = "recover" /\ txn'.op = txn.op /\ txn'.by = txn.by
         /\ txn'.login = txn.login /\ txn'.gen = txn.gen /\ answer' = answer
         /\ \/ txn.op = "add" /\ txn'.step = "stage" /\ txn'.id = nextId /\ nextId' = nextId + 1
            \/ /\ txn.op = "update" /\ txn'.step = "credentials" /\ nextId' = nextId
               /\ txn'.id \in DOMAIN rows

\* A step of a mutation that goes on.
LEMMA GotoContinues ==
  ASSUME TxnTyped, NEW step \in StepsOf(txn.op), Goto(step), nextId' = nextId,
         step \in Early => txn.step \in Early
  PROVE  Continues /\ txn'.step = step
  BY GotoKeeps DEF Continues, SameMutation

\* A step of a mutation that ends.
LEMMA FinishEnds ==
  ASSUME NEW outcome \in Answers \ {"none"}, Finish(outcome), nextId' = nextId,
         outcome = "duplicate" => txn.op = "add"
  PROVE  Ends
  BY DEF Finish, Ends

\* _recover stays in its two steps, or gives up.
LEMMA RecoveryMoves ==
  ASSUME RegistryTyped, Recovery
  PROVE  /\ Ends \/ (Continues /\ txn'.step \in Early)
         /\ txn.op # "none" /\ txn.step \in Early
<1>t. TxnTyped
  BY DEF RegistryTyped, TxnTyped
<1>0. txn.step \in Early /\ txn.op # "none"
  <2>1. txn.step \in Early
    BY DEF Recovery, SweepStaging, RefuseToGuess, ReconcileTombstone, ReconciledSync, RecoverFails,
           Recovering, Early
  <2> QED
    BY <1>t, <2>1 DEF TxnTyped, StepsOf, Early
<1>1. Early \subseteq StepsOf(txn.op)
  BY <1>t, <1>0 DEF TxnTyped, Txns, Ops, StepsOf
<1>2. CASE SweepStaging
  BY <1>2, <1>0 DEF SweepStaging, Continues, SameMutation
<1>3. CASE RefuseToGuess
  BY <1>3, <1>0, FinishEnds DEF RefuseToGuess, Answers
<1>4. CASE ReconcileTombstone
  BY <1>4, <1>t, <1>0, <1>1, GotoContinues DEF ReconcileTombstone, Early
<1>5. CASE ReconciledSync
  BY <1>5, <1>t, <1>0, <1>1, GotoContinues DEF ReconciledSync, Early
<1>6. CASE RecoverFails
  BY <1>6, <1>0, FinishEnds DEF RecoverFails, Answers
<1> QED
  BY <1>0, <1>2, <1>3, <1>4, <1>5, <1>6 DEF Recovery

\* After _recover the mutation has an account, or an answer.
LEMMA RecoveredMoves ==
  ASSUME RegistryTyped, Recovered
  PROVE  /\ \/ Ends \/ Turns
            \/ Continues /\ txn'.step \in {"rename", "commit"} /\ txn.op \in {"remove", "mark"}
         /\ txn.op # "none" /\ txn.step = "recover"
<1>t. TxnTyped
  BY DEF RegistryTyped, TxnTyped
<1>0. txn.step = "recover" /\ txn.op \in {"add", "update", "remove", "mark"}
  BY DEF Recovered, Recovering
<1>1. CASE txn.op = "add"
  <2>1. CASE Finish("duplicate") /\ UNCHANGED nextId
    BY <1>0, <1>1, <2>1, FinishEnds DEF Answers
  <2>2. CASE /\ txn' = [txn EXCEPT !.id = nextId, !.step = "stage"]
             /\ nextId' = nextId + 1 /\ UNCHANGED answer
    BY <1>0, <1>1, <1>t, <2>2 DEF TxnTyped, Txns, Turns
  <2> QED
    BY <1>1, <2>1, <2>2 DEF Recovered
<1>2. CASE txn.op = "update"
  <2>1. CASE Finish("missing") /\ UNCHANGED nextId
    BY <1>0, <2>1, FinishEnds DEF Answers
  <2>2. CASE /\ \E i \in RowsOf(txn.login) : txn' = [txn EXCEPT !.id = i, !.step = "credentials"]
             /\ UNCHANGED <<nextId, answer>>
    BY <1>0, <1>2, <1>t, <2>2 DEF TxnTyped, Txns, Turns, RowsOf
  <2> QED
    BY <1>2, <2>1, <2>2 DEF Recovered
<1>3. CASE txn.op = "remove"
  <2>1. CASE Finish("missing") /\ UNCHANGED nextId
    BY <1>0, <2>1, FinishEnds DEF Answers
  <2>2. CASE Goto(IF place[txn.id] = "final" THEN "rename" ELSE "commit") /\ UNCHANGED nextId
    <3>1. {"rename", "commit"} \subseteq StepsOf(txn.op)
      BY <1>3 DEF StepsOf, Written
    <3> QED
      BY <1>0, <1>3, <1>t, <2>2, <3>1, GotoContinues DEF Early
  <2> QED
    BY <1>3, <2>1, <2>2 DEF Recovered
<1>4. CASE txn.op = "mark"
  <2>1. CASE (\E o \in {"missing", "failed", "ok"} : Finish(o)) /\ UNCHANGED nextId
    BY <1>0, <2>1, FinishEnds DEF Answers
  <2>2. CASE Goto("commit") /\ UNCHANGED nextId
    <3>1. "commit" \in StepsOf(txn.op)
      BY <1>4 DEF StepsOf, Written
    <3> QED
      BY <1>0, <1>4, <1>t, <2>2, <3>1, GotoContinues DEF Early
  <2> QED
    BY <1>4, <2>1, <2>2 DEF Recovered
<1> QED
  BY <1>0, <1>1, <1>2, <1>3, <1>4

\* The same of the steps that change the disk, by operation.
LEMMA StepsMove ==
  ASSUME RegistryTyped, KnownAccount,
         AddAccount \/ UpdateCredentials \/ RemoveAccount \/ MarkNeedsReauth, ~Recovered
  PROVE  /\ Ends \/ Continues
         /\ Past /\ txn.op # "none"
         /\ txn'.step \notin Early
<1>t. TxnTyped
  BY DEF RegistryTyped, TxnTyped
<1>1. GoesOn
  BY <1>t, StepsGoOn
<1>2. nextId' = nextId
  BY DiskTyped
<1>3. Past /\ txn.op # "none"
  BY DEF AddAccount, UpdateCredentials, RemoveAccount, MarkNeedsReauth, RegistryWrite, Stage,
     Install, SyncRoot, Rollback, WriteCredentials, WriteProfile, Tombstone, Restore, Purge,
     Replace, Settle, Uncertain, CommitFails, At, Past, Early
<1>4. CASE \E step \in StepsOf(txn.op) \ Early : Goto(step)
  BY <1>t, <1>2, <1>3, <1>4, GotoContinues
<1>5. CASE \E outcome \in {"ok", "failed"} : Finish(outcome)
  <2>1. Ends
    BY <1>2, <1>5, FinishEnds DEF Answers
  <2> QED
    BY <1>3, <2>1 DEF Ends, Idle, Early
<1> QED
  BY <1>1, <1>4, <1>5 DEF GoesOn

\* Every step of a mutation ends it, continues it or gives it its account.
LEMMA MutationMoves ==
  ASSUME RegistryTyped, KnownAccount, MutationStep
  PROVE  (Ends \/ Continues \/ Turns) /\ txn.op # "none"
<1>1. CASE Recovery
  BY <1>1, RecoveryMoves
<1>2. CASE Recovered
  BY <1>2, RecoveredMoves
<1>3. CASE /\ AddAccount \/ UpdateCredentials \/ RemoveAccount \/ MarkNeedsReauth
           /\ ~Recovered
  BY <1>3, StepsMove
<1> QED
  BY <1>1, <1>2, <1>3 DEF MutationStep

\* A mutation stays its actor's, and an id it takes was owed to a login.
LEMMA OwnersOfMutation ==
  ASSUME RegistryTyped, logins \in Nat, OwnersIInv, Ends \/ Continues \/ Turns, txn.op # "none",
         UNCHANGED loginVars
  PROVE  OwnersIInv'
<1> USE ActorsAre DEF OwnersIInv
<1>0. UNCHANGED <<logins, session, cli>> /\ nextId \in Nat /\ txn.by \in Actors
      /\ answer \in [Actors -> Answers]
  BY DEF loginVars, RegistryTyped
<1>1. CASE Ends
  <2>1. txn' = Idle /\ nextId' = nextId
    BY <1>1 DEF Ends
  <2>2. DashOwes' => DashOwes
    BY <1>0, <2>1 DEF DashOwes, Idle
  <2>3. CliOwes' => CliOwes
    BY <1>0, <2>1 DEF CliOwes, Idle
  <2>4. cli.pc = "removing" => answer'["cli"] # "duplicate"
    BY <1>0, <1>1 DEF Ends
  <2> QED
    BY <1>0, <2>1, <2>2, <2>3, <2>4 DEF Idle
<1>2. CASE Continues
  <2>1. /\ nextId' = nextId /\ answer' = answer /\ txn'.op = txn.op /\ txn'.by = txn.by
        /\ txn'.step \in Early => txn.step \in Early
    BY <1>2 DEF Continues, SameMutation
  <2>2. DashOwes' => DashOwes
    BY <1>0, <2>1 DEF DashOwes
  <2>3. CliOwes' => CliOwes
    BY <1>0, <2>1 DEF CliOwes
  <2> QED
    BY <1>0, <2>1, <2>2, <2>3
<1>3. CASE Turns
  <2>1. /\ txn.step \in Early /\ txn'.step \notin Early
        /\ answer' = answer /\ txn'.op = txn.op /\ txn'.by = txn.by
        /\ txn.op \in {"add", "update"}
        /\ nextId' = nextId \/ (nextId' = nextId + 1 /\ txn.op = "add")
    BY <1>3 DEF Turns, Early
  <2>2. (DashOwes' => DashOwes) /\ (CliOwes' => CliOwes)
    BY <1>0, <2>1 DEF DashOwes, CliOwes
  <2>3. txn.op = "add" => \/ DashOwes /\ ~DashOwes'
                          \/ CliOwes /\ ~CliOwes'
    BY <1>0, <2>1 DEF DashOwes, CliOwes
  <2> QED
    BY <1>0, <2>1, <2>2, <2>3
<1> QED
  BY <1>1, <1>2, <1>3

\* How the session and the command line move on their own.
LEMMA OwnStepMoves ==
  ASSUME TypesIInv, OwnStep
  PROVE  /\ session.pc \in {"adding", "updating"} => session'.pc = session.pc
         /\ cli.pc \in {"adding", "updating", "removing"} => cli'.pc = cli.pc
         /\ cli'.pc = "removing" => cli.pc = "removing"
         /\ \/ logins' = logins /\ (session'.pc = "add" => session.pc = "add")
               /\ (cli'.pc = "add" => cli.pc = "add")
            \/ logins' = logins + 1 /\ session.pc # "add" /\ (cli'.pc = "add" => cli.pc = "add")
            \/ logins' = logins + 1 /\ cli.pc # "add" /\ (session'.pc = "add" => session.pc = "add")
<1>s. SessionTyped /\ CliTyped
  BY DEF TypesIInv, LoginsTyped
<1> USE <1>s DEF SessionTyped, CliTyped
<1>1. CASE Spawn \/ WaitEnds \/ ReplaceEnds
  BY <1>1 DEF Spawn, WaitEnds, ReplaceEnds, Session, Quiet, SessionStep
<1>2. CASE ChildExits \/ CancelPost \/ ConfirmPost \/ ClearSlot \/ SessionEnds
  BY <1>2 DEF ChildExits, CancelPost, ConfirmPost, ClearSlot, SessionEnds, Session, Quiet,
              SessionStep
<1>3. CASE Lookup
  BY <1>3 DEF Lookup, Session, Quiet, SessionStep
<1>4. CASE LoginPost
  BY <1>4 DEF LoginPost, NoSession, SessionStep
<1>5. CASE Capture
  BY <1>5 DEF Capture, Session, SessionStep
<1>6. CASE CliLogin \/ CliCaptured
  BY <1>6 DEF CliLogin, CliCaptured, Cli, CliStep
<1> QED
  BY <1>1, <1>2, <1>3, <1>4, <1>5, <1>6 DEF OwnStep

\* A login that is captured owes at most one account.
LEMMA OwnersOfOwnStep ==
  ASSUME TypesIInv, OwnersIInv, OwnStep
  PROVE  OwnersIInv'
<1> USE ActorsAre DEF OwnersIInv
<1>1. UNCHANGED <<txn, answer, nextId>>
  BY OwnStepKeeps DEF registryVars
<1>2. nextId \in Nat /\ logins \in Nat
  BY DEF TypesIInv, RegistryTyped, LoginsTyped
<1>3. /\ txn'.by = "dash" => session'.pc \in {"adding", "updating"}
      /\ txn'.by = "cli" => cli'.pc \in {"adding", "updating", "removing"}
      /\ cli'.pc = "removing" => cli.pc = "removing"
  BY <1>1, OwnStepMoves
<1>4. (IF DashOwes' THEN 1 ELSE 0) + (IF CliOwes' THEN 1 ELSE 0) + logins
        <= (IF DashOwes THEN 1 ELSE 0) + (IF CliOwes THEN 1 ELSE 0) + logins'
  BY <1>1, <1>2, OwnStepMoves DEF DashOwes, CliOwes
<1>5. logins' \in Nat
  BY <1>2, OwnStepMoves
<1>6. nextId' + (IF DashOwes' THEN 1 ELSE 0) + (IF CliOwes' THEN 1 ELSE 0) <= logins' + 1
  <2> DEFINE n(b) == IF b THEN 1 ELSE 0
  <2>1. n(DashOwes) \in Nat /\ n(CliOwes) \in Nat /\ n(DashOwes') \in Nat /\ n(CliOwes') \in Nat
    OBVIOUS
  <2>2. nextId + n(DashOwes) + n(CliOwes) <= logins + 1
    OBVIOUS
  <2>3. n(DashOwes') + n(CliOwes') + logins <= n(DashOwes) + n(CliOwes) + logins'
    BY <1>4
  <2> HIDE DEF n
  <2>4. nextId + n(DashOwes') + n(CliOwes') <= logins' + 1
    BY <1>2, <1>5, <2>1, <2>2, <2>3
  <2> QED
    BY <1>1, <2>4 DEF n
<1> QED
  BY <1>1, <1>3, <1>6

\* A beginning hands the debt of the session or the command line to the mutation.
LEMMA OwnersOfBegin ==
  ASSUME TypesIInv, OwnersIInv,
         SessionMutates \/ CliMutates \/ CliRemoves \/ \E c \in Callers : Mark(c)
  PROVE  OwnersIInv'
<1> USE ActorsAre DEF OwnersIInv
<1>1. nextId \in Nat /\ logins \in Nat
  BY DEF TypesIInv, RegistryTyped, LoginsTyped
<1>s. SessionTyped /\ CliTyped /\ RegistryTyped
  BY DEF TypesIInv, LoginsTyped
<1>2. ASSUME NEW a \in Actors, NEW op, NEW i, NEW l, NEW g, Begin(a, op, i, l, g)
      PROVE  /\ txn = Idle /\ txn'.by = a /\ txn'.op = op /\ txn'.step = "recover"
             /\ answer[a] = "none" /\ answer' = answer /\ nextId' = nextId
  BY <1>2 DEF Begin, LockFree
<1>3. CASE SessionMutates
  <2>1. PICK op \in {"add", "update"} :
          Begin("dash", op, 0, session.login, 0) /\ session.pc = op
    BY <1>3, SessionMutatesDoes
  <2>2. /\ session'.pc \in {"adding", "updating"} /\ cli' = cli /\ logins' = logins
    BY <1>3, <1>s, SessionMutatesDoes DEF SessionTyped
  <2>3. DashOwes' <=> DashOwes
    BY <1>2, <2>1, <2>2 DEF DashOwes, Idle, Early
  <2>4. CliOwes' <=> CliOwes
    BY <1>2, <2>1, <2>2 DEF CliOwes, Idle
  <2> QED
    BY <1>1, <1>2, <2>1, <2>2, <2>3, <2>4
<1>4. CASE CliMutates
  <2>1. PICK op \in {"add", "update"} :
          /\ Begin("cli", op, 0, cli.login, 0)
          /\ op = "add" => cli.pc = "add" /\ Cli("adding")
          /\ op = "update" => cli.pc = "confirmed" /\ Cli("updating")
    BY <1>4, CliMutatesDoes
  <2>2. /\ cli'.pc \in {"adding", "updating"} /\ session' = session /\ logins' = logins
        /\ op = "add" <=> cli.pc = "add"
    BY <1>4, <1>s, <2>1, CliMutatesDoes DEF CliTyped, Cli
  <2>3. DashOwes' <=> DashOwes
    BY <1>2, <2>1, <2>2 DEF DashOwes, Idle
  <2>4. CliOwes' <=> CliOwes
    BY <1>2, <2>1, <2>2 DEF CliOwes, Idle, Early
  <2> QED
    BY <1>1, <1>2, <2>1, <2>2, <2>3, <2>4
<1>5. CASE CliRemoves
  <2>1. PICK i \in DOMAIN rows : Begin("cli", "remove", i, 0, 0)
    BY <1>5, CliRemovesDoes
  <2>2. /\ cli'.pc = "removing" /\ cli.pc = "idle" /\ session' = session /\ logins' = logins
    BY <1>5, <1>s, CliRemovesDoes DEF CliTyped
  <2>3. (DashOwes' <=> DashOwes) /\ (CliOwes' <=> CliOwes)
    BY <1>2, <2>1, <2>2 DEF DashOwes, CliOwes, Idle
  <2> QED
    BY <1>1, <1>2, <2>1, <2>2, <2>3
<1>6. ASSUME NEW c \in Callers, Mark(c)
      PROVE  OwnersIInv'
  <2>1. /\ Begin(c, "mark", caller[c].id, 0, caller[c].seen) /\ c \in Actors
        /\ UNCHANGED <<session, cli, logins>>
    BY <1>6, MarkDoes DEF loginVars
  <2>2. (DashOwes' <=> DashOwes) /\ (CliOwes' <=> CliOwes)
    BY <1>2, <2>1 DEF DashOwes, CliOwes, Idle
  <2> QED
    BY <1>1, <1>2, <2>1, <2>2
<1> QED
  BY <1>3, <1>4, <1>5, <1>6

\* An answer finds no mutation of its actor left.
LEMMA OwnersOfAnswer ==
  ASSUME TypesIInv, OwnersIInv, SessionAnswered \/ CliAnswered \/ \E c \in Callers : Marked(c)
  PROVE  OwnersIInv'
<1> USE ActorsAre DEF OwnersIInv
<1>s. SessionTyped /\ CliTyped /\ RegistryTyped /\ nextId \in Nat /\ logins \in Nat
  BY DEF TypesIInv, LoginsTyped, RegistryTyped
<1>1. ASSUME NEW a \in Actors, Taken(a), OnlyAnswer
      PROVE  /\ txn' = txn /\ nextId' = nextId /\ (txn.op # "none" => txn.by # a)
             /\ answer' \in [Actors -> Answers]
             /\ \A b \in Actors : answer'[b] = (IF b = a THEN "none" ELSE answer[b])
  BY <1>1, <1>s DEF Taken, OnlyAnswer, RegistryTyped, Answers
<1>2. CASE SessionAnswered
  <2>1. /\ session'.pc \in {"finally", "lookup"} /\ session.pc \in {"adding", "updating"}
        /\ cli' = cli /\ logins' = logins /\ Taken("dash") /\ OnlyAnswer
    BY <1>2, <1>s, SessionAnsweredDoes DEF SessionTyped, Session
  <2>2. (DashOwes' => DashOwes) /\ (CliOwes' => CliOwes)
    BY <1>1, <2>1 DEF DashOwes, CliOwes
  <2>3. txn.by # "dash"
    BY <1>1, <2>1 DEF Idle
  <2> QED
    BY <1>s, <1>1, <2>1, <2>2, <2>3
<1>3. CASE CliAnswered
  <2>1. /\ cli'.pc \in {"idle", "confirmed"} /\ cli.pc \in {"adding", "updating", "removing"}
        /\ session' = session /\ logins' = logins /\ Taken("cli") /\ OnlyAnswer
    BY <1>3, <1>s, CliAnsweredDoes DEF CliTyped, Cli
  <2>2. (DashOwes' => DashOwes) /\ (CliOwes' => CliOwes)
    BY <1>1, <2>1 DEF DashOwes, CliOwes
  <2>3. txn.by # "cli"
    BY <1>1, <2>1 DEF Idle
  <2> QED
    BY <1>s, <1>1, <2>1, <2>2, <2>3
<1>4. ASSUME NEW c \in Callers, Marked(c)
      PROVE  OwnersIInv'
  <2>1. UNCHANGED <<session, cli, logins>> /\ Taken(c) /\ OnlyAnswer /\ c \in Actors
    BY <1>4, MarkedDoes DEF loginVars
  <2>2. (DashOwes' <=> DashOwes) /\ (CliOwes' <=> CliOwes)
    BY <1>1, <2>1 DEF DashOwes, CliOwes
  <2> QED
    BY <1>s, <1>1, <2>1, <2>2
<1> QED
  BY <1>2, <1>3, <1>4

\* A process that dies takes its mutation and its debt with it.
LEMMA OwnersOfDeath ==
  ASSUME TypesIInv, OwnersIInv, Deaths
  PROVE  OwnersIInv'
<1> USE ActorsAre DEF OwnersIInv
<1>s. SessionTyped /\ CliTyped /\ RegistryTyped /\ nextId \in Nat /\ logins \in Nat
  BY DEF TypesIInv, LoginsTyped, RegistryTyped
<1>1. ASSUME NEW dead, Dies(dead)
      PROVE  /\ nextId' = nextId /\ (txn.by \in dead => txn' = Idle)
             /\ txn.by \notin dead => txn' = txn
             /\ \A a \in Actors : answer'[a] = (IF a \in dead THEN "none" ELSE answer[a])
  BY <1>1 DEF Dies
<1>2. CASE CliDies
  <2>1. /\ cli'.pc = "idle" /\ session' = session /\ logins' = logins /\ Dies({"cli"})
    BY <1>2, <1>s DEF CliDies, Cli, CliTyped
  <2>2. (DashOwes' => DashOwes) /\ (CliOwes' => CliOwes) /\ (txn' = Idle \/ txn' = txn)
    BY <1>1, <2>1 DEF DashOwes, CliOwes, Idle
  <2> QED
    BY <1>s, <1>1, <2>1, <2>2 DEF Idle
<1>3. CASE DaemonDies
  <2>1. /\ session'.pc = "done" /\ cli' = cli /\ logins' = logins /\ Dies({"dash"} \union Callers)
    BY <1>3, <1>s DEF DaemonDies, NoDaemon, NoSession, SessionTyped
  <2>2. (DashOwes' => DashOwes) /\ (CliOwes' => CliOwes) /\ (txn' = Idle \/ txn' = txn)
    BY <1>1, <2>1 DEF DashOwes, CliOwes, Idle
  <2> QED
    BY <1>s, <1>1, <2>1, <2>2 DEF Idle
<1>4. CASE MachineStops
  <2>1. /\ session'.pc = "done" /\ cli'.pc = "idle" /\ logins' = logins /\ txn' = Idle
        /\ nextId' = nextId /\ answer' = [a \in Actors |-> "none"]
    BY <1>4, <1>s DEF MachineStops, PowerLoss, NoDaemon, NoSession, Cli, SessionTyped, CliTyped
  <2>2. ~DashOwes' /\ ~CliOwes'
    BY <2>1 DEF DashOwes, CliOwes, Idle
  <2>3. nextId <= logins + 1
    BY <1>s
  <2> QED
    BY <1>s, <2>1, <2>2, <2>3 DEF Idle
<1> QED
  BY <1>2, <1>3, <1>4 DEF Deaths

\* Every step keeps the mutation with its actor and the ids within the logins.
LEMMA OwnersInductive ==
  ASSUME TypesIInv, OwnersIInv, StepIInv, [Next]_vars
  PROVE  OwnersIInv'
<1>s. RegistryTyped /\ logins \in Nat
  BY DEF TypesIInv, LoginsTyped
<1>1. CASE Mutation
  BY <1>1, <1>s, AccountIsKnown, MutationMoves, OwnersOfMutation DEF Mutation
<1>2. ASSUME UNCHANGED <<txn, answer, nextId, session, cli, logins>>
      PROVE  OwnersIInv'
  BY <1>2 DEF OwnersIInv, DashOwes, CliOwes
<1>3. CASE \E c \in Callers : RequestStep(c) \/ PublishRefresh(c)
  BY <1>2, <1>3, RequestKeepsDisk, PublishRefreshDoes DEF registryVars, loginVars
<1>4. CASE UNCHANGED vars
  BY <1>2, <1>4 DEF vars, registryVars, loginVars
<1> QED
  BY <1>1, <1>3, <1>4, NextIs, OwnersOfOwnStep, OwnersOfBegin, OwnersOfAnswer, OwnersOfDeath

-------------------------------------------------------------------------------
(* Credential generations and the refresh lock *)

\* What may become of the files of one account in a step of a mutation: they stay, they
\* go, or they are the new login's under the next generation.
Written1(i) ==
  /\ i = txn.id /\ files'[i] = NewFiles(txn.login) /\ nextGen' = nextGen + 1
  /\ (txn.op = "update" /\ txn.step = "credentials") \/ (txn.op = "add" /\ txn.step = "stage")

\* Files change only so, and never under a row that is being marked.
LEMMA FilesOfMutation ==
  ASSUME RegistryTyped, MutationStep
  PROVE  /\ nextGen' \in {nextGen, nextGen + 1}
         /\ \A i \in Ids : files'[i] = files[i] \/ files'[i] = None \/ Written1(i)
         /\ txn.op = "mark" /\ txn.step \notin Early => files' = files
<1> USE DEF RegistryTyped
<1>1. CASE Recovery
  BY <1>1 DEF Recovery, SweepStaging, RefuseToGuess, ReconcileTombstone, ReconciledSync,
              RecoverFails, Recovering, NoFiles, Early
<1>2. CASE Recovered
  BY <1>2 DEF Recovered, Recovering
<1>3. CASE txn.op = "add" /\ (Stage \/ Install \/ SyncRoot \/ RegistryWrite \/ Rollback)
  <2>1. CASE Stage
    BY <1>3, <2>1 DEF Stage, At, Written1
  <2>2. CASE Rollback
    BY <1>3, <2>2 DEF Rollback, NoFiles
  <2>3. CASE Install \/ SyncRoot \/ RegistryWrite
    BY <1>3, <2>3 DEF Install, SyncRoot, RegistryWrite, Replace, Settle, Settled, Uncertain,
                      CommitFails
  <2> QED
    BY <1>3, <2>1, <2>2, <2>3
<1>4. CASE txn.op = "update" /\ (WriteCredentials \/ WriteProfile \/ RegistryWrite)
  <2>1. CASE WriteCredentials
    BY <1>4, <2>1 DEF WriteCredentials, WriteFile, At, Written1
  <2>2. CASE WriteProfile \/ RegistryWrite
    BY <1>4, <2>2 DEF WriteProfile, WriteFile, RegistryWrite, Replace, Settle, Settled, Uncertain,
                      CommitFails
  <2> QED
    BY <1>4, <2>1, <2>2
<1>5. CASE txn.op = "remove" /\ (Tombstone \/ SyncRoot \/ RegistryWrite \/ Restore \/ Purge)
  <2>1. CASE Purge
    BY <1>5, <2>1 DEF Purge, NoFiles
  <2>2. CASE Tombstone \/ SyncRoot \/ RegistryWrite \/ Restore
    BY <1>5, <2>2 DEF Tombstone, SyncRoot, Restore, RegistryWrite, Replace, Settle, Settled,
                      Uncertain,
                      CommitFails
  <2> QED
    BY <1>5, <2>1, <2>2
<1>6. CASE txn.op = "mark" /\ RegistryWrite
  BY <1>6 DEF RegistryWrite, Replace, Settle, Settled, Uncertain, CommitFails
<1> QED
  BY <1>1, <1>2, <1>3, <1>4, <1>5, <1>6
  DEF MutationStep, AddAccount, UpdateCredentials, RemoveAccount, MarkNeedsReauth

\* The parts of the invariant that this section proves.
TokensIInv == GenerationsIInv /\ HoldersIInv

\* A mutation writes no generation that a request already knows.
LEMMA TokensOfMutation ==
  ASSUME TypesIInv, TokensIInv, Mutation
  PROVE  TokensIInv'
<1> USE DEF TypesIInv, TokensIInv
<1>1. caller' = caller /\ refreshLock' = refreshLock
  BY DEF Mutation, callerVars
<1>2. /\ nextGen \in Nat /\ nextGen' \in {nextGen, nextGen + 1}
      /\ \A i \in Ids : files'[i] = files[i] \/ files'[i] = None \/ Written1(i)
  BY FilesOfMutation DEF Mutation, RegistryTyped
<1>3. \A i \in Ids : Written1(i) => files'[i].gen = nextGen /\ nextGen' = nextGen + 1
  BY DEF Written1, NewFiles
<1>4. /\ \A i \in Ids : files[i] # None => files[i].gen \in Nat
      /\ \A c \in Callers : caller[c].seen \in Nat
  BY ReadableFiles DEF CallersTyped, CallsTyped, Calls
<1>5. GenerationsIInv'
  BY <1>1, <1>2, <1>3, <1>4 DEF GenerationsIInv
<1>6. ASSUME NEW c \in Callers PROVE Holds(c)'
  <2> SUFFICES ASSUME caller[c].pc \in Busy, files'[caller[c].id] # None,
                      files'[caller[c].id].gen = caller[c].seen
               PROVE  /\ files'[caller[c].id].login = caller[c].login
                      /\ files'[caller[c].id].token = caller[c].token
    BY <1>1 DEF Holds, HoldersIInv
  <2>1. caller[c].id \in Ids /\ caller[c].seen < nextGen /\ Holds(c)
    BY DEF CallersTyped, CallsTyped, Busy, HoldersIInv, GenerationsIInv
  <2>2. files'[caller[c].id] = files[caller[c].id]
    BY <1>2, <1>3, <1>4, <2>1
  <2> QED
    BY <2>1, <2>2 DEF Holds
<1> QED
  BY <1>5, <1>6 DEF HoldersIInv

\* One request moves: the others keep what they hold if its lock was its own.
LEMMA TokensOfOthers ==
  ASSUME TypesIInv, TokensIInv, NEW c \in Callers, \A d \in Callers \ {c} : caller'[d] = caller[d],
         files' = files, nextGen' = nextGen,
         \/ refreshLock' = refreshLock
         \/ Unlock(c) /\ caller[c].pc \in Busy
         \/ LockIsFree(c) /\ refreshLock' = [refreshLock EXCEPT ![caller[c].id] = c],
         Holds(c)', caller'[c].pc \notin {"idle", "over"} => caller'[c].seen < nextGen
  PROVE  TokensIInv'
<1> USE DEF TypesIInv, TokensIInv
<1>1. ASSUME NEW d \in Callers PROVE Holds(d)'
  <2> SUFFICES ASSUME d # c, caller[d].pc \in Busy PROVE refreshLock'[caller[d].id] = d
    BY DEF Holds, HoldersIInv
  <2>1. caller[d].id \in Ids /\ refreshLock[caller[d].id] = d
    BY DEF Holds, HoldersIInv, CallersTyped, CallsTyped, Busy
  <2>2. refreshLock \in [Ids -> Callers \union {None}] /\ d # None
    BY ActorsAre DEF CallersTyped
  <2>3. caller[c].pc \in Busy => refreshLock[caller[c].id] = c
    BY DEF Holds, HoldersIInv
  <2> QED
    BY <2>1, <2>2, <2>3 DEF Unlock, LockIsFree
<1> QED
  BY <1>1 DEF GenerationsIInv, HoldersIInv

\* A request takes the refresh lock before it posts, and knows what it posts.
LEMMA TokensOfRequest ==
  ASSUME TypesIInv, TokensIInv, NEW c \in Callers, RequestStep(c)
  PROVE  TokensIInv'
<1> USE DEF TypesIInv, TokensIInv
<1>u. files' = files /\ nextGen' = nextGen
  BY RequestKeepsDisk DEF registryVars
<1>g. /\ \A i \in Ids : files[i] # None => files[i].gen < nextGen
      /\ \A d \in Callers : caller[d].pc \notin {"idle", "over"} => caller[d].seen < nextGen
      /\ Holds(c)
  BY DEF GenerationsIInv, HoldersIInv
<1>c. caller[c].pc \notin {"idle", "over"} => caller[c].id \in Ids
  BY DEF CallersTyped, CallsTyped
<1>d. CallsTyped /\ caller \in [Callers -> Calls] /\ caller[c] \in Calls /\ caller[c].seen \in Nat
  BY DEF CallersTyped, CallsTyped, Calls
<1>1. CASE Load(c)
  <2>1. PICK i \in Ids : /\ Readable(i)
                         /\ caller' = [caller EXCEPT ![c] =
                              [@ EXCEPT !.pc = "stale", !.id = i, !.seen = files[i].gen]]
    BY <1>1 DEF Load
  <2>2. /\ \A d \in Callers \ {c} : caller'[d] = caller[d]
        /\ caller'[c].pc = "stale" /\ caller'[c].seen = files[i].gen
    BY <1>d, <2>1 DEF Calls
  <2>3. refreshLock' = refreshLock /\ Holds(c)' /\ caller'[c].seen < nextGen
    BY <1>1, <1>g, <2>1, <2>2 DEF Load, Holds, Busy, Readable
  <2> QED
    BY <1>u, <2>2, <2>3, TokensOfOthers
<1>2. CASE Reload(c)
  <2>1. caller[c].pc = "stale" /\ caller[c].id \in Ids /\ LockIsFree(c)
    BY <1>2, <1>c DEF Reload
  <2>2. CASE ~Readable(caller[c].id)
    <3>1. Over(c) /\ UNCHANGED refreshLock
      BY <1>2, <2>2 DEF Reload
    <3>2. Holds(c)' /\ caller'[c].pc = "over" /\ \A d \in Callers \ {c} : caller'[d] = caller[d]
      BY <1>d, <3>1, CallEnds DEF Holds, Busy
    <3> QED
      BY <1>u, <3>1, <3>2, TokensOfOthers
  <2>3. CASE Readable(caller[c].id) /\ MustRefresh(c)
    <3> DEFINE f == files[caller[c].id]
    <3>1. /\ refreshLock' = [refreshLock EXCEPT ![caller[c].id] = c]
          /\ caller' = [caller EXCEPT ![c] = [@ EXCEPT !.pc = "posting", !.seen = f.gen,
                                                      !.login = f.login, !.token = f.token]]
      BY <1>2, <2>3 DEF Reload
    <3>2. /\ \A d \in Callers \ {c} : caller'[d] = caller[d]
          /\ caller'[c].pc = "posting" /\ caller'[c].seen = f.gen /\ caller'[c].id = caller[c].id
          /\ caller'[c].login = f.login /\ caller'[c].token = f.token
      BY <1>d, <3>1 DEF Calls
    <3>3. refreshLock'[caller[c].id] = c
      BY <2>1, <3>1 DEF CallersTyped
    <3>4. Holds(c)' /\ caller'[c].seen < nextGen
      BY <1>u, <1>g, <2>1, <2>3, <3>2, <3>3 DEF Holds, Readable
    <3> QED
      BY <1>u, <2>1, <3>1, <3>2, <3>4, TokensOfOthers
  <2>4. CASE Readable(caller[c].id) /\ ~MustRefresh(c)
    <3>1. Call(c, "served", files[caller[c].id].gen) /\ UNCHANGED refreshLock
      BY <1>2, <2>4 DEF Reload
    <3>2. files[caller[c].id].gen \in Nat /\ files[caller[c].id].gen < nextGen
      BY <1>g, <2>1, <2>4, ReadableFiles DEF Readable
    <3>3. /\ \A d \in Callers \ {c} : caller'[d] = caller[d]
          /\ caller'[c].pc = "served" /\ caller'[c].seen < nextGen
      BY <1>d, <2>1, <3>1, <3>2, CallMoves DEF CallPcs, Busy
    <3>4. Holds(c)'
      BY <3>3 DEF Holds, Busy
    <3> QED
      BY <1>u, <3>1, <3>3, <3>4, TokensOfOthers
  <2> QED
    BY <2>2, <2>3, <2>4
<1>3. CASE TokenAnswer(c)
  <2>1. caller[c].pc = "posting" /\ caller[c].id \in Ids
    BY <1>3, <1>c DEF TokenAnswer
  <2>2. \/ \E pc \in {"publishing", "rejected"} :
             Call(c, pc, caller[c].seen) /\ UNCHANGED refreshLock
        \/ Over(c) /\ Unlock(c)
    BY <1>3 DEF TokenAnswer
  <2>3. CASE Over(c) /\ Unlock(c)
    <3>1. Holds(c)' /\ caller'[c].pc = "over" /\ \A d \in Callers \ {c} : caller'[d] = caller[d]
      BY <1>d, <2>3, CallEnds DEF Holds, Busy
    <3> QED
      BY <1>u, <2>1, <2>3, <3>1, TokensOfOthers DEF Busy
  <2>4. ASSUME NEW pc \in {"publishing", "rejected"}, Call(c, pc, caller[c].seen),
               UNCHANGED refreshLock
        PROVE  TokensIInv'
    <3>1. /\ \A d \in Callers \ {c} : caller'[d] = caller[d]
          /\ caller'[c].pc = pc /\ caller'[c].seen = caller[c].seen /\ caller'[c].id = caller[c].id
          /\ caller'[c].login = caller[c].login /\ caller'[c].token = caller[c].token
      BY <1>d, <2>1, <2>4, CallMoves DEF CallPcs, Busy
    <3>2. Holds(c)'
      BY <1>u, <1>g, <2>1, <2>4, <3>1 DEF Holds, Busy
    <3> QED
      BY <1>u, <1>g, <2>1, <2>4, <3>1, <3>2, TokensOfOthers
  <2> QED
    BY <2>2, <2>3, <2>4
<1>4. CASE RejectRefresh(c)
  <2>1. caller[c].pc = "rejected" /\ caller[c].id \in Ids /\ Unlock(c)
    BY <1>4, <1>c DEF RejectRefresh
  <2>2. \/ Over(c)
        \/ Readable(caller[c].id) /\ Call(c, "served", files[caller[c].id].gen)
        \/ Call(c, "condemn", caller[c].seen)
    BY <1>4 DEF RejectRefresh
  <2>3. Readable(caller[c].id) =>
          files[caller[c].id].gen \in Nat /\ files[caller[c].id].gen < nextGen
    BY <1>g, <2>1, ReadableFiles DEF Readable
  <2>4. /\ \A d \in Callers \ {c} : caller'[d] = caller[d]
        /\ caller'[c].pc \in {"over", "served", "condemn"}
        /\ caller'[c].pc # "over" => caller'[c].seen < nextGen
    BY <1>d, <1>g, <2>1, <2>2, <2>3, CallMoves, CallEnds DEF CallPcs, Busy
  <2>5. Holds(c)'
    BY <2>4 DEF Holds, Busy
  <2> QED
    BY <1>u, <2>1, <2>4, <2>5, TokensOfOthers DEF Busy
<1>5. CASE CancelPublication(c)
  <2>1. /\ caller[c].pc = "publishing" /\ caller[c].id \in Ids
        /\ Call(c, "cancelled", caller[c].seen) /\ UNCHANGED refreshLock
    BY <1>5, <1>c DEF CancelPublication
  <2>2. /\ \A d \in Callers \ {c} : caller'[d] = caller[d]
        /\ caller'[c].pc = "cancelled" /\ caller'[c].seen = caller[c].seen
        /\ caller'[c].id = caller[c].id
        /\ caller'[c].login = caller[c].login /\ caller'[c].token = caller[c].token
    BY <1>d, <2>1, CallMoves DEF CallPcs, Busy
  <2>3. Holds(c)'
    BY <1>u, <1>g, <2>1, <2>2 DEF Holds, Busy
  <2> QED
    BY <1>u, <1>g, <2>1, <2>2, <2>3, TokensOfOthers
<1>6. CASE ApiAnswer(c)
  <2>1. /\ caller[c].pc = "served" /\ caller[c].id \in Ids /\ UNCHANGED refreshLock
        /\ Over(c) \/ Call(c, "condemn", caller[c].seen)
    BY <1>6, <1>c DEF ApiAnswer
  <2>2. /\ \A d \in Callers \ {c} : caller'[d] = caller[d]
        /\ caller'[c].pc \in {"over", "condemn"}
        /\ caller'[c].pc # "over" => caller'[c].seen < nextGen
    BY <1>d, <1>g, <2>1, CallMoves, CallEnds DEF CallPcs, Busy
  <2>3. Holds(c)'
    BY <2>2 DEF Holds, Busy
  <2> QED
    BY <1>u, <2>1, <2>2, <2>3, TokensOfOthers
<1> QED
  BY <1>1, <1>2, <1>3, <1>4, <1>5, <1>6 DEF RequestStep

\* A publication ends the request that held the lock.
LEMMA TokensOfPublication ==
  ASSUME TypesIInv, TokensIInv, NEW c \in Callers, PublishRefresh(c)
  PROVE  TokensIInv'
<1> USE DEF TypesIInv, TokensIInv
<1>1. /\ caller[c].pc \in Busy /\ caller[c].id \in Ids /\ Unlock(c)
      /\ nextGen \in Nat /\ nextGen' \in {nextGen, nextGen + 1}
      /\ \A i \in Ids \ {caller[c].id} : files'[i] = files[i]
      /\ LET i == caller[c].id IN
           files'[i] = files[i] \/ (files'[i].gen = nextGen /\ nextGen' = nextGen + 1)
  BY PublishRefreshDoes DEF RegistryTyped, Rotated
<1>2. /\ \A i \in Ids : files[i] # None => files[i].gen < nextGen /\ files[i].gen \in Nat
      /\ \A d \in Callers : caller[d].seen \in Nat
      /\ \A d \in Callers : caller[d].pc \notin {"idle", "over"} => caller[d].seen < nextGen
  BY ReadableFiles DEF GenerationsIInv, CallersTyped, CallsTyped, Calls
<1>3. /\ \A d \in Callers \ {c} : caller'[d] = caller[d]
      /\ caller'[c].pc \in {"served", "over"}
      /\ caller'[c].pc = "served" => caller'[c].seen < nextGen'
  <2>1. CASE Over(c)
    BY <2>1, CallEnds DEF CallersTyped
  <2>2. ASSUME NEW gen \in Nat, Call(c, "served", gen), gen < nextGen'
        PROVE  /\ \A d \in Callers \ {c} : caller'[d] = caller[d]
               /\ caller'[c].pc = "served" /\ caller'[c].seen < nextGen'
    BY <1>1, <2>2, CallMoves DEF CallersTyped, CallPcs, Busy
  <2> QED
    BY <1>1, <1>2, <2>1, <2>2, PublishRefreshDoes
<1>4. GenerationsIInv'
  BY <1>1, <1>2, <1>3 DEF GenerationsIInv
<1>5. ASSUME NEW d \in Callers \ {c}, caller[d].pc \in Busy
      PROVE  Holds(d)'
  <2>1. /\ refreshLock[caller[d].id] = d /\ refreshLock[caller[c].id] = c
        /\ caller[d].id \in Ids /\ Holds(d)
    BY <1>1, <1>5 DEF HoldersIInv, Holds, CallersTyped, CallsTyped, Busy
  <2>2. caller[d].id # caller[c].id
    BY <2>1
  <2>3. refreshLock'[caller[d].id] = d /\ files'[caller[d].id] = files[caller[d].id]
    BY <1>1, <2>1, <2>2 DEF Unlock, CallersTyped
  <2> QED
    BY <1>3, <2>1, <2>3 DEF Holds
<1>6. HoldersIInv'
  BY <1>3, <1>5 DEF HoldersIInv, Holds, Busy
<1> QED
  BY <1>4, <1>6

\* Every step keeps the generations unique and the refresh locks exclusive.
LEMMA TokensInductive ==
  ASSUME TypesIInv, OwnersIInv, StepIInv, TokensIInv, [Next]_vars
  PROVE  TokensIInv'
<1>k. ASSUME UNCHANGED <<files, nextGen, caller, refreshLock>>
      PROVE  TokensIInv'
  BY <1>k DEF TokensIInv, GenerationsIInv, HoldersIInv, Holds
<1>b. ASSUME NEW a, NEW op, NEW i, NEW l, NEW g, Begin(a, op, i, l, g)
      PROVE  UNCHANGED <<files, nextGen>>
  BY <1>b DEF Begin
<1>m. ASSUME NEW c \in Callers, UNCHANGED <<files, nextGen, refreshLock>>,
             \/ Over(c)
             \/ caller[c].pc = "condemn" /\ Call(c, "marking", caller[c].seen)
      PROVE  TokensIInv'
  <2>1. CallsTyped /\ caller[c].seen \in Nat
    BY DEF TypesIInv, CallersTyped, CallsTyped, Calls
  <2>2. /\ \A d \in Callers \ {c} : caller'[d] = caller[d]
        /\ caller'[c].pc \in {"over", "marking"}
        /\ caller'[c].pc = "marking" => caller'[c].seen < nextGen
    BY <1>m, <2>1, CallMoves, CallEnds DEF CallPcs, Busy, TokensIInv, GenerationsIInv
  <2>3. Holds(c)'
    BY <2>2 DEF Holds, Busy
  <2> QED
    BY <1>m, <2>2, <2>3, TokensOfOthers
<1>1. CASE OwnStep
  BY <1>1, <1>k, OwnStepKeeps DEF registryVars, callerVars
<1>2. CASE SessionMutates
  BY <1>2, <1>b, <1>k, SessionMutatesDoes DEF callerVars
<1>3. CASE CliMutates
  BY <1>3, <1>b, <1>k, CliMutatesDoes DEF callerVars
<1>4. CASE CliRemoves
  BY <1>4, <1>b, <1>k, CliRemovesDoes DEF callerVars
<1>5. ASSUME NEW c \in Callers, Mark(c)
      PROVE  TokensIInv'
  BY <1>5, <1>b, <1>m, MarkDoes
<1>6. CASE SessionAnswered \/ CliAnswered
  BY <1>6, <1>k, SessionAnsweredDoes, CliAnsweredDoes DEF callerVars, OnlyAnswer
<1>7. ASSUME NEW c \in Callers, Marked(c)
      PROVE  TokensIInv'
  BY <1>7, <1>m, MarkedDoes DEF OnlyAnswer
<1>8. CASE \E c \in Callers : RequestStep(c)
  BY <1>8, TokensOfRequest
<1>9. CASE \E c \in Callers : PublishRefresh(c)
  BY <1>9, TokensOfPublication
<1>10. CASE Mutation
  BY <1>10, TokensOfMutation
<1>11. CASE CliDies
  BY <1>11, <1>k DEF CliDies, Dies, callerVars
<1>12. CASE DaemonDies \/ MachineStops
  <2>1. /\ UNCHANGED <<files, nextGen>>
        /\ \A c \in Callers : caller'[c].pc = "over"
    BY <1>12 DEF DaemonDies, MachineStops, Dies, PowerLoss, NoDaemon, NoCall
  <2> QED
    BY <2>1 DEF TokensIInv, GenerationsIInv, HoldersIInv, Holds, Busy
<1>13. CASE UNCHANGED vars
  BY <1>13, <1>k DEF vars, registryVars, callerVars
<1> QED
  BY <1>1, <1>2, <1>3, <1>4, <1>5, <1>6, <1>7, <1>8, <1>9, <1>10, <1>11, <1>12, <1>13, NextIs
  DEF Deaths

-------------------------------------------------------------------------------
(* What upstream rejected, and the mutation that marks it *)

\* A mark that reaches its commit saw the files of the rejected generation.
LEMMA CondemnedOfMutation ==
  ASSUME TypesIInv, OwnersIInv, StepIInv, CondemnedIInv, Mutation
  PROVE  CondemnedIInv'
<1> USE DEF TypesIInv
<1>0. caller' = caller /\ condemned' = condemned
  BY DEF Mutation, callerVars
<1>1. (Ends \/ Continues \/ Turns) /\ MutationStep /\ KnownAccount
  BY AccountIsKnown, MutationMoves DEF Mutation
<1>2. txn'.op = "mark" => txn' # Idle /\ txn.op = "mark" /\ txn'.gen = txn.gen /\ txn'.id = txn.id
  BY <1>1 DEF Ends, Continues, SameMutation, Turns, Idle
<1>3. ASSUME txn'.op = "mark", txn'.step = "commit"
      PROVE  files' = files /\ files[txn.id] # None /\ files[txn.id].gen = txn.gen
  <2>1. txn.op = "mark"
    BY <1>2, <1>3
  <2>2. CASE Recovery
    BY <1>3, <2>2, RecoveryMoves DEF Ends, Idle, Early
  <2>3. CASE Recovered
    <3>1. files' = files
      BY <2>3 DEF Recovered
    <3>2. Finish("missing") \/ Finish("failed") \/ Finish("ok") => txn' = Idle
      BY DEF Finish
    <3>3. ~(Finish("missing") \/ Finish("failed") \/ Finish("ok"))
      BY <1>3, <3>2 DEF Idle
    <3> QED
      BY <2>1, <2>3, <3>1, <3>3 DEF Recovered, SupersededLogin
  <2>4. CASE RegistryWrite
    BY <1>3, <2>4 DEF RegistryWrite, Replace, Settle, Settled, Uncertain, CommitFails, Goto, Finish,
       Idle, RegistryTyped, Txns
  <2> QED
    BY <1>1, <2>1, <2>2, <2>3, <2>4
    DEF MutationStep, AddAccount, UpdateCredentials, RemoveAccount, MarkNeedsReauth
<1> QED
  BY <1>0, <1>2, <1>3 DEF CondemnedIInv

\* A request that condemns a generation has it on record.
LEMMA CondemnedOfRequest ==
  ASSUME TypesIInv, CondemnedIInv, NEW c \in Callers, RequestStep(c) \/ PublishRefresh(c)
  PROVE  CondemnedIInv'
<1>d. CallsTyped /\ caller \in [Callers -> Calls] /\ caller[c].seen \in Nat
  BY DEF TypesIInv, CallersTyped, CallsTyped, Calls
<1>f. /\ \A i \in Ids : files[i] # None => files[i].gen \in Nat
      /\ caller[c].pc \notin {"idle", "over"} => caller[c].id \in Ids
  BY ReadableFiles DEF TypesIInv, CallersTyped, CallsTyped
<1>1. /\ \A d \in Callers \ {c} : caller'[d] = caller[d]
      /\ caller'[c].pc = "condemn" => caller'[c].seen \in condemned'
      /\ condemned \subseteq condemned'
  <2>1. CASE Load(c)
    BY <1>d, <2>1 DEF Load, Calls
  <2>2. CASE Reload(c)
    <3>1. caller[c].pc = "stale" /\ condemned' = condemned
      BY <2>2 DEF Reload
    <3>2. CASE ~Readable(caller[c].id)
      BY <1>d, <2>2, <3>1, <3>2, CallEnds DEF Reload
    <3>3. CASE Readable(caller[c].id) /\ MustRefresh(c)
      BY <1>d, <2>2, <3>1, <3>3 DEF Reload, Calls
    <3>4. CASE Readable(caller[c].id) /\ ~MustRefresh(c)
      <4>1. Call(c, "served", files[caller[c].id].gen)
        BY <2>2, <3>4 DEF Reload
      <4>2. files[caller[c].id].gen \in Nat
        BY <1>f, <3>1, <3>4 DEF Readable
      <4> QED
        BY <1>d, <3>1, <4>1, <4>2, CallMoves DEF CallPcs, Busy
    <3> QED
      BY <3>2, <3>3, <3>4
  <2>3. CASE TokenAnswer(c)
    <3>1. /\ caller[c].pc = "posting" /\ condemned' = condemned
          /\ Over(c) \/ Call(c, "publishing", caller[c].seen) \/ Call(c, "rejected", caller[c].seen)
      BY <2>3 DEF TokenAnswer
    <3> QED
      BY <1>d, <3>1, CallMoves, CallEnds DEF CallPcs, Busy
  <2>4. CASE RejectRefresh(c)
    <3>1. /\ caller[c].pc = "rejected"
          /\ \/ Over(c) /\ UNCHANGED condemned
             \/ /\ Readable(caller[c].id) /\ Call(c, "served", files[caller[c].id].gen)
                /\ UNCHANGED condemned
             \/ Call(c, "condemn", caller[c].seen) /\ condemned' = condemned \cup {caller[c].seen}
      BY <2>4 DEF RejectRefresh
    <3>2. Readable(caller[c].id) => files[caller[c].id].gen \in Nat
      BY <1>f, <3>1 DEF Readable
    <3> QED
      BY <1>d, <3>1, <3>2, CallMoves, CallEnds DEF CallPcs, Busy
  <2>5. CASE CancelPublication(c)
    BY <1>d, <2>5, CallMoves DEF CancelPublication, CallPcs, Busy
  <2>6. CASE ApiAnswer(c)
    <3>1. /\ caller[c].pc = "served"
          /\ \/ Over(c) /\ UNCHANGED condemned
             \/ Call(c, "condemn", caller[c].seen) /\ condemned' = condemned \cup {caller[c].seen}
      BY <2>6 DEF ApiAnswer
    <3> QED
      BY <1>d, <3>1, CallMoves, CallEnds DEF CallPcs, Busy
  <2>7. CASE PublishRefresh(c)
    <3>1. nextGen \in Nat
      BY DEF TypesIInv, RegistryTyped
    <3> QED
      BY <1>d, <2>7, <3>1, PublishRefreshDoes, CallMoves, CallEnds DEF CallPcs, Busy
  <2> QED
    BY <2>1, <2>2, <2>3, <2>4, <2>5, <2>6, <2>7 DEF RequestStep
<1>2. CASE RequestStep(c)
  BY <1>1, <1>2, RequestKeepsDisk DEF CondemnedIInv, registryVars
<1>3. CASE PublishRefresh(c)
  BY <1>1, <1>3, PublishRefreshDoes DEF CondemnedIInv, LockFree, Idle
<1> QED
  BY <1>2, <1>3

\* Every step keeps a mark to a generation that upstream rejected.
LEMMA CondemnedInductive ==
  ASSUME TypesIInv, OwnersIInv, StepIInv, CondemnedIInv, [Next]_vars
  PROVE  CondemnedIInv'
<1> USE DEF CondemnedIInv
<1>k. ASSUME UNCHANGED <<files, caller, condemned, txn>> PROVE CondemnedIInv'
  BY <1>k
<1>b. ASSUME NEW a, NEW op, NEW i, NEW l, NEW g, Begin(a, op, i, l, g)
      PROVE  /\ txn'.op = op /\ txn'.id = i /\ txn'.gen = g /\ txn'.step = "recover"
             /\ files' = files
  BY <1>b DEF Begin
<1>1. CASE OwnStep
  BY <1>1, <1>k, OwnStepKeeps DEF registryVars, callerVars
<1>2. CASE SessionMutates
  BY <1>2, <1>b, SessionMutatesDoes DEF callerVars
<1>3. CASE CliMutates
  BY <1>3, <1>b, CliMutatesDoes DEF callerVars
<1>4. CASE CliRemoves
  BY <1>4, <1>b, CliRemovesDoes DEF callerVars
<1>5. ASSUME NEW c \in Callers, Mark(c)
      PROVE  CondemnedIInv'
  <2>1. /\ caller[c].seen \in condemned /\ caller[c].id \in Ids /\ caller[c].seen \in Nat
        /\ Begin(c, "mark", caller[c].id, 0, caller[c].seen)
        /\ condemned' = condemned /\ Call(c, "marking", caller[c].seen) /\ caller[c].pc = "condemn"
    BY <1>5, MarkDoes
  <2>2. caller'[c].pc = "marking" /\ \A d \in Callers \ {c} : caller'[d] = caller[d]
    BY <2>1, CallMoves DEF TypesIInv, CallersTyped, CallPcs, Busy
  <2> QED
    BY <1>b, <2>1, <2>2
<1>6. CASE SessionAnswered \/ CliAnswered
  BY <1>6, <1>k, SessionAnsweredDoes, CliAnsweredDoes DEF callerVars, OnlyAnswer
<1>7. ASSUME NEW c \in Callers, Marked(c)
      PROVE  CondemnedIInv'
  <2>1. caller'[c].pc = "over" /\ \A d \in Callers \ {c} : caller'[d] = caller[d]
    BY <1>7, MarkedDoes, CallEnds DEF TypesIInv, CallersTyped
  <2> QED
    BY <1>7, <2>1, MarkedDoes DEF OnlyAnswer
<1>8. CASE \E c \in Callers : RequestStep(c) \/ PublishRefresh(c)
  BY <1>8, CondemnedOfRequest
<1>9. CASE Mutation
  BY <1>9, CondemnedOfMutation
<1>10. CASE CliDies
  BY <1>10 DEF CliDies, Dies, callerVars, Idle
<1>11. CASE DaemonDies \/ MachineStops
  <2>1. /\ files' = files /\ condemned' = condemned /\ (txn' = txn \/ txn' = Idle)
        /\ \A c \in Callers : caller'[c].pc = "over"
    BY <1>11 DEF DaemonDies, MachineStops, Dies, PowerLoss, NoDaemon, NoCall
  <2> QED
    BY <2>1 DEF Idle
<1>12. CASE UNCHANGED vars
  BY <1>12, <1>k DEF vars, registryVars, callerVars
<1> QED
  BY <1>1, <1>2, <1>3, <1>4, <1>5, <1>6, <1>7, <1>8, <1>9, <1>10, <1>11, <1>12, NextIs
  DEF Deaths

-------------------------------------------------------------------------------
(* The disk *)

\* What is said of the accounts is what the runs check.
LEMMA AccountsAreSafe ==
  ASSUME RegistryTyped, AccountsIInv, VersionsIInv
  PROVE  RegisteredHasItsFiles /\ AnswersStayTrue
<1>1. \A i \in Ids : place[i] \in mayPlace[i] /\ Outcome(registry, i)
  BY DEF AccountsIInv, AccountIInv, VersionsIInv
<1> QED
  BY <1>1, RowsTyped DEF Outcome, Kept, Lost, RegisteredHasItsFiles, AnswersStayTrue

\* A step leaves an account alone: nothing of it changes but the contents of its files,
\* and that less may be lost of it or is promised.
Rests(i) ==
  /\ place'[i] = place[i] /\ mayPlace'[i] \in {mayPlace[i], {place[i]}}
  /\ files'[i] = None <=> files[i] = None
  /\ promise'[i] \in {promise[i], "none"}
  /\ i \in purgedEarly' <=> i \in purgedEarly
  /\ \A r \in mayRegistry' : \E s \in mayRegistry : i \in Named(r) <=> i \in Named(s)

LEMMA Rested ==
  ASSUME NEW i \in Ids, AccountIInv(i), Rests(i), nextId \in Nat, nextId' \in {nextId, nextId + 1}
  PROVE  AccountIInv(i)'
<1>1. /\ place'[i] \in mayPlace'[i]
      /\ i >= nextId' => files'[i] = None /\ promise'[i] = "none"
  BY DEF Rests, AccountIInv, Ids
<1>2. ASSUME NEW r \in mayRegistry' PROVE Outcome(r, i)'
  <2>1. PICK s \in mayRegistry : i \in Named(r) <=> i \in Named(s)
    BY <1>2 DEF Rests
  <2>2. Outcome(s, i) /\ place[i] \in mayPlace[i]
    BY DEF AccountIInv
  <2>3. (Kept(i) => Kept(i)') /\ (Lost(i) => Lost(i)')
    BY <2>2 DEF Kept, Lost, Rests
  <2>4. i < nextId => i < nextId'
    BY DEF Ids
  <2>5. i \in Named(r)' <=> i \in Named(r)
    BY DEF Named
  <2> QED
    BY <2>1, <2>2, <2>3, <2>4, <2>5 DEF Outcome, Rests
<1> QED
  BY <1>1, <1>2 DEF AccountIInv

\* A step that touches one account at most.
LEMMA OneAccount ==
  ASSUME RegistryTyped, AccountsIInv, NEW a \in Ids, \A i \in Ids \ {a} : Rests(i),
         nextId' = nextId, AccountIInv(a)'
  PROVE  AccountsIInv'
  BY Rested DEF AccountsIInv, RegistryTyped

\* An account that no version of the registry names.
LEMMA NotNamed ==
  ASSUME NEW a \in Ids, place'[a] \in mayPlace'[a], nextId \in Nat, a < nextId, nextId' = nextId,
         Unnamed(a), mayRegistry' \in {mayRegistry, {registry}}, registry \in mayRegistry,
         promise'[a] \in {"none", "out"}
  PROVE  AccountIInv(a)'
<1>1. \A r \in mayRegistry' : a \notin Named(r)
  BY DEF Unnamed
<1>2. ~(a >= nextId')
  BY DEF Ids
<1>3. \A r \in mayRegistry' : Outcome(r, a)'
  BY <1>1 DEF Outcome, Named
<1> QED
  BY <1>2, <1>3 DEF AccountIInv

\* A rename touches one account, and brings back no other registry.
LEMMA MovesOne ==
  ASSUME RegistryTyped, VersionsIInv, NEW a \in Ids, NEW to, Move(a, to) \/ MoveAndSync(a, to),
         registry' = registry, NoFiles(a) \/ files' \in {files, [files EXCEPT ![a] = NewFiles(txn.login)]},
         \E what \in {"none", "in", "out"} : promise' \in {promise, [promise EXCEPT ![a] = what]},
         \A i \in Ids \ {a} : i \in purgedEarly' <=> i \in purgedEarly
  PROVE  /\ VersionsIInv' /\ \A i \in Ids \ {a} : Rests(i)
         /\ place'[a] = to /\ mayRegistry' \in {mayRegistry, {registry}}
         /\ mayPlace'[a] \in {mayPlace[a] \union {to}, {to}}
<1>1. mayRegistry' \in {mayRegistry, {registry}}
  BY DEF Move, MoveAndSync, Sync
<1>2. \A i \in Ids \ {a} : place'[i] = place[i] /\ mayPlace'[i] \in {mayPlace[i], {place[i]}}
  BY DEF Move, MoveAndSync, Sync, RegistryTyped
<1>3. place'[a] = to /\ mayPlace'[a] \in {mayPlace[a] \union {to}, {to}}
  BY DEF Move, MoveAndSync, Sync, RegistryTyped
<1>4. \A i \in Ids \ {a} : files'[i] = files[i] /\ promise'[i] = promise[i]
  BY DEF NoFiles, RegistryTyped
<1>5. VersionsIInv'
  BY <1>1 DEF VersionsIInv, RegistryTyped
<1>6. ASSUME NEW i \in Ids \ {a} PROVE Rests(i)
  BY <1>1, <1>2, <1>4 DEF Rests, VersionsIInv
<1> QED
  BY <1>1, <1>3, <1>5, <1>6

\* A step that leaves the disk as it is, or makes it durable.
SameDisk == UNCHANGED <<registry, place, files, purgedEarly>>
NoLess == UNCHANGED <<mayRegistry, mayPlace>> \/ Sync

\* What is said of the accounts survives it.
LEMMA SameAccounts ==
  ASSUME RegistryTyped, AccountsIInv, VersionsIInv, SameDisk, NoLess, nextId' \in {nextId, nextId + 1},
         \A i \in Ids : promise'[i] \in {promise[i], "none"}
  PROVE  AccountsIInv' /\ VersionsIInv'
<1>1. mayRegistry' \in {mayRegistry, {registry}} /\ registry' = registry
  BY DEF SameDisk, NoLess, Sync
<1>2. \A i \in Ids : mayPlace'[i] \in {mayPlace[i], {place[i]}}
  BY DEF SameDisk, NoLess, Sync
<1>3. ASSUME NEW i \in Ids PROVE Rests(i)
  BY <1>1, <1>2 DEF SameDisk, Rests, VersionsIInv
<1>4. AccountsIInv'
  BY <1>3, Rested DEF AccountsIInv, RegistryTyped
<1> QED
  BY <1>1, <1>4 DEF VersionsIInv

\* With no mutation under way there is no step to tell about.
LEMMA NothingUnderWay ==
  ASSUME txn' = Idle
  PROVE  StepIInv'
  BY DEF StepIInv, Idle, Past

\* Within _recover nothing is known of the mutation's account.
LEMMA StillEarly ==
  ASSUME StepIInv, Continues, txn.step \in Early, txn'.step \in Early, promise' = promise
  PROVE  StepIInv'
  BY DEF StepIInv, Continues, SameMutation, Past, Early

\* _recover: staging directories go, tombstones follow the registry.
LEMMA DiskOfRecovery ==
  ASSUME RegistryTyped, RegistryTyped', DiskIInv, Recovery
  PROVE  DiskIInv'
<1> USE DEF DiskIInv
<1>1. promise' = promise /\ nextId' = nextId /\ registry' = registry /\ txn.step \in Early
  BY RecoveryMoves DEF Recovery, SweepStaging, RefuseToGuess, ReconcileTombstone, ReconciledSync,
                       RecoverFails
<1>2. StepIInv'
  BY <1>1, RecoveryMoves, NothingUnderWay, StillEarly DEF Ends
<1>3. CASE SweepStaging
  <2>1. /\ mayRegistry' = {registry} /\ purgedEarly' = purgedEarly
        /\ \A i \in Ids : /\ mayPlace'[i] = {place'[i]}
                          /\ place'[i] = IF place[i] = "staging" THEN "none" ELSE place[i]
                          /\ files'[i] = IF place[i] = "staging" THEN None ELSE files[i]
    BY <1>1, <1>3 DEF SweepStaging, Staged, Sync
  <2>2. VersionsIInv'
    BY <1>1, <2>1 DEF VersionsIInv
  <2>3. ASSUME NEW i \in Ids PROVE AccountIInv(i)'
    <3>0. AccountIInv(i)
      BY DEF AccountsIInv
    <3>1. CASE place[i] = "staging"
      <4>1. Outcome(registry, i) /\ "staging" \in mayPlace[i]
        BY <3>0, <3>1 DEF AccountIInv, VersionsIInv
      <4>2. i \notin Named(registry) /\ promise[i] # "in"
        BY <3>1, <4>1 DEF Outcome, Kept, Lost
      <4>3. Outcome(registry, i)'
        BY <1>1, <4>1, <4>2 DEF Outcome, Named
      <4> QED
        BY <1>1, <2>1, <3>0, <3>1, <4>3 DEF AccountIInv
    <3>2. CASE place[i] # "staging"
      <4>1. Rests(i)
        BY <1>1, <2>1, <3>2 DEF Rests, VersionsIInv
      <4> QED
        BY <1>1, <3>0, <4>1, Rested DEF RegistryTyped
    <3> QED
      BY <3>1, <3>2
  <2> QED
    BY <1>2, <2>2, <2>3 DEF AccountsIInv
<1>4. CASE RefuseToGuess \/ ReconciledSync \/ RecoverFails
  <2>1. SameDisk /\ NoLess
    BY <1>1, <1>4 DEF RefuseToGuess, ReconciledSync, RecoverFails, SameDisk, NoLess
  <2> QED
    BY <1>1, <1>2, <2>1, SameAccounts
<1>5. CASE ReconcileTombstone
  <2>1. PICK a \in Tombstones :
          \/ a \in DOMAIN registry /\ Move(a, "final") /\ UNCHANGED <<files, purgedEarly>>
          \/ /\ a \notin DOMAIN registry /\ Move(a, "none") /\ NoFiles(a)
             /\ purgedEarly' = IF MayBeNamed(a) THEN purgedEarly \cup {a} ELSE purgedEarly
    BY <1>5 DEF ReconcileTombstone
  <2>2. a \in Ids /\ place[a] = "tombstone"
    BY DEF Tombstones
  <2>3. PICK to \in {"final", "none"} : Move(a, to)
    BY <2>1
  <2>4. /\ VersionsIInv' /\ \A i \in Ids \ {a} : Rests(i)
        /\ place'[a] = to /\ mayRegistry' = mayRegistry
        /\ mayPlace'[a] = mayPlace[a] \union {to}
    <3>1. \A i \in Ids \ {a} : i \in purgedEarly' <=> i \in purgedEarly
      BY <2>1
    <3>2. VersionsIInv' /\ \A i \in Ids \ {a} : Rests(i)
      BY <1>1, <2>1, <2>2, <2>3, <3>1, MovesOne
    <3> QED
      BY <2>2, <2>3, <3>2 DEF Move, RegistryTyped
  <2>5. AccountIInv(a)
    BY <2>2 DEF AccountsIInv
  <2>6. promise[a] # "in"
    BY <2>2, <2>5 DEF AccountIInv, VersionsIInv, Outcome
  <2>7. place'[a] \in mayPlace'[a] /\ (a >= nextId' => files'[a] = None /\ promise'[a] = "none")
    BY <1>1, <2>1, <2>2, <2>4, <2>5 DEF AccountIInv, NoFiles, RegistryTyped
  <2>8. ASSUME NEW r \in mayRegistry' PROVE Outcome(r, a)'
    <3>1. Outcome(r, a)
      BY <2>4, <2>5 DEF AccountIInv
    <3>2. CASE a \in DOMAIN registry /\ Move(a, "final") /\ UNCHANGED <<files, purgedEarly>>
      <4>1. mayPlace'[a] = mayPlace[a] \union {"final"}
        BY <2>2, <3>2 DEF Move, RegistryTyped
      <4>2. (Kept(a) => Kept(a)') /\ (Lost(a) => Lost(a)')
        BY <2>2, <3>2, <4>1 DEF Kept, Lost
      <4> QED
        BY <1>1, <2>6, <3>1, <4>2 DEF Outcome, Named
    <3>3. CASE /\ a \notin DOMAIN registry /\ Move(a, "none") /\ NoFiles(a)
               /\ purgedEarly' = IF MayBeNamed(a) THEN purgedEarly \cup {a} ELSE purgedEarly
      <4>1. files'[a] = None /\ place'[a] = "none" /\ mayPlace'[a] = mayPlace[a] \union {"none"}
        BY <2>2, <3>3 DEF Move, NoFiles, RegistryTyped
      <4>2. a \in Named(r) => a \in purgedEarly'
        BY <2>4, <3>3 DEF MayBeNamed, Named
      <4>3. Kept(a) \/ Lost(a) => mayPlace'[a] \subseteq {"none", "final", "tombstone"}
        BY <4>1 DEF Kept, Lost
      <4> QED
        BY <1>1, <2>6, <3>1, <4>1, <4>2, <4>3 DEF Outcome, Named, Lost
    <3> QED
      BY <2>1, <3>2, <3>3
  <2>9. AccountIInv(a)'
    BY <2>7, <2>8 DEF AccountIInv
  <2> QED
    BY <1>1, <1>2, <2>2, <2>4, <2>9, OneAccount
<1> QED
  BY <1>3, <1>4, <1>5 DEF Recovery

\* A login that is still to be added finds an id.
LEMMA AnIdIsLeft ==
  ASSUME TypesIInv, OwnersIInv, txn.op = "add", txn.step \in Early
  PROVE  nextId \in Ids
<1>1. DashOwes \/ CliOwes
  BY DEF OwnersIInv, DashOwes, CliOwes
<1>2. nextId \in Nat \ {0} /\ logins \in Nat /\ logins <= NumLogins
  BY RegistryAssumption DEF TypesIInv, RegistryTyped, LoginsTyped
<1>3. nextId <= logins
  BY <1>1, <1>2 DEF OwnersIInv
<1> QED
  BY <1>2, <1>3, RegistryAssumption, AccountsAssumption DEF Ids

\* What the disk holds of an account that the registry names.
LEMMA RegisteredAccount ==
  ASSUME RegistryTyped, AccountsIInv, VersionsIInv, NEW a \in DOMAIN rows
  PROVE  /\ a \in Ids /\ a \in Named(registry) /\ a < nextId /\ (Kept(a) \/ Lost(a))
         /\ place[a] \in mayPlace[a] /\ promise[a] # "out"
<1>1. a \in Ids /\ a \in Named(registry)
  BY RowsTyped
<1> QED
  BY <1>1 DEF AccountsIInv, AccountIInv, VersionsIInv, Outcome

\* The account of the mutation: a fresh one, or one that the registry names.
LEMMA DiskOfRecovered ==
  ASSUME TypesIInv, OwnersIInv, DiskIInv, Recovered
  PROVE  DiskIInv'
<1> USE DEF DiskIInv
<1>t. RegistryTyped
  BY DEF TypesIInv
<1>1. /\ UNCHANGED <<registry, mayRegistry, place, mayPlace, files, promise, purgedEarly, trouble>>
      /\ Tombstones = {} /\ txn.step = "recover" /\ rows' = rows
  BY DEF Recovered, Recovering, rows
<1>3. nextId \in Nat /\ nextId' \in {nextId, nextId + 1}
  BY <1>t, RecoveredMoves DEF Ends, Continues, Turns, RegistryTyped
<1>4. AccountsIInv' /\ VersionsIInv'
  BY <1>t, <1>1, <1>3, SameAccounts DEF SameDisk, NoLess
<1>7. StepIInv'
  <2>1. CASE Ends
    BY <2>1, NothingUnderWay DEF Ends
  <2>2. CASE Turns /\ txn.op = "add"
    <3>1. /\ txn'.op = "add" /\ txn'.step = "stage" /\ txn'.id = nextId /\ nextId' = nextId + 1
      BY <2>2 DEF Turns
    <3>2. nextId \in Ids
      BY <1>1, <2>2, AnIdIsLeft DEF Early
    <3>3. files[nextId] = None /\ promise[nextId] = "none"
      BY <1>3, <3>2 DEF AccountsIInv, AccountIInv
    <3>4. Unnamed(nextId)
      BY <1>3, <3>2 DEF AccountsIInv, AccountIInv, Outcome, Unnamed
    <3>5. Unnamed(txn.id)'
      BY <1>1, <3>1, <3>4 DEF Unnamed, Named
    <3>6. txn'.id \in Ids /\ txn'.id < nextId' /\ promise'[txn'.id] = "none" /\ files'[txn'.id] = None
      BY <1>1, <1>3, <3>1, <3>2, <3>3
    <3> QED
      BY <3>1, <3>5, <3>6 DEF StepIInv, Past
  <2>3. CASE Turns /\ txn.op = "update"
    <3>1. txn'.op = "update" /\ txn'.step = "credentials" /\ txn'.id \in DOMAIN rows /\ nextId' = nextId
      BY <2>3 DEF Turns
    <3>2. txn'.id \in Ids /\ txn'.id < nextId
      BY <1>t, <3>1, RegisteredAccount
    <3> QED
      BY <1>1, <3>1, <3>2 DEF StepIInv, IsNamed
  <2>4. CASE /\ Continues /\ txn'.step \in {"rename", "commit"}
             /\ txn.op \in {"remove", "mark"}
    <3>1. /\ txn'.op = txn.op /\ txn'.id = txn.id /\ nextId' = nextId
      BY <2>4 DEF Continues, SameMutation
    <3>2. txn.op \in {"remove", "mark"} /\ txn.id \in DOMAIN rows
      <4>1. ~Finish("missing")
        BY <2>4 DEF Continues, SameMutation, Finish, Idle
      <4> QED
        BY <2>4, <4>1 DEF Recovered
    <3>3. txn.id \in Ids /\ txn.id < nextId /\ (Kept(txn.id) \/ Lost(txn.id))
          /\ place[txn.id] \in mayPlace[txn.id] /\ place[txn.id] # "tombstone"
      BY <1>1, <1>t, <3>2, RegisteredAccount DEF Tombstones
    <3>4. CASE txn.op = "remove"
      <4>1. promise[txn.id] = "none"
        BY <1>1, <3>4 DEF StepIInv
      <4>2. txn'.step \in {"rename", "commit"} /\ (txn'.step = "rename" => place[txn.id] = "final")
        <5>1. Goto(IF place[txn.id] = "final" THEN "rename" ELSE "commit")
          BY <3>2, <3>4 DEF Recovered
        <5> QED
          BY <1>t, <2>4, <5>1 DEF Goto, RegistryTyped, Txns
      <4> QED
        BY <1>1, <3>1, <3>2, <3>3, <3>4, <4>1, <4>2 DEF StepIInv, IsNamed
    <3>5. CASE txn.op = "mark"
      <4>1. files[txn.id] # None
        <5>1. ~Finish("failed")
          BY <2>4 DEF Continues, SameMutation, Finish, Idle
        <5> QED
          BY <3>2, <3>5, <5>1 DEF Recovered
      <4>2. place[txn.id] = "final"
        BY <3>3, <4>1 DEF Kept, Lost
      <4> QED
        BY <1>1, <2>4, <3>1, <3>2, <3>3, <3>5, <4>1, <4>2 DEF StepIInv, IsNamed
    <3> QED
      BY <3>2, <3>4, <3>5
  <2> QED
    BY <1>t, <2>1, <2>2, <2>3, <2>4, RecoveredMoves DEF Turns
<1> QED
  BY <1>4, <1>7

\* A step after which the mutation is at the given one, or has ended.
LEMMA AtStep ==
  ASSUME RegistryTyped, NEW step \in StepsOf(txn.op), Goto(step)
  PROVE  txn'.op = txn.op /\ txn'.id = txn.id /\ txn'.step = step
  BY GotoKeeps DEF RegistryTyped, TxnTyped, SameMutation

\* A fresh account stays unnamed.
LEMMA StaysUnnamed ==
  ASSUME NEW a, Unnamed(a), registry \in mayRegistry, mayRegistry' \in {mayRegistry, {registry}}
  PROVE  Unnamed(a)'
  BY DEF Unnamed, Named

\* A new directory is staged under a fresh id and gets its final name before the
\* registry names it.
LEMMA DiskOfAddition ==
  ASSUME RegistryTyped, RegistryTyped', DiskIInv, Stage \/ Install
  PROVE  DiskIInv'
<1> USE DEF DiskIInv
<1>a. PICK a \in Ids : a = txn.id
  BY DEF Stage, Install, At, StepIInv, Past, Early
<1> USE <1>a
<1>1. /\ txn.op = "add" /\ txn.step \in {"stage", "install"} /\ a < nextId /\ nextId \in Nat
      /\ Unnamed(a) /\ promise[a] = "none"
      /\ (txn.step = "install" => files[a] # None)
  BY DEF Stage, Install, At, StepIInv, Past, Early, RegistryTyped
<1>2. /\ UNCHANGED <<registry, nextId, promise, purgedEarly>>
      /\ \A step \in {"install", "sync", "rollback"} : step \in StepsOf(txn.op)
  BY <1>1 DEF Stage, Install, StepsOf
<1>3. AccountIInv(a) /\ registry \in mayRegistry
  BY DEF AccountsIInv, VersionsIInv
<1>4. /\ AccountsIInv' /\ VersionsIInv' /\ mayRegistry' = mayRegistry
      /\ \A to \in {"staging", "final"} : Move(a, to) => place'[a] = to
  <2>1. ASSUME NEW to, Move(a, to), files' \in {files, [files EXCEPT ![a] = NewFiles(txn.login)]}
        PROVE  AccountsIInv' /\ VersionsIInv' /\ mayRegistry' = mayRegistry /\ place'[a] = to
    <3>1. /\ VersionsIInv' /\ \A i \in Ids \ {a} : Rests(i)
          /\ place'[a] = to /\ mayPlace'[a] \in {mayPlace[a] \union {to}, {to}}
      BY <1>2, <2>1, MovesOne
    <3>2. mayRegistry' = mayRegistry
      BY <2>1 DEF Move
    <3>3. AccountIInv(a)'
      BY <1>1, <1>2, <1>3, <3>1, <3>2, NotNamed
    <3> QED
      BY <1>2, <3>1, <3>2, <3>3, OneAccount
  <2>2. CASE UNCHANGED <<place, mayPlace, mayRegistry, files>>
    <3>1. AccountsIInv' /\ VersionsIInv'
      BY <1>2, <2>2, SameAccounts DEF SameDisk, NoLess
    <3> QED
      BY <2>2, <3>1 DEF Move, RegistryTyped
  <2>3. \/ \E to \in {"staging", "final"} : Move(a, to)
        \/ UNCHANGED <<place, mayPlace, mayRegistry, files>>
    BY DEF Stage, Install
  <2>4. files' \in {files, [files EXCEPT ![a] = NewFiles(txn.login)]}
    BY DEF Stage, Install
  <2> QED
    BY <2>1, <2>2, <2>3, <2>4
<1>5. Unnamed(a)'
  BY <1>1, <1>3, <1>4, StaysUnnamed
<1>6. \/ /\ txn'.op = "add" /\ txn'.id = a /\ txn'.step = "install"
         /\ place'[a] = "staging" /\ files'[a] # None
      \/ /\ txn'.op = "add" /\ txn'.id = a /\ txn'.step = "sync"
         /\ place'[a] = "final" /\ files'[a] # None
      \/ txn'.op = "add" /\ txn'.id = a /\ txn'.step = "rollback"
  <2>1. NewFiles(txn.login) # None
    BY <1>1, RegistryAssumption DEF NewFiles, RegistryTyped, Contents
  <2>2. CASE Stage
    <3>1. CASE /\ Move(a, "staging") /\ Goto("install")
               /\ files' = [files EXCEPT ![a] = NewFiles(txn.login)]
      BY <1>1, <1>2, <1>4, <2>1, <3>1, AtStep DEF RegistryTyped
    <3>2. CASE Goto("rollback")
      BY <1>1, <1>2, <3>2, AtStep
    <3> QED
      BY <2>2, <3>1, <3>2 DEF Stage
  <2>3. CASE Install
    <3>1. txn.step = "install" /\ files' = files
      BY <2>3 DEF Install, At
    <3>2. CASE Move(a, "final") /\ Goto("sync")
      BY <1>1, <1>2, <1>4, <3>1, <3>2, AtStep
    <3>3. CASE Goto("rollback")
      BY <1>1, <1>2, <3>3, AtStep
    <3> QED
      BY <2>3, <3>2, <3>3 DEF Install
  <2> QED
    BY <2>2, <2>3
<1>7. a < nextId' /\ promise'[a] = "none"
  BY <1>1, <1>2
<1>8. StepIInv'
  BY <1>5, <1>6, <1>7 DEF StepIInv
<1> QED
  BY <1>4, <1>8

\* The barrier: the directory is durable before the registry may change.
LEMMA DiskOfSyncRoot ==
  ASSUME RegistryTyped, RegistryTyped', DiskIInv, SyncRoot, txn.op \in {"add", "remove"}
  PROVE  DiskIInv'
<1> USE DEF DiskIInv
<1>a. PICK a \in Ids : a = txn.id
  BY DEF SyncRoot, StepIInv, Past, Early
<1> USE <1>a
<1>1. txn.step = "sync" /\ a < nextId /\ promise[a] = "none"
  BY DEF SyncRoot, StepIInv, Past, Early
<1>2. SameDisk /\ NoLess /\ rows' = rows /\ UNCHANGED <<nextId, promise>>
  BY DEF SyncRoot, SameDisk, NoLess, rows
<1>3. AccountsIInv' /\ VersionsIInv'
  BY <1>2, SameAccounts
<1>4. registry \in mayRegistry /\ mayRegistry' \in {mayRegistry, {registry}}
  BY <1>2 DEF VersionsIInv, SameDisk, NoLess, Sync
<1>5. \/ /\ txn'.op = txn.op /\ txn'.id = a /\ txn'.step = "commit"
         /\ mayPlace' = [i \in Ids |-> {place'[i]}]
      \/ txn'.op = "add" /\ txn.op = "add" /\ txn'.id = a /\ txn'.step = "rollback"
      \/ txn'.op = "remove" /\ txn.op = "remove" /\ txn'.id = a /\ txn'.step = "restore"
  <2>1. CASE Sync /\ Goto("commit")
    BY <2>1, AtStep DEF StepsOf, Written, Sync
  <2>2. CASE Goto(IF txn.op = "add" THEN "rollback" ELSE "restore")
    BY <2>2, AtStep DEF StepsOf
  <2> QED
    BY <2>1, <2>2 DEF SyncRoot
<1>6. CASE txn.op = "add"
  <2>1. Unnamed(a)' /\ place'[a] = "final" /\ files'[a] # None
    BY <1>1, <1>2, <1>4, <1>6, StaysUnnamed DEF StepIInv, Past, Early, SameDisk
  <2>2. txn'.op = "add" /\ txn'.step \in {"commit", "rollback"}
        /\ (txn'.step = "commit" => mayPlace'[a] = {"final"})
    BY <1>5, <1>6, <2>1
  <2> QED
    BY <1>1, <1>2, <1>3, <1>5, <2>1, <2>2 DEF StepIInv
<1>7. CASE txn.op = "remove"
  <2>1. a \in (DOMAIN rows)' /\ place'[a] = "tombstone"
    BY <1>1, <1>2, <1>7 DEF StepIInv, Past, Early, SameDisk, IsNamed
  <2>2. txn'.op = "remove" /\ txn'.step \in {"commit", "restore"}
    BY <1>5, <1>7
  <2> QED
    BY <1>1, <1>2, <1>3, <1>5, <2>1, <2>2 DEF StepIInv, IsNamed
<1> QED
  BY <1>6, <1>7

\* A failed addition leaves no row, and a removal purges the directory of no row,
\* whatever the purge leaves behind.
LEMMA DiskOfPurges ==
  ASSUME RegistryTyped, RegistryTyped', DiskIInv, Rollback \/ Purge
  PROVE  DiskIInv'
<1> USE DEF DiskIInv
<1>a. PICK a \in Ids : a = txn.id
  BY DEF Rollback, Purge, At, StepIInv, Past, Early
<1> USE <1>a
<1>1. a < nextId /\ nextId \in Nat /\ Unnamed(a) /\ AccountIInv(a) /\ registry \in mayRegistry
  BY DEF Rollback, Purge, At, StepIInv, Past, Early, RegistryTyped, AccountsIInv, VersionsIInv
<1>2. /\ UNCHANGED <<registry, nextId, purgedEarly>> /\ NoFiles(a) /\ txn' = Idle
      /\ \E to : Move(a, to) \/ MoveAndSync(a, to)
      /\ promise' = promise \/ \E what \in {"out", "none"} : Promise(what)
  BY DEF Rollback, Purge, Finish
<1>3. PICK to : Move(a, to) \/ MoveAndSync(a, to)
  BY <1>2
<1>4. \E what \in {"none", "in", "out"} : promise' \in {promise, [promise EXCEPT ![a] = what]}
  BY <1>2 DEF Promise
<1>5. /\ VersionsIInv' /\ \A i \in Ids \ {a} : Rests(i)
      /\ place'[a] = to /\ mayRegistry' \in {mayRegistry, {registry}}
      /\ mayPlace'[a] \in {mayPlace[a] \union {to}, {to}}
  BY <1>2, <1>3, <1>4, MovesOne
<1>6. promise'[a] \in {"none", "out"}
  <2>1. promise[a] \in {"none", "out"}
    BY <1>1 DEF AccountIInv, Outcome, Unnamed, RegistryTyped
  <2> QED
    BY <1>2, <2>1 DEF Promise, RegistryTyped
<1>7. AccountIInv(a)'
  BY <1>1, <1>2, <1>5, <1>6, NotNamed
<1> QED
  BY <1>2, <1>5, <1>7, OneAccount, NothingUnderWay

\* Credentials replaced in place: the account has files afterwards.
LEMMA DiskOfUpdate ==
  ASSUME RegistryTyped, RegistryTyped', DiskIInv, WriteCredentials \/ WriteProfile
  PROVE  DiskIInv'
<1> USE DEF DiskIInv
<1>a. PICK a \in Ids : a = txn.id
  BY DEF WriteCredentials, WriteProfile, At, StepIInv, Past, Early
<1> USE <1>a
<1>1. /\ txn.op = "update" /\ txn.step \in {"credentials", "profile"} /\ a \in DOMAIN rows
      /\ (WriteProfile => place[a] = "final" /\ files[a] # None)
      /\ \A step \in {"profile", "commit"} : step \in StepsOf(txn.op)
  BY DEF WriteCredentials, WriteProfile, At, StepIInv, Past, Early, IsNamed, StepsOf, Written
<1>2. /\ UNCHANGED <<registry, mayRegistry, place, mayPlace, nextId, promise, purgedEarly>>
      /\ rows' = rows /\ VersionsIInv'
  BY DEF WriteCredentials, WriteProfile, rows, VersionsIInv
<1>3. NewFiles(txn.login) # None
  BY <1>1, RegistryAssumption DEF NewFiles, RegistryTyped, Contents
<1>4. /\ \A j \in Ids \ {a} : files'[j] = files[j]
      /\ files'[a] = files[a] \/ (files'[a] # None /\ place[a] = "final")
      /\ \/ /\ txn'.op = "update" /\ txn'.id = a /\ txn'.step \in {"profile", "commit"}
            /\ place[a] = "final" /\ files'[a] # None
         \/ txn' = Idle
  <2>1. CASE WriteCredentials
    <3>1. CASE place[a] = "final" /\ Goto("profile") /\ files' = [files EXCEPT ![a] = NewFiles(txn.login)]
      BY <1>1, <1>3, <3>1, AtStep DEF RegistryTyped
    <3>2. CASE /\ place[a] = "final" /\ Finish("failed")
               /\ files' \in {files, [files EXCEPT ![a] = NewFiles(txn.login)]}
      BY <1>3, <3>2 DEF RegistryTyped, Finish
    <3>3. CASE Finish("failed") /\ UNCHANGED files
      BY <3>3 DEF Finish
    <3> QED
      BY <2>1, <3>1, <3>2, <3>3 DEF WriteCredentials, WriteFile
  <2>2. CASE WriteProfile
    <3>1. files' = files /\ (Goto("commit") \/ Finish("failed"))
      BY <2>2 DEF WriteProfile, WriteFile
    <3> QED
      BY <1>1, <2>2, <3>1, AtStep DEF Finish
  <2> QED
    BY <2>1, <2>2
<1>5. \A i \in Ids \ {a} : Rests(i)
  BY <1>2, <1>4 DEF Rests
<1>6. AccountIInv(a)'
  <2>1. AccountIInv(a)
    BY DEF AccountsIInv
  <2>2. CASE files'[a] = files[a]
    <3>1. Rests(a)
      BY <1>2, <2>2 DEF Rests
    <3> QED
      BY <1>2, <2>1, <3>1, Rested DEF RegistryTyped
  <2>3. CASE files'[a] # None /\ place[a] = "final"
    <3>1. Kept(a) \/ Lost(a)
      BY <1>1, RegisteredAccount
    <3>2. Kept(a)'
      BY <1>2, <2>1, <2>3, <3>1 DEF Kept, Lost, AccountIInv
    <3>3. a < nextId
      BY <1>1, RegisteredAccount
    <3>4. \A r \in mayRegistry' : Outcome(r, a)'
      BY <1>2, <2>1, <3>2, <3>3 DEF AccountIInv, Outcome, Named
    <3> QED
      BY <1>2, <2>1, <3>3, <3>4 DEF AccountIInv, RegistryTyped, Ids
  <2> QED
    BY <1>4, <2>2, <2>3
<1>7. AccountsIInv'
  BY <1>2, <1>5, <1>6, OneAccount
<1>8. StepIInv'
  <2>1. CASE txn' = Idle
    BY <2>1, NothingUnderWay
  <2>2. CASE /\ txn'.op = "update" /\ txn'.id = a /\ txn'.step \in {"profile", "commit"}
             /\ place[a] = "final" /\ files'[a] # None
    <3>1. a < nextId'
      BY <1>1, <1>2, RegisteredAccount
    <3> QED
      BY <1>1, <1>2, <2>2, <3>1 DEF StepIInv, IsNamed
  <2> QED
    BY <1>4, <2>1, <2>2
<1> QED
  BY <1>2, <1>7, <1>8

\* An account whose directory is renamed to its final name or to its tombstone, and is
\* at neither of the other places.
LEMMA NamedMoves ==
  ASSUME RegistryTyped, AccountsIInv, VersionsIInv, NEW a \in Ids, NEW to \in {"final", "tombstone"},
         a \in DOMAIN rows, place[a] \in {"final", "tombstone"},
         promise[a] = "none", UNCHANGED <<registry, files, nextId, purgedEarly>>,
         \/ Move(a, to) /\ promise' = promise
         \/ to = "final" /\ MoveAndSync(a, to) /\ promise' = [promise EXCEPT ![a] = "in"]
  PROVE  AccountsIInv' /\ VersionsIInv' /\ place'[a] = to
<1>1. /\ VersionsIInv' /\ \A i \in Ids \ {a} : Rests(i)
      /\ place'[a] = to /\ mayRegistry' \in {mayRegistry, {registry}}
      /\ mayPlace'[a] \in {mayPlace[a] \union {to}, {to}}
  BY MovesOne
<1>2. AccountIInv(a) /\ a < nextId /\ nextId \in Nat /\ a \in Named(registry)
  BY RegisteredAccount DEF AccountsIInv, RegistryTyped
<1>3. (Kept(a) => Kept(a)') /\ (Lost(a) => Lost(a)')
  BY <1>1 DEF Kept, Lost
<1>4. \/ promise'[a] = "none"
      \/ promise'[a] = "in" /\ mayPlace'[a] = {"final"} /\ mayRegistry' = {registry}
  BY DEF MoveAndSync, Sync, RegistryTyped
<1>5. ASSUME NEW r \in mayRegistry' PROVE Outcome(r, a)'
  <2>1. r \in mayRegistry
    BY <1>1 DEF VersionsIInv
  <2>2. Outcome(r, a)
    BY <1>2, <2>1 DEF AccountIInv
  <2> QED
    BY <1>2, <1>3, <1>4, <2>2 DEF Outcome, Named
<1>6. AccountIInv(a)'
  BY <1>1, <1>2, <1>5 DEF AccountIInv, Ids
<1> QED
  BY <1>1, <1>6, OneAccount

\* A directory becomes a tombstone while the registry still names it, and its own again
\* when the removal fails.
LEMMA DiskOfRemoval ==
  ASSUME RegistryTyped, RegistryTyped', DiskIInv, Tombstone \/ Restore
  PROVE  DiskIInv'
<1> USE DEF DiskIInv
<1>a. PICK a \in Ids : a = txn.id
  BY DEF Tombstone, Restore, At, StepIInv, Past, Early
<1> USE <1>a
<1>1. /\ txn.op = "remove" /\ a \in DOMAIN rows /\ a < nextId /\ promise[a] = "none"
      /\ place[a] \in {"final", "tombstone"} /\ "sync" \in StepsOf(txn.op)
  BY DEF Tombstone, Restore, At, StepIInv, Past, Early, IsNamed, StepsOf
<1>2. UNCHANGED <<registry, files, nextId, purgedEarly>> /\ rows' = rows
  BY DEF Tombstone, Restore, rows
<1>3. CASE \/ /\ Tombstone /\ Move(a, "tombstone") /\ Goto("sync")
           \/ /\ Restore /\ txn' = Idle
  <2>1. \E to \in {"final", "tombstone"} :
          \/ Move(a, to) /\ promise' = promise
          \/ to = "final" /\ MoveAndSync(a, to) /\ promise' = [promise EXCEPT ![a] = "in"]
    BY <1>3 DEF Tombstone, Restore, Promise
  <2>2. AccountsIInv' /\ VersionsIInv'
    BY <1>1, <1>2, <2>1, NamedMoves
  <2>3. CASE txn' = Idle
    BY <2>2, <2>3, NothingUnderWay
  <2>4. CASE Tombstone /\ Move(a, "tombstone") /\ Goto("sync")
    <3>1. txn'.op = "remove" /\ txn'.id = a /\ txn'.step = "sync"
      BY <1>1, <2>4, AtStep
    <3>2. place'[a] = "tombstone" /\ promise'[a] = "none"
      BY <1>1, <2>4 DEF Tombstone, Move, RegistryTyped
    <3> QED
      BY <1>1, <1>2, <2>2, <3>1, <3>2 DEF StepIInv, IsNamed
  <2> QED
    BY <1>3, <2>3, <2>4
<1>4. CASE Finish("failed") /\ UNCHANGED <<place, mayPlace, mayRegistry, promise>>
  BY <1>2, <1>4, SameAccounts, NothingUnderWay DEF SameDisk, NoLess, Finish
<1> QED
  BY <1>3, <1>4 DEF Tombstone, Restore, Finish

\* The commit point: the registry that the replace leaves is as good as the one before.
LEMMA DiskOfReplace ==
  ASSUME RegistryTyped, RegistryTyped', DiskIInv, Replace
  PROVE  DiskIInv'
<1> USE DEF DiskIInv
<1>1. txn.step = "commit" /\ txn.op \in {"add", "update", "mark", "remove"}
  BY DEF Replace, RegistryTyped, Txns, Ops, StepsOf
<1>a. PICK a \in Ids : a = txn.id
  BY <1>1 DEF StepIInv, Past, Early
<1> USE <1>a
<1>2. /\ UNCHANGED <<place, mayPlace, files, nextId, promise, purgedEarly>>
      /\ registry' = NewRows /\ mayRegistry' = mayRegistry \union {NewRows}
  BY DEF Replace
<1>3. txn'.op = txn.op /\ txn'.id = a /\ txn'.step = "settle"
  BY <1>1, AtStep DEF Replace, StepsOf, Written
<1>4. /\ a < nextId /\ (txn.op # "add" => a \in DOMAIN rows)
      /\ (txn.op \in {"add", "remove"} => promise[a] = "none")
      /\ (txn.op # "remove" => place[a] = "final" /\ files[a] # None)
      /\ (txn.op = "add" => Unnamed(a) /\ mayPlace[a] = {"final"})
  BY <1>1 DEF StepIInv, Past, Early, IsNamed
<1>5. /\ NewRows \in Registries
      /\ Named(NewRows) = (CASE txn.op = "add" -> Named(registry) \union {a}
                             [] txn.op = "remove" -> Named(registry) \ {a}
                             [] OTHER -> Named(registry))
  BY <1>1, <1>4, NewRowsOf DEF rows, Named
<1>6. (DOMAIN rows)' = Named(NewRows) /\ DOMAIN rows = Named(registry)
  BY <1>2 DEF rows, Named
<1>7. StepIInv'
  <2>1. txn.op \in {"add", "update", "mark"} => a \in (DOMAIN rows)'
    BY <1>4, <1>5, <1>6
  <2>2. txn.op = "remove" => a \notin (DOMAIN rows)'
    BY <1>5, <1>6
  <2> QED
    BY <1>1, <1>2, <1>3, <1>4, <2>1, <2>2 DEF StepIInv, IsNamed
<1>8. VersionsIInv'
  BY <1>2, <1>5 DEF VersionsIInv
<1>9. ASSUME NEW i \in Ids, i \in Named(NewRows) <=> i \in Named(registry)
      PROVE  Rests(i)
  BY <1>2, <1>9 DEF Rests, VersionsIInv
<1>10. \A i \in Ids \ {a} : Rests(i)
  BY <1>5, <1>9
<1>11. AccountIInv(a)'
  <2>1. AccountIInv(a) /\ nextId \in Nat
    BY DEF AccountsIInv, RegistryTyped
  <2>2. CASE txn.op \in {"update", "mark"}
    BY <1>2, <1>5, <1>9, <2>1, <2>2, Rested
  <2>3. CASE txn.op \in {"add", "remove"}
    <3>1. \A r \in mayRegistry : Outcome(r, a)
      BY <2>1 DEF AccountIInv
    <3>2. Outcome(NewRows, a)
      <4>1. txn.op = "add" => Kept(a)
        BY <1>4 DEF Kept
      <4> QED
        BY <1>4, <1>5, <2>3, <4>1 DEF Outcome
    <3>3. \A r \in mayRegistry' : Outcome(r, a)'
      BY <1>2, <3>1, <3>2 DEF Outcome, Kept, Lost, Named
    <3> QED
      BY <1>2, <2>1, <3>3 DEF AccountIInv
  <2> QED
    BY <1>1, <2>2, <2>3
<1> QED
  BY <1>2, <1>7, <1>8, <1>10, <1>11, OneAccount

\* The directory sync after the commit: the answer about the account is now so.
LEMMA DiskOfSettle ==
  ASSUME RegistryTyped, RegistryTyped', DiskIInv, Settle
  PROVE  DiskIInv'
<1> USE DEF DiskIInv
<1>1. txn.step = "settle" /\ txn.op \in {"add", "update", "mark", "remove"}
  BY DEF Settle, RegistryTyped, Txns, Ops, StepsOf
<1>a. PICK a \in Ids : a = txn.id
  BY <1>1 DEF StepIInv, Past, Early
<1> USE <1>a
<1>2. /\ UNCHANGED <<registry, place, files, nextId, purgedEarly>> /\ Sync
      /\ promise' = [promise EXCEPT ![a] = IF txn.op = "remove" THEN "out" ELSE "in"]
      /\ IF place[a] = "tombstone" THEN Goto("purge") ELSE Finish("ok")
  BY DEF Settle, Settled, Promise
<1>3. mayRegistry' = {registry} /\ \A i \in Ids : mayPlace'[i] = {place[i]}
  BY <1>2 DEF Sync
<1>4. /\ a < nextId /\ nextId \in Nat /\ DOMAIN rows = Named(registry)
      /\ txn.op # "remove" => a \in Named(registry) /\ place[a] = "final"
      /\ txn.op = "remove" => a \notin Named(registry)
  BY <1>1, RowsTyped DEF StepIInv, Past, Early, IsNamed, RegistryTyped
<1>5. /\ promise'[a] = (IF txn.op = "remove" THEN "out" ELSE "in")
      /\ \A i \in Ids \ {a} : promise'[i] = promise[i]
  BY <1>2 DEF RegistryTyped
<1>6. \A i \in Ids \ {a} : Rests(i)
  BY <1>2, <1>3, <1>5 DEF Rests, VersionsIInv
<1>7. VersionsIInv'
  BY <1>2, <1>3 DEF VersionsIInv
<1>8. AccountIInv(a)'
  <2>1. Outcome(registry, a) /\ place[a] \in mayPlace[a]
    BY DEF AccountsIInv, AccountIInv, VersionsIInv
  <2>2. (Kept(a) => Kept(a)') /\ (Lost(a) => Lost(a)')
    BY <1>2, <1>3, <2>1 DEF Kept, Lost
  <2>3. Outcome(registry, a)'
    BY <1>2, <1>3, <1>4, <1>5, <2>1, <2>2 DEF Outcome, Named
  <2> QED
    BY <1>2, <1>3, <1>4, <2>3 DEF AccountIInv, Ids
<1>9. AccountsIInv'
  BY <1>2, <1>6, <1>8, OneAccount
<1>10. CASE place[a] = "tombstone"
  <2>0. txn.op = "remove"
    BY <1>4, <1>10
  <2>1. txn'.op = "remove" /\ txn'.id = a /\ txn'.step = "purge"
    BY <1>2, <1>10, <2>0, AtStep DEF StepsOf
  <2>2. Unnamed(a)'
    BY <1>3, <1>4, <2>0 DEF Unnamed, Named
  <2>3. StepIInv'
    BY <1>2, <1>4, <2>1, <2>2 DEF StepIInv
  <2> QED
    BY <1>7, <1>9, <2>3
<1>11. CASE place[a] # "tombstone"
  BY <1>2, <1>7, <1>9, <1>11, NothingUnderWay DEF Finish
<1> QED
  BY <1>10, <1>11

\* Nobody knows how the registry write ended, and nothing is promised; or it did not
\* happen, and the directory is to be put back to what it was.
LEMMA DiskOfFailedWrite ==
  ASSUME RegistryTyped, RegistryTyped', DiskIInv, Uncertain \/ CommitFails
  PROVE  DiskIInv'
<1> USE DEF DiskIInv
<1>1. /\ SameDisk /\ NoLess /\ UNCHANGED <<mayRegistry, nextId>> /\ rows' = rows
      /\ \A i \in Ids : promise'[i] \in {promise[i], "none"}
  BY DEF Uncertain, CommitFails, Promise, SameDisk, NoLess, rows, RegistryTyped
<1>2. AccountsIInv' /\ VersionsIInv'
  BY <1>1, SameAccounts
<1>3. StepIInv'
  <2>1. CASE txn' = Idle
    BY <2>1, NothingUnderWay
  <2>2. CASE CommitFails /\ txn.op = "add"
    <3>1. /\ txn.step = "commit" /\ txn'.op = "add" /\ txn'.id = txn.id /\ txn'.step = "rollback"
      BY <2>2, AtStep DEF CommitFails, StepsOf
    <3>2. /\ txn.id \in Ids /\ txn.id < nextId /\ promise[txn.id] = "none" /\ Unnamed(txn.id)
      BY <2>2, <3>1 DEF StepIInv, Past, Early
    <3>3. Unnamed(txn.id)'
      BY <1>1, <3>1, <3>2 DEF Unnamed, Named
    <3> QED
      BY <1>1, <3>1, <3>2, <3>3 DEF StepIInv
  <2>3. CASE CommitFails /\ txn.op # "add" /\ place[txn.id] = "tombstone"
    <3>0. txn.step = "commit" /\ txn.op \in {"update", "mark", "remove"}
      BY <2>3 DEF CommitFails, RegistryTyped, Txns, Ops, StepsOf
    <3>1. txn.op = "remove"
      BY <2>3, <3>0 DEF StepIInv, Past, Early
    <3>2. txn'.op = "remove" /\ txn'.id = txn.id /\ txn'.step = "restore"
      BY <2>3, <3>1, AtStep DEF CommitFails, StepsOf
    <3>3. /\ txn.id \in Ids /\ txn.id < nextId /\ promise[txn.id] = "none" /\ txn.id \in DOMAIN rows
      BY <3>0, <3>1 DEF StepIInv, Past, Early, IsNamed
    <3> QED
      BY <1>1, <2>3, <3>2, <3>3 DEF StepIInv, IsNamed, SameDisk
  <2> QED
    BY <2>1, <2>2, <2>3 DEF Uncertain, CommitFails, Finish
<1> QED
  BY <1>2, <1>3

\* Every step of a mutation keeps the disk consistent.
LEMMA DiskOfMutation ==
  ASSUME TypesIInv, OwnersIInv, DiskIInv, Mutation
  PROVE  DiskIInv'
<1>1. RegistryTyped /\ RegistryTyped'
  BY AccountIsKnown, MutationTyped DEF Mutation, TypesIInv, DiskIInv
<1>2. CASE Recovery
  BY <1>1, <1>2, DiskOfRecovery
<1>3. CASE Recovered
  BY <1>3, DiskOfRecovered
<1>4. CASE \/ Stage \/ Install \/ Rollback \/ WriteCredentials \/ WriteProfile
           \/ Tombstone \/ Restore \/ Purge
  BY <1>1, <1>4, DiskOfAddition, DiskOfPurges, DiskOfUpdate, DiskOfRemoval
<1>5. CASE RegistryWrite
  BY <1>1, <1>5, DiskOfReplace, DiskOfSettle, DiskOfFailedWrite DEF RegistryWrite
<1>6. CASE SyncRoot /\ txn.op \in {"add", "remove"}
  BY <1>1, <1>6, DiskOfSyncRoot
<1> QED
  BY <1>2, <1>3, <1>4, <1>5, <1>6
  DEF Mutation, MutationStep, AddAccount, UpdateCredentials, RemoveAccount, MarkNeedsReauth

\* A step that leaves the disk and the mutation as they are.
LEMMA DiskRests ==
  ASSUME RegistryTyped, DiskIInv, SameDisk, UNCHANGED <<mayRegistry, mayPlace, nextId, promise, txn>>
  PROVE  DiskIInv'
<1>1. AccountsIInv' /\ VersionsIInv'
  BY SameAccounts DEF DiskIInv, NoLess
<1>2. StepIInv'
  BY DEF DiskIInv, StepIInv, SameDisk, Past, IsNamed, Unnamed, Named, rows
<1> QED
  BY <1>1, <1>2 DEF DiskIInv

\* A mutation begins: nothing is promised any more of an account that is to go.
LEMMA DiskOfBegin ==
  ASSUME RegistryTyped, DiskIInv, NEW a, NEW op, NEW i, NEW l, NEW g, Begin(a, op, i, l, g),
         op = "remove" => i \in Ids
  PROVE  DiskIInv'
<1> USE DEF DiskIInv
<1>1. /\ UNCHANGED <<registry, mayRegistry, place, mayPlace, files, nextId, purgedEarly>>
      /\ txn' = [by |-> a, op |-> op, step |-> "recover", id |-> i, login |-> l, gen |-> g]
      /\ promise' = IF op = "remove" THEN [promise EXCEPT ![i] = "none"] ELSE promise
  BY DEF Begin
<1>2. /\ \A j \in Ids : promise'[j] \in {promise[j], "none"}
      /\ op = "remove" => promise'[i] = "none"
  BY <1>1 DEF RegistryTyped
<1>3. AccountsIInv' /\ VersionsIInv'
  BY <1>1, <1>2, SameAccounts DEF SameDisk, NoLess
<1>4. StepIInv'
  BY <1>1, <1>2 DEF StepIInv, Past, Early
<1> QED
  BY <1>3, <1>4

\* Every beginning keeps the disk consistent.
LEMMA DiskOfBegins ==
  ASSUME TypesIInv, DiskIInv, SessionMutates \/ CliMutates \/ CliRemoves \/ \E c \in Callers : Mark(c)
  PROVE  DiskIInv'
<1>t. RegistryTyped
  BY DEF TypesIInv
<1>1. CASE SessionMutates
  BY <1>1, <1>t, SessionMutatesDoes, DiskOfBegin
<1>2. CASE CliMutates
  BY <1>2, <1>t, CliMutatesDoes, DiskOfBegin
<1>3. CASE CliRemoves
  BY <1>3, <1>t, CliRemovesDoes, DiskOfBegin
<1>4. CASE \E c \in Callers : Mark(c)
  BY <1>4, <1>t, MarkDoes, DiskOfBegin
<1> QED
  BY <1>1, <1>2, <1>3, <1>4

\* The publication replaces the files of an account that keeps having some.
LEMMA DiskOfPublication ==
  ASSUME TypesIInv, DiskIInv, NEW c \in Callers, PublishRefresh(c)
  PROVE  DiskIInv'
<1> USE DEF DiskIInv
<1>1. /\ UNCHANGED <<registry, mayRegistry, place, mayPlace, nextId, txn, promise, purgedEarly>>
      /\ txn = Idle
  BY PublishRefreshDoes DEF LockFree, PublishRefresh
<1>2. \A i \in Ids : files'[i] = files[i] \/ (files[i] # None /\ files'[i] # None)
  <2>1. /\ files \in [Ids -> Contents \union {None}] /\ None \notin Contents
        /\ \/ files' = files
           \/ /\ files[caller[c].id] # None
              /\ \E f \in Contents : files' = [files EXCEPT ![caller[c].id] = f]
    BY PublishRefreshDoes, RegistryAssumption DEF TypesIInv, RegistryTyped, Contents
  <2> QED
    BY <2>1
<1>3. ASSUME NEW i \in Ids PROVE Rests(i)
  BY <1>1, <1>2 DEF Rests
<1>4. AccountsIInv' /\ VersionsIInv'
  BY <1>1, <1>3, Rested DEF AccountsIInv, VersionsIInv, TypesIInv, RegistryTyped
<1>5. StepIInv'
  BY <1>1, NothingUnderWay
<1> QED
  BY <1>4, <1>5

\* A process dies between two steps, or the machine stops and any outcome that was still
\* possible becomes the disk.
LEMMA DiskOfDeath ==
  ASSUME TypesIInv, DiskIInv, Deaths
  PROVE  DiskIInv'
<1> USE DEF DiskIInv
<1>t. RegistryTyped
  BY DEF TypesIInv
<1>1. CASE CliDies \/ DaemonDies
  <2>1. /\ SameDisk /\ UNCHANGED <<mayRegistry, mayPlace, nextId, promise>>
        /\ (txn' = txn \/ txn' = Idle)
    BY <1>1 DEF CliDies, DaemonDies, Dies, SameDisk
  <2>2. CASE txn' = txn
    BY <1>t, <2>1, <2>2, DiskRests
  <2>3. CASE txn' = Idle
    BY <1>t, <2>1, <2>3, SameAccounts, NothingUnderWay DEF NoLess
  <2> QED
    BY <2>1, <2>2, <2>3
<1>2. CASE MachineStops
  <2>1. /\ txn' = Idle /\ UNCHANGED <<files, nextId, promise, purgedEarly>>
        /\ registry' \in mayRegistry /\ mayRegistry' = {registry'}
        /\ \A i \in Ids : place'[i] \in mayPlace[i] /\ mayPlace'[i] = {place'[i]}
    BY <1>2 DEF MachineStops, PowerLoss
  <2>2. VersionsIInv'
    BY <2>1 DEF VersionsIInv
  <2>3. ASSUME NEW i \in Ids PROVE AccountIInv(i)'
    <3>1. AccountIInv(i) /\ Outcome(registry', i)
      BY <2>1 DEF AccountsIInv, AccountIInv
    <3>2. (Kept(i) => Kept(i)') /\ (Lost(i) => Lost(i)')
      BY <2>1 DEF Kept, Lost
    <3>3. \A r \in mayRegistry' : Outcome(r, i)'
      BY <2>1, <3>1, <3>2 DEF Outcome, Named
    <3> QED
      BY <2>1, <3>1, <3>3 DEF AccountIInv
  <2> QED
    BY <2>1, <2>2, <2>3, NothingUnderWay DEF AccountsIInv
<1> QED
  BY <1>1, <1>2 DEF Deaths

\* Every step keeps the disk consistent.
LEMMA DiskInductive ==
  ASSUME TypesIInv, OwnersIInv, DiskIInv, [Next]_vars
  PROVE  DiskIInv'
<1>t. RegistryTyped
  BY DEF TypesIInv
<1>1. CASE OwnStep \/ (\E c \in Callers : RequestStep(c)) \/ UNCHANGED vars
  <2>1. UNCHANGED registryVars
    BY <1>1, OwnStepKeeps, RequestKeepsDisk DEF vars
  <2> QED
    BY <1>t, <2>1, DiskRests DEF registryVars, SameDisk
<1>2. CASE SessionMutates \/ CliMutates \/ CliRemoves \/ \E c \in Callers : Mark(c)
  BY <1>2, DiskOfBegins
<1>3. CASE SessionAnswered \/ CliAnswered \/ \E c \in Callers : Marked(c)
  <2>1. OnlyAnswer
    BY <1>3 DEF SessionAnswered, CliAnswered, Marked
  <2> QED
    BY <1>t, <2>1, DiskRests DEF OnlyAnswer, SameDisk
<1>4. CASE \E c \in Callers : PublishRefresh(c)
  BY <1>4, DiskOfPublication
<1>5. CASE Mutation
  BY <1>5, DiskOfMutation
<1>6. CASE Deaths
  BY <1>6, DiskOfDeath
<1> QED
  BY <1>1, <1>2, <1>3, <1>4, <1>5, <1>6, NextIs
-------------------------------------------------------------------------------
(* The theorems *)

\* The initial states, with no account or with one, satisfy the invariant.
LEMMA InitIsFine ==
  ASSUME Init
  PROVE  IInv
<1> USE RegistryAssumption DEF Init, RegistryInit
<1>1. 1 \in Logins /\ (NumIds \in Nat => \A i \in Ids : i \in Nat /\ i >= 1)
  BY DEF Logins, Ids
<1>2. /\ txn = Idle /\ trouble = 0 /\ mayRegistry = {registry}
      /\ mayPlace = [i \in Ids |-> {place[i]}] /\ promise = [i \in Ids |-> "none"]
      /\ caller = [c \in Callers |-> NoCall] /\ logins = nextId - 1
  OBVIOUS
<1>3. 1 \in Ids
  <2>1. NumIds \in Nat /\ NumLogins \in Nat \ {0}
    BY RegistryAssumption
  <2>2. NumIds >= NumLogins
    BY AccountsAssumption
  <2>3. NumIds >= 1
    BY <2>1, <2>2
  <2> QED
    BY <2>1, <2>3 DEF Ids
<1>4. /\ registry \in Registries /\ nextId \in {1, 2} /\ nextGen = nextId
      /\ place \in [Ids -> {"none", "final"}]
      /\ files \in [Ids -> Contents \union {None}] /\ None \notin Contents
      /\ \A i \in Ids : IF i \in Named(registry)
                        THEN i = 1 /\ nextId = 2 /\ place[i] = "final" /\ files[i] # None
                        ELSE place[i] = "none" /\ files[i] = None
      /\ \A i \in Ids : files[i] # None => files[i].gen < nextGen
  <2>0. None \notin Contents
    BY DEF Contents
  <2>1. CASE /\ registry = NoFile /\ nextId = 1 /\ nextGen = 1
             /\ place = [i \in Ids |-> "none"] /\ files = [i \in Ids |-> None]
    BY <2>0, <2>1 DEF Registries, Named
  <2>2. CASE /\ registry = [i \in {1} |-> ReadyRow(1)] /\ nextId = 2 /\ nextGen = 2
             /\ place = [i \in Ids |-> IF i = 1 THEN "final" ELSE "none"]
             /\ files = [i \in Ids |-> IF i = 1 THEN [gen |-> 1, login |-> 1, token |-> 1]
                                       ELSE None]
    <3>1. ReadyRow(1) \in Row /\ {1} \in SUBSET Ids
      BY <1>1, <1>3 DEF ReadyRow, Row
    <3>2. registry \in Registries /\ Named(registry) = {1}
      BY <2>2, <3>1, RegistryOf
    <3>3. [gen |-> 1, login |-> 1, token |-> 1] \in Contents
      BY <1>1 DEF Contents
    <3> QED
      BY <2>0, <2>2, <3>2, <3>3
  <2> QED
    BY <2>1, <2>2
<1>5. RegistryTyped
  <2>1. Idle \in Txns /\ Idle.step \in StepsOf(Idle.op) /\ Idle.op = "none"
    BY DEF Idle, Txns, Ops, Steps, StepsOf
  <2> QED
    BY <1>2, <1>4, <2>1 DEF RegistryTyped, Places, Answers
<1>6. LoginsTyped /\ CallersTyped
  <2>1. logins \in 0..NumLogins
    BY <1>2, <1>4
  <2>2. SessionTyped
    BY DEF NoSession, SessionTyped, Terminal, Statuses, SessionPcs, LoginSteps
  <2>3. CliTyped
    BY DEF CliTyped, CliPcs
  <2>4. CallersTyped
    BY DEF NoCall, CallersTyped, CallsTyped, Calls, CallPcs, Busy
  <2> QED
    BY <2>1, <2>2, <2>3, <2>4 DEF LoginsTyped
<1>7. OwnersIInv
  <2>1. ~DashOwes /\ ~CliOwes
    BY <1>2, ActorsAre DEF DashOwes, CliOwes, Idle, NoSession
  <2> QED
    BY <1>2, <1>4, <2>1, ActorsAre DEF OwnersIInv, Idle
<1>8. GenerationsIInv /\ HoldersIInv /\ CondemnedIInv
  BY <1>2, <1>4 DEF GenerationsIInv, HoldersIInv, Holds, CondemnedIInv, Idle, NoCall, Busy
<1>9. AccountsIInv
  <2>1. ASSUME NEW i \in Ids PROVE AccountIInv(i)
    <3>1. mayPlace[i] = {place[i]} /\ promise[i] = "none" /\ nextId \in Nat
      BY <1>2, <1>4
    <3>2. i \in Named(registry) => i < nextId /\ Kept(i)
      BY <1>4, <3>1 DEF Kept
    <3>3. i >= nextId => files[i] = None
      BY <1>4
    <3>4. Outcome(registry, i)
      BY <3>1, <3>2 DEF Outcome
    <3> QED
      BY <1>2, <3>1, <3>3, <3>4 DEF AccountIInv
  <2> QED
    BY <2>1 DEF AccountsIInv
<1>10. StepIInv
  BY <1>2 DEF StepIInv, Idle, Past
<1>11. VersionsIInv
  BY <1>2, <1>4 DEF VersionsIInv
<1> QED
  BY <1>5, <1>6, <1>7, <1>8, <1>9, <1>10, <1>11 DEF IInv, TypesIInv, DiskIInv

\* Every step keeps the invariant.
LEMMA NextKeeps ==
  ASSUME IInv, [Next]_vars
  PROVE  IInv'
<1> USE DEF IInv
<1>1. StepIInv /\ VersionsIInv
  BY DEF DiskIInv
<1>2. TypesIInv'
  BY <1>1, TypesInductive
<1>3. OwnersIInv' /\ DiskIInv'
  BY <1>1, OwnersInductive, DiskInductive
<1>4. TokensIInv'
  BY <1>1, TokensInductive DEF TokensIInv
<1>5. CondemnedIInv'
  BY <1>1, CondemnedInductive
<1> QED
  BY <1>2, <1>3, <1>4, <1>5 DEF TokensIInv

\* Every reachable state satisfies the inductive invariant.
THEOREM Invariance == Spec => []IInv
<1>1. Init => IInv
  BY InitIsFine
<1>2. IInv /\ [Next]_vars => IInv'
  BY NextKeeps
<1> QED
  BY <1>1, <1>2, PTL DEF Spec

\* The registry never names an account whose credential files are lost, whatever fails,
\* dies or loses power between two file operations of claude/accounts.py, again and
\* again; but for the accounts that _reconcile_tombstones purged by a registry that was
\* not durable yet.
THEOREM RegisteredHasItsFilesThm == Spec => []RegisteredHasItsFiles
<1>1. IInv => RegisteredHasItsFiles
  BY AccountsAreSafe DEF IInv, TypesIInv, DiskIInv
<1> QED
  BY <1>1, Invariance, PTL

\* What add_account, update_account_credentials and remove_account answered stays true
\* across every later failure, death and loss of power, until the account is removed.
THEOREM AnswersStayTrueThm == Spec => []AnswersStayTrue
<1>1. IInv => AnswersStayTrue
  BY AccountsAreSafe DEF IInv, TypesIInv, DiskIInv
<1> QED
  BY <1>1, Invariance, PTL

\* Two requests never have the same refresh token at the endpoint, or one of them its
\* answer still to publish, under the per-account lock of ClaudeAccountAuthManager.
THEOREM TokenSpentOnceThm == Spec => []TokenSpentOnce
<1>1. ASSUME HoldersIInv PROVE TokenSpentOnce
  BY <1>1 DEF HoldersIInv, Holds, Busy, TokenSpentOnce
<1>2. IInv => TokenSpentOnce
  BY <1>1 DEF IInv
<1> QED
  BY <1>2, Invariance, PTL

\* Only the write of the registry changes what it says, and the loss of power.
LEMMA RegistryOfStep ==
  ASSUME IInv, [Next]_vars
  PROVE  registry' = registry \/ trouble' # trouble \/ Replace
<1>t. trouble \in Nat
  BY DEF IInv, TypesIInv, RegistryTyped
<1>1. CASE OwnStep \/ (\E c \in Callers : RequestStep(c)) \/ UNCHANGED vars
  BY <1>1, OwnStepKeeps, RequestKeepsDisk DEF vars, registryVars
<1>2. CASE SessionMutates \/ CliMutates \/ CliRemoves \/ \E c \in Callers : Mark(c)
  BY <1>2 DEF SessionMutates, CliMutates, CliRemoves, Mark, Begin
<1>3. CASE SessionAnswered \/ CliAnswered \/ \E c \in Callers : Marked(c)
  BY <1>3 DEF SessionAnswered, CliAnswered, Marked, OnlyAnswer
<1>4. CASE \E c \in Callers : PublishRefresh(c)
  BY <1>4 DEF PublishRefresh
<1>5. CASE Mutation
  <2>1. CASE Recovery \/ Recovered
    BY <2>1 DEF Recovery, SweepStaging, RefuseToGuess, ReconcileTombstone, ReconciledSync,
                RecoverFails, Recovered
  <2>2. CASE RegistryWrite
    BY <2>2 DEF RegistryWrite, Settle, Settled, Uncertain, CommitFails
  <2>3. CASE Stage \/ Install \/ SyncRoot \/ Rollback \/ WriteCredentials \/ WriteProfile
             \/ Tombstone \/ Restore \/ Purge
    BY <2>3 DEF Stage, Install, SyncRoot, Rollback, WriteCredentials, WriteProfile, Tombstone,
                Restore, Purge
  <2> QED
    BY <1>5, <2>1, <2>2, <2>3 DEF Mutation, MutationStep, AddAccount, UpdateCredentials,
                                  RemoveAccount, MarkNeedsReauth
<1>6. CASE Deaths
  BY <1>6, <1>t DEF Deaths, CliDies, DaemonDies, MachineStops, Dies, PowerLoss, Trouble
<1> QED
  BY <1>1, <1>2, <1>3, <1>4, <1>5, <1>6, NextIs

\* The two halves of NewLoginSurvives, for one account.
KeepsLogin(i) ==
  files[i] # None /\ files'[i] # None
  => \/ files'[i].login = files[i].login /\ files'[i].token >= files[i].token
     \/ txn.op = "update" /\ txn.id = i
MarksCondemned(i) ==
  (/\ registry # NoFile /\ registry' # NoFile /\ trouble' = trouble
   /\ i \in DOMAIN registry /\ i \in DOMAIN registry'
   /\ registry[i].state = "ready" /\ registry'[i].state = "needs-reauth")
  => files[i].gen \in condemned

\* Only an update replaces the login of an account, and no token goes back.
LEMMA LoginIsKept ==
  ASSUME IInv, [Next]_vars, NEW i \in Ids
  PROVE  KeepsLogin(i)
<1> USE DEF IInv
<1>t. RegistryTyped /\ (files[i] # None => files[i].token \in Nat)
  BY ReadableFiles DEF TypesIInv
<1>s. files'[i] = files[i] => KeepsLogin(i)
  BY <1>t DEF KeepsLogin
<1>1. CASE OwnStep \/ (\E c \in Callers : RequestStep(c)) \/ UNCHANGED vars
  BY <1>1, <1>s, OwnStepKeeps, RequestKeepsDisk DEF vars, registryVars
<1>2. CASE SessionMutates \/ CliMutates \/ CliRemoves \/ \E c \in Callers : Mark(c)
  BY <1>2, <1>s DEF SessionMutates, CliMutates, CliRemoves, Mark, Begin
<1>3. CASE SessionAnswered \/ CliAnswered \/ \E c \in Callers : Marked(c)
  BY <1>3, <1>s DEF SessionAnswered, CliAnswered, Marked, OnlyAnswer
<1>4. ASSUME NEW c \in Callers, PublishRefresh(c)
      PROVE  KeepsLogin(i)
  <2>1. CASE files'[i] = files[i]
    BY <1>s, <2>1
  <2>2. CASE files'[i] # files[i]
    <3>1. /\ i = caller[c].id /\ files[i] # None /\ files[i].gen = caller[c].seen
          /\ caller[c].pc \in Busy
          /\ \E f \in Contents : Rotated(c, f) /\ files'[i] = f
      BY <1>4, <1>t, <2>2, PublishRefreshDoes DEF RegistryTyped
    <3>2. files[i].login = caller[c].login /\ files[i].token = caller[c].token
      BY <3>1 DEF HoldersIInv, Holds
    <3> QED
      BY <1>t, <3>1, <3>2 DEF KeepsLogin, Rotated
  <2> QED
    BY <2>1, <2>2
<1>5. CASE Mutation
  <2>1. files'[i] = files[i] \/ files'[i] = None \/ Written1(i)
    BY <1>5, <1>t, FilesOfMutation DEF Mutation
  <2>2. CASE Written1(i)
    <3>1. i = txn.id /\ (txn.op = "update" \/ (txn.op = "add" /\ txn.step = "stage"))
      BY <2>2 DEF Written1
    <3>2. txn.op = "add" /\ txn.step = "stage" => files[txn.id] = None
      BY DEF DiskIInv, StepIInv, Past, Early
    <3> QED
      BY <3>1, <3>2 DEF KeepsLogin
  <2> QED
    BY <1>s, <2>1, <2>2 DEF KeepsLogin
<1>6. CASE Deaths
  BY <1>6, <1>s DEF Deaths, CliDies, DaemonDies, MachineStops, Dies, PowerLoss
<1> QED
  BY <1>1, <1>2, <1>3, <1>4, <1>5, <1>6, NextIs

\* Only a condemned generation gets its row marked.
LEMMA CondemnedIsMarked ==
  ASSUME IInv, [Next]_vars, NEW i \in Ids
  PROVE  MarksCondemned(i)
<1> USE DEF IInv
<1>t. RegistryTyped /\ StepIInv
  BY DEF TypesIInv, DiskIInv
<1> SUFFICES ASSUME registry # NoFile, registry' # NoFile, trouble' = trouble,
                    i \in DOMAIN registry, i \in DOMAIN registry',
                    registry[i].state = "ready", registry'[i].state = "needs-reauth"
             PROVE  files[i].gen \in condemned
  BY DEF MarksCondemned
<1>1. Replace /\ registry' = NewRows /\ txn.step = "commit" /\ rows = registry
  BY RegistryOfStep DEF Replace, rows
<1>2. /\ txn.id \in Ids /\ txn.op \in {"add", "update", "mark", "remove"}
      /\ txn.op \in {"update", "mark"} => txn.id \in DOMAIN rows
  BY <1>1, <1>t DEF StepIInv, Past, Early, IsNamed, RegistryTyped, Txns, Ops, StepsOf
<1>3. NewRows[i] # rows[i] /\ NewRows[i].state # "ready"
  BY <1>1
<1>4. i = txn.id
  BY <1>1, <1>2, <1>3, <1>t, NewRowsOf
<1>5. txn.op \notin {"add", "update"}
  BY <1>2, <1>3, <1>4, <1>t, NewRowsOf
<1>6. txn.op # "remove"
  <2>1. txn.op = "remove" => Named(NewRows) = Named(registry) \ {txn.id}
    BY <1>2, <1>t, NewRowsOf
  <2>2. i \in Named(NewRows)
    BY <1>1 DEF Named
  <2> QED
    BY <1>4, <2>1, <2>2
<1> QED
  BY <1>1, <1>2, <1>4, <1>5, <1>6 DEF CondemnedIInv

\* A refresh or a rejection that a newer login overtook leaves it alone, through the
\* generation checks of _publish_refresh and mark_account_needs_reauth.
THEOREM NewLoginSurvivesThm == Spec => NewLoginSurvives
<1> DEFINE Survives ==
      \A i \in Ids :
        /\ (files[i] # None /\ files'[i] # None)
           => \/ files'[i].login = files[i].login /\ files'[i].token >= files[i].token
              \/ txn.op = "update" /\ txn.id = i
        /\ (/\ registry # NoFile /\ registry' # NoFile /\ trouble' = trouble
            /\ i \in DOMAIN registry /\ i \in DOMAIN registry'
            /\ registry[i].state = "ready" /\ registry'[i].state = "needs-reauth")
           => files[i].gen \in condemned
<1>1. IInv /\ [Next]_vars => Survives
  BY LoginIsKept, CondemnedIsMarked DEF KeepsLogin, MarksCondemned
<1>2. IInv /\ [Next]_vars => [Survives]_vars
  BY <1>1
<1> QED
  BY <1>2, Invariance, PTL DEF Spec, NewLoginSurvives
===============================================================================
