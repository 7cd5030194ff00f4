---------------------------- MODULE AccountRegistry ----------------------------
(***************************************************************************)
(* The registry of Claude accounts on disk: claude/accounts.py on top of   *)
(* claude/account_store.py and account_model.py.                           *)
(*                                                                         *)
(* A mutation holds registry.lock from its recovery to its end and is a    *)
(* sequence of file operations; the process may die, an operation may fail *)
(* and the machine may lose power between any two of them.  What a         *)
(* directory sync has not yet made durable may or may not survive a loss   *)
(* of power: mayPlace and mayRegistry hold the outcomes still possible.    *)
(***************************************************************************)
EXTENDS Naturals, FiniteSets, Functions

CONSTANTS
  Actors,      \* who mutates the registry
  NumIds,      \* bound: account ids ever minted
  NumLogins,   \* bound: logins ever captured
  Identity,    \* [login -> (email, organizationUuid)]
  NoFile,      \* registry.json does not exist
  None,
  MaxTrouble   \* bound: failing file operations and dying processes

Ids == 1..NumIds
Logins == 1..NumLogins
Row == [who : {Identity[l] : l \in Logins}, state : {"ready", "needs-reauth"}]
ReadyRow(l) == [who |-> Identity[l], state |-> "ready"]

ASSUME RegistryAssumption ==
  /\ NumIds \in Nat /\ NumLogins \in Nat \ {0} /\ MaxTrouble \in Nat
  /\ None \notin Actors /\ None \notin [gen : Nat, login : Logins, token : Nat]
  /\ \A S \in SUBSET Ids : NoFile \notin [S -> Row]

VARIABLES
  registry,    \* registry.json: NoFile, or the rows by id
  mayRegistry, \* its contents after a loss of power
  place,       \* per id, what its directory is called: none, staging, final, tombstone
  mayPlace,    \* the same after a loss of power
  files,       \* per id, the two credential files of its directory
  nextId, nextGen, \* the next fresh id and credential generation
  txn,         \* the mutation that holds registry.lock
  answer,      \* per actor, how its last mutation ended
  promise,     \* per id, what the last answer about it says: in, out, none
  purgedEarly, \* history: ids purged by a recovery while a loss of power could still
               \* bring back a registry that names them
  trouble

registryVars == <<registry, mayRegistry, place, mayPlace, files, nextId, nextGen,
                  txn, answer, promise, purgedEarly, trouble>>

Idle == [by |-> None, op |-> "none", step |-> "none", id |-> 0, login |-> 0, gen |-> 0]

\* No account yet, or one that the first login registered.
RegistryInit ==
  /\ \/ /\ registry = NoFile /\ nextId = 1 /\ nextGen = 1
        /\ place = [i \in Ids |-> "none"] /\ files = [i \in Ids |-> None]
     \/ /\ registry = [i \in {1} |-> ReadyRow(1)] /\ nextId = 2 /\ nextGen = 2
        /\ place = [i \in Ids |-> IF i = 1 THEN "final" ELSE "none"]
        /\ files = [i \in Ids |-> IF i = 1 THEN [gen |-> 1, login |-> 1, token |-> 1] ELSE None]
  /\ mayRegistry = {registry} /\ mayPlace = [i \in Ids |-> {place[i]}]
  /\ txn = Idle
  /\ answer = [a \in Actors |-> "none"]
  /\ promise = [i \in Ids |-> "none"]
  /\ purgedEarly = {}
  /\ trouble = 0

LockFree == txn = Idle
At(op, step) == txn.op = op /\ txn.step = step
Goto(step) == txn' = [txn EXCEPT !.step = step] /\ UNCHANGED answer
Finish(outcome) == txn' = Idle /\ answer' = [answer EXCEPT ![txn.by] = outcome]
Promise(what) == promise' = [promise EXCEPT ![txn.id] = what]
Trouble == trouble < MaxTrouble /\ trouble' = trouble + 1

\* os.rename, and rmtree as a move to "none".
Move(i, to) == /\ place' = [place EXCEPT ![i] = to]
               /\ mayPlace' = [mayPlace EXCEPT ![i] = @ \cup {to}]
               /\ UNCHANGED mayRegistry
\* _fsync_directory of accounts/claude, which registry.json is in as well.
Sync == mayPlace' = [i \in Ids |-> {place'[i]}] /\ mayRegistry' = {registry'}
MoveAndSync(i, to) == place' = [place EXCEPT ![i] = to] /\ Sync
NoFiles(i) == files' = [files EXCEPT ![i] = None]

rows == IF registry = NoFile THEN <<>> ELSE registry
RowsOf(l) == {i \in DOMAIN rows : rows[i].who = Identity[l]}

---------------------------------------------------------------------------
(* _recover, at the start of every mutation *)

Begin(a, op, i, l, g) ==
  /\ LockFree /\ answer[a] = "none"
  /\ txn' = [by |-> a, op |-> op, step |-> "recover", id |-> i, login |-> l, gen |-> g]
  /\ promise' = IF op = "remove" THEN [promise EXCEPT ![i] = "none"] ELSE promise
  /\ UNCHANGED <<registry, mayRegistry, place, mayPlace, files, nextId, purgedEarly, nextGen,
                 answer, trouble>>

Staged == {i \in Ids : place[i] = "staging"}
Tombstones == {i \in Ids : place[i] = "tombstone"}
Recovering == txn.step = "recover" /\ UNCHANGED <<nextGen>>

SweepStaging ==
  /\ Recovering /\ Staged # {}
  /\ place' = [i \in Ids |-> IF i \in Staged THEN "none" ELSE place[i]]
  /\ files' = [i \in Ids |-> IF i \in Staged THEN None ELSE files[i]]
  /\ registry' = registry /\ Sync
  /\ UNCHANGED <<nextId, purgedEarly, txn, answer, promise, trouble>>

\* The registry is missing although accounts exist: nothing is touched.
RefuseToGuess ==
  /\ Recovering /\ Staged = {}
  /\ registry = NoFile /\ \E i \in Ids : place[i] # "none"
  /\ Finish("failed")
  /\ UNCHANGED <<registry, mayRegistry, place, mayPlace, files, nextId, purgedEarly, promise,
                 trouble>>

\* A loss of power may bring back a registry that names i.
MayBeNamed(i) == \E version \in mayRegistry \ {NoFile} : i \in DOMAIN version

\* _reconcile_tombstones: undo the removal that did not commit, finish the one that
\* did, by what the registry says: nothing has made it durable.
ReconcileTombstone ==
  /\ Recovering /\ Staged = {} /\ registry # NoFile
  /\ \E i \in Tombstones :
       \/ i \in DOMAIN registry /\ Move(i, "final") /\ UNCHANGED <<files, purgedEarly>>
       \/ /\ i \notin DOMAIN registry /\ Move(i, "none") /\ NoFiles(i)
          /\ purgedEarly' = IF MayBeNamed(i) THEN purgedEarly \cup {i} ELSE purgedEarly
  /\ Goto("reconciled")
  /\ UNCHANGED <<registry, nextId, promise, trouble>>

ReconciledSync ==
  /\ txn.step = "reconciled"
  /\ UNCHANGED <<registry, place>> /\ Sync
  /\ Goto("recover")
  /\ UNCHANGED <<files, nextId, purgedEarly, nextGen, promise, trouble>>

RecoverFails ==
  /\ txn.step \in {"recover", "reconciled"} /\ Trouble
  /\ Finish("failed")
  /\ UNCHANGED <<registry, mayRegistry, place, mayPlace, files, nextId, purgedEarly, nextGen,
                 promise>>

\* mark_account_needs_reauth: the rejected generation is no longer the current one.
SupersededLogin == files[txn.id].gen # txn.gen

\* The account the mutation is about, and its first step.
Recovered ==
  /\ Recovering /\ Staged = {} /\ Tombstones = {}
  /\ registry = NoFile => \A i \in Ids : place[i] = "none"
  /\ \/ /\ txn.op = "add" /\ RowsOf(txn.login) # {}
        /\ Finish("duplicate") /\ UNCHANGED nextId
     \/ /\ txn.op = "add" /\ RowsOf(txn.login) = {}
        /\ txn' = [txn EXCEPT !.id = nextId, !.step = "stage"]
        /\ nextId' = nextId + 1 /\ UNCHANGED answer
     \/ /\ txn.op = "update" /\ RowsOf(txn.login) = {}
        /\ Finish("missing") /\ UNCHANGED nextId
     \/ /\ txn.op = "update"
        /\ \E i \in RowsOf(txn.login) :
             txn' = [txn EXCEPT !.id = i, !.step = "credentials"]
        /\ UNCHANGED <<nextId, answer>>
     \/ /\ txn.op \in {"remove", "mark"} /\ txn.id \notin DOMAIN rows
        /\ Finish("missing") /\ UNCHANGED nextId
     \/ /\ txn.op = "remove" /\ txn.id \in DOMAIN rows
        /\ Goto(IF place[txn.id] = "final" THEN "rename" ELSE "commit") /\ UNCHANGED nextId
     \/ /\ txn.op = "mark" /\ txn.id \in DOMAIN rows
        /\ IF files[txn.id] = None THEN Finish("failed")
           ELSE IF SupersededLogin \/ rows[txn.id].state = "needs-reauth" THEN Finish("ok")
           ELSE Goto("commit")
        /\ UNCHANGED nextId
  /\ UNCHANGED <<registry, mayRegistry, place, mayPlace, files, promise, purgedEarly, trouble>>

---------------------------------------------------------------------------
(* add_account: the directory is staged, installed and made durable before *)
(* the registry may name it                                                *)

NewFiles(l) == [gen |-> nextGen, login |-> l, token |-> 1]

Stage ==
  /\ At("add", "stage")
  /\ \/ /\ Move(txn.id, "staging")
        /\ files' = [files EXCEPT ![txn.id] = NewFiles(txn.login)] /\ nextGen' = nextGen + 1
        /\ Goto("install") /\ UNCHANGED trouble
     \/ /\ Trouble /\ Move(txn.id, "staging") /\ Goto("rollback")
        /\ UNCHANGED <<files, nextGen>>
  /\ UNCHANGED <<registry, nextId, purgedEarly, promise>>

Install ==
  /\ At("add", "install")
  /\ \/ Move(txn.id, "final") /\ Goto("sync") /\ UNCHANGED trouble
     \/ Trouble /\ Goto("rollback") /\ UNCHANGED <<place, mayPlace, mayRegistry>>
  /\ UNCHANGED <<registry, files, nextId, purgedEarly, nextGen, promise>>

\* Mutant: no durability barrier before the registry write.
Barrier_Missing ==
  /\ txn.step = "sync" /\ Goto("commit")
  /\ UNCHANGED <<registry, mayRegistry, place, mayPlace, files, nextId, purgedEarly, nextGen,
                 promise, trouble>>

\* The durability barrier before the registry, of add_account and of remove_account.
SyncRoot ==
  /\ txn.step = "sync"
  /\ \/ /\ UNCHANGED <<registry, place>> /\ Sync
        /\ Goto("commit") /\ UNCHANGED trouble
     \/ /\ Trouble /\ Goto(IF txn.op = "add" THEN "rollback" ELSE "restore")
        /\ UNCHANGED <<registry, mayRegistry, place, mayPlace>>
  /\ UNCHANGED <<files, nextId, purgedEarly, nextGen, promise>>

\* _rollback_new_account_directory: a failure leaves the directory, whole or in part.
Rollback ==
  /\ At("add", "rollback")
  /\ NoFiles(txn.id) /\ UNCHANGED registry
  /\ \/ MoveAndSync(txn.id, "none") /\ Promise("out") /\ UNCHANGED trouble
     \/ /\ Trouble /\ (Move(txn.id, "none") \/ Move(txn.id, place[txn.id]))
        /\ Promise("none")
  /\ Finish("failed")
  /\ UNCHANGED <<nextId, purgedEarly, nextGen>>

---------------------------------------------------------------------------
(* update_account_credentials: the two files before the row; what the     *)
(* second one holds is left out                                            *)

\* _write_json_atomic of one file: it is replaced, it is not, or nobody knows.
WriteFile(contents, next) ==
  \/ files' = contents /\ Goto(next) /\ UNCHANGED trouble
  \/ Trouble /\ files' \in {files, contents} /\ Finish("failed")

WriteCredentials ==
  /\ At("update", "credentials")
  /\ \/ /\ place[txn.id] = "final"
        /\ WriteFile([files EXCEPT ![txn.id] = NewFiles(txn.login)], "profile")
        /\ nextGen' = nextGen + 1
     \/ /\ place[txn.id] # "final" \* no directory to write into
        /\ Finish("failed") /\ UNCHANGED <<files, nextGen, trouble>>
  /\ UNCHANGED <<registry, mayRegistry, place, mayPlace, nextId, purgedEarly, promise>>

WriteProfile ==
  /\ At("update", "profile")
  /\ WriteFile(files, "commit")
  /\ UNCHANGED <<registry, mayRegistry, place, mayPlace, nextId, purgedEarly, nextGen, promise>>

---------------------------------------------------------------------------
(* remove_account: a tombstone before the registry, purged after it *)

Tombstone ==
  /\ At("remove", "rename")
  /\ \/ Move(txn.id, "tombstone") /\ Goto("sync") /\ UNCHANGED trouble
     \/ Trouble /\ Finish("failed") /\ UNCHANGED <<place, mayPlace, mayRegistry>>
  /\ UNCHANGED <<registry, files, nextId, purgedEarly, nextGen, promise>>

Restore ==
  /\ At("remove", "restore")
  /\ UNCHANGED registry
  /\ \/ MoveAndSync(txn.id, "final") /\ Promise("in") /\ UNCHANGED trouble
     \/ Trouble /\ (Move(txn.id, "final") \/ Move(txn.id, "tombstone")) /\ UNCHANGED promise
  /\ Finish("failed")
  /\ UNCHANGED <<files, nextId, purgedEarly, nextGen>>

Purge ==
  /\ At("remove", "purge")
  /\ NoFiles(txn.id) /\ UNCHANGED registry
  /\ \/ MoveAndSync(txn.id, "none") /\ Finish("ok") /\ UNCHANGED trouble
     \/ Trouble /\ (Move(txn.id, "none") \/ Move(txn.id, "tombstone")) /\ Finish("failed")
  /\ UNCHANGED <<nextId, purgedEarly, nextGen, promise>>

---------------------------------------------------------------------------
(* The registry write: its os.replace is the commit point of every mutation *)

NewRows ==
  CASE txn.op = "add" ->
         [i \in DOMAIN rows \cup {txn.id} |-> IF i = txn.id THEN ReadyRow(txn.login) ELSE rows[i]]
    [] txn.op = "update" -> [rows EXCEPT ![txn.id].state = "ready"]
    [] txn.op = "mark" -> [rows EXCEPT ![txn.id].state = "needs-reauth"]
    [] OTHER -> Restrict(rows, DOMAIN rows \ {txn.id})

\* os.replace, then _fsync_directory in Settle.  An interruption between the two,
\* or a failing sync (_PostCommitFsyncError), leaves the outcome unknown: nothing is
\* undone, the next recovery decides by what the registry says.
Replace ==
  /\ txn.step = "commit"
  /\ registry' = NewRows /\ mayRegistry' = mayRegistry \cup {NewRows}
  /\ Goto("settle")
  /\ UNCHANGED <<place, mayPlace, files, nextId, purgedEarly, nextGen, promise, trouble>>

Settled ==
  /\ Promise(IF txn.op = "remove" THEN "out" ELSE "in")
  /\ IF place[txn.id] = "tombstone" THEN Goto("purge") ELSE Finish("ok")
  /\ UNCHANGED <<registry, place, files, nextId, purgedEarly, nextGen, trouble>>
\* Mutant: the atomic writer does not sync the directory after the replace.
Settle_NotSynced == txn.step = "settle" /\ Settled /\ UNCHANGED <<mayRegistry, mayPlace>>

Settle == txn.step = "settle" /\ Settled /\ Sync

Uncertain ==
  /\ txn.step \in {"commit", "settle"} /\ Trouble
  /\ Promise("none") /\ Finish("failed")
  /\ UNCHANGED <<registry, mayRegistry, place, mayPlace, files, nextId, purgedEarly, nextGen>>

\* The replace did not happen: an added directory is rolled back, a tombstone restored.
CommitFails ==
  /\ txn.step = "commit" /\ Trouble
  /\ IF txn.op = "add" THEN Goto("rollback")
     ELSE IF place[txn.id] = "tombstone" THEN Goto("restore")
     ELSE Finish("failed")
  /\ UNCHANGED <<registry, mayRegistry, place, mayPlace, files, nextId, purgedEarly, nextGen,
                 promise>>

---------------------------------------------------------------------------
(* The end of a process, and of the machine *)

\* The operating system releases the lock of the process that dies.
Dies(dead) ==
  /\ Trouble
  /\ txn' = IF txn.by \in dead THEN Idle ELSE txn
  /\ answer' = [a \in Actors |-> IF a \in dead THEN "none" ELSE answer[a]]
  /\ UNCHANGED <<registry, mayRegistry, place, mayPlace, files, nextId, purgedEarly, nextGen,
                 promise>>

PowerLoss ==
  /\ Trouble
  /\ registry' \in mayRegistry /\ mayRegistry' = {registry'}
  /\ place' \in {p \in [Ids -> {"none", "staging", "final", "tombstone"}] :
                    \A i \in Ids : p[i] \in mayPlace[i]}
  /\ mayPlace' = [i \in Ids |-> {place'[i]}]
  /\ txn' = Idle /\ answer' = [a \in Actors |-> "none"]
  /\ UNCHANGED <<files, nextId, purgedEarly, nextGen, promise>>

---------------------------------------------------------------------------
(* The mutations: each recovers first, and ends in the write of the registry *)

Recovery == SweepStaging \/ RefuseToGuess \/ ReconcileTombstone \/ ReconciledSync \/ RecoverFails
RegistryWrite == Replace \/ Settle \/ Uncertain \/ CommitFails

AddAccount ==
  /\ txn.op = "add"
  /\ Recovered \/ Stage \/ Install \/ SyncRoot \/ RegistryWrite \/ Rollback

UpdateCredentials ==
  /\ txn.op = "update"
  /\ Recovered \/ WriteCredentials \/ WriteProfile \/ RegistryWrite

RemoveAccount ==
  /\ txn.op = "remove"
  /\ Recovered \/ Tombstone \/ SyncRoot \/ RegistryWrite \/ Restore \/ Purge

MarkNeedsReauth == txn.op = "mark" /\ (Recovered \/ RegistryWrite)

MutationStep ==
  Recovery \/ AddAccount \/ UpdateCredentials \/ RemoveAccount \/ MarkNeedsReauth

---------------------------------------------------------------------------
(* Properties *)

\* The registry never names an account whose credential files are lost: whatever
\* is cut short, and whatever of it a loss of power keeps, the directory of every
\* registered account is there, or its tombstone is and the next recovery restores it.
\* But for the accounts that a recovery purged by a registry which was not durable
\* (_reconcile_tombstones): a loss of power may bring their rows back.
RegisteredHasItsFiles ==
  \A i \in DOMAIN rows \ purgedEarly : files[i] # None /\ place[i] \in {"final", "tombstone"}

\* What a mutation answered stays true across every crash until the account is
\* removed: an account reported as added or kept is registered with its directory
\* in place, one reported as removed or not added never comes back.
AnswersStayTrue ==
  \A i \in Ids : /\ promise[i] = "in" => i \in DOMAIN rows /\ place[i] = "final"
                 /\ promise[i] = "out" => i \notin DOMAIN rows
===============================================================================
