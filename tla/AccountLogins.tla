----------------------------- MODULE AccountLogins -----------------------------
(***************************************************************************)
(* Who uses the account registry: the login session of the dashboard       *)
(* (claude/login_session.py, driven by admin/accounts.py), `account add`   *)
(* and `account remove` of the command line (cli/accounts.py,              *)
(* claude/capture.py), and the requests that load, refresh and reject an   *)
(* account's credentials (claude/auth.py, server_support.py).              *)
(*                                                                         *)
(* The token endpoint is external: the refresh token of a login is good    *)
(* for one rotation, and an answer may be lost on its way.                 *)
(***************************************************************************)
EXTENDS AccountRegistry

CONSTANTS
  Callers,     \* requests that call get_credentials
  MaxSessions, \* bound: dashboard logins
  MaxCommands  \* bound: runs of `account add` and `account remove`

VARIABLES
  logins,      \* logins captured so far
  valid,       \* per login, the refresh token the endpoint accepts
  captureLock, \* the cross-process login lock: None, dash or cli
  session,     \* the ClaudeLoginSession of the slot
  cli,         \* where the command line is, and the login it captured
  caller,      \* per request, where get_credentials and its consequences are
  refreshLock, \* per account, who holds its manager's refresh lock
  condemned    \* the credential generations upstream has rejected

loginVars == <<logins, valid, captureLock, session, cli>>
callerVars == <<caller, refreshLock, condemned>>
vars == <<registryVars, loginVars, callerVars>>

ASSUME AccountsAssumption ==
  /\ NumIds >= NumLogins
  /\ {"dash", "cli"} \cup Callers = Actors
  /\ Callers \cap {"dash", "cli"} = {}

NoSession == [status |-> "none", pc |-> "done", process |-> "none", login |-> 0, shown |-> 0,
              cancel |-> FALSE, confirm |-> FALSE, count |-> 0]
NoCall == [pc |-> "idle", id |-> 0, seen |-> 0, login |-> 0, token |-> 0]

Init ==
  /\ RegistryInit
  /\ logins = nextId - 1 /\ valid = [l \in Logins |-> 1]
  /\ captureLock = None /\ session = NoSession
  /\ cli = [pc |-> "idle", login |-> 0, count |-> 0]
  /\ caller = [c \in Callers |-> NoCall]
  /\ refreshLock = [i \in Ids |-> None]
  /\ condemned = {}

\* The answer of an actor's mutation, taken by the actor.
Taken(a) == answer[a] # "none" /\ answer' = [answer EXCEPT ![a] = "none"]
OnlyAnswer == UNCHANGED <<registry, mayRegistry, place, mayPlace, files, nextId, purgedEarly, nextGen,
                          txn, promise, trouble>>

---------------------------------------------------------------------------
(* The dashboard's login session *)

Terminal == session.status \in {"none", "succeeded", "failed", "cancelled"}
Session(status, pc) == session' = [session EXCEPT !.status = status, !.pc = pc]
SessionStep == UNCHANGED <<valid, cli, callerVars>>
Quiet == UNCHANGED <<registryVars, logins, captureLock>> /\ SessionStep

\* _handle_admin_claude_login_post: one live session, and the lock of every login.
LoginPost ==
  /\ Terminal /\ captureLock = None /\ session.count < MaxSessions
  /\ captureLock' = "dash"
  /\ session' = [NoSession EXCEPT !.status = "starting", !.pc = "spawn", !.count = session.count + 1]
  /\ UNCHANGED <<registryVars, logins>> /\ SessionStep

\* The executable, the temporary directory, the child; any of them may fail.
Spawn ==
  /\ session.pc = "spawn"
  /\ \/ session' = [session EXCEPT !.pc = "wait", !.process = "running"]
     \/ Session("failed", "finally")
  /\ Quiet

ChildExits ==
  /\ session.pc = "wait" /\ session.process = "running"
  /\ session' = [session EXCEPT !.process = "ended"] /\ Quiet

\* _await_first: a cancellation before a denial in the child's output, before its
\* exit with status zero or another, before the timeout.
WaitEnds ==
  /\ session.pc = "wait"
  /\ IF session.cancel THEN Session("cancelled", "finally")
     ELSE \/ Session("failed", "finally")
          \/ session.process = "ended" /\ Session("completing", "capture")
  /\ Quiet

\* capture_from_config_dir and the early cleanup.
Capture ==
  /\ session.pc = "capture"
  /\ \/ /\ logins < NumLogins /\ logins' = logins + 1
        /\ session' = [session EXCEPT !.pc = "add", !.login = logins + 1]
     \/ Session("failed", "finally") /\ UNCHANGED logins
  /\ UNCHANGED <<registryVars, captureLock>> /\ SessionStep

SessionMutates ==
  /\ \/ session.pc = "add" /\ Begin("dash", "add", 0, session.login, 0)
     \/ session.pc = "update" /\ Begin("dash", "update", 0, session.login, 0)
  /\ session' = [session EXCEPT !.pc = IF @ = "add" THEN "adding" ELSE "updating"]
  /\ UNCHANGED <<logins, captureLock>> /\ SessionStep

SessionAnswered ==
  /\ session.pc \in {"adding", "updating"} /\ Taken("dash") /\ OnlyAnswer
  /\ IF answer["dash"] = "ok" THEN Session("succeeded", "finally")
     ELSE IF answer["dash"] = "duplicate" THEN Session("completing", "lookup")
     ELSE Session("failed", "finally")
  /\ UNCHANGED <<logins, captureLock>> /\ SessionStep

\* _resolve_duplicate: the row is read again without the registry lock.
Lookup ==
  /\ session.pc = "lookup"
  /\ \/ \E i \in RowsOf(session.login) :
          session' = [session EXCEPT !.shown = i, !.status = "awaiting-replace", !.pc = "replace"]
     \/ RowsOf(session.login) = {} /\ Session("failed", "finally")
  /\ Quiet

ReplaceEnds ==
  /\ session.pc = "replace"
  /\ IF session.cancel THEN Session("cancelled", "finally")
     ELSE IF session.confirm THEN Session("completing", "update")
     ELSE Session("failed", "finally")
  /\ Quiet

\* The commands of the tab attached to this attempt.
CancelPost ==
  /\ ~Terminal /\ ~session.cancel
  /\ session' = [session EXCEPT !.cancel = TRUE] /\ Quiet
ConfirmPost ==
  /\ session.status = "awaiting-replace" /\ ~session.confirm
  /\ session' = [session EXCEPT !.confirm = TRUE] /\ Quiet
ClearSlot ==
  /\ Terminal /\ session.status # "none" /\ Session("none", session.pc) /\ Quiet

\* The driver's finally: the process group and the directory first, then the lock.
SessionEnds ==
  /\ session.pc = "finally"
  /\ session' = [session EXCEPT !.pc = "done"]
  /\ captureLock' = None
  /\ UNCHANGED <<registryVars, logins>> /\ SessionStep

---------------------------------------------------------------------------
(* account add and account remove of the command line *)

Cli(pc) == cli' = [cli EXCEPT !.pc = pc]
CliStep == UNCHANGED <<valid, session, callerVars>>

\* capture_interactive holds the login lock, and only while it captures.
CliLogin ==
  /\ cli.pc = "idle" /\ cli.count < MaxCommands /\ captureLock = None
  /\ captureLock' = "cli"
  /\ cli' = [cli EXCEPT !.pc = "capture", !.count = @ + 1]
  /\ UNCHANGED <<registryVars, logins>> /\ CliStep

\* Also its timeout and its cancellation, and --from, which needs no lock.
CliCaptured ==
  /\ cli.pc = "capture" /\ captureLock' = None
  /\ \/ /\ logins < NumLogins /\ logins' = logins + 1
        /\ cli' = [cli EXCEPT !.pc = "add", !.login = logins + 1]
     \/ Cli("idle") /\ UNCHANGED logins
  /\ UNCHANGED registryVars /\ CliStep

CliMutates ==
  /\ \/ cli.pc = "add" /\ Begin("cli", "add", 0, cli.login, 0) /\ Cli("adding")
     \/ cli.pc = "confirmed" /\ Begin("cli", "update", 0, cli.login, 0) /\ Cli("updating")
  /\ UNCHANGED <<logins, captureLock>> /\ CliStep

\* A duplicate is replaced when the user says so; the prompt has no timeout.
CliAnswered ==
  /\ cli.pc \in {"adding", "updating", "removing"} /\ Taken("cli") /\ OnlyAnswer
  /\ IF answer["cli"] = "duplicate" THEN Cli("confirmed") \/ Cli("idle") ELSE Cli("idle")
  /\ UNCHANGED <<logins, captureLock>> /\ CliStep

\* account remove, and the DELETE of the dashboard.
CliRemoves ==
  /\ cli.pc = "idle" /\ cli.count < MaxCommands
  /\ cli' = [cli EXCEPT !.pc = "removing", !.count = @ + 1]
  /\ \E i \in DOMAIN rows : Begin("cli", "remove", i, 0, 0)
  /\ UNCHANGED <<logins, captureLock>> /\ CliStep

---------------------------------------------------------------------------
(* ClaudeAccountAuthManager.get_credentials, and what a request does with them *)

Readable(i) == LockFree /\ place[i] = "final" /\ files[i] # None
Call(c, pc, gen) == caller' = [caller EXCEPT ![c].pc = pc, ![c].seen = gen]
Over(c) == caller' = [caller EXCEPT ![c] = [NoCall EXCEPT !.pc = "over"]]
Unlock(c) == refreshLock' = [refreshLock EXCEPT ![caller[c].id] = None]
CallStep == UNCHANGED <<registryVars, loginVars>>

\* The call that finds its token expiring, or that upstream answered with a 401.
Load(c) ==
  /\ caller[c].pc = "idle"
  /\ \E i \in Ids : /\ Readable(i)
                    /\ caller' = [caller EXCEPT ![c] =
                         [@ EXCEPT !.pc = "stale", !.id = i, !.seen = files[i].gen]]
  /\ UNCHANGED <<refreshLock, condemned>> /\ CallStep

\* Under the refresh lock the file is read again.  A token that was stale still is,
\* unless its generation has been replaced.
MustRefresh(c) == files[caller[c].id].gen = caller[c].seen

LockIsFree(c) == refreshLock[caller[c].id] = None

Reload(c) ==
  /\ caller[c].pc = "stale" /\ LockIsFree(c) /\ LockFree
  /\ IF ~Readable(caller[c].id) THEN Over(c) /\ UNCHANGED refreshLock
     ELSE IF MustRefresh(c)
     THEN LET f == files[caller[c].id] IN
          /\ refreshLock' = [refreshLock EXCEPT ![caller[c].id] = c]
          /\ caller' = [caller EXCEPT ![c] = [@ EXCEPT !.pc = "posting", !.seen = f.gen,
                                                      !.login = f.login, !.token = f.token]]
     ELSE Call(c, "served", files[caller[c].id].gen) /\ UNCHANGED refreshLock
  /\ UNCHANGED condemned /\ CallStep

\* The token endpoint; its answer may be lost, or its caller cancelled.
TokenAnswer(c) ==
  /\ caller[c].pc = "posting"
  /\ LET l == caller[c].login IN
     \/ /\ valid[l] = caller[c].token
        /\ valid' = [valid EXCEPT ![l] = @ + 1]
        /\ \/ Call(c, "publishing", caller[c].seen) /\ UNCHANGED refreshLock
           \/ Over(c) /\ Unlock(c)
     \/ /\ valid[l] # caller[c].token /\ Call(c, "rejected", caller[c].seen)
        /\ UNCHANGED <<valid, refreshLock>>
     \/ Over(c) /\ Unlock(c) /\ UNCHANGED valid
  /\ UNCHANGED <<registryVars, logins, captureLock, session, cli, condemned>>

\* _reject_refresh: only the generation that was posted is rejected.
Overtaken_Unchecked(c) == FALSE \* mutant: published over whatever is there
Overtaken(c) == files[caller[c].id].gen # caller[c].seen

RejectRefresh(c) ==
  /\ caller[c].pc = "rejected" /\ LockFree
  /\ IF ~Readable(caller[c].id) THEN Over(c) /\ UNCHANGED condemned
     ELSE IF Overtaken(c)
     THEN Call(c, "served", files[caller[c].id].gen) /\ UNCHANGED condemned
     ELSE Call(c, "condemn", caller[c].seen) /\ condemned' = condemned \cup {caller[c].seen}
  /\ Unlock(c) /\ CallStep

\* Mutant: a cancelled request leaves the lock while its worker still publishes.
CancelPublication_Unlocks(c) ==
  /\ caller[c].pc = "publishing" /\ Call(c, "cancelled", caller[c].seen)
  /\ Unlock(c) /\ UNCHANGED condemned /\ CallStep

\* A cancellation waits for the publication: the refresh lock stays held.
CancelPublication(c) ==
  /\ caller[c].pc = "publishing" /\ Call(c, "cancelled", caller[c].seen)
  /\ UNCHANGED <<refreshLock, condemned>> /\ CallStep

\* _publish_refresh: the rotated token replaces the generation it came from.
Refreshed(c) == [files EXCEPT ![caller[c].id] =
                   [@ EXCEPT !.gen = nextGen, !.login = caller[c].login,
                             !.token = caller[c].token + 1]]
PublishRefresh(c) ==
  /\ caller[c].pc \in {"publishing", "cancelled"} /\ LockFree
  /\ LET End(gen) == IF caller[c].pc = "cancelled" THEN Over(c) ELSE Call(c, "served", gen)
     IN \/ /\ ~Readable(caller[c].id) /\ Over(c)
           /\ UNCHANGED <<files, nextGen, trouble>>
        \/ /\ Readable(caller[c].id) /\ Overtaken(c) /\ End(files[caller[c].id].gen)
           /\ UNCHANGED <<files, nextGen, trouble>>
        \/ /\ Readable(caller[c].id) /\ ~Overtaken(c)
           /\ files' = Refreshed(c) /\ nextGen' = nextGen + 1
           /\ End(nextGen) /\ UNCHANGED trouble
        \/ /\ Readable(caller[c].id) /\ ~Overtaken(c) /\ Trouble
           /\ files' \in {files, Refreshed(c)} /\ nextGen' = nextGen + 1 /\ Over(c)
  /\ Unlock(c)
  /\ UNCHANGED <<registry, mayRegistry, place, mayPlace, nextId, purgedEarly, txn, answer, promise,
                 condemned, loginVars>>

\* The request is served, or upstream rejects it again: it condemns the generation
\* it was served.
ApiAnswer(c) ==
  /\ caller[c].pc = "served"
  /\ \/ Over(c) /\ UNCHANGED condemned
     \/ Call(c, "condemn", caller[c].seen) /\ condemned' = condemned \cup {caller[c].seen}
  /\ UNCHANGED refreshLock /\ CallStep

\* _mark_account_needs_reauth_best_effort, later and in a thread of its own.
Mark(c) ==
  /\ caller[c].pc = "condemn" /\ Begin(c, "mark", caller[c].id, 0, caller[c].seen)
  /\ Call(c, "marking", caller[c].seen)
  /\ UNCHANGED <<loginVars, refreshLock, condemned>>
Marked(c) ==
  /\ caller[c].pc = "marking" /\ Taken(c) /\ OnlyAnswer /\ Over(c)
  /\ UNCHANGED <<loginVars, refreshLock, condemned>>

---------------------------------------------------------------------------
(* Processes that die *)

CliDies ==
  /\ cli.pc # "idle" /\ Dies({"cli"}) /\ Cli("idle")
  /\ captureLock' = IF captureLock = "cli" THEN None ELSE captureLock
  /\ UNCHANGED <<logins, valid, session, callerVars>>

NoDaemon ==
  /\ session' = [NoSession EXCEPT !.count = session.count]
  /\ caller' = [c \in Callers |-> [NoCall EXCEPT !.pc = "over"]]
  /\ refreshLock' = [i \in Ids |-> None]
DaemonDies ==
  /\ Dies({"dash"} \cup Callers) /\ NoDaemon
  /\ captureLock' = IF captureLock = "dash" THEN None ELSE captureLock
  /\ UNCHANGED <<logins, valid, cli, condemned>>
MachineStops ==
  /\ PowerLoss /\ NoDaemon /\ Cli("idle") /\ captureLock' = None
  /\ UNCHANGED <<logins, valid, condemned>>

---------------------------------------------------------------------------
Driver == \/ Spawn \/ WaitEnds \/ Capture \/ SessionMutates \/ SessionAnswered \/ Lookup
          \/ ReplaceEnds \/ SessionEnds
Commands == LoginPost \/ CancelPost \/ ConfirmPost \/ ClearSlot
CommandLine == CliLogin \/ CliCaptured \/ CliMutates \/ CliAnswered \/ CliRemoves
Mutation == MutationStep /\ UNCHANGED <<loginVars, callerVars>>
Request(c) == \/ Reload(c) \/ TokenAnswer(c) \/ RejectRefresh(c) \/ PublishRefresh(c)
              \/ Mark(c) \/ Marked(c)
Deaths == CliDies \/ DaemonDies \/ MachineStops

Next == \/ Commands \/ ChildExits \/ Driver \/ CommandLine
        \/ Mutation \/ Deaths
        \/ \E c \in Callers : Load(c) \/ Request(c) \/ CancelPublication(c) \/ ApiAnswer(c)

Spec == Init /\ [][Next]_vars

---------------------------------------------------------------------------
(* Properties *)

\* A refresh or a rejection that was overtaken leaves the newer login alone: only a
\* login replaces the credentials of another one, no refresh goes back to a spent
\* token, and a row is marked only over the generation that upstream rejected.
NewLoginSurvives ==
  [][\A i \in Ids :
       /\ (files[i] # None /\ files'[i] # None)
          => \/ files'[i].login = files[i].login /\ files'[i].token >= files[i].token
             \/ txn.op = "update" /\ txn.id = i
       /\ (/\ registry # NoFile /\ registry' # NoFile /\ trouble' = trouble
           /\ i \in DOMAIN registry /\ i \in DOMAIN registry'
           /\ registry[i].state = "ready" /\ registry'[i].state = "needs-reauth")
          => files[i].gen \in condemned]_vars

\* A single-use refresh token is not posted by one request while another one posts
\* it or still has the answer to publish, whoever is cancelled in between.
TokenSpentOnce ==
  \A c, d \in Callers :
    /\ c # d /\ caller[c].id = caller[d].id
    /\ {caller[c].pc, caller[d].pc} \subseteq {"posting", "publishing", "cancelled"}
    => caller[c].seen # caller[d].seen
===============================================================================
