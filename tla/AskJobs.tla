-------------------------------- MODULE AskJobs --------------------------------
(***************************************************************************)
(* The background asks of the MCP tools: AskJobService and ThreadRegistry  *)
(* (gptpro/jobs), the tool calls that start jobs (mcp_tools.py), and       *)
(* LazyAskRuntime (mcp_server.py), which keeps jobs and the interactive    *)
(* login (admin/gptpro.py) apart.                                          *)
(*                                                                         *)
(* A job is a record and a task.  What the ask runtime does inside one     *)
(* call is seen here through its callbacks and its outcome; AskRuntime and *)
(* AskTurn are about the rest.                                             *)
(***************************************************************************)
EXTENDS Integers, FiniteSets

CONSTANTS Jobs,      \* ask ids
          Threads,   \* ChatGPT conversations
          Sessions,  \* MCP sessions
          LongQuestions, \* the asks whose question goes into an attachment from the start
          None

ASSUME JobsAssumption == None \notin Jobs \union Threads \union Sessions

VARIABLES
  state,       \* per job: absent, queued, running, detached, succeeded, failed or swept
  recovery,    \* the jobs that only look for an earlier answer
  thread,      \* per job: thread_ref
  marker,      \* per job: nonce_marker
  submission,  \* per job: evidence.submission; 0 not attempted, 1 uncertain, 2 confirmed
  session,     \* per job: the MCP session that started it
  task,        \* per job: none, created, claiming, calling, composing, sent or ended
  attempt,     \* per job: the number of calls of ask
  awaited,     \* per job: whose ownership it waits to be released
  owners,      \* _conversation_owners
  existing,    \* the conversations that exist
  prompts,     \* per job that is retained: the marker of the prompt ChatGPT received
  saved,       \* the turns, thread and marker, that a status showed to a client
  bindings,    \* ThreadRegistry: per session
  login,       \* none, releasing (reserved, the runtime is given up) or running
  warm,        \* LazyAskRuntime._runtime exists
  closing      \* the gateway shuts down

jobVars == <<state, recovery, thread, marker, submission, session, task, attempt, awaited>>
turnVars == <<prompts, saved, existing>>
serviceVars == <<jobVars, owners, turnVars, bindings, login, warm, closing>>

Active == {j \in Jobs : state[j] \in {"queued", "running", "detached"}}
Finished == {j \in Jobs : state[j] \in {"succeeded", "failed"}}
Working == {"calling", "composing", "sent"}

JobsInit ==
  /\ state = [j \in Jobs |-> "absent"]
  /\ recovery = {}
  /\ thread = [j \in Jobs |-> None]
  /\ marker = [j \in Jobs |-> None]
  /\ submission = [j \in Jobs |-> 0]
  /\ session = [j \in Jobs |-> None]
  /\ task = [j \in Jobs |-> "none"]
  /\ attempt = [j \in Jobs |-> 0]
  /\ awaited = [j \in Jobs |-> None]
  /\ owners = [t \in Threads |-> None]
  /\ existing = {}
  /\ prompts = [j \in Jobs |-> None]
  /\ saved = {}
  /\ bindings = [s \in Sessions |-> None]
  /\ login = "none"
  /\ warm = FALSE
  /\ closing = FALSE

\* What clients can read of a job's turn once both parts are known.
Shown(ref, mark) == saved' = saved \union {<<ref[j], mark[j]>> : j \in {i \in Jobs : ref[i] # None /\ mark[i] # None}}

\* A reserved login is not looked at.
JobsAdmitted_Unreserved == ~closing

\* _require_job_admission
JobsAdmitted == login = "none" /\ ~closing

---------------------------------------------------------------------------
(* start, start_recovery and _claim_conversation *)

\* ask_gpt_pro: the thread is the session's, a given one, or a new one.
StartAsk(j) ==
  /\ JobsAdmitted /\ state[j] = "absent"
  /\ state' = [state EXCEPT ![j] = "queued"]
  /\ task' = [task EXCEPT ![j] = "created"]
  /\ \E s \in Sessions : session' = [session EXCEPT ![j] = s]
  /\ \E t \in existing \union {None} : thread' = [thread EXCEPT ![j] = t]
  /\ UNCHANGED <<recovery, marker, submission, attempt, awaited, owners, turnVars,
                 bindings, login, warm, closing>>

\* recover_gpt_pro, by a failed job or by the turn's identifiers: refused while
\* a job works on that turn.
StartRecoveryJob(j) ==
  /\ JobsAdmitted /\ state[j] = "absent"
  /\ \E turn \in saved :
       /\ \A i \in Active : <<thread[i], marker[i]>> # turn
       /\ thread' = [thread EXCEPT ![j] = turn[1]]
       /\ marker' = [marker EXCEPT ![j] = turn[2]]
  /\ state' = [state EXCEPT ![j] = "queued"]
  /\ task' = [task EXCEPT ![j] = "created"]
  /\ recovery' = recovery \union {j}
  /\ submission' = [submission EXCEPT ![j] = 1]
  /\ UNCHANGED <<session, attempt, awaited, owners, turnVars, bindings,
                 login, warm, closing>>

\* A job whose wait is over takes the conversation without another look.
ClaimOrWait_Once(j) ==
  LET t == thread[j]
  IN  IF task[j] = "created" /\ t # None /\ owners[t] # None
      THEN /\ task' = [task EXCEPT ![j] = "claiming"]
           /\ awaited' = [awaited EXCEPT ![j] = owners[t]]
           /\ UNCHANGED <<state, owners>>
      ELSE /\ task' = [task EXCEPT ![j] = "calling"]
           /\ state' = [state EXCEPT ![j] = IF j \in recovery THEN "detached" ELSE "running"]
           /\ owners' = [u \in Threads |-> IF u = t THEN j ELSE owners[u]]
           /\ awaited' = [awaited EXCEPT ![j] = None]

\* The task goes on until it waits: for the conversation, or for the runtime.
ClaimOrWait(j) ==
  LET t == thread[j]
  IN  \/ /\ t # None /\ owners[t] # None
         /\ task' = [task EXCEPT ![j] = "claiming"]
         /\ awaited' = [awaited EXCEPT ![j] = owners[t]]
         /\ UNCHANGED <<state, owners>>
      \/ /\ t # None => owners[t] = None
         /\ task' = [task EXCEPT ![j] = "calling"]
         /\ state' = [state EXCEPT ![j] = IF j \in recovery THEN "detached" ELSE "running"]
         /\ owners' = [u \in Threads |-> IF u = t THEN j ELSE owners[u]]
         /\ awaited' = [awaited EXCEPT ![j] = None]

TaskRuns(j) ==
  /\ ~closing
  /\ \/ task[j] = "created"
     \/ task[j] = "claiming" /\ owners[thread[j]] # awaited[j]
  /\ ClaimOrWait(j)
  /\ UNCHANGED <<recovery, thread, marker, submission, session, attempt,
                 turnVars, bindings, login, warm, closing>>

\* The end of a job: its outcome, then the finally.  _release_conversation frees
\* the job's conversation if the job owns it.
Ends(j, outcome) ==
  /\ state' = [state EXCEPT ![j] = outcome]
  /\ task' = [task EXCEPT ![j] = "ended"]
  /\ owners' = [t \in Threads |-> IF t = thread[j] /\ owners[t] = j THEN None ELSE owners[t]]

QueueExpires(j) ==
  /\ task[j] = "claiming"
  /\ Ends(j, "failed")
  /\ awaited' = [awaited EXCEPT ![j] = None]
  /\ UNCHANGED <<recovery, thread, marker, submission, session, attempt,
                 turnVars, bindings, login, warm, closing>>

---------------------------------------------------------------------------
(* _run_job and _run_recovery: the callbacks and outcomes of the runtime *)

\* _get_runtime, under the lock that release_runtime holds while it closes one.
GetRuntime(j) ==
  /\ task[j] = "calling" /\ ~warm /\ login # "releasing"
  /\ warm' = TRUE
  /\ UNCHANGED <<jobVars, owners, turnVars, bindings, login, closing>>

\* An execution begins and names its nonce (_on_marker keeps the first one).
MarkerNamed(j) ==
  /\ task[j] = "calling" /\ warm /\ j \notin recovery
  /\ task' = [task EXCEPT ![j] = "composing"]
  /\ attempt' = [attempt EXCEPT ![j] = @ + 1]
  /\ marker' = [marker EXCEPT ![j] = IF @ = None THEN <<j, attempt'[j]>> ELSE @]
  /\ Shown(thread, marker')
  /\ UNCHANGED <<state, recovery, thread, submission, session, awaited, owners,
                 prompts, existing, bindings, login, warm, closing>>

\* The click: its evidence is recorded first, the prompt may or may not arrive.
Click(j) ==
  /\ task[j] = "composing"
  /\ task' = [task EXCEPT ![j] = "sent"]
  /\ submission' = [submission EXCEPT ![j] = 1]
  /\ prompts' \in {prompts, [prompts EXCEPT ![j] = <<j, attempt[j]>>]}
  /\ UNCHANGED <<state, recovery, thread, marker, session, attempt, awaited, owners,
                 saved, existing, bindings, login, warm, closing>>

\* _on_conversation_id: a new conversation is known by its id.
ConversationNamed(j) ==
  /\ task[j] = "sent" /\ prompts[j] # None /\ thread[j] = None
  /\ \E t \in Threads \ existing :
       /\ existing' = existing \union {t}
       /\ thread' = [thread EXCEPT ![j] = t]
       /\ owners' = [owners EXCEPT ![t] = IF @ = None THEN j ELSE @]
  /\ Shown(thread', marker)
  /\ UNCHANGED <<state, recovery, marker, submission, session, task, attempt, awaited,
                 prompts, bindings, login, warm, closing>>

\* _on_detached
Detached(j) ==
  /\ task[j] = "sent" /\ thread[j] # None /\ state[j] = "running"
  /\ state' = [state EXCEPT ![j] = "detached"]
  /\ UNCHANGED <<recovery, thread, marker, submission, session, task, attempt,
                 awaited, owners, turnVars, bindings, login, warm, closing>>

\* The answer: only now is the session bound to the thread.
Answered(j) ==
  /\ task[j] = "sent" /\ prompts[j] # None /\ thread[j] # None
  /\ Ends(j, "succeeded")
  /\ submission' = [submission EXCEPT ![j] = 2]
  /\ bindings' = [s \in Sessions |-> IF s = session[j] THEN thread[j] ELSE bindings[s]]
  /\ UNCHANGED <<recovery, thread, marker, session, attempt, awaited, turnVars,
                 login, warm, closing>>

RecoveryAnswered(j) ==
  /\ task[j] = "calling" /\ warm /\ j \in recovery
  /\ Ends(j, "succeeded")
  /\ submission' = [submission EXCEPT ![j] = 2]
  /\ UNCHANGED <<recovery, thread, marker, session, attempt, awaited, turnVars,
                 bindings, login, warm, closing>>

\* The second attempt keeps the nonce of the first.
RetryAsAttachment_KeepsMarker(j) ==
  /\ task[j] = "composing" /\ attempt[j] = 1 /\ j \notin LongQuestions
  /\ task' = [task EXCEPT ![j] = "calling"]
  /\ UNCHANGED <<state, recovery, thread, marker, submission, session, attempt, awaited,
                 owners, turnVars, bindings, login, warm, closing>>

\* The composer dropped part of the question and nothing was clicked: once, the
\* question is sent again as an attachment.
RetryAsAttachment(j) ==
  /\ task[j] = "composing" /\ attempt[j] = 1 /\ j \notin LongQuestions
  /\ task' = [task EXCEPT ![j] = "calling"]
  /\ marker' = [marker EXCEPT ![j] = None]
  /\ UNCHANGED <<state, recovery, thread, submission, session, attempt, awaited, owners,
                 turnVars, bindings, login, warm, closing>>

Failed(j) ==
  /\ task[j] \in Working
  /\ Ends(j, "failed")
  /\ UNCHANGED <<recovery, thread, marker, submission, session, attempt, awaited,
                 turnVars, bindings, login, warm, closing>>

---------------------------------------------------------------------------
(* Retention, login and shutdown *)

\* _run_sweeper, for a finished job whose retention is over: its record is gone.
Sweep(j) ==
  /\ j \in Finished
  /\ state' = [state EXCEPT ![j] = "swept"]
  /\ thread' = [thread EXCEPT ![j] = None]
  /\ marker' = [marker EXCEPT ![j] = None]
  /\ prompts' = [prompts EXCEPT ![j] = None]
  /\ recovery' = recovery \ {j}
  /\ submission' = [submission EXCEPT ![j] = 0]
  /\ session' = [session EXCEPT ![j] = None]
  /\ attempt' = [attempt EXCEPT ![j] = 0]
  /\ UNCHANGED <<task, awaited, owners, saved, existing, bindings, login, warm, closing>>

\* ThreadRegistry._remove_expired_bindings
BindingExpires(s) ==
  /\ bindings[s] # None
  /\ bindings' = [bindings EXCEPT ![s] = None]
  /\ UNCHANGED <<jobVars, owners, turnVars, login, warm, closing>>

\* POST login reserves before any await ...
ReserveLogin ==
  /\ login = "none" /\ ~closing /\ Active = {}
  /\ login' = "releasing"
  /\ UNCHANGED <<jobVars, owners, turnVars, bindings, warm, closing>>

\* ... then gives up the warm runtime and starts the login child, or fails.
RuntimeReleased ==
  /\ login = "releasing"
  /\ login' \in {"running", "none"}
  /\ warm' = FALSE
  /\ UNCHANGED <<jobVars, owners, turnVars, bindings, closing>>

LoginSettles ==
  /\ login = "running"
  /\ login' = "none"
  /\ UNCHANGED <<jobVars, owners, turnVars, bindings, warm, closing>>

\* aclose cancels every task; one that never ran does not see it.
BeginClose ==
  /\ ~closing
  /\ closing' = TRUE
  /\ UNCHANGED <<jobVars, owners, turnVars, bindings, login, warm>>

CancelLands(j) ==
  /\ closing /\ task[j] \notin {"none", "ended"}
  /\ IF task[j] = "created"
     THEN task' = [task EXCEPT ![j] = "ended"] /\ UNCHANGED <<state, owners>>
     ELSE Ends(j, "failed")
  /\ awaited' = [awaited EXCEPT ![j] = None]
  /\ UNCHANGED <<recovery, thread, marker, submission, session, attempt,
                 turnVars, bindings, login, warm, closing>>

\* Only the jobs that ran get an outcome.
Closed_SkipsQueued ==
  /\ closing /\ \A j \in Jobs : task[j] \in {"none", "ended"}
  /\ Active # {}
  /\ state' = [j \in Jobs |-> IF state[j] \in {"running", "detached"} THEN "failed" ELSE state[j]]
  /\ UNCHANGED <<recovery, thread, marker, submission, session, task, attempt,
                 awaited, owners, turnVars, bindings, login, warm, closing>>

\* What is still active after the tasks ended gets an outcome.
Closed ==
  /\ closing /\ \A j \in Jobs : task[j] \in {"none", "ended"}
  /\ Active # {}
  /\ state' = [j \in Jobs |-> IF j \in Active THEN "failed" ELSE state[j]]
  /\ UNCHANGED <<recovery, thread, marker, submission, session, task, attempt,
                 awaited, owners, turnVars, bindings, login, warm, closing>>
-------------------------------------------------------------------------------
Starts(j) == StartAsk(j) \/ StartRecoveryJob(j)

\* After the cancellation a task takes no other step.
Works(j) ==
  /\ ~closing
  /\ \/ QueueExpires(j) \/ GetRuntime(j) \/ MarkerNamed(j) \/ Click(j)
     \/ ConversationNamed(j) \/ Detached(j) \/ Answered(j) \/ RecoveryAnswered(j)
     \/ RetryAsAttachment(j) \/ Failed(j)

JobsNext ==
  \/ \E j \in Jobs : Starts(j) \/ TaskRuns(j) \/ Works(j) \/ CancelLands(j) \/ Sweep(j)
  \/ \E s \in Sessions : BindingExpires(s)
  \/ ReserveLogin \/ RuntimeReleased \/ LoginSettles \/ BeginClose \/ Closed

\* Ready tasks run, the queue TTL passes, every call of the runtime ends
\* (AskRuntime.EveryCallEnds).
JobsFairness ==
  /\ \A j \in Jobs : /\ WF_serviceVars(TaskRuns(j)) /\ WF_serviceVars(CancelLands(j))
                     /\ WF_serviceVars(~closing /\ QueueExpires(j))
                     /\ WF_serviceVars(~closing /\ Failed(j))
  /\ WF_serviceVars(Closed)

JobsSpec == JobsInit /\ [][JobsNext]_serviceVars /\ JobsFairness
-------------------------------------------------------------------------------
JobsTypeOK ==
  /\ state \in [Jobs -> {"absent", "queued", "running", "detached", "succeeded", "failed", "swept"}]
  /\ task \in [Jobs -> {"none", "created", "claiming", "ended"} \union Working]
  /\ thread \in [Jobs -> existing \union {None}]
  /\ owners \in [Threads -> Jobs \union {None}]
  /\ bindings \in [Sessions -> existing \union {None}]

\* One ask at a time drives or polls a conversation: the job that works on a
\* known thread owns it, and only such a job owns anything, so a conversation is
\* never left blocked (_claim_conversation, _on_conversation_id,
\* _release_conversation).
OneAskPerConversation ==
  /\ JobsTypeOK
  /\ \A j \in Jobs : task[j] \in Working /\ thread[j] # None => owners[thread[j]] = j
  /\ \A t \in Threads : owners[t] # None => task[owners[t]] \in Working /\ thread[owners[t]] = t

\* The nonce a client is shown for a job is the one of the prompt that went out,
\* not of the attempt that gave up ("Recovery must use the nonce of the attempt
\* that submits"), and a job whose prompt went out never says it was not attempted.
ShownTurnIsTheSentOne ==
  \A j \in Jobs : prompts[j] # None => marker[j] = prompts[j] /\ submission[j] > 0

\* While a login is reserved no job is active, and the login child runs only
\* when no runtime holds the browser profile (reserve_login, release_runtime).
LoginExcludesJobs ==
  /\ login # "none" => Active = {}
  /\ login = "running" => ~warm

\* Every job gets an outcome: it is not left waiting for a conversation, and a
\* shutdown leaves none behind, the ones that never ran included (aclose).
EveryJobFinishes ==
  \A j \in Jobs : j \in Active ~> j \notin Active
===============================================================================
