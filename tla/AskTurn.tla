-------------------------------- MODULE AskTurn --------------------------------
(***************************************************************************)
(* _AskExecution of gptpro/ask.py: one ask drives one page of an external  *)
(* site through its stages, from the navigation to the raw answer, while   *)
(* the network listeners, the deadline, a cancellation and the site itself *)
(* interfere.  Several asks share the locator book.                        *)
(*                                                                         *)
(* The page is cut down to what the probes tell the ask; the attachments   *)
(* are a module of their own (Attachments).                                *)
(***************************************************************************)
EXTENDS Locators, BackendFetch

CONSTANT Followed  \* bound: the asks whose network is seen and whose turn is
                   \* followed past its echo; the others share the book

ASSUME AskTurnAssumption == {"composer", "send"} \subseteq Targets

VARIABLES
  pc,         \* per ask: the stage of run()
  server,     \* per ask: what became of the prompt and its turn at the site
  submission, \* per ask: evidence.submission
  hasSubmitted,  \* the asks with has_submitted
  action,     \* per ask: the unprocessed network action (bound: one)
  rateLimited,   \* the asks with saw_rate_limit
  correlated, \* the asks whose own stream request was seen
  conversation,  \* the asks whose conversation id is known
  signals,    \* per ask: the unhandled completion signals
  candidate,  \* the asks with completion_candidate_seen
  watch,      \* per ask: what _monitor_completion remembers of the page
  outcome     \* per ask: how it ended (most failures alike, and a cancellation)

turnVars == <<pc, server, submission, hasSubmitted, action, rateLimited, correlated,
              conversation, signals, candidate, watch, outcome>>
vars == <<locatorVars, turnVars>>

\* The reports that end an ask are alike here: session_expired, challenge,
\* blocked, entitlement and fatal.
ActionOf(report) == IF report \in {"none", "rate_limit"} THEN report ELSE "fatal"
Actions == {ActionOf(Reported(r)) : r \in Replies}

Open(a) == pc[a] # "over"
\* run() locks the echo before it monitors.
Locked(a) == pc[a] \in {"monitoring", "fetching", "requiring", "relocking"}
\* The stages whose loop calls _process_network_actions.
Processing == {"navigating", "composer", "sending", "echo", "echo_again",
               "monitoring", "fetching", "requiring", "relocking"}

Init ==
  /\ LocatorsInit
  /\ pc = [a \in Asks |-> "navigating"]
  /\ server = [a \in Asks |-> "none"]
  /\ submission = [a \in Asks |-> "not_attempted"]
  /\ hasSubmitted = {} /\ rateLimited = {} /\ correlated = {}
  /\ conversation = {} /\ candidate = {}
  /\ action = [a \in Asks |-> "none"]
  /\ signals = [a \in Asks |-> {}]
  /\ watch = [a \in Asks |-> "nothing"]
  /\ outcome = [a \in Asks |-> "none"]

Goto(a, place) == pc' = [pc EXCEPT ![a] = place]

\* run() raises or returns: its finally abandons unproven locators and removes
\* the listeners, and nothing of the execution is left.
End(a, result) ==
  /\ Goto(a, "over")
  /\ outcome' = [outcome EXCEPT ![a] = result]
  /\ action' = [action EXCEPT ![a] = "none"]
  /\ signals' = [signals EXCEPT ![a] = {}]
  /\ watch' = [watch EXCEPT ![a] = "nothing"]
  /\ rateLimited' = rateLimited \ {a}
  /\ correlated' = correlated \ {a}
  /\ candidate' = candidate \ {a}
  /\ conversation' = IF result = "detached" THEN conversation ELSE conversation \ {a}
  /\ AbandonAll(a)
  /\ UNCHANGED <<server, submission, hasSubmitted>>

EndOnly(a, result) ==
  /\ End(a, result)
  /\ UNCHANGED record

\* The rediscovered locator is settled on the way out.
EndSettling(a, t, result) ==
  /\ End(a, "failed")
  /\ Recorded(a, t, result)

GoOn(a, place) ==
  /\ Goto(a, place)
  /\ UNCHANGED <<server, submission, hasSubmitted, action, rateLimited, correlated,
                 conversation, signals, candidate, watch, outcome>>

Calm(a) == action[a] = "none"

---------------------------------------------------------------------------
(* Up to the filled composer *)

Navigated(a) ==
  /\ pc[a] = "navigating" /\ Calm(a)
  /\ \/ /\ GoOn(a, "composer")
        /\ LookUp(a, "composer")
        /\ UNCHANGED <<bookVars, phase, wanted, seenPending, unproven, tried>>
     \/ EndOnly(a, "failed")

\* _wait_for_composer: the check is valid and the form is bound; a challenge
\* outlasts its grace, or the composer does not appear in time.
ComposerReady(a) ==
  /\ pc[a] = "composer" /\ phase[a] = "none" /\ Calm(a)
  /\ SelectorOf(a, "composer") = site["composer"]
  /\ GoOn(a, "attaching")
  /\ UNCHANGED locatorVars

ComposerFails(a) ==
  /\ pc[a] = "composer" /\ phase[a] = "none" /\ Calm(a)
  /\ EndOnly(a, "failed")

\* _bind_composer_form: the form of the composer cannot be captured, or is not
\* the visible one.
FormNotBound(a) ==
  /\ pc[a] = "composer" /\ phase[a] = "none" /\ Calm(a)
  /\ SelectorOf(a, "composer") = site["composer"]
  /\ EndOnly(a, "failed")

\* _ensure_composer_form_current, at every later use of the composer: the page
\* put another form in its place.
FormChanged(a) ==
  /\ pc[a] \in {"attaching", "reading", "filling", "sending"} /\ phase[a] = "none"
  /\ EndOnly(a, "failed")

\* A selector that stays at fault for the settling time is rediscovered, once.
Rediscover(a) ==
  /\ pc[a] \in {"composer", "sending"} /\ phase[a] = "none" /\ Calm(a)
  /\ LET t == IF pc[a] = "composer" THEN "composer" ELSE "send" IN
     /\ SelectorOf(a, t) # site[t]
     /\ MayRediscover(a, t)
     /\ RediscoveryBegins(a, t)
  /\ UNCHANGED turnVars

\* It fails again, after its rediscovery: the rediscovered locator is to blame.
FailsAgain(a) ==
  /\ pc[a] \in {"composer", "sending"} /\ phase[a] = "none" /\ Calm(a)
  /\ LET t == IF pc[a] = "composer" THEN "composer" ELSE "send" IN
     /\ SelectorOf(a, t) # site[t]
     /\ ~MayRediscover(a, t)
     /\ EndSettling(a, t, "failure")

RediscoveryFails(a) ==
  /\ NoneFound(a)
  /\ HealFailed(a)
  /\ End(a, "failed")

\* _attach_files (see Attachments)
Attached(a) ==
  /\ pc[a] = "attaching"
  /\ \/ GoOn(a, "reading") /\ UNCHANGED locatorVars
     \/ EndOnly(a, "failed")

\* _stable_pre_submit_user_ids: the turns the page shows already, once they no
\* longer change or have been given their time.
TurnsRead(a) ==
  /\ pc[a] = "reading"
  /\ GoOn(a, "filling")
  /\ UNCHANGED locatorVars

\* _fill_and_verify: checked once more, filled, read back.  Each exit but that of
\* FormChanged settles the rediscovered locator.
Filled(a) ==
  /\ pc[a] = "filling"
  /\ \/ /\ "valid" \in Verdicts(a, "composer")
        /\ Settle(a, "composer", "success", {"send"}) /\ GoOn(a, "sending")
     \/ EndSettling(a, "composer", "failure")
     \/ EndSettling(a, "composer", "abandon")

---------------------------------------------------------------------------
(* _click_send: the only way to send the prompt *)

\* Mutant: the evidence is recorded when the click has returned.
RecordAttempt_Later(a) == UNCHANGED submission

\* has_submitted and the evidence, before the click.
RecordAttempt(a) == submission' = [submission EXCEPT ![a] = "uncertain"]

\* _wait_for_send_ready and the last checks: the button, the form and the
\* attachments are as they should be.
Reserve(a) ==
  /\ pc[a] = "sending" /\ phase[a] = "none" /\ Calm(a)
  /\ a \notin hasSubmitted
  /\ SelectorOf(a, "send") = site["send"]
  /\ hasSubmitted' = hasSubmitted \union {a}
  /\ RecordAttempt(a)
  /\ Goto(a, "clicking")
  /\ UNCHANGED <<server, action, rateLimited, correlated, conversation, signals, candidate,
                 watch, outcome, locatorVars>>

\* The button does not become ready, or the last check of it fails.
NotReady(a) ==
  /\ pc[a] = "sending" /\ phase[a] = "none" /\ Calm(a)
  /\ \/ EndSettling(a, "send", "abandon")
     \/ "fault" \in Verdicts(a, "send") /\ EndSettling(a, "send", "failure")

\* _dismiss_modal: a modal stays in the way of the button.
ModalStays(a) ==
  /\ pc[a] = "sending" /\ phase[a] = "none"
  /\ EndOnly(a, "failed")

\* _missing_ready_attachments: the composer lost an attachment (see Attachments).
AttachmentsGone(a) ==
  /\ pc[a] = "sending" /\ phase[a] = "none" /\ Calm(a)
  /\ EndOnly(a, "failed")

\* The click takes effect in the browser, whatever its await returns.
PageSends(a) ==
  /\ pc[a] = "clicking" /\ server[a] = "none"
  /\ server' = [server EXCEPT ![a] = "sent"]
  /\ UNCHANGED <<locatorVars, pc, submission, hasSubmitted, action, rateLimited, correlated,
                 conversation, signals, candidate, watch, outcome>>

Clicked(a) ==
  /\ pc[a] = "clicking"
  /\ GoOn(a, "echo")
  /\ UNCHANGED locatorVars

\* A click that timed out says nothing of the locator, one that failed does.
ClickFails(a) ==
  /\ pc[a] = "clicking"
  /\ EndSettling(a, "send", "abandon") \/ EndSettling(a, "send", "failure")

---------------------------------------------------------------------------
(* _lock_user_echo *)

\* The turn with the marker of this ask appears in the page.
EchoLocked(a) ==
  /\ pc[a] \in {"echo", "echo_again"} /\ Calm(a) /\ server[a] # "none"
  /\ Settle(a, "send", "success", {})
  /\ submission' = [submission EXCEPT ![a] = "confirmed"]
  /\ Goto(a, "monitoring")
  /\ \/ UNCHANGED conversation
     \/ a \in Followed /\ conversation' = conversation \union {a}
  /\ UNCHANGED <<server, hasSubmitted, action, rateLimited, correlated, signals, candidate,
                 watch, outcome>>

\* The short wait is over; the page's address is read if the request was seen.
EchoLate(a) ==
  /\ pc[a] = "echo" /\ Calm(a)
  /\ Goto(a, "echo_again")
  /\ \/ UNCHANGED conversation
     \/ a \in correlated /\ conversation' = conversation \union {a}
  /\ UNCHANGED <<server, submission, hasSubmitted, action, rateLimited, correlated, signals,
                 candidate, watch, outcome, locatorVars>>

EchoMissing(a) ==
  /\ pc[a] = "echo_again" /\ Calm(a)
  /\ EndOnly(a, IF a \in rateLimited THEN "rate_limited_timeout" ELSE "failed")

---------------------------------------------------------------------------
(* _monitor_completion *)

\* A detach is asked for, by the call or by the queue behind it.
Detach(a) ==
  /\ pc[a] = "monitoring" /\ a \in Followed
  /\ a \in conversation
  /\ EndOnly(a, "detached")

\* A signal of the network lets the answer be fetched, and no more.
SignalHandled(a) ==
  /\ pc[a] = "monitoring" /\ a \in Followed /\ Calm(a)
  /\ a \in conversation
  /\ \E s \in signals[a] : signals' = [signals EXCEPT ![a] = @ \ {s}]
  /\ candidate' = candidate \union {a}
  /\ Goto(a, "fetching")
  /\ UNCHANGED <<server, submission, hasSubmitted, action, rateLimited, correlated,
                 conversation, watch, outcome, locatorVars>>

\* The stop button is seen while the answer is written.
StopSeen(a) ==
  /\ pc[a] = "monitoring" /\ a \in Followed /\ Calm(a)
  /\ server[a] = "answering"
  /\ watch[a] = "nothing"
  /\ watch' = [watch EXCEPT ![a] = "stop"]
  /\ UNCHANGED <<pc, server, submission, hasSubmitted, action, rateLimited, correlated,
                 conversation, signals, candidate, outcome, locatorVars>>

\* Text that no longer changes lets the answer be fetched; the stop button that
\* went away, a page settled after a recovery, or a long silence demand it.
LooksComplete(a) ==
  /\ pc[a] = "monitoring" /\ a \in Followed /\ Calm(a)
  /\ server[a] \in {"answering", "finished"}
  /\ candidate' = candidate \union {a}
  /\ \/ watch[a] # "recovered" /\ Goto(a, "fetching")
     \/ watch[a] \in {"stop", "recovered"} /\ Goto(a, "requiring")
     \/ "strong" \notin signals[a] /\ watch[a] # "stop" /\ Goto(a, "requiring")
  /\ UNCHANGED <<server, submission, hasSubmitted, action, rateLimited, correlated,
                 conversation, signals, watch, outcome, locatorVars>>

\* The page navigated under the probe, or lost the turn.
PageLost(a) ==
  /\ pc[a] = "monitoring" /\ a \in Followed /\ Calm(a)
  /\ \/ watch' = [watch EXCEPT ![a] = "recovered"] /\ UNCHANGED pc
     \/ watch' = [watch EXCEPT ![a] = IF @ = "stop" THEN "nothing" ELSE @]
        /\ Goto(a, "relocking")
  /\ UNCHANGED <<server, submission, hasSubmitted, action, rateLimited, correlated,
                 conversation, signals, candidate, outcome, locatorVars>>

Relocked(a) ==
  /\ pc[a] = "relocking" /\ Calm(a)
  /\ \/ Goto(a, "monitoring") /\ UNCHANGED candidate
     \/ Goto(a, "requiring") /\ candidate' = candidate \union {a}
  /\ UNCHANGED <<server, submission, hasSubmitted, action, rateLimited, correlated,
                 conversation, signals, watch, outcome, locatorVars>>

\* _append_action, when it matters to the ask
AppendAction(a) ==
  \E kind \in Actions \ {"none"} :
    /\ action' = [action EXCEPT ![a] = kind]
    /\ rateLimited' = IF kind = "rate_limit" THEN rateLimited \union {a} ELSE rateLimited

\* _page_fetch_json: a reply that is no success is reported to the ask itself (the
\* listener leaves the fetches of the ask alone), at any of its attempts.
FetchReported(a) ==
  /\ pc[a] \in {"fetching", "requiring"} /\ Calm(a) /\ a \in Followed
  /\ AppendAction(a)
  /\ UNCHANGED <<pc, server, submission, hasSubmitted, correlated, conversation, signals,
                 candidate, watch, outcome, locatorVars>>

\* _page_fetch_conversation: the session has no token, or the page is not one of
\* the site's.
FetchRaises(a) ==
  /\ pc[a] \in {"fetching", "requiring"} /\ Calm(a)
  /\ EndOnly(a, "failed")

\* _fetch_finished_turn: the finished turn of this marker is the answer; fetching
\* its files only adds to it.
Fetched(a) ==
  /\ pc[a] \in {"fetching", "requiring"} /\ Calm(a)
  /\ server[a] \in Answered
  /\ End(a, "answer")
  /\ UNCHANGED record

\* The fetch fails, the turn is not there or not finished, after some attempts.
NotFetched(a) ==
  /\ pc[a] \in {"fetching", "requiring"} /\ Calm(a)
  /\ IF pc[a] = "fetching"
     THEN GoOn(a, "monitoring") /\ UNCHANGED locatorVars
     ELSE EndOnly(a, "no_raw_turn")

---------------------------------------------------------------------------
(* The listeners and the site *)

\* _capture_response: a response of the backend that is not a success.
Response(a) ==
  /\ Open(a) /\ Calm(a) /\ a \in Followed
  /\ AppendAction(a)
  /\ UNCHANGED <<pc, server, submission, hasSubmitted, correlated, conversation, signals,
                 candidate, watch, outcome, locatorVars>>

\* _process_network_actions: all end the ask but a rate limit, which is waited
\* out unless the deadline comes first.
ActionProcessed(a) ==
  /\ pc[a] \in Processing /\ phase[a] = "none" /\ ~Calm(a)
  /\ \/ /\ action[a] = "rate_limit"
        /\ action' = [action EXCEPT ![a] = "none"]
        /\ UNCHANGED <<pc, server, submission, hasSubmitted, rateLimited, correlated,
                       conversation, signals, candidate, watch, outcome, locatorVars>>
     \/ /\ EndOnly(a, IF action[a] = "rate_limit" THEN "rate_limited_timeout" ELSE "failed")

\* _capture_request: the stream request that carries the marker.
StreamRequest(a) ==
  /\ Open(a) /\ a \in Followed
  /\ a \in hasSubmitted /\ server[a] # "none" /\ a \notin correlated
  /\ correlated' = correlated \union {a}
  /\ signals' = [signals EXCEPT ![a] = @ \union {"weak"}]
  /\ \/ UNCHANGED conversation
     \/ conversation' = conversation \union {a}
  /\ UNCHANGED <<pc, server, submission, hasSubmitted, action, rateLimited, candidate,
                 watch, outcome, locatorVars>>

\* The report the page sends at the end of a turn.
CompletionReport(a) ==
  /\ Open(a) /\ server[a] = "finished" /\ a \in Followed
  /\ a \in correlated \/ Locked(a)
  /\ signals' = [signals EXCEPT ![a] = @ \union {"strong"}]
  /\ UNCHANGED <<pc, server, submission, hasSubmitted, action, rateLimited, correlated,
                 conversation, candidate, watch, outcome, locatorVars>>

ServerWorks(a) ==
  /\ a \in Followed /\ Open(a)
  /\ \/ server[a] = "sent" /\ server' = [server EXCEPT ![a] = "answering"]
     \/ server[a] = "answering" /\ server' = [server EXCEPT ![a] = "finished"]
  /\ UNCHANGED <<pc, submission, hasSubmitted, action, rateLimited, correlated,
                 conversation, signals, candidate, watch, outcome, locatorVars>>

\* The deadline, at any await; a cancellation is the same but for its name.
DeadlineExpires(a) ==
  /\ Open(a)
  /\ \/ EndOnly(a, "failed")
     \/ EndOnly(a, IF a \in rateLimited /\ ~Locked(a) THEN "rate_limited_timeout"
                   ELSE IF a \in candidate THEN "no_raw_turn" ELSE "failed")
-------------------------------------------------------------------------------
Step(a) ==
  \/ Navigated(a) \/ ComposerReady(a) \/ ComposerFails(a)
  \/ Rediscover(a) \/ FailsAgain(a) \/ RediscoveryFails(a)
  \/ Attached(a) \/ TurnsRead(a) \/ Filled(a)
  \/ FormNotBound(a) \/ FormChanged(a) \/ ModalStays(a) \/ AttachmentsGone(a)
  \/ FetchReported(a) \/ FetchRaises(a)
  \/ Reserve(a) \/ NotReady(a) \/ Clicked(a) \/ ClickFails(a)
  \/ EchoLocked(a) \/ EchoLate(a) \/ EchoMissing(a)
  \/ Detach(a) \/ SignalHandled(a) \/ StopSeen(a) \/ LooksComplete(a)
  \/ PageLost(a) \/ Relocked(a) \/ Fetched(a) \/ NotFetched(a)
  \/ ActionProcessed(a)

Surroundings(a) ==
  \/ PageSends(a) \/ Response(a) \/ StreamRequest(a) \/ CompletionReport(a)
  \/ ServerWorks(a) \/ DeadlineExpires(a)

Next ==
  \/ \E a \in Asks :
       \/ Step(a) \/ Surroundings(a)
       \/ Rediscovering(a) /\ UNCHANGED turnVars
  \/ (SiteMoves \/ SuspensionPasses) /\ UNCHANGED turnVars

Spec == Init /\ [][Next]_vars
-------------------------------------------------------------------------------
\* What an ask reports of its prompt is true, whenever it ends and however: a
\* prompt that may have been sent is never reported as not attempted (it would
\* be sent again), one reported as confirmed was sent, an answer is that of a
\* finished turn, and a detached turn can be found again (AskEvidence).
EvidenceIsHonest ==
  \A a \in Asks :
    /\ server[a] # "none" => submission[a] # "not_attempted"
    /\ submission[a] = "confirmed" => server[a] # "none"
    /\ outcome[a] = "answer" => server[a] = "finished" /\ submission[a] = "confirmed"
    /\ outcome[a] = "detached" => a \in conversation /\ submission[a] = "confirmed"
    /\ outcome[a] = "no_raw_turn" => server[a] # "none"
===============================================================================
