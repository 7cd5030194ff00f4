------------------------------ MODULE BackendFetch ------------------------------
(***************************************************************************)
(* What the ChatGPT backend replies to a fetch in the page, and what is    *)
(* made of it: the classification of gptpro/retry.py, the turn that        *)
(* gptpro/conversation.py takes from a conversation, and the result of one *)
(* poll of the detached answers (gptpro/runtime.py).  Pure operators, used *)
(* by the ask that drives the page (AskTurn) and by the poller             *)
(* (DetachPoller).                                                         *)
(***************************************************************************)
EXTENDS Integers, Sequences

\* A reply: its status; a mitigation named in its headers; whether it comes from
\* the edge with the marks of a challenge in its body; and its body: no object,
\* an object without what is asked for, or the object that was asked for.
Statuses == {"unreached", "ok", "401", "403", "429", "5xx", "other"}

Replies ==
  {r \in [status : Statuses, mitigated : {"no", "challenge", "block"},
          marked : BOOLEAN, body : {"none", "bare", "whole"}] :
     /\ r.status # "ok" => r.body = "none"
     /\ r.marked => r.status \in {"403", "5xx"}
     /\ r.status = "unreached" => r.mitigated = "no"}

\* classify_backend_response
Classify(r) ==
  LET plain == r.mitigated = "no" /\ ~r.marked IN
  CASE r.mitigated = "block" -> "blocked"
    [] r.mitigated = "challenge" \/ (r.mitigated = "no" /\ r.marked) -> "challenge"
    [] plain /\ r.status = "ok" -> "ok"
    [] plain /\ r.status = "401" -> "session_expired"
    [] plain /\ r.status = "403" -> "entitlement"
    [] plain /\ r.status = "429" -> "rate_limit"
    [] plain /\ r.status = "5xx" -> "origin_retry"
    [] plain /\ r.status \in {"other", "unreached"} -> "fatal"

\* What _page_fetch_json reports of a reply that is not a success; a fetch that
\* reached nothing is retried a few times and then given up without a report.
Reported(r) ==
  IF r.status \in {"ok", "unreached"} \/ Classify(r) = "origin_retry"
  THEN "none" ELSE Classify(r)

---------------------------------------------------------------------------
(* The turn of a marker *)

\* The active branch of a conversation, oldest message first: its author (this
\* ask, another user turn, the assistant), its channel (an aside is a tool call
\* or a progress note) and end_turn.
Mine == [by |-> "ask", channel |-> "none", ends |-> FALSE]
Theirs == [by |-> "other", channel |-> "none", ends |-> FALSE]
Says(channel, ends) == [by |-> "assistant", channel |-> channel, ends |-> ends]

Latest(S) == CHOOSE i \in S : \A j \in S : j =< i

\* _is_user_facing_text
IsAnswerText(message) == message.by = "assistant" /\ message.channel # "aside"

\* extract_assistant_turn: the answer texts after the last message with the
\* marker and before the next user turn; those of the final channel, if any.
AnswerOf(branch) ==
  LET asked == {i \in DOMAIN branch : branch[i].by = "ask"}
      answers == {i \in DOMAIN branch :
                    /\ i > Latest(asked) /\ IsAnswerText(branch[i])
                    /\ \A j \in Latest(asked) + 1 .. i : branch[j].by = "assistant"}
      final == {i \in answers : branch[i].channel = "final"}
  IN  IF asked = {} THEN {} ELSE IF final # {} THEN final ELSE answers

\* turn.finished
Finished(branch) ==
  AnswerOf(branch) # {} /\ branch[Latest(AnswerOf(branch))].ends

\* The branches the site has, by what became of the prompt: other turns before
\* it and, on a thread somebody goes on with, after it; or another branch is
\* the active one.
OtherTurns == {<<>>, <<Theirs, Says("final", TRUE)>>}

OwnTurns(prompt) ==
  CASE prompt = "none" -> {<<>>}
    [] prompt = "sent" -> {<<>>, <<Mine>>}
    [] prompt = "answering" ->
         {<<>>, <<Mine>>, <<Mine, Says("aside", FALSE)>>, <<Mine, Says("plain", FALSE)>>,
          <<Mine, Says("plain", FALSE), Says("final", FALSE)>>}
    [] prompt = "finished" ->
         {<<>>, <<Mine, Says("plain", TRUE)>>,
          <<Mine, Says("aside", FALSE), Says("plain", FALSE), Says("final", TRUE)>>,
          <<Mine, Says("final", TRUE), Says("aside", FALSE)>>}

Prompts == {"none", "sent", "answering", "finished"}

Branches(prompt) ==
  {before \o own \o after : before \in OtherTurns, own \in OwnTurns(prompt), after \in OtherTurns}

\* The prompts whose answer an ask may take from what the backend shows.
Answered == {prompt \in Prompts : \E branch \in Branches(prompt) : Finished(branch)}

---------------------------------------------------------------------------
(* One poll of a detached turn: the session, then the conversation *)

Refused(r) == r.status \in {"401", "403"}

\* The token is missing, the account is challenged or not let in.
PollFailed(session, conversation) ==
  \/ Refused(session)
  \/ /\ session.status = "ok"
     /\ \/ session.body # "whole"
        \/ Refused(conversation)
        \/ /\ conversation.status # "ok"
           /\ Classify(conversation) \in {"challenge", "blocked"}

PollFound(session, conversation, branch) ==
  /\ session.body = "whole" /\ conversation.body = "whole"
  /\ Finished(branch)

\* _poll_registration
PollResult(session, conversation, branch) ==
  IF PollFailed(session, conversation) THEN "failure"
  ELSE IF PollFound(session, conversation, branch) THEN "answer" ELSE "again"

PollResults ==
  {PollResult(session, conversation, branch) :
     session \in Replies, conversation \in Replies,
     branch \in UNION {Branches(prompt) : prompt \in Prompts}}
===============================================================================
