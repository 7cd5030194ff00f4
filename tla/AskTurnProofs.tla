----------------------------- MODULE AskTurnProofs -----------------------------
(***************************************************************************)
(* What holds of AskTurn for any asks, selectors and site.  The invariant  *)
(* has a part for what an ask reports of its prompt, which follows the     *)
(* order of its stages, and a part for the book of locators: who holds the *)
(* lock of a target, what was pending when it was taken, and that an ask   *)
(* that rediscovers a target has nothing left to prove of it.  The         *)
(* attachments of an ask have a part of their own at the end.              *)
(***************************************************************************)
EXTENDS AskTurn, Attachments, TLAPS

Stages == Processing \union {"attaching", "reading", "filling", "clicking", "over"}
Outcomes == {"none", "failed", "rate_limited_timeout", "detached", "no_raw_turn", "answer"}

StatesTyped ==
  /\ pc \in [Asks -> Stages] /\ server \in [Asks -> Prompts]
  /\ submission \in [Asks -> {"not_attempted", "uncertain", "confirmed"}]
  /\ outcome \in [Asks -> Outcomes]

\* What the stage of an ask says of its evidence.
Evidence(a) ==
  /\ pc[a] # "over" => outcome[a] = "none"
  /\ pc[a] = "clicking" => submission[a] = "uncertain"
  /\ Locked(a) => submission[a] = "confirmed"
  /\ a \in candidate => server[a] # "none"
EvidenceIInv == \A a \in Asks : Evidence(a)

BookTyped ==
  /\ LocatorsTypeOK
  /\ wanted \in [Asks -> Targets \union {None}]
  /\ seenPending \in [Asks -> Finds \union {None}]
  /\ unproven \in [Asks -> [Targets -> Finds \union {None}]]
  /\ tried \in [Asks -> SUBSET Targets]
  /\ pending \in [Targets -> Finds \union {None}]

\* An ask in the middle of a rediscovery: it has nothing to prove of its target,
\* holds the lock from the moment it asks the book, and what it saw pending then
\* is all that can be pending now.
Rediscovery(a) ==
  phase[a] # "none" =>
    /\ pc[a] \in {"composer", "sending"}
    /\ wanted[a] \in tried[a] /\ unproven[a][wanted[a]] = None
    /\ phase[a] # "queueing" => lock[wanted[a]] = a
    /\ phase[a] = "healing" \/ (phase[a] = "checking" /\ seenPending[a] = None) =>
         pending[wanted[a]] = None
    /\ phase[a] = "healing" => ~Refusal(wanted[a])
RediscoveryIInv == \A a \in Asks : Rediscovery(a)

\* An ask proves only what it rediscovered, once per control.
UnprovenIInv == \A a \in Asks, t \in Targets : unproven[a][t] # None => t \in tried[a]

PendingIInv ==
  /\ \A t \in Targets : pending[t] # None => pending[t].id # None
  /\ PendingHasAProver

IInv ==
  /\ StatesTyped /\ EvidenceIsHonest /\ EvidenceIInv
  /\ BookTyped /\ RediscoveryIInv /\ UnprovenIInv /\ PendingIInv
-------------------------------------------------------------------------------
(* The answer is that of a finished turn *)

Channels == {"none", "aside", "plain", "final"}
Message == [by : {"ask", "other", "assistant"}, channel : Channels, ends : BOOLEAN]

\* The messages the model tells apart, and who wrote them.
LEMMA Messages ==
  /\ Mine \in Message /\ Mine.by = "ask"
  /\ Theirs \in Message /\ Theirs.by = "other"
  /\ \A channel \in Channels :
       /\ Says(channel, TRUE) \in Message /\ Says(channel, TRUE).by = "assistant"
       /\ Says(channel, FALSE) \in Message /\ Says(channel, FALSE).by = "assistant"
       /\ ~Says(channel, FALSE).ends
<1>1. Mine \in Message /\ Mine.by = "ask" /\ Theirs \in Message /\ Theirs.by = "other"
  BY DEF Mine, Theirs, Message, Channels
<1>2. ASSUME NEW channel \in Channels, NEW ends \in BOOLEAN
      PROVE  Says(channel, ends) \in Message /\ Says(channel, ends).by = "assistant"
  BY DEF Says, Message
<1>3. ASSUME NEW channel \in Channels PROVE ~Says(channel, FALSE).ends
  BY DEF Says
<1>4. QED BY <1>1, <1>2, <1>3

\* Two messages in a row.
LEMMA Pair ==
  ASSUME NEW x \in Message, NEW y \in Message
  PROVE  <<x, y>> \in Seq(Message) /\ Len(<<x, y>>) = 2 /\ <<x, y>>[1] = x /\ <<x, y>>[2] = y
OBVIOUS

\* Three messages in a row.
LEMMA Triple ==
  ASSUME NEW x \in Message, NEW y \in Message, NEW z \in Message
  PROVE  /\ <<x, y, z>> \in Seq(Message) /\ Len(<<x, y, z>>) = 3
         /\ <<x, y, z>>[1] = x /\ <<x, y, z>>[2] = y /\ <<x, y, z>>[3] = z
OBVIOUS

\* The latest of a single position.
LEMMA LatestOfOne == ASSUME NEW n \in Nat PROVE Latest({n}) = n
BY DEF Latest

\* The latest of one or two positions is one of them.
LEMMA LatestIsOne ==
  ASSUME NEW n \in Nat, NEW S, S \subseteq {n, n + 1}, S # {}
  PROVE  Latest(S) \in S
<1>1. \E i \in S : \A j \in S : j =< i
  <2>1. CASE n + 1 \in S
    BY <2>1
  <2>2. CASE n + 1 \notin S
    <3>1. PICK x \in S : TRUE
      OBVIOUS
    <3>2. x = n /\ \A j \in S : j =< n
      BY <2>2, <3>1
    <3>3. QED BY <3>1, <3>2
  <2>3. QED BY <2>1, <2>2
<1>2. QED BY <1>1 DEF Latest

\* A list read as two: its positions, in the first and then in the second.
LEMMA Joined ==
  ASSUME NEW s \in Seq(Message), NEW t \in Seq(Message)
  PROVE  /\ s \o t \in Seq(Message) /\ Len(s \o t) = Len(s) + Len(t)
         /\ DOMAIN (s \o t) = 1..(Len(s) + Len(t))
         /\ \A i \in 1..Len(s) : (s \o t)[i] = s[i]
         /\ \A i \in 1..Len(t) : (s \o t)[Len(s) + i] = t[i]
<1>1. s \o t \in Seq(Message) /\ Len(s \o t) = Len(s) + Len(t)
  OBVIOUS
<1>2. DOMAIN (s \o t) = 1..(Len(s) + Len(t))
  BY <1>1
<1>3. \A i \in 1..Len(s) : (s \o t)[i] = s[i]
  OBVIOUS
<1>4. \A i \in 1..Len(t) : (s \o t)[Len(s) + i] = t[i]
  OBVIOUS
<1>5. QED BY <1>1, <1>2, <1>3, <1>4

\* Whatever stands around it, a turn of at most two messages none of which ends
\* it is not taken for finished: what comes after it belongs to another turn.
LEMMA UnendedTurn ==
  ASSUME NEW earlier \in OtherTurns, NEW after \in OtherTurns,
         NEW own \in Seq(Message), Len(own) =< 3,
         Len(own) > 0 => own[1].by = "ask",
         \A k \in 2..Len(own) : own[k].by = "assistant" /\ ~own[k].ends
  PROVE  ~Finished(earlier \o own \o after)
<1> DEFINE branch == earlier \o own \o after
           p == Len(earlier)
           q == p + Len(own)
           asked == {i \in DOMAIN branch : branch[i].by = "ask"}
           answers == {i \in DOMAIN branch :
                         /\ i > Latest(asked) /\ IsAnswerText(branch[i])
                         /\ \A j \in Latest(asked) + 1 .. i : branch[j].by = "assistant"}
<1>1. /\ earlier \in Seq(Message) /\ p \in Nat
      /\ \A i \in 1..p : earlier[i].by # "ask"
  <2>1. earlier = <<>> \/ earlier = <<Theirs, Says("final", TRUE)>>
    BY DEF OtherTurns
  <2>2. CASE earlier = <<>>
    BY <2>2
  <2>3. CASE earlier = <<Theirs, Says("final", TRUE)>>
    <3>1. Says("final", TRUE) \in Message /\ Says("final", TRUE).by = "assistant"
      BY Messages DEF Channels
    <3>2. /\ earlier \in Seq(Message) /\ Len(earlier) = 2
          /\ earlier[1] = Theirs /\ earlier[2] = Says("final", TRUE)
      BY <2>3, <3>1, Messages, Pair DEF Channels
    <3>3. Theirs.by = "other" /\ \A i \in 1..2 : i = 1 \/ i = 2
      BY Messages
    <3>4. \A i \in 1..2 : earlier[i].by # "ask"
      BY <3>1, <3>2, <3>3
    <3>5. QED BY <3>2, <3>4
  <2>4. QED BY <2>1, <2>2, <2>3
<1>2. /\ after \in Seq(Message)
      /\ \A i \in 1..Len(after) : after[i].by # "ask"
      /\ Len(after) > 0 => after[1].by = "other"
  <2>1. after = <<>> \/ after = <<Theirs, Says("final", TRUE)>>
    BY DEF OtherTurns
  <2>2. CASE after = <<>>
    BY <2>2
  <2>3. CASE after = <<Theirs, Says("final", TRUE)>>
    <3>1. Says("final", TRUE) \in Message /\ Says("final", TRUE).by = "assistant"
      BY Messages DEF Channels
    <3>2. /\ after \in Seq(Message) /\ Len(after) = 2
          /\ after[1] = Theirs /\ after[2] = Says("final", TRUE)
      BY <2>3, <3>1, Messages, Pair DEF Channels
    <3>3. Theirs.by = "other" /\ \A i \in 1..2 : i = 1 \/ i = 2
      BY Messages
    <3>4. QED BY <3>1, <3>2, <3>3
  <2>4. QED BY <2>1, <2>2, <2>3
<1>3. /\ DOMAIN branch = 1..(q + Len(after)) /\ q \in Nat
      /\ \A i \in 1..p : branch[i] = earlier[i]
      /\ \A i \in 1..Len(own) : branch[p + i] = own[i]
      /\ \A i \in 1..Len(after) : branch[q + i] = after[i]
  <2> DEFINE head == earlier \o own
  <2>1. /\ head \in Seq(Message) /\ Len(head) = q
        /\ \A i \in 1..p : head[i] = earlier[i]
        /\ \A i \in 1..Len(own) : head[p + i] = own[i]
    BY <1>1, Joined
  <2>2. branch = head \o after
    OBVIOUS
  <2>3. q \in Nat /\ (\A i \in 1..p : i \in 1..q) /\ \A i \in 1..Len(own) : p + i \in 1..q
    BY <1>1
  <2> HIDE DEF head, branch, p, q
  <2>4. /\ DOMAIN branch = 1..(q + Len(after))
        /\ \A i \in 1..q : branch[i] = head[i]
        /\ \A i \in 1..Len(after) : branch[q + i] = after[i]
    <3>1. head \in Seq(Message) /\ after \in Seq(Message)
      BY <1>2, <2>1
    <3>2. /\ DOMAIN (head \o after) = 1..(Len(head) + Len(after))
          /\ \A i \in 1..Len(head) : (head \o after)[i] = head[i]
          /\ \A i \in 1..Len(after) : (head \o after)[Len(head) + i] = after[i]
      BY <3>1, Joined
    <3>3. QED BY <2>1, <2>2, <3>2
  <2>5. QED BY <2>1, <2>3, <2>4
<1>4. \A i \in DOMAIN branch :
        \/ i \in 1..p /\ branch[i].by # "ask"
        \/ i \in (p + 1)..q /\ branch[i] = own[i - p]
        \/ i \in (q + 1)..(q + Len(after)) /\ branch[i].by # "ask"
  <2> HIDE DEF branch, p, q
  <2> SUFFICES ASSUME NEW i \in DOMAIN branch
               PROVE  \/ i \in 1..p /\ branch[i].by # "ask"
                      \/ i \in (p + 1)..q /\ branch[i] = own[i - p]
                      \/ i \in (q + 1)..(q + Len(after)) /\ branch[i].by # "ask"
    OBVIOUS
  <2>1. CASE i \in 1..p
    BY <1>1, <1>3, <2>1
  <2>2. CASE i \in (p + 1)..q
    <3>1. i - p \in 1..Len(own) /\ p + (i - p) = i
      BY <1>1, <2>2 DEF q
    <3>2. QED BY <1>3, <2>2, <3>1
  <2>3. CASE i \in (q + 1)..(q + Len(after))
    <3>1. i - q \in 1..Len(after) /\ q + (i - q) = i
      BY <1>3, <2>3
    <3>2. QED BY <1>2, <1>3, <2>3, <3>1
  <2>4. QED BY <1>1, <1>3, <2>1, <2>2, <2>3
<1>5. AnswerOf(branch) \subseteq answers
  BY DEF AnswerOf
<1>6. CASE Len(own) = 0
  <2>1. asked = {}
    BY <1>1, <1>4, <1>6
  <2>2. AnswerOf(branch) = {}
    BY <2>1 DEF AnswerOf
  <2>3. QED BY <2>2 DEF Finished
<1>7. CASE Len(own) # 0
  <2> HIDE DEF branch
  <2>1. asked = {p + 1}
    <3>1. p + 1 \in DOMAIN branch /\ branch[p + 1].by = "ask"
      BY <1>1, <1>3, <1>7
    <3>2. ASSUME NEW i \in asked PROVE i = p + 1
      <4>1. i \in (p + 1)..q /\ own[i - p].by = "ask"
        BY <1>4, <3>2
      <4>2. i - p \in 1..Len(own) /\ i - p \notin 2..Len(own)
        BY <1>1, <4>1
      <4>3. QED BY <1>1, <4>1, <4>2
    <3>3. QED BY <3>1, <3>2
  <2>2. Latest(asked) = p + 1
    BY <1>1, <2>1, LatestOfOne
  <2>3. ASSUME NEW i \in answers
        PROVE  i \in {p + 2, p + 3} /\ ~branch[i].ends
    <3>1. i \in DOMAIN branch /\ i > p + 1 /\ \A j \in p + 2 .. i : branch[j].by = "assistant"
      BY <1>1, <2>2
    <3>2. i =< q
      <4>1. SUFFICES ASSUME i > q PROVE FALSE
        BY <1>1, <1>3, <3>1
      <4>2. Len(after) > 0 /\ branch[q + 1] = after[1] /\ q + 1 \in p + 2 .. i
        BY <1>1, <1>2, <1>3, <1>7, <3>1, <4>1
      <4>3. QED BY <1>2, <3>1, <4>2
    <3>3. i \in (p + 1)..q /\ branch[i] = own[i - p]
      BY <1>1, <1>3, <1>4, <3>1, <3>2
    <3>4. i - p \in 2..Len(own)
      BY <1>1, <1>3, <3>1, <3>2
    <3>5. i \in {p + 2, p + 3}
      BY <1>1, <1>3, <3>1, <3>2
    <3>6. QED BY <3>3, <3>4, <3>5
  <2>4. CASE AnswerOf(branch) = {}
    BY <2>4 DEF Finished, branch
  <2>5. CASE AnswerOf(branch) # {}
    <3> HIDE DEF answers, p, q
    <3>1. AnswerOf(branch) \subseteq {p + 2, (p + 2) + 1} /\ p + 2 \in Nat
      BY <1>1, <1>5, <2>3
    <3>2. Latest(AnswerOf(branch)) \in AnswerOf(branch)
      BY <2>5, <3>1, LatestIsOne
    <3>3. ~branch[Latest(AnswerOf(branch))].ends
      BY <1>5, <2>3, <3>2
    <3>4. QED BY <3>3 DEF Finished, branch
  <2>6. QED BY <2>4, <2>5
<1>8. QED BY <1>6, <1>7

\* Only a finished ask has its answer.
LEMMA AnsweredIsFinished == Answered \subseteq {"finished"}
<1> SUFFICES ASSUME NEW prompt \in {"none", "sent", "answering"},
                    NEW own \in OwnTurns(prompt),
                    NEW earlier \in OtherTurns, NEW after \in OtherTurns
             PROVE  ~Finished(earlier \o own \o after)
  <2>1. ASSUME NEW prompt \in Answered
        PROVE  \E own \in OwnTurns(prompt), earlier \in OtherTurns, after \in OtherTurns :
                 Finished(earlier \o own \o after)
    <3>1. PICK branch \in Branches(prompt) : Finished(branch)
      BY DEF Answered
    <3>2. \E earlier \in OtherTurns, own \in OwnTurns(prompt), after \in OtherTurns :
            branch = earlier \o own \o after
      BY <3>1, SMTT(30) DEF Branches
    <3>3. QED BY <3>1, <3>2
  <2>2. Answered \subseteq Prompts
    BY DEF Answered
  <2>3. QED BY <2>1, <2>2 DEF Prompts
<1>1. \/ own = <<>> \/ own = <<Mine>> \/ own = <<Mine, Says("aside", FALSE)>>
      \/ own = <<Mine, Says("plain", FALSE)>>
      \/ own = <<Mine, Says("plain", FALSE), Says("final", FALSE)>>
  BY DEF OwnTurns
<1>2. /\ own \in Seq(Message) /\ Len(own) =< 3
      /\ Len(own) > 0 => own[1].by = "ask"
      /\ \A k \in 2..Len(own) : own[k].by = "assistant" /\ ~own[k].ends
  <2>1. CASE own = <<>>
    BY <2>1
  <2>2. CASE own = <<Mine>>
    BY <2>2, Messages
  <2>3. ASSUME NEW channel \in Channels, own = <<Mine, Says(channel, FALSE)>>
        PROVE  /\ own \in Seq(Message) /\ Len(own) = 2 /\ own[1].by = "ask"
               /\ own[2].by = "assistant" /\ ~own[2].ends
    BY <2>3, Messages, Pair DEF Channels
  <2>4. ASSUME own = <<Mine, Says("plain", FALSE), Says("final", FALSE)>>
        PROVE  /\ own \in Seq(Message) /\ Len(own) = 3 /\ own[1].by = "ask"
               /\ own[2].by = "assistant" /\ ~own[2].ends
               /\ own[3].by = "assistant" /\ ~own[3].ends
    BY <2>4, Messages, Triple DEF Channels
  <2>5. CASE own = <<Mine, Says("aside", FALSE)>> \/ own = <<Mine, Says("plain", FALSE)>>
    <3>1. /\ own \in Seq(Message) /\ Len(own) = 2 /\ own[1].by = "ask"
          /\ own[2].by = "assistant" /\ ~own[2].ends
      BY <2>3, <2>5 DEF Channels
    <3>2. \A k \in 2..2 : k = 2
      OBVIOUS
    <3>3. QED BY <3>1, <3>2
  <2>6. CASE own = <<Mine, Says("plain", FALSE), Says("final", FALSE)>>
    <3>1. \A k \in 2..3 : k = 2 \/ k = 3
      OBVIOUS
    <3>2. \A k \in 2..3 : own[k].by = "assistant" /\ ~own[k].ends
      BY <2>4, <2>6, <3>1
    <3>3. own \in Seq(Message) /\ Len(own) = 3 /\ own[1].by = "ask"
      BY <2>4, <2>6
    <3>4. QED BY <3>2, <3>3
  <2>7. QED BY <1>1, <2>1, <2>2, <2>5, <2>6
<1>3. QED BY <1>2, UnendedTurn
-------------------------------------------------------------------------------
(* What an ask reports of its prompt *)

Honest(a) ==
  /\ server[a] # "none" => submission[a] # "not_attempted"
  /\ submission[a] = "confirmed" => server[a] # "none"
  /\ outcome[a] = "answer" => server[a] = "finished" /\ submission[a] = "confirmed"
  /\ outcome[a] = "detached" => a \in conversation /\ submission[a] = "confirmed"
  /\ outcome[a] = "no_raw_turn" => server[a] # "none"

\* The other asks are left alone.
OthersTurn(a) ==
  \A b \in Asks \ {a} :
    /\ pc'[b] = pc[b] /\ server'[b] = server[b] /\ submission'[b] = submission[b]
    /\ outcome'[b] = outcome[b]
    /\ b \in candidate' <=> b \in candidate
    /\ b \in conversation' <=> b \in conversation

\* An ask that goes on through its stages, before its prompt is confirmed or after.
GoesOn(a) ==
  /\ StatesTyped' /\ OthersTurn(a)
  /\ server'[a] = server[a] /\ submission'[a] = submission[a] /\ outcome'[a] = outcome[a]
  /\ pc'[a] # "clicking" \/ pc'[a] = pc[a]
  /\ Locked(a)' => Locked(a)
  /\ a \in candidate' => a \in candidate \/ Locked(a)
  /\ a \in conversation => a \in conversation'
  /\ pc[a] # "over"

\* A step of the driving that leaves its evidence leaves it honest.
LEMMA GoesOnHonest ==
  ASSUME NEW a \in Asks, Evidence(a), Honest(a), GoesOn(a)
  PROVE  Evidence(a)' /\ Honest(a)'
BY DEF GoesOn, Evidence, Honest

\* However an ask ends, what it reported of its prompt stays as it was.
LEMMA EndHonest ==
  ASSUME StatesTyped, NEW a \in Asks, Evidence(a), Honest(a), NEW result \in Outcomes, End(a, result),
         result = "answer" => server[a] = "finished" /\ submission[a] = "confirmed",
         result = "detached" => a \in conversation /\ submission[a] = "confirmed",
         result = "no_raw_turn" => server[a] # "none"
  PROVE  StatesTyped' /\ OthersTurn(a) /\ Evidence(a)' /\ Honest(a)'
<1>1. StatesTyped' /\ OthersTurn(a) /\ pc'[a] = "over" /\ outcome'[a] = result
  BY DEF End, Goto, StatesTyped, OthersTurn, Stages
<1>2. /\ server'[a] = server[a] /\ submission'[a] = submission[a] /\ a \notin candidate'
      /\ result = "detached" => conversation' = conversation
  BY DEF End
<1>3. QED BY <1>1, <1>2 DEF Evidence, Honest, Locked

\* Each stage of an ask records only what is on its page.
LEMMA StageHonest ==
  ASSUME StatesTyped, NEW a \in Asks, Evidence(a), Honest(a), Step(a) \/ Surroundings(a)
  PROVE  StatesTyped' /\ OthersTurn(a) /\ Evidence(a)' /\ Honest(a)'
<1> DEFINE Done == StatesTyped' /\ OthersTurn(a) /\ Evidence(a)' /\ Honest(a)'
<1>1. ASSUME NEW result \in {"failed", "rate_limited_timeout"}, End(a, result) PROVE Done
  BY <1>1, EndHonest DEF Outcomes
<1>2. ASSUME NEW place \in Stages \ {"clicking", "over"}, GoOn(a, place), pc[a] # "over",
             place \in {"monitoring", "fetching", "requiring", "relocking"} => Locked(a)
      PROVE  Done
  <2>1. GoesOn(a)
    BY <1>2 DEF GoOn, Goto, GoesOn, StatesTyped, OthersTurn, Locked
  <2>2. QED BY <2>1, GoesOnHonest DEF GoesOn
<1>3. ASSUME UNCHANGED <<pc, server, submission, candidate, conversation, outcome>> PROVE Done
  BY <1>3 DEF StatesTyped, OthersTurn, Evidence, Honest, Locked
\* Up to the filled composer, and the ends of the failing stages.
<1>4. CASE \/ Navigated(a) \/ ComposerReady(a) \/ ComposerFails(a) \/ FailsAgain(a)
           \/ RediscoveryFails(a) \/ Attached(a) \/ TurnsRead(a) \/ Filled(a) \/ FormNotBound(a)
           \/ FormChanged(a) \/ ModalStays(a) \/ AttachmentsGone(a) \/ NotReady(a) \/ Clicked(a)
           \/ ClickFails(a) \/ FetchRaises(a) \/ EchoMissing(a)
  <2>1. \/ End(a, "failed") \/ End(a, "rate_limited_timeout")
        \/ pc[a] # "over" /\ \E place \in {"composer", "attaching", "reading", "filling", "sending",
                                           "echo"} : GoOn(a, place)
    BY <1>4 DEF Navigated, ComposerReady, ComposerFails, FailsAgain, RediscoveryFails, Attached,
       TurnsRead, Filled, FormNotBound, FormChanged, ModalStays, AttachmentsGone, NotReady, Clicked,
       ClickFails, FetchRaises, EchoMissing, EndOnly, EndSettling
  <2>2. QED BY <1>1, <1>2, <2>1 DEF Stages, Processing
<1>5. CASE Rediscover(a) \/ FetchReported(a) \/ Response(a)
  BY <1>3, <1>5 DEF Rediscover, turnVars, FetchReported, Response
<1>6. CASE Reserve(a)
  <2>1. /\ StatesTyped' /\ OthersTurn(a) /\ pc[a] = "sending" /\ pc'[a] = "clicking"
        /\ submission'[a] = "uncertain" /\ UNCHANGED <<server, outcome, candidate>>
    BY <1>6 DEF Reserve, RecordAttempt, Goto, StatesTyped, OthersTurn, Stages
  <2>2. QED BY <2>1 DEF Evidence, Honest, Locked
<1>7. CASE PageSends(a)
  <2>1. /\ StatesTyped' /\ OthersTurn(a) /\ pc[a] = "clicking" /\ server'[a] = "sent"
        /\ UNCHANGED <<pc, submission, outcome, candidate, conversation>>
    BY <1>7 DEF PageSends, StatesTyped, OthersTurn, Prompts
  <2>2. QED BY <2>1 DEF Evidence, Honest, Locked
<1>8. CASE EchoLocked(a)
  <2>1. /\ StatesTyped' /\ OthersTurn(a) /\ pc[a] \in {"echo", "echo_again"} /\ server[a] # "none"
        /\ pc'[a] = "monitoring" /\ submission'[a] = "confirmed"
        /\ UNCHANGED <<server, outcome, candidate>>
    BY <1>8 DEF EchoLocked, Goto, StatesTyped, OthersTurn, Stages, Processing
  <2>2. QED BY <2>1 DEF Evidence, Honest, Locked
<1>9. CASE EchoLate(a)
  <2>1. GoesOn(a)
    BY <1>9 DEF EchoLate, Goto, GoesOn, StatesTyped, OthersTurn, Locked, Stages, Processing
  <2>2. QED BY <2>1, GoesOnHonest DEF GoesOn
<1>10. CASE Detach(a)
  BY <1>10, EndHonest DEF Detach, EndOnly, Evidence, Locked, Outcomes
<1>11. CASE SignalHandled(a) \/ StopSeen(a) \/ LooksComplete(a) \/ PageLost(a) \/ Relocked(a)
  <2>1. GoesOn(a)
    BY <1>11 DEF SignalHandled, StopSeen, LooksComplete, PageLost, Relocked, Goto, GoesOn,
       StatesTyped, OthersTurn, Locked, Stages, Processing
  <2>2. QED BY <2>1, GoesOnHonest DEF GoesOn
<1>12. CASE Fetched(a)
  <2>1. server[a] = "finished" /\ submission[a] = "confirmed" /\ End(a, "answer")
    BY <1>12, AnsweredIsFinished DEF Fetched, Evidence, Locked
  <2>2. QED BY <2>1, EndHonest DEF Outcomes
<1>13. CASE NotFetched(a)
  <2>1. CASE pc[a] = "fetching"
    BY <1>2, <1>13, <2>1 DEF NotFetched, Locked, Stages, Processing
  <2>2. CASE pc[a] # "fetching"
    <3>1. End(a, "no_raw_turn") /\ server[a] # "none"
      BY <1>13, <2>2 DEF NotFetched, EndOnly, Evidence, Honest, Locked
    <3>2. QED BY <3>1, EndHonest DEF Outcomes
  <2>3. QED BY <2>1, <2>2
<1>14. CASE ActionProcessed(a)
  <2>1. \/ UNCHANGED <<pc, server, submission, candidate, conversation, outcome>>
        \/ End(a, "failed") \/ End(a, "rate_limited_timeout")
    BY <1>14 DEF ActionProcessed, EndOnly
  <2>2. QED BY <1>1, <1>3, <2>1
<1>15. CASE StreamRequest(a) \/ CompletionReport(a)
  <2>1. GoesOn(a)
    BY <1>15 DEF StreamRequest, CompletionReport, Open, GoesOn, StatesTyped, OthersTurn, Locked
  <2>2. QED BY <2>1, GoesOnHonest DEF GoesOn
<1>16. CASE ServerWorks(a)
  <2>1. /\ StatesTyped' /\ OthersTurn(a) /\ server[a] # "none" /\ server'[a] # "none"
        /\ pc[a] # "over" /\ UNCHANGED <<pc, submission, outcome, candidate, conversation>>
    BY <1>16 DEF ServerWorks, Open, StatesTyped, OthersTurn, Prompts
  <2>2. QED BY <2>1 DEF Evidence, Honest, Locked
<1>17. CASE DeadlineExpires(a)
  <2>1. \/ End(a, "failed") \/ End(a, "rate_limited_timeout")
        \/ a \in candidate /\ End(a, "no_raw_turn")
    BY <1>17 DEF DeadlineExpires, EndOnly
  <2>2. QED BY <1>1, <2>1, EndHonest DEF Evidence, Outcomes
<1>18. QED BY <1>4, <1>5, <1>6, <1>7, <1>8, <1>9, <1>10, <1>11, <1>12, <1>13, <1>14, <1>15, <1>16, <1>17
           DEF Step, Surroundings

\* Every step keeps the evidence of every ask honest.
LEMMA NextEvidence ==
  ASSUME StatesTyped, EvidenceIsHonest, EvidenceIInv, [Next]_vars
  PROVE  StatesTyped' /\ EvidenceIsHonest' /\ EvidenceIInv'
<1>1. \A a \in Asks : Honest(a)
  BY DEF EvidenceIsHonest, Honest
<1>2. SUFFICES StatesTyped' /\ \A a \in Asks : Evidence(a)' /\ Honest(a)'
  BY DEF EvidenceIsHonest, EvidenceIInv, Honest
<1>3. ASSUME NEW a \in Asks, Step(a) \/ Surroundings(a)
      PROVE  StatesTyped' /\ \A b \in Asks : Evidence(b)' /\ Honest(b)'
  <2>1. StatesTyped' /\ OthersTurn(a) /\ Evidence(a)' /\ Honest(a)'
    BY <1>1, <1>3, StageHonest DEF EvidenceIInv
  <2>2. ASSUME NEW b \in Asks, b # a PROVE Evidence(b)' /\ Honest(b)'
    BY <1>1, <2>1, <2>2 DEF EvidenceIInv, Evidence, Honest, OthersTurn, Locked
  <2>3. QED BY <2>1, <2>2
<1>4. ASSUME UNCHANGED turnVars
      PROVE  StatesTyped' /\ \A b \in Asks : Evidence(b)' /\ Honest(b)'
  BY <1>1, <1>4 DEF turnVars, StatesTyped, EvidenceIInv, Evidence, Honest, Locked
<1>5. QED BY <1>3, <1>4 DEF Next, vars
-------------------------------------------------------------------------------
(* What a step does to the book of locators *)

LocatorsIInv == BookTyped /\ RediscoveryIInv /\ UnprovenIInv /\ PendingIInv

\* Only an ask that does not rediscover, or ends, moves on; no other one does.
MovesAlone(a) == \A b \in Asks \ {a} : pc'[b] = pc[b]

\* Nothing of the book but what an ask remembers of its selectors.
BookStays == UNCHANGED <<site, record, pending, lock, phase, wanted, seenPending, unproven, tried>>

\* The attempt of an ask that leaves, or of one that goes on to the next control.
Leaves(a) ==
  /\ AbandonAll(a)
  /\ \/ record' = record
     \/ \E t \in Targets, result \in {"success", "failure", "abandon"} : Recorded(a, t, result)
     \/ NoneFound(a) /\ HealFailed(a)
Settles(a) ==
  /\ phase[a] = "none"
  /\ \E t \in Targets, next \in SUBSET Targets, result \in {"success", "failure", "abandon"} :
       Settle(a, t, result, next)

\* All that a step of an ask can do to the selector book.
LEMMA AskOnBook ==
  ASSUME StatesTyped, RediscoveryIInv, NEW a \in Asks, Step(a) \/ Surroundings(a)
  PROVE  /\ MovesAlone(a)
         /\ \/ BookStays /\ (pc'[a] = pc[a] \/ phase[a] = "none")
            \/ /\ pc'[a] = pc[a] /\ pc[a] \in {"composer", "sending"}
               /\ \E t \in Targets : MayRediscover(a, t) /\ RediscoveryBegins(a, t)
            \/ Leaves(a)
            \/ Settles(a)
<1>1. "composer" \in Targets /\ "send" \in Targets
  BY AskTurnAssumption
<1>2. MovesAlone(a)
  <2>1. ASSUME NEW place, Goto(a, place) PROVE MovesAlone(a)
    BY <2>1 DEF Goto, MovesAlone, StatesTyped
  <2>2. ASSUME pc' = pc PROVE MovesAlone(a)
    BY <2>2 DEF MovesAlone
  <2>3. ASSUME NEW place, GoOn(a, place) \/ End(a, place) PROVE MovesAlone(a)
    BY <2>1, <2>3 DEF GoOn, End
  <2>4. QED BY <2>1, <2>2, <2>3
            DEF Step, Surroundings, Navigated, ComposerReady, ComposerFails, Rediscover, FailsAgain,
            RediscoveryFails, Attached, TurnsRead, Filled, FormNotBound, FormChanged, ModalStays,
            AttachmentsGone, FetchReported, FetchRaises, Reserve, NotReady, Clicked, ClickFails,
            EchoLocked, EchoLate, EchoMissing, Detach, SignalHandled, StopSeen, LooksComplete,
            PageLost, Relocked, Fetched, NotFetched, ActionProcessed, PageSends, Response,
            StreamRequest, CompletionReport, ServerWorks, DeadlineExpires, EndOnly, EndSettling,
            turnVars
<1>3. ASSUME NEW result, EndOnly(a, result) PROVE Leaves(a)
  BY <1>3 DEF EndOnly, End, Leaves
<1>4. ASSUME NEW t \in {"composer", "send"}, NEW result \in {"success", "failure", "abandon"},
             EndSettling(a, t, result)
      PROVE  Leaves(a)
  BY <1>1, <1>4 DEF EndSettling, End, Leaves
<1>5. pc[a] \notin {"composer", "sending"} => phase[a] = "none"
  BY DEF RediscoveryIInv, Rediscovery
<1>6. CASE UNCHANGED locatorVars
  <2>1. BookStays
    BY <1>6 DEF locatorVars, bookVars, BookStays
  <2>2. pc'[a] = pc[a] \/ phase[a] = "none" \/ Leaves(a)
    BY <1>3, <1>4, <1>5
       DEF Step, Surroundings, Navigated, ComposerReady, ComposerFails, Rediscover, FailsAgain,
       RediscoveryFails, Attached, TurnsRead, Filled, FormNotBound, FormChanged, ModalStays,
       AttachmentsGone, FetchReported, FetchRaises, Reserve, NotReady, Clicked, ClickFails,
       EchoLocked, EchoLate, EchoMissing, Detach, SignalHandled, StopSeen, LooksComplete,
       PageLost, Relocked, Fetched, NotFetched, ActionProcessed, PageSends, Response,
       StreamRequest, CompletionReport, ServerWorks, DeadlineExpires, turnVars, End, Leaves
  <2>3. QED BY <1>2, <2>1, <2>2
<1>7. CASE Navigated(a)
  <2>1. BookStays \/ Leaves(a)
    BY <1>3, <1>7 DEF Navigated, LookUp, BookStays, bookVars
  <2>2. QED BY <1>2, <1>5, <1>7, <2>1 DEF Navigated
<1>8. CASE Rediscover(a)
  BY <1>1, <1>2, <1>8 DEF Rediscover, turnVars
<1>9. CASE RediscoveryFails(a) \/ Fetched(a)
  BY <1>2, <1>9 DEF RediscoveryFails, Fetched, End, Leaves
<1>10. CASE Filled(a)
  BY <1>1, <1>2, <1>4, <1>5, <1>10 DEF Filled, Settles
<1>11. CASE EchoLocked(a)
  BY <1>1, <1>2, <1>5, <1>11 DEF EchoLocked, Settles
<1>12. CASE FailsAgain(a) \/ NotReady(a) \/ ClickFails(a)
  BY <1>2, <1>4, <1>12 DEF FailsAgain, NotReady, ClickFails
<1>13. CASE \/ ComposerFails(a) \/ FormNotBound(a) \/ FormChanged(a) \/ ModalStays(a)
            \/ AttachmentsGone(a) \/ FetchRaises(a) \/ EchoMissing(a) \/ Detach(a)
            \/ DeadlineExpires(a)
  BY <1>2, <1>3, <1>13 DEF ComposerFails, FormNotBound, FormChanged, ModalStays, AttachmentsGone,
     FetchRaises, EchoMissing, Detach, DeadlineExpires
<1>14. CASE Attached(a) \/ NotFetched(a) \/ ActionProcessed(a)
  BY <1>2, <1>3, <1>6, <1>14 DEF Attached, NotFetched, ActionProcessed, locatorVars
<1>15. CASE \/ ComposerReady(a) \/ TurnsRead(a) \/ FetchReported(a) \/ Reserve(a) \/ Clicked(a)
            \/ EchoLate(a) \/ SignalHandled(a) \/ StopSeen(a) \/ LooksComplete(a) \/ PageLost(a)
            \/ Relocked(a) \/ PageSends(a) \/ Response(a) \/ StreamRequest(a)
            \/ CompletionReport(a) \/ ServerWorks(a)
  <2>1. UNCHANGED locatorVars
    BY <1>15 DEF ComposerReady, TurnsRead, FetchReported, Reserve, Clicked, EchoLate, SignalHandled,
       StopSeen, LooksComplete, PageLost, Relocked, PageSends, Response, StreamRequest,
       CompletionReport, ServerWorks
  <2>2. QED BY <1>6, <2>1
<1>16. QED BY <1>7, <1>8, <1>9, <1>10, <1>11, <1>12, <1>13, <1>14, <1>15 DEF Step, Surroundings

RecordTyped ==
  record \in [Targets -> [selector : Selectors, failures : 0..Threshold,
                          suspended : {"no", "minute", "hour", "over"}]]

\* A failed healing leaves a record of the book.
LEMMA FailedIsTyped ==
  ASSUME NEW r \in [selector : Selectors, failures : 0..Threshold,
                    suspended : {"no", "minute", "hour", "over"}]
  PROVE  FailedRecord(r) \in [selector : Selectors, failures : 0..Threshold,
                              suspended : {"no", "minute", "hour", "over"}]
<1> DEFINE failures == IF r.failures < Threshold THEN r.failures + 1 ELSE Threshold
           suspended == IF r.suspended = "over" \/ failures >= Threshold THEN "hour" ELSE "minute"
<1>1. failures \in 0..Threshold
  BY LocatorsAssumption
<1>2. suspended \in {"no", "minute", "hour", "over"}
  OBVIOUS
<1>3. FailedRecord(r) = [r EXCEPT !.failures = failures, !.suspended = suspended]
  BY DEF FailedRecord
<1> HIDE DEF failures, suspended
<1>4. QED BY <1>1, <1>2, <1>3

\* Only the failure of a pending find suspends its target.
LEMMA RecordedEffect ==
  ASSUME BookTyped, NEW a \in Asks, NEW t \in Targets, NEW result, Recorded(a, t, result)
  PROVE  /\ RecordTyped'
         /\ \A u \in Targets : Refusal(u)' => Refusal(u) \/ pending[u] # None
<1>1. RecordTyped /\ unproven[a][t] \in Finds \union {None}
  BY DEF BookTyped, LocatorsTypeOK, RecordTyped
<1>2. CASE record' = record
  BY <1>1, <1>2 DEF RecordTyped, Refusal
<1>3. ASSUME unproven[a][t] # None, record' = [record EXCEPT ![t] = SucceededRecord(unproven[a][t].selector)]
      PROVE  RecordTyped' /\ \A u \in Targets : Refusal(u)' => Refusal(u)
  BY <1>1, <1>3, LocatorsAssumption DEF SucceededRecord, Finds, RecordTyped, Refusal
<1>4. ASSUME pending[t] # None, record' = [record EXCEPT ![t] = FailedRecord(@)]
      PROVE  RecordTyped' /\ \A u \in Targets : Refusal(u)' => Refusal(u) \/ u = t
  BY <1>1, <1>4, FailedIsTyped DEF RecordTyped, Refusal
<1>5. QED BY <1>2, <1>3, <1>4 DEF Recorded, IsPending

\* Only an ask whose healer failed suspends its target on the way out.
LEMMA HealFailedEffect ==
  ASSUME BookTyped, NEW a \in Asks, wanted[a] \in Targets, HealFailed(a)
  PROVE  /\ RecordTyped'
         /\ \A u \in Targets : Refusal(u)' => Refusal(u) \/ (phase[a] = "healing" /\ u = wanted[a])
<1>1. RecordTyped
  BY DEF BookTyped, LocatorsTypeOK, RecordTyped
<1>2. CASE record' = record
  BY <1>1, <1>2 DEF RecordTyped, Refusal
<1>3. CASE phase[a] = "healing" /\ record' = [record EXCEPT ![wanted[a]] = FailedRecord(@)]
  BY <1>1, <1>3, FailedIsTyped DEF RecordTyped, Refusal
<1>4. QED BY <1>2, <1>3 DEF HealFailed

\* A find leaves the book with the ask that was to prove it.
LEMMA TakenOutEffect ==
  ASSUME BookTyped, PendingIInv, NEW a \in Asks, NEW ts \in SUBSET Targets, TakenOut(a, ts)
  PROVE  /\ unproven' \in [Asks -> [Targets -> Finds \union {None}]]
         /\ pending' \in [Targets -> Finds \union {None}]
         /\ \A t \in Targets : pending'[t] = None \/ pending'[t] = pending[t]
         /\ \A b \in Asks \ {a} : unproven'[b] = unproven[b]
         /\ \A t \in Targets : unproven'[a][t] = IF t \in ts THEN None ELSE unproven[a][t]
         /\ PendingIInv'
<1>1. /\ unproven \in [Asks -> [Targets -> Finds \union {None}]]
      /\ pending \in [Targets -> Finds \union {None}]
  BY DEF BookTyped
<1>2. /\ unproven' \in [Asks -> [Targets -> Finds \union {None}]]
      /\ \A b \in Asks \ {a} : unproven'[b] = unproven[b]
      /\ \A t \in Targets : unproven'[a][t] = IF t \in ts THEN None ELSE unproven[a][t]
  BY <1>1 DEF TakenOut
<1>3. /\ pending' \in [Targets -> Finds \union {None}]
      /\ \A t \in Targets : pending'[t] = None \/ pending'[t] = pending[t]
  BY <1>1 DEF TakenOut
<1>4. ASSUME NEW t \in Targets, pending'[t] # None
      PROVE  pending'[t].id # None /\ \E b \in Asks : unproven'[b][t] = pending'[t]
  <2>1. pending'[t] = pending[t] /\ pending[t] # None /\ pending[t].id # None
    BY <1>3, <1>4 DEF PendingIInv
  <2>2. PICK b \in Asks : unproven[b][t] = pending[t]
    BY <2>1 DEF PendingIInv, PendingHasAProver
  <2>3. b = a => t \notin ts
    BY <1>4, <2>1, <2>2 DEF TakenOut, IsPending
  <2>4. QED BY <1>2, <2>1, <2>2, <2>3
<1>5. QED BY <1>2, <1>3, <1>4 DEF PendingIInv, PendingHasAProver
-------------------------------------------------------------------------------
(* The steps of the others *)

LocalsStay(b) ==
  /\ pc'[b] = pc[b] /\ phase'[b] = phase[b] /\ wanted'[b] = wanted[b]
  /\ seenPending'[b] = seenPending[b] /\ tried'[b] = tried[b] /\ unproven'[b] = unproven[b]

\* What the others do to the target of an ask that rediscovers it.
LEMMA OtherKeeps ==
  ASSUME NEW b \in Asks, Rediscovery(b), LocalsStay(b),
         lock[wanted[b]] = b => lock'[wanted[b]] = b,
         phase[b] # "none" /\ lock[wanted[b]] = b /\ pending[wanted[b]] = None =>
           /\ pending'[wanted[b]] = None
           /\ phase[b] = "healing" /\ ~Refusal(wanted[b]) => ~Refusal(wanted[b])'
  PROVE  Rediscovery(b)'
<1> SUFFICES ASSUME phase[b] # "none" PROVE Rediscovery(b)'
  BY DEF Rediscovery, LocalsStay
<1>1. /\ pc[b] \in {"composer", "sending"}
      /\ wanted[b] \in tried[b] /\ unproven[b][wanted[b]] = None
      /\ phase[b] # "queueing" => lock[wanted[b]] = b
      /\ phase[b] = "healing" \/ (phase[b] = "checking" /\ seenPending[b] = None) =>
           pending[wanted[b]] = None
      /\ phase[b] = "healing" => ~Refusal(wanted[b])
  BY DEF Rediscovery
<1>2. /\ pc'[b] \in {"composer", "sending"}
      /\ wanted'[b] \in tried'[b] /\ unproven'[b][wanted'[b]] = None
      /\ phase'[b] # "queueing" => lock'[wanted'[b]] = b
  BY <1>1 DEF LocalsStay
<1>3. ASSUME phase[b] = "healing" \/ (phase[b] = "checking" /\ seenPending[b] = None)
      PROVE  pending'[wanted[b]] = None /\ (phase[b] = "healing" => ~Refusal(wanted[b])')
  BY <1>1, <1>3
<1>4. wanted'[b] = wanted[b] /\ phase'[b] = phase[b] /\ seenPending'[b] = seenPending[b]
  BY DEF LocalsStay
<1>5. QED BY <1>2, <1>3, <1>4 DEF Rediscovery

\* A step off the book keeps what is said of it.
LEMMA BookStaysKeeps ==
  ASSUME StatesTyped, LocatorsIInv, BookStays,
         \A b \in Asks : pc'[b] = pc[b] \/ phase[b] = "none"
  PROVE  LocatorsIInv'
<1>1. BookTyped' /\ UnprovenIInv' /\ PendingIInv'
  BY DEF LocatorsIInv, BookStays, BookTyped, LocatorsTypeOK, UnprovenIInv, PendingIInv,
     PendingHasAProver
<1>2. RediscoveryIInv'
  BY DEF LocatorsIInv, BookStays, RediscoveryIInv, Rediscovery, Refusal
<1>3. QED BY <1>1, <1>2 DEF LocatorsIInv

\* An ask that has proved or abandoned its find of a target may rediscover it again.
LEMMA BeginsKeeps ==
  ASSUME StatesTyped, LocatorsIInv, NEW a \in Asks, MovesAlone(a), pc'[a] = pc[a],
         pc[a] \in {"composer", "sending"},
         NEW t \in Targets, MayRediscover(a, t), RediscoveryBegins(a, t)
  PROVE  LocatorsIInv'
<1>1. /\ UNCHANGED <<site, record, pending, lock, seenPending, unproven>>
      /\ phase \in [Asks -> {"none", "queueing", "checking", "healing"}]
      /\ wanted \in [Asks -> Targets \union {None}] /\ tried \in [Asks -> SUBSET Targets]
  BY DEF RediscoveryBegins, bookVars, LocatorsIInv, BookTyped, LocatorsTypeOK
<1>2. /\ phase' = [phase EXCEPT ![a] = "queueing"] /\ wanted' = [wanted EXCEPT ![a] = t]
      /\ tried' = [tried EXCEPT ![a] = @ \union {t}]
  BY DEF RediscoveryBegins
<1>3. BookTyped'
  <2>1. phase' \in [Asks -> {"none", "queueing", "checking", "healing"}]
    BY <1>1, <1>2
  <2>2. wanted' \in [Asks -> Targets \union {None}] /\ tried' \in [Asks -> SUBSET Targets]
    BY <1>1, <1>2
  <2>3. QED BY <1>1, <2>1, <2>2 DEF LocatorsIInv, BookTyped, LocatorsTypeOK
<1>4. unproven[a][t] = None
  BY DEF MayRediscover, LocatorsIInv, UnprovenIInv
<1>5. Rediscovery(a)'
  BY <1>1, <1>2, <1>4 DEF Rediscovery
<1>6. ASSUME NEW b \in Asks, b # a PROVE Rediscovery(b)'
  <2>1. LocalsStay(b)
    BY <1>1, <1>2, <1>6 DEF MovesAlone, LocalsStay
  <2>2. QED BY <1>1, <2>1, OtherKeeps DEF LocatorsIInv, RediscoveryIInv, Refusal, LocalsStay
<1>7. UnprovenIInv' /\ PendingIInv'
  BY <1>1, <1>2 DEF LocatorsIInv, UnprovenIInv, PendingIInv, PendingHasAProver
<1>8. QED BY <1>3, <1>5, <1>6, <1>7 DEF LocatorsIInv, RediscoveryIInv

\* An ask that leaves a rediscovery gives up its lock or leaves nothing.
LEMMA LeavesKeeps ==
  ASSUME StatesTyped, LocatorsIInv, NEW a \in Asks, MovesAlone(a), Leaves(a)
  PROVE  LocatorsIInv'
<1>1. BookTyped /\ PendingIInv /\ TakenOut(a, Targets)
  BY DEF LocatorsIInv, Leaves, AbandonAll
<1>2. /\ unproven' \in [Asks -> [Targets -> Finds \union {None}]]
      /\ pending' \in [Targets -> Finds \union {None}]
      /\ \A t \in Targets : pending'[t] = None \/ pending'[t] = pending[t]
      /\ \A b \in Asks \ {a} : unproven'[b] = unproven[b]
      /\ \A t \in Targets : unproven'[a][t] = None
      /\ PendingIInv'
  <2>1. Targets \in SUBSET Targets
    OBVIOUS
  <2>2. QED BY <1>1, <2>1, TakenOutEffect
<1>3. /\ site' = site
      /\ phase' = [phase EXCEPT ![a] = "none"] /\ wanted' = [wanted EXCEPT ![a] = None]
      /\ seenPending' = [seenPending EXCEPT ![a] = None] /\ tried' = [tried EXCEPT ![a] = {}]
      /\ lock' = [t \in Targets |-> IF lock[t] = a THEN None ELSE lock[t]]
  BY DEF Leaves, AbandonAll
<1>4. NoneFound(a) => phase[a] \in {"checking", "healing"} /\ wanted[a] \in Targets
                      /\ lock[wanted[a]] = a
  BY <1>1 DEF NoneFound, LocatorsIInv, RediscoveryIInv, Rediscovery, BookTyped
<1>5. /\ RecordTyped'
      /\ \A u \in Targets :
           Refusal(u)' => Refusal(u) \/ pending[u] # None \/ lock[u] = a
  <2>1. CASE record' = record
    BY <1>1, <2>1 DEF BookTyped, LocatorsTypeOK, RecordTyped, Refusal
  <2>2. CASE \E t \in Targets, result \in {"success", "failure", "abandon"} : Recorded(a, t, result)
    BY <1>1, <2>2, RecordedEffect
  <2>3. CASE NoneFound(a) /\ HealFailed(a)
    BY <1>1, <1>4, <2>3, HealFailedEffect
  <2>4. QED BY <2>1, <2>2, <2>3 DEF Leaves
<1>6. BookTyped'
  <2>1. /\ phase' \in [Asks -> {"none", "queueing", "checking", "healing"}]
        /\ lock' \in [Targets -> Asks \union {None}]
        /\ wanted' \in [Asks -> Targets \union {None}]
    BY <1>1, <1>3 DEF BookTyped, LocatorsTypeOK
  <2>2. seenPending' \in [Asks -> Finds \union {None}] /\ tried' \in [Asks -> SUBSET Targets]
    BY <1>1, <1>3 DEF BookTyped
  <2>3. site' \in [Targets -> Selectors]
    BY <1>1, <1>3 DEF BookTyped, LocatorsTypeOK
  <2>4. \A t \in Targets : pending'[t] \in Finds \union {None}
    BY <1>2
  <2>5. QED BY <1>2, <1>5, <2>1, <2>2, <2>3, <2>4 DEF BookTyped, LocatorsTypeOK, RecordTyped
<1>7. Rediscovery(a)'
  BY <1>1, <1>3 DEF Rediscovery, BookTyped, LocatorsTypeOK
<1>8. ASSUME NEW b \in Asks, b # a PROVE Rediscovery(b)'
  <2>1. LocalsStay(b)
    BY <1>1, <1>2, <1>3, <1>8 DEF MovesAlone, LocalsStay, BookTyped, LocatorsTypeOK
  <2>2. phase[b] # "none" => wanted[b] \in Targets
    BY <1>1 DEF LocatorsIInv, RediscoveryIInv, Rediscovery, BookTyped
  <2>3. ASSUME phase[b] # "none", lock[wanted[b]] = b, pending[wanted[b]] = None
        PROVE  /\ pending'[wanted[b]] = None
               /\ ~Refusal(wanted[b]) => ~Refusal(wanted[b])'
    <3>1. pending'[wanted[b]] = None /\ lock[wanted[b]] # a
      BY <1>2, <1>8, <2>2, <2>3
    <3>2. wanted'[b] = wanted[b]
      BY <2>1 DEF LocalsStay
    <3>3. QED BY <1>5, <2>2, <2>3, <3>1, <3>2 DEF Refusal
  <2>4. phase[b] # "none" /\ lock[wanted[b]] = b => lock'[wanted[b]] = b
    BY <1>3, <1>8, <2>2
  <2>5. CASE phase[b] = "none"
    BY <2>1, <2>5 DEF LocalsStay, Rediscovery
  <2>6. CASE phase[b] # "none"
    BY <2>1, <2>3, <2>4, <2>6, OtherKeeps DEF LocatorsIInv, RediscoveryIInv
  <2>7. QED BY <2>5, <2>6
<1>9. UnprovenIInv'
  <2>1. \A b \in Asks \ {a} : tried'[b] = tried[b]
    BY <1>1, <1>3 DEF BookTyped
  <2>2. QED BY <1>2, <2>1 DEF LocatorsIInv, UnprovenIInv
<1>10. QED BY <1>2, <1>6, <1>7, <1>8, <1>9 DEF LocatorsIInv, RediscoveryIInv

\* A settled proof leaves no pending selector without a prover.
LEMMA SettlesKeeps ==
  ASSUME StatesTyped, LocatorsIInv, NEW a \in Asks, MovesAlone(a), Settles(a)
  PROVE  LocatorsIInv'
<1>1. PICK t \in Targets, next \in SUBSET Targets, result \in {"success", "failure", "abandon"} :
        Settle(a, t, result, next)
  BY DEF Settles
<1>2. BookTyped /\ PendingIInv /\ TakenOut(a, {t}) /\ Recorded(a, t, result)
  BY <1>1 DEF LocatorsIInv, Settle
<1>3. /\ unproven' \in [Asks -> [Targets -> Finds \union {None}]]
      /\ pending' \in [Targets -> Finds \union {None}]
      /\ \A u \in Targets : pending'[u] = None \/ pending'[u] = pending[u]
      /\ \A b \in Asks \ {a} : unproven'[b] = unproven[b]
      /\ \A u \in Targets : unproven'[a][u] = IF u = t THEN None ELSE unproven[a][u]
      /\ PendingIInv'
  <2>1. {t} \in SUBSET Targets
    OBVIOUS
  <2>2. QED BY <1>2, <2>1, TakenOutEffect
<1>4. /\ UNCHANGED <<site, lock, phase, wanted, seenPending>>
      /\ tried' = [tried EXCEPT ![a] = @ \ {t}] /\ phase[a] = "none"
  BY <1>1 DEF Settle, Settles
<1>5. RecordTyped' /\ \A u \in Targets : Refusal(u)' => Refusal(u) \/ pending[u] # None
  BY <1>2, RecordedEffect
<1>6. BookTyped'
  <2>1. tried' \in [Asks -> SUBSET Targets]
    BY <1>2, <1>4 DEF BookTyped
  <2>2. \A u \in Targets : pending'[u] \in Finds \union {None}
    BY <1>3
  <2>3. QED BY <1>2, <1>3, <1>4, <1>5, <2>1, <2>2 DEF BookTyped, LocatorsTypeOK, RecordTyped
<1>7. Rediscovery(a)'
  BY <1>4 DEF Rediscovery
<1>8. ASSUME NEW b \in Asks, b # a PROVE Rediscovery(b)'
  <2>1. LocalsStay(b)
    BY <1>2, <1>3, <1>4, <1>8 DEF MovesAlone, LocalsStay, BookTyped
  <2>2. phase[b] # "none" => wanted[b] \in Targets
    BY <1>2 DEF LocatorsIInv, RediscoveryIInv, Rediscovery, BookTyped
  <2>3. ASSUME phase[b] # "none", pending[wanted[b]] = None
        PROVE  /\ pending'[wanted[b]] = None
               /\ ~Refusal(wanted[b]) => ~Refusal(wanted[b])'
    BY <1>3, <1>4, <1>5, <2>2, <2>3 DEF Refusal
  <2>4. lock'[wanted[b]] = lock[wanted[b]]
    BY <1>4
  <2>5. QED BY <2>1, <2>3, <2>4, OtherKeeps DEF LocatorsIInv, RediscoveryIInv
<1>9. UnprovenIInv'
  BY <1>2, <1>3, <1>4 DEF BookTyped, LocatorsIInv, UnprovenIInv
<1>10. QED BY <1>3, <1>6, <1>7, <1>8, <1>9 DEF LocatorsIInv, RediscoveryIInv
-------------------------------------------------------------------------------
(* A rediscovery, step by step *)

\* The lock of a target has one holder.
LEMMA LockTakenKeeps ==
  ASSUME LocatorsIInv, NEW a \in Asks, LockTaken(a), pc' = pc
  PROVE  LocatorsIInv'
<1>1. BookTyped /\ phase[a] = "queueing" /\ lock[wanted[a]] = None /\ wanted[a] \in Targets
  BY DEF LockTaken, LockFree, LocatorsIInv, RediscoveryIInv, Rediscovery, BookTyped
<1>2. /\ UNCHANGED <<site, record, pending, wanted, unproven, tried>>
      /\ lock' = [lock EXCEPT ![wanted[a]] = a]
      /\ seenPending' = [seenPending EXCEPT ![a] = pending[wanted[a]]]
      /\ phase' = [phase EXCEPT ![a] = "checking"]
  BY DEF LockTaken
<1>3. BookTyped'
  <2>1. phase' \in [Asks -> {"none", "queueing", "checking", "healing"}]
    BY <1>1, <1>2 DEF BookTyped, LocatorsTypeOK
  <2>2. lock' \in [Targets -> Asks \union {None}] /\ seenPending' \in [Asks -> Finds \union {None}]
    BY <1>1, <1>2 DEF BookTyped, LocatorsTypeOK
  <2>3. QED BY <1>1, <1>2, <2>1, <2>2 DEF BookTyped, LocatorsTypeOK
<1>4. Rediscovery(a)'
  BY <1>1, <1>2 DEF Rediscovery, LocatorsIInv, RediscoveryIInv, BookTyped, LocatorsTypeOK
<1>5. ASSUME NEW b \in Asks, b # a PROVE Rediscovery(b)'
  <2>1. LocalsStay(b)
    BY <1>1, <1>2, <1>5 DEF LocalsStay, BookTyped, LocatorsTypeOK
  <2>2. lock[wanted[b]] = b => lock'[wanted[b]] = b
    BY <1>1, <1>2, LocatorsAssumption DEF BookTyped, LocatorsTypeOK
  <2>3. QED BY <1>2, <2>1, <2>2, OtherKeeps DEF LocatorsIInv, RediscoveryIInv, Refusal
<1>6. UnprovenIInv' /\ PendingIInv'
  BY <1>2 DEF LocatorsIInv, UnprovenIInv, PendingIInv, PendingHasAProver
<1>7. QED BY <1>3, <1>4, <1>5, <1>6 DEF LocatorsIInv, RediscoveryIInv

\* The healer is asked only for a target that is not suspended.
LEMMA HealerAskedKeeps ==
  ASSUME LocatorsIInv, NEW a \in Asks, HealerAsked(a), pc' = pc
  PROVE  LocatorsIInv'
<1>1. /\ BookTyped /\ phase[a] = "checking" /\ seenPending[a] = None /\ ~Refusal(wanted[a])
      /\ UNCHANGED <<site, record, pending, lock, wanted, seenPending, unproven, tried>>
      /\ phase' = [phase EXCEPT ![a] = "healing"]
  BY DEF HealerAsked, bookVars, LocatorsIInv
<1>2. BookTyped'
  <2>1. phase' \in [Asks -> {"none", "queueing", "checking", "healing"}]
    BY <1>1 DEF BookTyped, LocatorsTypeOK
  <2>2. QED BY <1>1, <2>1 DEF BookTyped, LocatorsTypeOK
<1>3. Rediscovery(a)'
  BY <1>1 DEF Rediscovery, LocatorsIInv, RediscoveryIInv, BookTyped, LocatorsTypeOK, Refusal
<1>4. ASSUME NEW b \in Asks, b # a PROVE Rediscovery(b)'
  <2>1. LocalsStay(b)
    BY <1>1, <1>4 DEF LocalsStay, BookTyped, LocatorsTypeOK
  <2>2. QED BY <1>1, <2>1, OtherKeeps DEF LocatorsIInv, RediscoveryIInv, Refusal
<1>5. UnprovenIInv' /\ PendingIInv'
  BY <1>1 DEF LocatorsIInv, UnprovenIInv, PendingIInv, PendingHasAProver
<1>6. QED BY <1>2, <1>3, <1>4, <1>5 DEF LocatorsIInv, RediscoveryIInv

\* The ask that holds the lock leaves _rediscover with a find to prove.
LEMMA FoundKeeps ==
  ASSUME LocatorsIInv, NEW a \in Asks, phase[a] \in {"checking", "healing"},
         NEW find \in Finds, Found(a, find), pc' = pc,
         \/ pending' = pending
         \/ find.id # None /\ pending' = [pending EXCEPT ![wanted[a]] = find]
  PROVE  LocatorsIInv'
<1>1. /\ BookTyped /\ wanted[a] \in Targets /\ lock[wanted[a]] = a
      /\ wanted[a] \in tried[a] /\ unproven[a][wanted[a]] = None
  BY DEF LocatorsIInv, RediscoveryIInv, Rediscovery, BookTyped
<1>2. /\ UNCHANGED <<site, record, tried>>
      /\ phase' = [phase EXCEPT ![a] = "none"] /\ lock' = [lock EXCEPT ![wanted[a]] = None]
      /\ unproven' = [unproven EXCEPT ![a][wanted[a]] = find]
      /\ wanted' = [wanted EXCEPT ![a] = None]
      /\ seenPending' = [seenPending EXCEPT ![a] = None]
  BY DEF Found
<1>3. /\ pending' \in [Targets -> Finds \union {None}]
      /\ unproven' \in [Asks -> [Targets -> Finds \union {None}]]
      /\ \A b \in Asks \ {a} : unproven'[b] = unproven[b]
      /\ unproven'[a][wanted[a]] = find
      /\ \A t \in Targets : t # wanted[a] => unproven'[a][t] = unproven[a][t]
      /\ \A t \in Targets : t # wanted[a] => pending'[t] = pending[t]
  BY <1>1, <1>2 DEF BookTyped
<1>4. BookTyped'
  <2>1. /\ phase' \in [Asks -> {"none", "queueing", "checking", "healing"}]
        /\ lock' \in [Targets -> Asks \union {None}]
    BY <1>1, <1>2 DEF BookTyped, LocatorsTypeOK
  <2>2. wanted' \in [Asks -> Targets \union {None}] /\ seenPending' \in [Asks -> Finds \union {None}]
    BY <1>1, <1>2 DEF BookTyped
  <2>3. \A t \in Targets : pending'[t] \in Finds \union {None}
    BY <1>3
  <2>4. QED BY <1>1, <1>2, <1>3, <2>1, <2>2, <2>3 DEF BookTyped, LocatorsTypeOK
<1>5. Rediscovery(a)'
  BY <1>1, <1>2 DEF Rediscovery, BookTyped, LocatorsTypeOK
<1>6. ASSUME NEW b \in Asks, b # a PROVE Rediscovery(b)'
  <2>1. LocalsStay(b)
    BY <1>1, <1>2, <1>3, <1>6 DEF LocalsStay, BookTyped, LocatorsTypeOK
  <2>2. phase[b] # "none" => wanted[b] \in Targets
    BY <1>1 DEF LocatorsIInv, RediscoveryIInv, Rediscovery, BookTyped
  <2>3. CASE phase[b] = "none"
    BY <2>1, <2>3 DEF LocalsStay, Rediscovery
  <2>4. CASE phase[b] # "none"
    <3>1. lock[wanted[b]] = b => wanted[b] # wanted[a] /\ lock'[wanted[b]] = b
      BY <1>1, <1>2, <1>6, <2>2, <2>4 DEF BookTyped, LocatorsTypeOK
    <3>2. wanted[b] # wanted[a] => pending'[wanted[b]] = pending[wanted[b]]
      BY <1>3, <2>2, <2>4
    <3>3. ~Refusal(wanted[b]) => ~Refusal(wanted[b])'
      BY <1>2, <2>1 DEF Refusal, LocalsStay
    <3>4. QED BY <2>1, <3>1, <3>2, <3>3, OtherKeeps DEF LocatorsIInv, RediscoveryIInv
  <2>5. QED BY <2>3, <2>4
<1>7. UnprovenIInv'
  BY <1>1, <1>2, <1>3 DEF LocatorsIInv, UnprovenIInv
<1>8. PendingIInv'
  <2>1. SUFFICES ASSUME NEW t \in Targets, pending'[t] # None
                 PROVE  pending'[t].id # None /\ \E b \in Asks : unproven'[b][t] = pending'[t]
    BY DEF PendingIInv, PendingHasAProver
  <2>2. CASE t = wanted[a] /\ pending' # pending
    <3>1. pending'[t] = find /\ find.id # None
      BY <1>1, <2>2 DEF BookTyped
    <3>2. QED BY <1>3, <2>2, <3>1
  <2>3. CASE ~(t = wanted[a] /\ pending' # pending)
    <3>1. pending'[t] = pending[t] /\ pending[t] # None
      BY <1>3, <2>1, <2>3
    <3>2. PICK b \in Asks : unproven[b][t] = pending[t]
      BY <3>1 DEF LocatorsIInv, PendingIInv, PendingHasAProver
    <3>3. ~(b = a /\ t = wanted[a])
      BY <1>1, <3>1, <3>2
    <3>4. unproven'[b][t] = pending'[t]
      BY <1>3, <3>1, <3>2, <3>3
    <3>5. QED BY <3>1, <3>4 DEF LocatorsIInv, PendingIInv
  <2>4. QED BY <2>2, <2>3
<1>9. QED BY <1>4, <1>5, <1>6, <1>7, <1>8 DEF LocatorsIInv, RediscoveryIInv

\* A rediscovery that goes on.
LEMMA RediscoveringKeeps ==
  ASSUME LocatorsIInv, NEW a \in Asks, Rediscovering(a), pc' = pc
  PROVE  LocatorsIInv'
<1>1. BookTyped /\ (phase[a] # "none" => wanted[a] \in Targets)
  BY DEF LocatorsIInv, RediscoveryIInv, Rediscovery, BookTyped
<1>2. CASE PendingReused(a)
  <2>1. seenPending[a] \in Finds
    BY <1>1, <1>2 DEF PendingReused, BookTyped
  <2>2. QED BY <1>2, <2>1, FoundKeeps DEF PendingReused
<1>3. CASE AlternativeFound(a)
  <2>1. [id |-> None, selector |-> site[wanted[a]]] \in Finds
    BY <1>1, <1>3 DEF AlternativeFound, BookTyped, LocatorsTypeOK, Finds
  <2>2. QED BY <1>3, <2>1, FoundKeeps DEF AlternativeFound
<1>4. CASE Healed(a)
  <2>1. [id |-> a, selector |-> site[wanted[a]]] \in Finds
    BY <1>1, <1>4 DEF Healed, BookTyped, LocatorsTypeOK, Finds
  <2>2. [id |-> a, selector |-> site[wanted[a]]].id # None
    BY LocatorsAssumption
  <2>3. QED BY <1>4, <2>1, <2>2, FoundKeeps DEF Healed
<1>5. QED BY <1>2, <1>3, <1>4, LockTakenKeeps, HealerAskedKeeps DEF Rediscovering

\* Neither the page nor the clock touches the book.
LEMMA SurroundingsKeep ==
  ASSUME LocatorsIInv, SiteMoves \/ SuspensionPasses, pc' = pc
  PROVE  LocatorsIInv'
<1>1. BookTyped /\ UNCHANGED <<pending, lock, phase, wanted, seenPending, unproven, tried>>
  BY DEF SiteMoves, SuspensionPasses, LocatorsIInv
<1>2. site' \in [Targets -> Selectors] /\ RecordTyped'
  <2>1. site \in [Targets -> Selectors] /\ RecordTyped
    BY <1>1 DEF BookTyped, LocatorsTypeOK, RecordTyped
  <2>2. CASE SiteMoves
    BY <2>1, <2>2 DEF SiteMoves, RecordTyped
  <2>3. CASE SuspensionPasses
    <3>1. PICK t \in Targets, suspended \in {"over", "no"} :
            record' = [record EXCEPT ![t].suspended = suspended]
      BY <2>3 DEF SuspensionPasses
    <3>2. [record[t] EXCEPT !.suspended = suspended]
            \in [selector : Selectors, failures : 0..Threshold,
                 suspended : {"no", "minute", "hour", "over"}]
      BY <2>1 DEF RecordTyped
    <3>3. QED BY <2>1, <2>3, <3>1, <3>2 DEF SuspensionPasses, RecordTyped
  <2>4. QED BY <2>2, <2>3
<1>3. \A t \in Targets : Refusal(t)' => Refusal(t)
  BY <1>1 DEF SiteMoves, SuspensionPasses, BookTyped, LocatorsTypeOK, Refusal
<1>4. BookTyped'
  BY <1>1, <1>2 DEF BookTyped, LocatorsTypeOK, RecordTyped
<1>5. ASSUME NEW b \in Asks PROVE Rediscovery(b)'
  <2>1. LocalsStay(b)
    BY <1>1 DEF LocalsStay
  <2>2. phase[b] # "none" => wanted[b] \in Targets
    BY <1>1 DEF LocatorsIInv, RediscoveryIInv, Rediscovery, BookTyped
  <2>3. phase[b] # "none" /\ ~Refusal(wanted[b]) => ~Refusal(wanted[b])'
    BY <1>1, <1>3, <2>2 DEF Refusal
  <2>4. QED BY <1>1, <2>1, <2>3, OtherKeeps DEF LocatorsIInv, RediscoveryIInv
<1>6. UnprovenIInv' /\ PendingIInv'
  BY <1>1 DEF LocatorsIInv, UnprovenIInv, PendingIInv, PendingHasAProver
<1>7. QED BY <1>4, <1>5, <1>6 DEF LocatorsIInv, RediscoveryIInv

\* Every step keeps what is said of the selector book.
LEMMA NextLocators == ASSUME StatesTyped, LocatorsIInv, [Next]_vars PROVE LocatorsIInv'
<1>1. ASSUME NEW a \in Asks, Step(a) \/ Surroundings(a) PROVE LocatorsIInv'
  <2>1. /\ MovesAlone(a)
        /\ \/ BookStays /\ (pc'[a] = pc[a] \/ phase[a] = "none")
           \/ /\ pc'[a] = pc[a] /\ pc[a] \in {"composer", "sending"}
              /\ \E t \in Targets : MayRediscover(a, t) /\ RediscoveryBegins(a, t)
           \/ Leaves(a)
           \/ Settles(a)
    BY <1>1, AskOnBook DEF LocatorsIInv
  <2>2. CASE BookStays /\ (pc'[a] = pc[a] \/ phase[a] = "none")
    <3>1. \A b \in Asks : pc'[b] = pc[b] \/ phase[b] = "none"
      BY <2>1, <2>2 DEF MovesAlone
    <3>2. QED BY <2>2, <3>1, BookStaysKeeps
  <2>3. QED BY <2>1, <2>2, BeginsKeeps, LeavesKeeps, SettlesKeeps
<1>2. CASE UNCHANGED vars
  <2>1. BookStays /\ pc' = pc
    BY <1>2 DEF vars, locatorVars, bookVars, turnVars, BookStays
  <2>2. QED BY <2>1, BookStaysKeeps
<1>3. UNCHANGED turnVars => pc' = pc
  BY DEF turnVars
<1>4. QED BY <1>1, <1>2, <1>3, RediscoveringKeeps, SurroundingsKeep DEF Next
-------------------------------------------------------------------------------
(* The inductive invariant *)

\* The initial state satisfies the invariant.
LEMMA InitIInv == Init => IInv
<1> SUFFICES ASSUME Init PROVE IInv
  OBVIOUS
<1>1. StatesTyped /\ EvidenceIsHonest /\ EvidenceIInv
  <2>1. StatesTyped
    BY DEF Init, StatesTyped, Stages, Processing, Prompts, Outcomes
  <2>2. QED BY <2>1 DEF Init, EvidenceIsHonest, EvidenceIInv, Evidence, Locked
<1>2. BookTyped
  <2>1. [selector |-> Seed, failures |-> 0, suspended |-> "no"]
          \in [selector : Selectors, failures : 0..Threshold,
               suspended : {"no", "minute", "hour", "over"}]
    BY LocatorsAssumption
  <2>2. record \in [Targets -> [selector : Selectors, failures : 0..Threshold,
                               suspended : {"no", "minute", "hour", "over"}]]
    BY <2>1 DEF Init, LocatorsInit
  <2>3. QED BY <2>2, LocatorsAssumption DEF Init, LocatorsInit, BookTyped, LocatorsTypeOK
<1>3. RediscoveryIInv /\ UnprovenIInv /\ PendingIInv
  BY DEF Init, LocatorsInit, RediscoveryIInv, Rediscovery, UnprovenIInv, PendingIInv,
     PendingHasAProver
<1>4. QED BY <1>1, <1>2, <1>3 DEF IInv

\* Every step keeps the invariant.
LEMMA NextIInv == IInv /\ [Next]_vars => IInv'
BY NextEvidence, NextLocators DEF IInv, LocatorsIInv

(* The invariant holds in every reachable state, for any asks, selectors and      *)
(* behaviour of the site.                                                         *)
THEOREM Invariance == Spec => []IInv
<1>1. QED BY InitIInv, NextIInv, PTL DEF Spec

(* What an ask reports of its prompt is true, wherever a deadline, a cancellation *)
(* or a refusal of the site ends it: the evidence is recorded before the click    *)
(* and confirmed by the echo (_click_send, _lock_user_echo), and an answer is     *)
(* taken only of a turn that has finished (extract_assistant_turn).               *)
THEOREM EvidenceIsHonestThm == Spec => []EvidenceIsHonest
<1>1. IInv => EvidenceIsHonest
  BY DEF IInv
<1>2. QED BY <1>1, Invariance, PTL

(* A locator that awaits its first use is in the hands of an ask that will prove  *)
(* or abandon it (LocatorBook.rediscover and the finally of run).                 *)
THEOREM PendingHasAProverThm == Spec => []PendingHasAProver
<1>1. IInv => PendingHasAProver
  BY DEF IInv, PendingIInv
<1>2. QED BY <1>1, Invariance, PTL

(* The language model is asked by one ask at a time for a target, and by none     *)
(* while its rediscovery is suspended or a find awaits its proof.                 *)
THEOREM HealerRespectsBreakerThm == Spec => []HealerRespectsBreaker
<1>1. IInv => HealerRespectsBreaker
  BY DEF IInv, BookTyped, RediscoveryIInv, Rediscovery, HealerRespectsBreaker
<1>2. QED BY <1>1, Invariance, PTL
-------------------------------------------------------------------------------
(***************************************************************************)
(* The attachments of an ask, for any files and any number of responses.   *)
(***************************************************************************)
Unread == [Files -> Nat]

EvidenceTyped ==
  /\ generation \in Nat /\ settledAt \in Nat
  /\ tasks \in [{"create", "processing"} -> Unread]
  /\ receipts \in [Files -> Nat]
  /\ metadataFailed \in BOOLEAN /\ processingFailed \in BOOLEAN
  /\ settledAt <= generation

\* What the revalidation found, which the awaits after it may make untrue.
Cleared ==
  /\ tasks = NoTasks
  /\ ~metadataFailed
  /\ creates = Cardinality(Files)
  /\ \A f \in Files : receipts[f] = 1 /\ "failed" \notin processing[f]

\* As long as no response has arrived since the settlement it is still true: a
\* callback that could spoil it would have to have a response to read.
StillCleared ==
  stage \in {"rereading", "rebinding", "rebound"} /\ generation = settledAt => Cleared

AttachmentsIInv == EvidenceTyped /\ StillCleared

\* The callbacks that have not read their response are one fewer or one more.
LEMMA UnreadCounts ==
  ASSUME tasks \in [{"create", "processing"} -> Unread],
         NEW kind \in {"create", "processing"}, NEW f \in Files
  PROVE  /\ [tasks EXCEPT ![kind][f] = @ + 1] \in [{"create", "processing"} -> Unread]
         /\ tasks[kind][f] > 0 => /\ [tasks EXCEPT ![kind][f] = @ - 1] \in [{"create", "processing"} -> Unread]
                                  /\ tasks # NoTasks
<1>1. tasks[kind] \in Unread /\ tasks[kind][f] \in Nat
  BY DEF Unread
<1>2. [tasks[kind] EXCEPT ![f] = @ + 1] \in Unread
  BY <1>1 DEF Unread
<1>3. tasks[kind][f] > 0 => [tasks[kind] EXCEPT ![f] = @ - 1] \in Unread
  BY <1>1 DEF Unread
<1>4. NoTasks[kind][f] = 0
  BY DEF NoTasks
<1>5. tasks[kind][f] > 0 => tasks # NoTasks
  BY <1>4
<1> HIDE DEF Unread
<1>6. QED BY <1>1, <1>2, <1>3, <1>5

\* A step that leaves the evidence alone, and begins no wait for the page that was
\* not already under way with the evidence cleared.
LEMMA EvidenceKept ==
  ASSUME AttachmentsIInv, UNCHANGED <<generation, settledAt, tasks, creates, receipts,
                                      metadataFailed, processing>>,
         processingFailed' \in BOOLEAN,
         \/ stage' \notin {"rereading", "rebinding", "rebound"}
         \/ stage \in {"rereading", "rebinding", "rebound"}
         \/ Cleared
  PROVE  AttachmentsIInv'
BY DEF AttachmentsIInv, EvidenceTyped, StillCleared, Cleared, NoTasks

\* A response that arrives makes the settlement out of date for good.
LEMMA ResponseOutdates ==
  ASSUME AttachmentsIInv, ResponseArrives
  PROVE  AttachmentsIInv'
<1>1. tasks' \in [{"create", "processing"} -> Unread]
  <2>1. PICK f \in Files, kind \in {"create", "processing"} : tasks' = [tasks EXCEPT ![kind][f] = @ + 1]
    BY DEF ResponseArrives
  <2>2. QED BY <2>1, UnreadCounts DEF AttachmentsIInv, EvidenceTyped
<1>2. generation' = generation + 1
  BY DEF ResponseArrives
<1>3. UNCHANGED <<settledAt, receipts, metadataFailed, processingFailed>>
  BY DEF ResponseArrives
<1>4. EvidenceTyped'
  BY <1>1, <1>2, <1>3 DEF AttachmentsIInv, EvidenceTyped
<1>5. generation' # settledAt'
  BY <1>2, <1>3 DEF AttachmentsIInv, EvidenceTyped
<1>6. QED BY <1>4, <1>5 DEF AttachmentsIInv, StillCleared

\* A callback that reads its response was counted among the unread ones, so what
\* was cleared has been outdated already.
LEMMA ReadsKeep ==
  ASSUME AttachmentsIInv, ReceiptRead \/ ProcessingRead
  PROVE  AttachmentsIInv'
<1>1. PICK kind \in {"create", "processing"}, f \in Files :
        tasks[kind][f] > 0 /\ tasks' = [tasks EXCEPT ![kind][f] = @ - 1]
  BY DEF ReceiptRead, ProcessingRead
<1>2. tasks' \in [{"create", "processing"} -> Unread] /\ tasks # NoTasks
  BY <1>1, UnreadCounts DEF AttachmentsIInv, EvidenceTyped
<1>3. receipts' \in [Files -> Nat]
  <2>1. receipts' = receipts \/ \E g \in Files : receipts' = [receipts EXCEPT ![g] = @ + 1]
    BY DEF ReceiptRead, ProcessingRead
  <2>2. QED BY <2>1 DEF AttachmentsIInv, EvidenceTyped
<1>4. metadataFailed' \in BOOLEAN /\ processingFailed' \in BOOLEAN
  BY DEF AttachmentsIInv, EvidenceTyped, ReceiptRead, ProcessingRead
<1>5. UNCHANGED <<stage, generation, settledAt>>
  BY DEF ReceiptRead, ProcessingRead
<1>6. EvidenceTyped'
  BY <1>2, <1>3, <1>4, <1>5 DEF AttachmentsIInv, EvidenceTyped
<1>7. StillCleared'
  BY <1>2, <1>5 DEF AttachmentsIInv, StillCleared, Cleared
<1>8. QED BY <1>6, <1>7 DEF AttachmentsIInv

\* What a check finds complete is complete: the failures of a file count against
\* its processing, also when it was never reported complete.
LEMMA CompleteIsSound ==
  ASSUME NEW f \in Files, Complete(f)
  PROVE  receipts[f] > 0 /\ "failed" \notin processing[f]
BY DEF Complete

\* Nothing is unread when neither kind has an unread response.
LEMMA NothingUnread ==
  ASSUME AttachmentsIInv, Idle("create"), Idle("processing")
  PROVE  tasks = NoTasks
<1>1. \A kind \in {"create", "processing"} : tasks[kind] = [f \in Files |-> 0]
  BY DEF Idle, AttachmentsIInv, EvidenceTyped, Unread
<1>2. QED BY <1>1 DEF NoTasks, AttachmentsIInv, EvidenceTyped

\* The settlement sees all there is to see.
LEMMA SettledIsComplete ==
  ASSUME AttachmentsIInv, BindingsRead, stage' = "settled"
  PROVE  EvidenceIsComplete
<1>1. ~processingFailed /\ ExactAttribution /\ NoProcessingPending /\ AllQualified
  BY DEF BindingsRead
<1>2. tasks = NoTasks
  BY <1>1, NothingUnread DEF ExactAttribution, NoProcessingPending
<1>3. \A f \in Files : "failed" \notin processing[f] /\ f \in bound
  BY <1>1, CompleteIsSound DEF AllQualified, CompleteFiles
<1>4. QED BY <1>1, <1>2, <1>3 DEF EvidenceIsComplete, ExactAttribution

\* So does the check of the revalidation, before its reads of the page.
LEMMA CheckedIsCleared ==
  ASSUME AttachmentsIInv, EvidenceChecked, stage' = "rereading"
  PROVE  Cleared
<1>1. /\ tasks = NoTasks /\ ~metadataFailed
      /\ ExactAttribution /\ CompleteFiles = Files
  BY DEF EvidenceChecked, Refuse
<1>2. \A f \in Files : "failed" \notin processing[f]
  BY <1>1, CompleteIsSound DEF CompleteFiles
<1>3. QED BY <1>1, <1>2 DEF Cleared, ExactAttribution

\* The evidence stays typed, and what was cleared stays so or is out of date.
LEMMA AttachmentsStep ==
  AttachmentsIInv /\ [AttachmentsNext]_attachmentVars => AttachmentsIInv'
<1> SUFFICES ASSUME AttachmentsIInv, [AttachmentsNext]_attachmentVars
             PROVE  AttachmentsIInv'
  OBVIOUS
<1>1. CASE ResponseArrives
  BY <1>1, ResponseOutdates
<1>2. CASE ReceiptRead \/ ProcessingRead
  BY <1>2, ReadsKeep
<1>3. CASE CardChanges
  <2>1. UNCHANGED <<stage, generation, settledAt, tasks, creates, receipts, metadataFailed,
                    processingFailed, processing>>
    BY <1>3 DEF CardChanges, evidence
  <2>2. QED BY <2>1, EvidenceKept DEF AttachmentsIInv, EvidenceTyped
<1>4. CASE Drop \/ PollBegins \/ StateRead \/ RevalidationBegins \/ Click
  <2>1. /\ UNCHANGED <<generation, settledAt, tasks, creates, receipts, metadataFailed,
                       processingFailed, processing>>
        /\ stage' \in {"polling", "reading", "over", "binding", "awaiting", "clicked"}
    BY <1>4 DEF Drop, PollBegins, StateRead, RevalidationBegins, Click, evidence
  <2>2. QED BY <2>1, EvidenceKept DEF AttachmentsIInv, EvidenceTyped
<1>5. CASE Snapshot("binding", "bound") \/ Snapshot("rebinding", "rebound")
  <2>1. /\ UNCHANGED <<generation, settledAt, tasks, creates, receipts, metadataFailed, processing>>
        /\ stage' = "bound" \/ stage = "rebinding"
        /\ processingFailed' = (processingFailed \/ \E f \in Files : card[f] = "failed")
    BY <1>5 DEF Snapshot
  <2>2. QED BY <2>1, EvidenceKept DEF AttachmentsIInv, EvidenceTyped
<1>6. CASE BindingsRead
  <2>1. /\ UNCHANGED <<generation, tasks, creates, receipts, metadataFailed, processingFailed, processing>>
        /\ stage' \in {"over", "settled", "polling"}
        /\ settledAt' \in {settledAt, generation}
    BY <1>6 DEF BindingsRead, evidence
  <2>2. QED BY <2>1 DEF AttachmentsIInv, EvidenceTyped, StillCleared
<1>7. CASE EvidenceChecked
  <2>1. /\ UNCHANGED <<generation, settledAt, tasks, creates, receipts, metadataFailed,
                       processingFailed, processing>>
        /\ stage' \in {"rereading", "over"}
    BY <1>7 DEF EvidenceChecked, Refuse, evidence
  <2>2. QED BY <1>7, <2>1, CheckedIsCleared, EvidenceKept DEF AttachmentsIInv, EvidenceTyped
<1>8. CASE StateReread \/ BindingsReread
  <2>1. /\ UNCHANGED <<generation, settledAt, tasks, creates, receipts, metadataFailed,
                       processingFailed, processing>>
        /\ stage \in {"rereading", "rebound"}
    BY <1>8 DEF StateReread, BindingsReread, Refuse, evidence
  <2>2. QED BY <2>1, EvidenceKept DEF AttachmentsIInv, EvidenceTyped
<1>9. CASE Closed
  <2>1. /\ UNCHANGED <<generation, settledAt, receipts, metadataFailed, processingFailed>>
        /\ tasks' = NoTasks /\ stage' = "over"
    BY <1>9 DEF Closed
  <2>2. NoTasks \in [{"create", "processing"} -> Unread]
    BY DEF NoTasks, Unread
  <2>3. QED BY <2>1, <2>2 DEF AttachmentsIInv, EvidenceTyped, StillCleared
<1>10. CASE UNCHANGED attachmentVars
  BY <1>10, EvidenceKept DEF attachmentVars, AttachmentsIInv, EvidenceTyped
<1>11. QED
  BY <1>1, <1>2, <1>3, <1>4, <1>5, <1>6, <1>7, <1>8, <1>9, <1>10 DEF AttachmentsNext

\* Nothing is uploaded to begin with.
LEMMA AttachmentsBegin == AttachmentsInit => AttachmentsIInv
<1>1. NoTasks \in [{"create", "processing"} -> Unread]
  BY DEF NoTasks, Unread
<1>2. [f \in Files |-> 0] \in [Files -> Nat]
  OBVIOUS
<1>3. AttachmentsInit => EvidenceTyped
  <2>1. AttachmentsInit => tasks = NoTasks /\ receipts = [f \in Files |-> 0]
    BY DEF AttachmentsInit
  <2>2. AttachmentsInit => metadataFailed \in BOOLEAN /\ processingFailed \in BOOLEAN
    BY Zenon DEF AttachmentsInit
  <2>3. AttachmentsInit => generation = 0 /\ settledAt = 0
    BY DEF AttachmentsInit
  <2>4. QED BY <1>1, <1>2, <2>1, <2>2, <2>3 DEF EvidenceTyped
<1>4. AttachmentsInit => StillCleared
  BY DEF AttachmentsInit, StillCleared
<1>5. QED BY <1>3, <1>4 DEF AttachmentsIInv

\* The invariant holds in every reachable state.
THEOREM AttachmentsInvariance == AttachmentsSpec => []AttachmentsIInv
<1>1. QED BY AttachmentsBegin, AttachmentsStep, PTL DEF AttachmentsSpec

(* An upload is taken for settled, and a send is cleared, only when everything    *)
(* that has arrived was read and nothing of it speaks against a file: a response  *)
(* that comes between the awaits of a revalidation makes it refuse                *)
(* (attach_files, revalidate_observation).                                        *)
THEOREM OnlyCompleteEvidencePassesThm == AttachmentsSpec => OnlyCompleteEvidencePasses
<1>1. ASSUME AttachmentsIInv, [AttachmentsNext]_attachmentVars
      PROVE  [stage' # stage /\ stage' \in {"settled", "cleared"} => EvidenceIsComplete]_attachmentVars
  <2>1. SUFFICES ASSUME AttachmentsNext, stage' # stage, stage' \in {"settled", "cleared"}
                 PROVE  EvidenceIsComplete
    BY <1>1
  <2>2. (BindingsRead /\ stage' = "settled") \/ (BindingsReread /\ stage' = "cleared")
    BY <2>1 DEF AttachmentsNext, CardChanges, ResponseArrives, ReceiptRead, ProcessingRead, Drop, PollBegins,
                StateRead, Snapshot, BindingsRead, RevalidationBegins, EvidenceChecked, StateReread,
                BindingsReread, Click, Closed, Refuse
  <2>3. CASE BindingsReread /\ stage' = "cleared"
    <3>1. stage = "rebound" /\ generation = settledAt /\ ~processingFailed /\ AllQualified
      BY <2>3 DEF BindingsReread, Refuse, Untouched
    <3>2. Cleared
      BY <1>1, <3>1 DEF AttachmentsIInv, StillCleared
    <3>3. QED BY <3>1, <3>2 DEF Cleared, EvidenceIsComplete, AllQualified
  <2>4. QED BY <1>1, <2>2, <2>3, SettledIsComplete
<1>2. QED BY <1>1, AttachmentsInvariance, PTL DEF AttachmentsSpec, OnlyCompleteEvidencePasses
===============================================================================
