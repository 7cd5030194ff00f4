---------------------------- MODULE ResponseStream ----------------------------
(***************************************************************************)
(* One streamed answer of a Responses backend on its way to the client:    *)
(* the translator of translate/codex_to_claude.py with validated calls,    *)
(* _translate_claude_sse and _with_responses_heartbeats of                 *)
(* relay/openai_backend.py around it.                                      *)
(*                                                                         *)
(* The backend sends message, reasoning and search items, and function     *)
(* calls whose events come between them and between one another.  Items of *)
(* the kinds in Interleaved also overlap: they start while the text part   *)
(* of a message is open, and are gone back to when another item has        *)
(* started.  The others come one after the other, when all text parts have *)
(* ended.  Any event of a call may leave out any of the call's             *)
(* identities; a call is announced by an added event or comes whole.       *)
(* Arguments are sequences of pieces, a text is one delta.                 *)
(***************************************************************************)
EXTENDS MessageHistory

CONSTANTS Calls,    \* the function calls of the answer, 1..n
          MaxOutput, \* bound: the output items, calls and reasoning items counted twice, and
                     \* one that starts within an open text part, as it starts, two more
          Pieces,   \* bound: the argument deltas of a call
          Reveals,  \* the sets of identities that an event may carry
          Interleaved \* the kinds of items that the backend sends among others

ASSUME KindsAssumption == Interleaved \subseteq {"message", "reasoning", "search"}

VARIABLES
  said,   \* the backend: what it has sent of each call
  item,   \* the backend: the other item that it is sending
  left,   \* the backend: the items that it may go back to
  order,  \* the backend: its items, in the order of their output index
  tr,     \* the translator, with the events that are not yielded yet
  client, \* what the client has read
  closed  \* the upstream stream was closed

vars == <<said, item, left, order, tr, client, closed>>
backend == <<said, item, left, order>>

Whole(c) == [k \in 1..Pieces |-> c]
Wholes == {Whole(c) : c \in Calls}
IndexOf(x) == IF \E k \in 1..Len(order) : order[k] = x
              THEN (CHOOSE k \in 1..Len(order) : order[k] = x) - 1 ELSE Len(order)

CallIndex(c) == IndexOf(<<"call", c>>)

(* A loop over a list that begins with s: FoldLeft, as a function of the   *)
(* number of elements that were looked at.                                 *)
Looped(Body(_, _), s, list) ==
  LET after[n \in 0..Len(list)] == IF n = 0 THEN s ELSE Body(after[n - 1], list[n])
  IN  after[Len(list)]

(***************************************************************************)
(* The events of the translator.                                           *)
(***************************************************************************)
Block(i, k, of) == [ev |-> "open", at |-> i, kind |-> k, data |-> of]
Delta(i, k, of) == [ev |-> "delta", at |-> i, kind |-> k, data |-> of]
Close(i) == [ev |-> "close", at |-> i, kind |-> None, data |-> None]
Plain(e) == [ev |-> e, at |-> None, kind |-> None, data |-> None]

Emit(s, events) == [s EXCEPT !.out = @ \o events]
Raise(s) == [s EXCEPT !.raised = TRUE]

(* One block that is opened and closed at once. *)
Complete(s, kind, of, deltas) ==
  [Emit(s, <<Block(s.index, kind, of)>> \o deltas \o <<Close(s.index)>>) EXCEPT !.index = @ + 1]

StartText(s) ==
  IF s.text THEN s ELSE [Emit(s, <<Block(s.index, "text", << >>)>>) EXCEPT !.text = TRUE]
StopText(s) ==
  IF ~s.text THEN s ELSE [Emit(s, <<Close(s.index)>>) EXCEPT !.text = FALSE, !.index = @ + 1]
StartThinking(s) ==
  IF s.thinking THEN s
  ELSE [Emit(s, <<Block(s.index, "thinking", << >>)>>) EXCEPT !.thinking = TRUE]
FinalizeThinking(s) ==
  IF ~s.thinking THEN s
  ELSE [Emit(s, (IF s.signature THEN <<Delta(s.index, "signature", Encrypted)>> ELSE << >>)
                \o <<Close(s.index)>>) EXCEPT !.thinking = FALSE, !.index = @ + 1]
FinalizeOpenBlocks_LeavesText(s) == FinalizeThinking(s)
FinalizeOpenBlocks(s) == StopText(FinalizeThinking(s))

(***************************************************************************)
(* Text: a part that was streamed is not repeated from a snapshot.         *)
(***************************************************************************)
Say(s, n) ==
  LET t == StartText(FinalizeThinking([s EXCEPT !.parts = @ \union {n}]))
  IN Emit(t, <<Delta(t.index, "text", n)>>)
PartAdded(s) == StartText(FinalizeThinking(s))
SayOnce(s, n) == IF n \in s.parts THEN s ELSE Say(s, n)
PartDone(s, n) == StopText(SayOnce(s, n))
MessageFallback_Repeats(s, n) == StopText(Say(s, n))
MessageFallback(s, n) == IF n \in s.parts THEN s ELSE StopText(Say(s, n))

(***************************************************************************)
(* Reasoning, and the search of the backend.                               *)
(***************************************************************************)
ReasoningAdded(s, signed) ==
  [FinalizeThinking(s) EXCEPT !.summary = FALSE, !.signature = signed]
SummaryPart(s) ==
  IF s.thinking THEN Emit([s EXCEPT !.summary = TRUE], <<Delta(s.index, "thinking", None)>>)
  ELSE StartThinking([s EXCEPT !.summary = TRUE])
SummaryText(s) ==
  LET t == StartThinking(s) IN Emit(t, <<Delta(t.index, "thinking", None)>>)
ReasoningDone(s, signed) ==
  LET t == [s EXCEPT !.signature = @ \/ signed]
      u == IF t.summary THEN FinalizeThinking(t)
           ELSE IF ~t.signature THEN t ELSE FinalizeThinking(StartThinking(t))
  IN [u EXCEPT !.signature = FALSE, !.summary = FALSE]
ServerToolUse(s, n) ==
  IF n \in s.searches THEN s
  ELSE [Complete(FinalizeThinking(s), "search", n, << >>) EXCEPT !.searches = @ \union {n}]
SearchDone(s, n, hasResult) ==
  LET t == ServerToolUse(s, n)
  IN IF n \in t.results \/ ~hasResult THEN t
     ELSE [Complete(t, "result", n, << >>) EXCEPT !.results = @ \union {n}]

(***************************************************************************)
(* Validated calls.  An event e of a call has its type, the identities     *)
(* that it carries, and perhaps a name, the arguments and a signature.     *)
(***************************************************************************)
NewCall == [call |-> None, item |-> None, index |-> None, named |-> FALSE, args |-> << >>,
            streamed |-> FALSE, whole |-> FALSE, sent |-> FALSE, sig |-> None, tool |-> None]

Agree(x, y) == x = None \/ y = None \/ x = y

(* _buffered_call_for_event: the calls that the event may be about.  The   *)
(* terminal response has its listed calls matched one after the other.     *)
Exact(s, e) == {k \in 1..Len(s.calls) :
                  \/ e.call # None /\ s.calls[k].call = e.call
                  \/ e.item # None /\ s.calls[k].item = e.item
                  \/ e.index # None /\ s.calls[k].index = e.index}
Loose(s, e, listed) ==
  {k \in 1..Len(s.calls) \ s.matched :
     /\ Agree(s.calls[k].call, e.call) /\ Agree(s.calls[k].item, e.item)
     /\ Agree(s.calls[k].index, e.index)
     /\ \/ ~s.calls[k].sent \/ listed
        \/ e.call # None \/ e.item # None \/ e.index # None}
Matches_First(s, e, listed) ==
  LET may == IF Exact(s, e) # {} \/ e.type = "added" THEN Exact(s, e) ELSE Loose(s, e, listed)
  IN {k \in may : \A j \in may : k <= j}
Matches(s, e, listed) ==
  IF Exact(s, e) # {} \/ e.type = "added" THEN Exact(s, e) ELSE Loose(s, e, listed)

(* The identities of the event are kept; s.at is the call it is about. *)
Known(x, y) == IF y = None THEN x ELSE y
Learnt(c, e, index) == [c EXCEPT !.call = Known(@, e.call), !.item = Known(@, e.item),
                                 !.index = Known(@, index), !.named = @ \/ e.named]
SameCall(c, e) == Agree(c.call, e.call) /\ Agree(c.item, e.item) /\ Agree(c.index, e.index)
IdentifiedAs(s, e, found, position) ==
  IF found = {}
  THEN [s EXCEPT !.at = Len(s.calls) + 1,
                 !.calls = Append(@, Learnt(NewCall, e, Known(position, e.index)))]
  ELSE LET k == CHOOSE j \in found : TRUE
       IN IF found = {k} /\ SameCall(s.calls[k], e)
          THEN [s EXCEPT !.at = k, !.calls[k] = Learnt(@, e, e.index)]
          ELSE Raise(s)
Identified(s, e, listed, position) ==
  IF Exact(s, e) \intersect s.matched # {} THEN Raise(s)
  ELSE IdentifiedAs(s, e, Matches(s, e, listed), position)

(* _carrier_thinking_block_events, _retain_closed_function_call *)
Carrier(s, tool, sig) ==
  IF tool \in s.carried \/ Encoded(Provider, tool, sig) = None THEN s
  ELSE [Complete(s, "carrier", << >>, <<Delta(s.index, "signature", Encoded(Provider, tool, sig))>>)
          EXCEPT !.carried = @ \union {tool}]
Retain(s, c) ==
  IF c.tool \in s.carried \/ \E d \in Range(s.retained) : d.tool = c.tool THEN s
  ELSE [s EXCEPT !.retained = Append(@, c)]

(* The body of the loop of _flush_validated_function_calls. *)
ToolOfCall(c, k) == IF c.call = None THEN <<"generated", k>> ELSE <<"call", c.call>>
ToolBlock(s, tool, args) == Complete(s, "tool", tool, <<Delta(s.index, "tool", args)>>)
SendAs(s, k, c) ==
  IF s.raised \/ c.args \notin Wholes \/ c.tool \in s.tools THEN Raise(s)
  ELSE Retain(Carrier([ToolBlock(FinalizeOpenBlocks(s), c.tool, c.args)
                         EXCEPT !.calls[k] = c, !.tools = @ \union {c.tool}], c.tool, c.sig), c)
SendCall(s, k) ==
  SendAs(s, k, [s.calls[k] EXCEPT !.tool = ToolOfCall(s.calls[k], k), !.sent = TRUE])
Flush(s) ==
  LET Held(k) == ~s.calls[k].whole \/ ~s.calls[k].named
      ready == SelectSeq([k \in 1..Len(s.calls) |-> k],
                         LAMBDA k : ~s.calls[k].sent /\ \A j \in 1..k : s.calls[j].sent \/ ~Held(j))
  IN Looped(SendCall, s, ready)

(* _buffer_function_call_event.  Arguments that were sent may not change;  *)
(* an added snapshot never replaces arguments, a completion does.          *)
Adopts(c, e) == e.args # None /\ (e.type # "added" \/ ~(c.streamed \/ c.args # << >>))
AdoptsSignature(c, e) ==
  /\ e.sig # None
  /\ c.call # None \/ c.item # None \/ c.index # None \/ e.type = "added"
BufferedAs(s, c, d, e) ==
  IF \/ Adopts(c, e) /\ c.sent /\ e.args # c.args
     \/ e.type = "done" /\ (~e.finished \/ (d.named /\ d.args \notin Wholes))
  THEN Raise(s)
  ELSE [s EXCEPT !.calls[s.at] = d,
                 !.retained = [j \in 1..Len(@) |->
                    IF c.sent /\ @[j].tool = c.tool
                    THEN [@[j] EXCEPT !.call = d.call, !.item = d.item] ELSE @[j]]]
Adopted(c, e) == [c EXCEPT !.args = IF Adopts(c, e) /\ ~c.sent THEN e.args ELSE @,
                           !.sig = IF AdoptsSignature(c, e) THEN e.sig ELSE @,
                           !.whole = @ \/ e.type = "done"]
Buffered(s, e) ==
  IF s.raised THEN s ELSE BufferedAs(s, s.calls[s.at], Adopted(s.calls[s.at], e), e)
Streamed(c, e) == [c EXCEPT !.args = IF c.streamed THEN @ \o e.args ELSE e.args, !.streamed = TRUE]
BufferDelta(s, e) ==
  IF s.raised \/ s.calls[s.at].whole THEN Raise(s) ELSE [s EXCEPT !.calls[s.at] = Streamed(@, e)]
FlushUnlessRaised(s) == IF s.raised THEN s ELSE Flush(s)
BufferEvent(s, e) ==
  CASE e.type = "delta" -> BufferDelta(Identified(s, e, FALSE, None), e)
    [] e.type = "done"  -> FlushUnlessRaised(Buffered(Identified(s, e, FALSE, None), e))
    [] OTHER            -> Buffered(Identified(s, e, FALSE, None), e)

(***************************************************************************)
(* The terminal response lists its output items, or none: a call with an   *)
(* event of its own, a message, or another item.                           *)
(***************************************************************************)
Positions(list, kind) == SelectSeq([p \in 1..Len(list) |-> p], LAMBDA p : list[p].kind = kind)

(* _flush_buffered_calls_from_terminal: a listed call is identified twice, *)
(* by its place in the list and then by what is known of the call found.   *)
ListedAs(s, t, e, incomplete) ==
  LET c == t.calls[t.at]
      f == [e EXCEPT !.index = Known(@, c.index)]
  IN IF s.raised \/ t.raised \/ (incomplete /\ ~c.whole /\ ~e.finished) THEN Raise(s)
     ELSE [Buffered(Identified([t EXCEPT !.matched = {}], f, FALSE, None), f)
             EXCEPT !.matched = s.matched \union {t.at}]
ListedCall(s, e, position, incomplete) ==
  ListedAs(s, Identified(s, e, TRUE, position), e, incomplete)
FlushComplete(s) ==
  IF s.raised \/ \E k \in 1..Len(s.calls) : ~s.calls[k].whole \/ ~s.calls[k].named
  THEN Raise(s) ELSE Flush(s)
FlushListed(s, list, incomplete) ==
  FlushComplete(Looped(LAMBDA t, p : ListedCall(t, list[p].e, p - 1, incomplete),
                       s, Positions(list, "call")))

(* _emit_closed_call_carriers_from_terminal: a signature that came late. *)
IsOf(e, position, d) ==
  IF d.call # None /\ e.call # None THEN d.call = e.call
  ELSE IF d.item # None /\ e.item # None THEN d.item = e.item
  ELSE d.index # None /\ d.index = (IF e.index = None THEN position ELSE e.index)
LateCarrierOf(s, e, found) ==
  IF found = << >> THEN s
  ELSE Carrier([s EXCEPT !.retained = SelectSeq(@, LAMBDA x : x # found[1])], found[1].tool,
               Known(found[1].sig, e.sig))
LateCarrier(s, e, position) ==
  LateCarrierOf(s, e, SelectSeq(s.retained, LAMBDA d : IsOf(e, position, d)))

(* The translator before its first event; that one was read ahead.  Nothing *)
(* is read after the end, and what the translator knew is forgotten.       *)
Fresh == [out |-> <<Plain("start")>>, raised |-> FALSE, index |-> 0, text |-> FALSE,
          thinking |-> FALSE, signature |-> FALSE, summary |-> FALSE, parts |-> {},
          searches |-> {}, results |-> {}, calls |-> << >>, at |-> 0, matched |-> {},
          tools |-> {}, carried |-> {}, retained |-> << >>]
(* _release_call_signature_retention *)
Released(s) == [Fresh EXCEPT !.out = s.out, !.parts = s.parts]
FallBack(s, list) ==
  Looped(LAMBDA t, p : MessageFallback(t, p - 1), s, Positions(list, "message"))
LateCarriers(s, list) ==
  Looped(LAMBDA t, p : LateCarrier(t, list[p].e, p - 1), s, Positions(list, "call"))
StopUnlessRaised(s, list) ==
  IF s.raised THEN s
  ELSE Released(Emit(FallBack(LateCarriers(FinalizeOpenBlocks(s), list), list), <<Plain("stop")>>))
Completed(s, list, incomplete) == StopUnlessRaised(FlushListed(s, list, incomplete), list)

(***************************************************************************)
(* The relay.  The next upstream event is read when all the translated     *)
(* events of the last one were yielded; a TranslationError is an error     *)
(* event, and the last one.                                                *)
(***************************************************************************)
Unsaid == [begun |-> FALSE, pieces |-> 0, named |-> FALSE, done |-> FALSE]
NoItem == [n |-> 0, kind |-> None, stage |-> None]
Broken == [Fresh EXCEPT !.out = <<Plain("error")>>, !.raised = TRUE]

Init ==
  /\ said = [c \in Calls |-> Unsaid]
  /\ item = NoItem /\ left = {}
  /\ order = << >>
  /\ tr = Fresh
  /\ client = [started |-> FALSE, blocks |-> << >>, open |-> {}, ending |-> "none"]
  /\ closed = FALSE

Reads == tr.out = << >> /\ ~tr.raised /\ ~closed
Feeds(s) ==
  /\ tr' = IF s.raised THEN Broken ELSE [s EXCEPT !.at = 0]
  /\ UNCHANGED <<client, closed>>

(***************************************************************************)
(* The backend's other items, numbered by their place in the answer.  The  *)
(* end of a reasoning item may be missing.                                 *)
(***************************************************************************)
Weight(kind) == IF kind \in {"call", "reasoning"} THEN 2 ELSE 1
PartsEnded == \A x \in left \union {item} : x.kind = "message" => x.stage = "closed"
Overlap(kind) == IF PartsEnded \/ kind = "call" THEN 0 ELSE 2
Fits(kind) ==
  FoldLeft(LAMBDA n, x : n + Weight(x[1]), Weight(kind) + Overlap(kind), order) <= MaxOutput
Left == left \union {x \in {item} : x.kind \in Interleaved /\ x.stage # "closed"}
Starts(kind, stage) ==
  /\ Reads /\ Fits(kind)
  /\ kind \in Interleaved \/ PartsEnded
  /\ item' = [n |-> Len(order) + 1, kind |-> kind, stage |-> stage]
  /\ left' = Left
  /\ order' = Append(order, <<kind, Len(order) + 1>>)
  /\ UNCHANGED said
Goes(kind, from, to) ==
  /\ Reads /\ item.kind = kind /\ item.stage = from
  /\ item' = [item EXCEPT !.stage = to]
  /\ UNCHANGED <<said, left, order>>
GoesBack(x) ==
  /\ Reads
  /\ item' = x /\ left' = Left \ {x}
  /\ UNCHANGED <<said, order, tr, client, closed>>
ItemIndex == item.n - 1

StartReasoning(signed) == Starts("reasoning", "new") /\ Feeds(ReasoningAdded(tr, signed))
AddSummaryPart ==
  /\ Goes("reasoning", "new", "part") \/ Goes("reasoning", "said", "more")
  /\ Feeds(SummaryPart(tr))
SaySummary ==
  /\ Goes("reasoning", "new", "said") \/ Goes("reasoning", "part", "said")
  /\ Feeds(SummaryText(tr))
EndReasoning(signed) ==
  /\ \E stage \in {"new", "part", "said", "more"} : Goes("reasoning", stage, "closed")
  /\ Feeds(ReasoningDone(tr, signed))

StartMessage == Starts("message", "new") /\ Feeds(PartAdded(tr))
SayText == Goes("message", "new", "said") /\ Feeds(Say(tr, ItemIndex))
StartWithText == Starts("message", "said") /\ Feeds(Say(tr, Len(order)))
EndPart ==
  /\ Goes("message", "new", "closed") \/ Goes("message", "said", "closed")
  /\ Feeds(PartDone(tr, ItemIndex))
EndMessage == Goes("message", "closed", "closed") /\ Feeds(MessageFallback(tr, ItemIndex))
WholeMessage == Starts("message", "closed") /\ Feeds(MessageFallback(tr, Len(order)))

Search(hasResult) ==
  Starts("search", "closed") /\ Feeds(SearchDone(tr, Len(order) + 1, hasResult))
RepeatSearch(hasResult) ==
  Goes("search", "closed", "closed") /\ Feeds(SearchDone(tr, item.n, hasResult))

(***************************************************************************)
(* The backend's calls.                                                    *)
(***************************************************************************)
Event(type, c, ids, index, named, args, sig, finished) ==
  [type |-> type, call |-> IF "call" \in ids THEN c ELSE None,
   item |-> IF "item" \in ids THEN c ELSE None, index |-> IF "index" \in ids THEN index ELSE None,
   named |-> named, args |-> args, sig |-> sig, finished |-> finished]
Identities == {"call", "item", "index"}
Done(c, ids, index, full, finished) ==  \* full: with the arguments and the signature
  Event("done", c, ids, index, TRUE, IF full THEN Whole(c) ELSE None, IF full THEN c ELSE None,
        finished)

(* What the backend may say of call c now.  The calls are numbered in the *)
(* order in which they appear, and a name that was missing is told once.  *)
IsNext(c) == Fits("call") /\ ~said[c].begun /\ \A d \in Calls : d < c => said[d].begun
Announcements(c) ==
  {Event("added", c, ids, CallIndex(c), named, None, None, TRUE) : ids \in Reveals, named \in BOOLEAN}
WholeCalls(c, reveals) ==
  {Done(c, ids, CallIndex(c), full, finished) : ids \in reveals, full \in BOOLEAN, finished \in BOOLEAN}
Arguments(c) ==
  (IF said[c].pieces = Pieces THEN {}
   ELSE {Event("delta", c, ids, CallIndex(c), FALSE, <<c>>, None, TRUE) : ids \in Reveals})
  \union
  (IF said[c].pieces \notin {0, Pieces} THEN {}
   ELSE {Event("argsdone", c, ids, CallIndex(c), FALSE, Whole(c), None, TRUE) : ids \in Reveals})
LateNames(c) ==
  IF said[c].named THEN {}
  ELSE {Event("added", c, Identities, CallIndex(c), TRUE, << >>, None, TRUE)}

SayCall(c, e) ==
  /\ Feeds(BufferEvent(tr, e))
  /\ said' = [said EXCEPT ![c] =
       [begun |-> TRUE, named |-> @.named \/ e.named, done |-> e.type = "done",
        pieces |-> CASE e.type = "delta" -> @.pieces + 1
                     [] e.type = "argsdone" -> Pieces
                     [] OTHER -> @.pieces]]
  /\ order' = IF said[c].begun THEN order ELSE Append(order, <<"call", c>>)
  /\ UNCHANGED <<item, left>>

(* The list has all the items, or the calls alone, whose places then are   *)
(* not their output indices; it may show calls that were never announced.  *)
InOrder(calls) == SetToSeq({<<"call", c>> : c \in calls})
Listed(which, calls, ids, full, finished) ==
  LET shown == order \o InOrder(calls)
      Entry(p) == [kind |-> shown[p][1],
                   e |-> IF shown[p][1] = "call" THEN Done(shown[p][2], ids, p - 1, full, finished) ELSE None]
      all == [p \in 1..Len(shown) |-> Entry(p)]
  IN CASE which = "none" -> << >>
       [] which = "calls" -> SelectSeq(all, LAMBDA x : x.kind = "call")
       [] OTHER -> all
Terminal(which, calls, ids, full) ==
  /\ Reads
  /\ which \in {"none", "incomplete"} => calls = {} /\ full /\ ids = CHOOSE x \in Reveals : TRUE
  /\ Feeds(Completed(tr, Listed(which, calls, ids, full, which # "incomplete"),
                     which = "incomplete"))
  /\ said' = [c \in Calls |-> [Unsaid EXCEPT !.begun = said[c].begun \/ c \in calls]]
  /\ order' = order \o InOrder(calls)
  /\ item' = NoItem /\ left' = {}

(* response.failed, error, a failed read, the end of the stream: an error *)
Fails ==
  /\ Reads
  /\ tr' = Broken
  /\ UNCHANGED <<backend, client, closed>>

(***************************************************************************)
(* The client's end of the relay.                                          *)
(***************************************************************************)
Read(e) ==
  CASE e.ev = "start" -> [client EXCEPT !.started = TRUE]
    [] e.ev = "open"  -> [client EXCEPT !.open = @ \union {e.at},
                            !.blocks = [i \in DOMAIN @ \union {e.at} |->
                               IF i = e.at THEN [kind |-> e.kind, of |-> e.data, got |-> << >>] ELSE @[i]]]
    [] e.ev = "delta" -> [client EXCEPT !.blocks[e.at].got = Append(@, e.data)]
    [] e.ev = "close" -> [client EXCEPT !.open = @ \ {e.at}]
    [] e.ev = "stop"  -> [client EXCEPT !.ending = "whole"]
    [] e.ev = "error" -> [client EXCEPT !.ending = "error"]

Yields ==
  /\ tr.out # << >> /\ ~closed
  /\ client' = Read(Head(tr.out))
  /\ tr' = [tr EXCEPT !.out = Tail(@)]
  /\ closed' = (client'.ending # "none")
  /\ UNCHANGED backend
TimesOut ==
  /\ Reads
  /\ client' = [client EXCEPT !.ending = "error"]
  /\ closed' = TRUE
  /\ tr' = [Broken EXCEPT !.out = << >>]
  /\ UNCHANGED backend
BackendSaysItem ==
  \/ \E signed \in BOOLEAN : StartReasoning(signed) \/ EndReasoning(signed)
  \/ AddSummaryPart \/ SaySummary
  \/ StartMessage \/ SayText \/ StartWithText \/ EndPart \/ EndMessage \/ WholeMessage
  \/ \E hasResult \in BOOLEAN : Search(hasResult) \/ RepeatSearch(hasResult)
  \/ \E x \in left : GoesBack(x)
BackendSaysCall ==
  /\ Reads
  /\ \E c \in Calls :
       \E e \in IF IsNext(c) THEN Announcements(c) \union WholeCalls(c, {Identities})
               ELSE IF said[c].begun /\ ~said[c].done
               THEN Arguments(c) \union LateNames(c) \union WholeCalls(c, Reveals)
               ELSE {} :
         SayCall(c, e)
BackendEnds ==
  \/ \E which \in {"none", "calls", "all", "incomplete"},
        calls \in {{}, {c \in Calls : ~said[c].begun}}, ids \in Reveals, full \in BOOLEAN :
      Terminal(which, calls, ids, full)
  \/ Fails

Next == BackendSaysItem \/ BackendSaysCall \/ BackendEnds \/ Yields \/ TimesOut

Spec == Init /\ [][Next]_vars

(***************************************************************************)
(* Properties.                                                             *)
(***************************************************************************)
Message == INSTANCE ClaudeStream WITH
  started <- client.started, blocks <- client.blocks, open <- client.open, ending <- client.ending

(* The client reads a well formed message: one block at a time, numbered   *)
(* without a gap, and one end.  Text, reasoning, searches and calls that   *)
(* are held back until they are whole all take their index from the same   *)
(* counter (_flush_validated_function_calls, _finalize_thinking_block,     *)
(* _stop_text_block).  This is so for any order of the events of calls,    *)
(* and of the events of several messages, if no reasoning item and no      *)
(* search starts while a text part is open, or goes on when another item   *)
(* has started: nothing in the translator sees to that.                    *)
StreamIsWellFormed == Message!Spec

ReadBlocks(kind) == {i \in DOMAIN client.blocks \ client.open : client.blocks[i].kind = kind}
ToolOf(c) == {i \in ReadBlocks("tool") : client.blocks[i].got = <<Whole(c)>>}

(* A tool use that the client may run has the whole arguments of one call  *)
(* and that call's id, no call is run twice, the calls keep their order,   *)
(* and a signature carrier has the signature of the call it names          *)
(* (_buffered_call_for_event, _emit_closed_call_carriers_from_terminal).   *)
CallsReachTheClientWhole ==
  /\ \A c \in Calls : Cardinality(ToolOf(c)) <= 1
  /\ \A i \in ReadBlocks("tool") :
       \E c \in Calls : i \in ToolOf(c) /\ client.blocks[i].of \in {<<"call", c>>} \union ({"generated"} \X Nat)
  /\ \A c, d \in Calls : \A i \in ToolOf(c), j \in ToolOf(d) :
       CallIndex(c) < CallIndex(d) => i < j
  /\ \A i \in ReadBlocks("carrier") :
       \E c \in Calls : \E j \in ToolOf(c) :
         client.blocks[i].got = <<Encoded(Provider, client.blocks[j].of, c)>>

TextsOf(n) == {p \in (DOMAIN client.blocks) \X (1..MaxOutput) :
                 /\ client.blocks[p[1]].kind = "text" /\ p[2] <= Len(client.blocks[p[1]].got)
                 /\ client.blocks[p[1]].got[p[2]] = n}

(***************************************************************************)
(* The next request: an older turn in which Anthropic searched, the answer *)
(* as the client has read it, and the results of its calls.                *)
(***************************************************************************)
BodyOf(b) ==
  CASE b.kind = "text" -> <<"text", None, b.got>>
    [] b.kind = "tool" -> b.got[1]
    [] b.kind = "carrier" -> b.got[1]
    [] b.kind = "thinking" -> IF Encrypted \in Range(b.got) THEN Encrypted ELSE None
    [] OTHER -> "unsigned"
AsPart(b) ==
  CASE b.kind = "text" -> Part("text", None, BodyOf(b))
    [] b.kind \in {"thinking", "carrier"} -> Part("thinking", None, BodyOf(b))
    [] b.kind = "tool" -> Part("tool_use", b.of, BodyOf(b))
    [] b.kind = "search" -> Part("server_tool_use", <<"gateway", b.of>>, BodyOf(b))
    [] OTHER -> Part("web_search_tool_result", <<"gateway", b.of>>, BodyOf(b))
Answer == [k \in 1..Cardinality(DOMAIN client.blocks) |-> AsPart(client.blocks[k - 1])]
OlderSearch == <<Part("server_tool_use", <<"native", 0>>, None),
                 Part("web_search_tool_result", <<"native", 0>>, "signed")>>
ToolUses(parts) == SelectSeq(parts, LAMBDA b : b.type = "tool_use")
NextRequest ==
  <<Says("assistant", OlderSearch), Says("user", <<Part("text", None, << >>)>>),
    Says("assistant", Answer),
    Says("user", [k \in DOMAIN ToolUses(Answer) |->
                    Part("tool_result", ToolUses(Answer)[k].id, ToolUses(Answer)[k].id)])>>

Items(type, request) == SelectSeq(request, LAMBDA x : x.type = type)

(* Every call goes back once, under one id with its result, and with the   *)
(* signature that was read for it if and only if it goes back to the       *)
(* provider that issued the signature.                                     *)
CallsGoBack ==
  \A p \in {Provider, "renamed", None} :
    LET uses == ToolUses(Answer)
        request == TranslateRequest(NextRequest, p)
        sent == Items("function_call", request)
        outputs == Items("function_call_output", request)
    IN /\ Len(sent) = Len(uses) /\ Len(outputs) = Len(uses)
       /\ \A k \in DOMAIN uses :
            /\ sent[k].body = uses[k].body
            /\ outputs[k].id = sent[k].id /\ outputs[k].body = uses[k].id
            /\ \A c \in Calls : uses[k].body = Whole(c) =>
                 sent[k].sig = IF p = Provider /\ \E i \in ReadBlocks("carrier") :
                                    client.blocks[i].got = <<Encoded(Provider, uses[k].id, c)>>
                               THEN c ELSE None
       /\ IsInjective([k \in DOMAIN sent |-> sent[k].id])

(* Signed reasoning goes back, no search does but as text without its      *)
(* encrypted content, and text goes back in the order it was read.         *)
RestGoesBack ==
  LET request == TranslateRequest(NextRequest, None)
      messages == Items("message", request)
      parts == FlattenSeq([k \in DOMAIN messages |-> messages[k].body])
      Shown(b) == b.type \in {"text", "server_tool_use", "web_search_tool_result"}
      shown == SelectSeq(Answer, Shown)
  IN /\ Len(Items("reasoning", request)) = Cardinality(Thinking(Answer, "reasoning"))
     /\ SubSeq(parts, 4, Len(parts)) =
          [k \in DOMAIN shown |->
             LET b == shown[k] IN IF b.type = "text" THEN b.body ELSE <<b.type, b.id, b.body>>]
     /\ \A x \in Range(SubSeq(parts, 1, 3)) : Len(x) = 3 => x[3] # "signed"

(* A compaction gives Anthropic no signature of another provider and no    *)
(* search but Anthropic's own, and loses no call.                          *)
CompactionIsClean ==
  LET rerouted == Rerouted(NextRequest)
      parts == FlattenSeq([k \in DOMAIN rerouted |-> rerouted[k].blocks])
  IN /\ \A b \in Range(parts) : /\ b.type # "thinking"
                                /\ b.type \in {"server_tool_use", "web_search_tool_result"} => IsNative(b.id)
     /\ ToolUses(parts) = ToolUses(Answer)
     /\ Range(OlderSearch) \subseteq Range(parts)

(* Snapshots repeat what was streamed: no text is shown twice, and when    *)
(* the message ends whole every text that was sent and every call that was *)
(* announced has been read exactly once (_emit_message_item_fallback,      *)
(* _flush_buffered_calls_from_terminal); and the next request gives it all *)
(* back (_translate_messages, normalize_server_tool_history,               *)
(* build_reroute_payload).                                                 *)
NothingLostOrRepeated ==
  /\ \A n \in tr.parts : Cardinality(TextsOf(n)) <= 1
  /\ client.ending = "whole" =>
       /\ \A n \in tr.parts : Cardinality(TextsOf(n)) = 1
       /\ \A c \in Calls : said[c].begun => Cardinality(ToolOf(c)) = 1
       /\ CallsGoBack /\ RestGoesBack /\ CompactionIsClean
===============================================================================
