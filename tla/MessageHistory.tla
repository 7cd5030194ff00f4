---------------------------- MODULE MessageHistory ----------------------------
(***************************************************************************)
(* A conversation on its way back: the messages that a Claude client sends *)
(* with its next request, translated to the input of a Responses backend   *)
(* (_translate_messages of translate/claude_to_codex.py), with the server  *)
(* tools of the history replayed as text (translate/server_tool_history.py), *)
(* the signatures of calls read from their carriers                        *)
(* (translate/thought_signature.py), and the history that a compaction is  *)
(* given (compaction.py).  Images, documents, tool references and control  *)
(* events of the system role are left out, and so are the size limits of a *)
(* carrier.                                                                *)
(*                                                                         *)
(* A message has a role and a sequence of blocks; a block has a type, the  *)
(* id of its tool call and a body, which for thinking is its signature.    *)
(***************************************************************************)
EXTENDS Naturals, Sequences, FiniteSets, SequencesExt

CONSTANTS None,
          Provider, \* the custom provider that issued the carriers
          LongIds   \* the ids of calls that exceed the limit of the backend

Part(type, id, body) == [type |-> type, id |-> id, body |-> body]
Says(role, blocks) == [role |-> role, blocks |-> blocks]

(***************************************************************************)
(* Signatures.  A carrier that was encoded decodes to what it was made of; *)
(* any other text is no carrier.                                           *)
(***************************************************************************)
Encoded(provider, call, sig) ==
  IF None \in {provider, call, sig} THEN None
  ELSE [form |-> "carrier", provider |-> provider, call |-> call, sig |-> sig]
Encrypted == [form |-> "reasoning"]  \* is_gpt_reasoning_signature
IsForm(sig, form) == sig # None /\ sig.form = form

Thinking(blocks, form) ==
  {k \in DOMAIN blocks : blocks[k].type = "thinking" /\ IsForm(blocks[k].body, form)}
UsesOf(blocks, id) == {k \in DOMAIN blocks : blocks[k].type = "tool_use" /\ blocks[k].id = id}
CarriersOf(blocks, id) == {k \in Thinking(blocks, "carrier") : blocks[k].body.call = id}

(* A signature goes back with its call when the provider is the one that   *)
(* issued it and nothing about the pair is ambiguous.                      *)
SignatureOf(blocks, id, provider) ==
  LET found == {blocks[k].body : k \in CarriersOf(blocks, id)}
  IN IF /\ provider # None
        /\ Cardinality(CarriersOf(blocks, id)) = 1 /\ Cardinality(UsesOf(blocks, id)) = 1
        /\ \A x \in found : x.provider = provider
     THEN (CHOOSE x \in found : TRUE).sig ELSE None

(***************************************************************************)
(* normalize_server_tool_history.  A client may keep one answer as several *)
(* messages; the turn of the user ends the group.                          *)
(***************************************************************************)
Group(messages, m) ==
  {n \in DOMAIN messages : \A k \in DOMAIN messages :
     (m <= k /\ k <= n) \/ (n <= k /\ k <= m) => messages[k].role = "assistant"}
BlocksOf(messages, group) == UNION {Range(messages[n].blocks) : n \in group}
IsNative(id) == id[1] = "native"
IsServerBlock(b) == b.type \in {"server_tool_use", "tool_result", "web_search_tool_result"}

TextIds(blocks, replay) ==
  LET calls == {b.id : b \in {x \in blocks : x.type = "server_tool_use"}}
  IN {id \in calls : ~IsNative(id)}
     \union {b.id : b \in {x \in blocks : x.type = "tool_result" /\ x.id \in calls}}
     \union {b.id : b \in {x \in blocks : /\ x.type = "web_search_tool_result"
                                          /\ replay \/ ~IsNative(x.id) \/ x.body = "unsigned"}}
AsText(b, ids, replay) ==
  IF ~IsServerBlock(b) \/ b.id \notin ids THEN b
  ELSE Part("text", None, <<b.type, b.id,
         IF replay /\ b.type = "web_search_tool_result" THEN "unsigned" ELSE b.body>>)
Normalized(messages, replay) ==
  [m \in DOMAIN messages |->
     LET ids == TextIds(BlocksOf(messages, Group(messages, m)), replay)
     IN [messages[m] EXCEPT !.blocks = [k \in DOMAIN @ |-> AsText(@[k], ids, replay)]]]

(***************************************************************************)
(* _translate_messages: parts of text are gathered until another block     *)
(* flushes them as one message.                                            *)
(***************************************************************************)
Shortened(id) == IF id \in LongIds THEN <<"hashed", id>> ELSE id  \* shorten_call_id

Item(type, id, body, sig) == [type |-> type, id |-> id, body |-> body, sig |-> sig]
FlushParts(a, role) ==
  IF a.parts = << >> THEN a
  ELSE [items |-> Append(a.items, Item("message", role, a.parts, None)), parts |-> << >>]
Adds(a, role, item) == [FlushParts(a, role) EXCEPT !.items = Append(@, item)]

TranslateBlock(a, b, message, provider) ==
  CASE b.type = "text" -> [a EXCEPT !.parts = Append(@, b.body)]
    [] b.type = "thinking" /\ message.role = "assistant" /\ IsForm(b.body, "reasoning") ->
         Adds(a, message.role, Item("reasoning", None, b.body, None))
    [] b.type = "tool_use" ->
         Adds(a, message.role,
              Item("function_call", Shortened(b.id), b.body,
                   IF message.role = "assistant"
                   THEN SignatureOf(message.blocks, b.id, provider) ELSE None))
    [] b.type = "tool_result" ->
         Adds(a, message.role, Item("function_call_output", Shortened(b.id), b.body, None))
    [] OTHER -> a
TranslateMessage(items, message, provider) ==
  FlushParts(FoldLeft(LAMBDA a, b : TranslateBlock(a, b, message, provider),
                      [items |-> items, parts |-> << >>], message.blocks), message.role).items
TranslateRequest(messages, provider) ==
  FoldLeft(LAMBDA items, m : TranslateMessage(items, m, provider), << >>,
           Normalized(messages, TRUE))

(***************************************************************************)
(* build_reroute_payload: no thinking goes to Anthropic with a compaction, *)
(* and a message that had nothing else is dropped.                         *)
(***************************************************************************)
Stripped(message) == [message EXCEPT !.blocks = SelectSeq(@, LAMBDA b : b.type # "thinking")]
Rerouted(messages) ==
  Normalized(SelectSeq([m \in DOMAIN messages |-> Stripped(messages[m])],
                       LAMBDA x : x.blocks # << >>), FALSE)
===============================================================================
