-------------------------- MODULE ResponseStreamProofs -------------------------
(***************************************************************************)
(* What the client of ResponseStream reads is a stream as ClaudeStream     *)
(* promises it, for any calls, pieces and bounds, if no items but messages *)
(* overlap.                                                                *)
(*                                                                         *)
(* A place says how far a reader is: before the message, between two       *)
(* blocks, inside one, or at the end.  The events that are waiting lead    *)
(* from the place of the client to that of the translator, each allowed    *)
(* where the one before it leaves the reader.                              *)
(***************************************************************************)
EXTENDS ResponseStream, FiniteSetTheorems, SequenceTheorems, WellFoundedInduction, TLAPS

Unstarted == <<"unstarted", 0>>
Between(n) == <<"between", n>>  \* n blocks were written, none is open
Inside(n) == <<"inside", n>>    \* block n is open
Over == <<"over", 0>>

Allowed(p, e) ==
  \/ e.ev = "start" /\ p = Unstarted
  \/ e.ev = "open" /\ e.at \in Nat /\ p = Between(e.at)
  \/ e.ev \in {"delta", "close"} /\ e.at \in Nat /\ p = Inside(e.at)
  \/ e.ev = "stop" /\ \E n \in Nat : p = Between(n)
  \/ e.ev = "error" /\ p # Over

\* Where an event leaves its reader.
LeftBy(e) ==
  IF e.ev = "start" THEN Between(0)
  ELSE IF e.ev \in {"open", "delta"} THEN Inside(e.at)
  ELSE IF e.ev = "close" THEN Between(e.at + 1)
  ELSE Over

IsSeq(s) == s = [k \in 1..Len(s) |-> s[k]]

Leads(p, out, q) ==
  /\ IsSeq(out)
  /\ \A k \in 1..Len(out) : Allowed(IF k = 1 THEN p ELSE LeftBy(out[k - 1]), out[k])
  /\ q = IF Len(out) = 0 THEN p ELSE LeftBy(out[Len(out)])

Fields == {"out", "raised", "index", "text", "thinking", "signature", "summary", "parts",
           "searches", "results", "calls", "at", "matched", "tools", "carried", "retained"}

\* Where the events of the translator leave the reader.
PlaceOf(s) == IF s.text \/ s.thinking THEN Inside(s.index) ELSE Between(s.index)

\* shown: numbers of the searches that may have been shown.
Sound(p, shown, s) ==
  /\ DOMAIN s = Fields
  /\ s.index \in Nat /\ ~(s.text /\ s.thinking) /\ s.searches \subseteq shown
  /\ Leads(p, s.out, PlaceOf(s))

\* No block is open.
Closed(s) == ~s.text /\ ~s.thinking

\* Nothing that the client will read has changed.
Same(s, t) ==
  /\ DOMAIN t = Fields
  /\ t.out = s.out /\ t.index = s.index /\ t.searches = s.searches
  /\ t.text = s.text /\ t.thinking = s.thinking

\* The translator went on in good order and opened no text.
GoesOn(p, shown, s, t) == Sound(p, shown, t) /\ (t.text => s.text)

\* Nor did it open a thinking block.
Follows(p, shown, s, t) == GoesOn(p, shown, s, t) /\ (t.thinking => s.thinking)

\* Where the client is.
Reader(c, p) ==
  /\ DOMAIN c = {"started", "blocks", "open", "ending"}
  /\ c.ending = "none" =>
       \/ p = Unstarted /\ ~c.started /\ c.open = {} /\ DOMAIN c.blocks = {}
       \/ \E n \in Nat : p = Between(n) /\ c.started /\ c.open = {} /\ DOMAIN c.blocks = 0..(n - 1)
       \/ \E n \in Nat : p = Inside(n) /\ c.started /\ c.open = {n} /\ DOMAIN c.blocks = 0..n
  /\ c.ending # "none" => p = Over

\* The text part of a message is open: of the item that is sent, or of one of
\* those that may be gone back to.
Speaking(i, l) == \E x \in l \union {i} : x.kind = "message" /\ x.stage # "closed"

\* A text block is open only while a text part is, which is never so within a
\* reasoning item or a search; no thinking block is open within a search.  What
\* comes after them opens a block without closing these.
InStep(i, l, o, s) ==
  /\ IsSeq(o)
  /\ \A x \in l \union {i} : DOMAIN x = {"n", "kind", "stage"}
  /\ \A x \in l : x.kind \in Interleaved
  /\ s.text => Speaking(i, l)
  /\ i.kind # "message" => ~Speaking(i, l)
  /\ i.kind = "search" => ~s.thinking /\ i.n \in 0..Len(o)

\* The kinds of items that the translator can bear to see overlap.
OnlyMessages == Interleaved \subseteq {"message"}

\* The translator goes on, or its last event is waiting or was read.
IInv ==
  /\ closed <=> client.ending # "none"
  /\ \E p : /\ Reader(client, p)
            /\ \/ Sound(p, 0..Len(order), tr) /\ InStep(item, left, order, tr)
               \/ DOMAIN tr = Fields /\ Leads(p, tr.out, Over)
-----------------------------------------------------------------------------
(* Places and events.                                                      *)

\* Sequences, whatever they are of.
LEMMA SeqIs ==
  ASSUME NEW s
  PROVE  IsSeq(s) <=> \E S : s \in Seq(S)
<1>1. ASSUME IsSeq(s) PROVE \E S : s \in Seq(S)
  <2> DEFINE S == {s[k] : k \in 1..Len(s)}
  <2>1. s \in Seq(S)
    BY <1>1, IsASeq DEF IsSeq
  <2>2. QED BY <2>1
<1>2. ASSUME NEW S, s \in Seq(S) PROVE IsSeq(s)
  BY <1>2 DEF IsSeq
<1>3. QED BY <1>1, <1>2

\* Places with different names or numbers differ.
LEMMA PlacesDiffer ==
  ASSUME NEW m \in Nat, NEW n \in Nat
  PROVE  /\ Unstarted # Between(n) /\ Unstarted # Inside(n) /\ Unstarted # Over
         /\ Between(n) # Over /\ Inside(n) # Over /\ Between(m) # Inside(n)
         /\ Between(m) = Between(n) => m = n
         /\ Inside(m) = Inside(n) => m = n
BY DEF Unstarted, Between, Inside, Over

\* No events lead nowhere.
LEMMA LeadsNowhere == ASSUME NEW p PROVE Leads(p, << >>, p)
BY DEF Leads, IsSeq

\* One event leads where it leaves its reader.
LEMMA LeadsByOne ==
  ASSUME NEW p, NEW e, Allowed(p, e)
  PROVE  Leads(p, <<e>>, LeftBy(e))
<1>1. <<e>> \in Seq({e}) /\ Len(<<e>>) = 1 /\ <<e>>[1] = e
  OBVIOUS
<1>2. IsSeq(<<e>>)
  BY <1>1, SeqIs
<1>3. QED BY <1>1, <1>2 DEF Leads

\* Events that lead on from where others lead.
LEMMA LeadsOn ==
  ASSUME NEW p, NEW q, NEW r, NEW a, NEW b, Leads(p, a, q), Leads(q, b, r)
  PROVE  Leads(p, a \o b, r)
<1>1. PICK S : a \in Seq(S)
  BY SeqIs DEF Leads
<1>2. PICK T : b \in Seq(T)
  BY SeqIs DEF Leads
<1>3. a \in Seq(S \union T) /\ b \in Seq(S \union T)
  BY <1>1, <1>2
<1> DEFINE c == a \o b
           m == Len(a)
           n == Len(b)
<1>4. /\ m \in Nat /\ n \in Nat /\ Len(c) = m + n
      /\ c \in Seq(S \union T)
      /\ \A k \in 1..m : c[k] = a[k]
      /\ \A k \in 1..(m + n) : k > m => c[k] = b[k - m]
  BY <1>3
<1>5. IsSeq(c)
  BY <1>4, SeqIs
<1> HIDE DEF c
<1>6. ASSUME NEW k \in 1..(m + n)
      PROVE  Allowed(IF k = 1 THEN p ELSE LeftBy(c[k - 1]), c[k])
  <2>1. CASE k <= m
    <3>1. k \in 1..m /\ (k # 1 => k - 1 \in 1..m)
      BY <1>4, <2>1
    <3>2. c[k] = a[k] /\ (k # 1 => c[k - 1] = a[k - 1])
      BY <1>4, <3>1
    <3>3. Allowed(IF k = 1 THEN p ELSE LeftBy(a[k - 1]), a[k])
      BY <3>1 DEF Leads
    <3>4. QED BY <3>2, <3>3
  <2>2. CASE k > m
    <3>1. k - m \in 1..n /\ c[k] = b[k - m]
      BY <1>4, <2>2
    <3>2. Allowed(IF k - m = 1 THEN q ELSE LeftBy(b[k - m - 1]), b[k - m])
      BY <3>1 DEF Leads
    <3>3. CASE k - m = 1
      <4>1. q = IF m = 0 THEN p ELSE LeftBy(a[m])
        BY DEF Leads
      <4>2. q = IF k = 1 THEN p ELSE LeftBy(c[k - 1])
        BY <1>4, <3>3, <4>1
      <4>3. QED BY <3>1, <3>2, <3>3, <4>2
    <3>4. CASE k - m # 1
      <4>1. k # 1 /\ k - 1 \in 1..(m + n) /\ k - 1 > m /\ (k - 1) - m = k - m - 1
        BY <1>4, <2>2, <3>4
      <4>2. c[k - 1] = b[k - m - 1]
        BY <1>4, <4>1
      <4>3. QED BY <3>1, <3>2, <3>4, <4>1, <4>2
    <3>5. QED BY <3>3, <3>4
  <2>3. QED BY <1>4, <2>1, <2>2
<1>7. r = IF Len(c) = 0 THEN p ELSE LeftBy(c[Len(c)])
  <2>1. r = IF n = 0 THEN q ELSE LeftBy(b[n])
    BY DEF Leads
  <2>2. q = IF m = 0 THEN p ELSE LeftBy(a[m])
    BY DEF Leads
  <2>3. CASE n = 0
    BY <1>4, <2>1, <2>2, <2>3
  <2>4. CASE n # 0
    <3>1. m + n \in 1..(m + n) /\ m + n > m /\ (m + n) - m = n /\ m + n # 0
      BY <1>4, <2>4
    <3>2. c[m + n] = b[n]
      BY <1>4, <3>1
    <3>3. QED BY <1>4, <2>1, <2>4, <3>1, <3>2
  <2>5. QED BY <2>3, <2>4
<1>8. Leads(p, c, r)
  BY <1>4, <1>5, <1>6, <1>7 DEF Leads
<1>9. QED BY <1>8 DEF c

\* The first of the events is allowed, and the rest leads on from it.
LEMMA LeadsOnFromHead ==
  ASSUME NEW p, NEW q, NEW out, Leads(p, out, q), out # << >>
  PROVE  /\ Allowed(p, Head(out))
         /\ Leads(LeftBy(Head(out)), Tail(out), q)
<1>1. PICK S : out \in Seq(S)
  BY SeqIs DEF Leads
<1> DEFINE n == Len(out)
           rest == Tail(out)
<1>2. /\ n \in Nat /\ n >= 1 /\ Head(out) = out[1]
      /\ rest \in Seq(S) /\ Len(rest) = n - 1
      /\ \A k \in 1..(n - 1) : rest[k] = out[k + 1]
  BY <1>1
<1>3. Allowed(p, Head(out))
  BY <1>2 DEF Leads
<1> HIDE DEF rest
<1>4. ASSUME NEW k \in 1..(n - 1)
      PROVE  Allowed(IF k = 1 THEN LeftBy(Head(out)) ELSE LeftBy(rest[k - 1]), rest[k])
  <2>1. k + 1 \in 1..n /\ k + 1 # 1 /\ (k + 1) - 1 = k
    BY <1>2
  <2>2. Allowed(LeftBy(out[k]), out[k + 1])
    BY <2>1 DEF Leads
  <2>3. CASE k = 1
    BY <1>2, <2>2, <2>3
  <2>4. CASE k # 1
    <3>1. k - 1 \in 1..(n - 1) /\ (k - 1) + 1 = k
      BY <1>2, <2>4
    <3>2. rest[k - 1] = out[k]
      BY <1>2, <3>1
    <3>3. QED BY <1>2, <2>2, <2>4, <3>2
  <2>5. QED BY <2>3, <2>4
<1>5. q = IF n - 1 = 0 THEN LeftBy(Head(out)) ELSE LeftBy(rest[n - 1])
  <2>1. q = LeftBy(out[n])
    BY <1>2 DEF Leads
  <2>2. CASE n = 1
    BY <1>2, <2>1, <2>2
  <2>3. CASE n # 1
    <3>1. n - 1 \in 1..(n - 1) /\ (n - 1) + 1 = n
      BY <1>2, <2>3
    <3>2. QED BY <1>2, <2>1, <2>3, <3>1
  <2>4. QED BY <2>2, <2>3
<1>6. IsSeq(rest)
  BY <1>2, SeqIs
<1>7. Leads(LeftBy(Head(out)), rest, q)
  BY <1>2, <1>4, <1>5, <1>6 DEF Leads
<1>8. QED BY <1>3, <1>7 DEF rest
-----------------------------------------------------------------------------
(* Blocks.                                                                 *)

\* More events that lead on from the place of the translator.
LEMMA SoundOn ==
  ASSUME NEW p, NEW shown, NEW s, NEW t, NEW events, Sound(p, shown, s), DOMAIN t = Fields,
         t.out = s.out \o events, t.index \in Nat,
         t.searches = s.searches, ~(t.text /\ t.thinking),
         Leads(PlaceOf(s), events, PlaceOf(t))
  PROVE  Sound(p, shown, t)
BY LeadsOn DEF Sound

\* A translator with the same stream is as sound.
LEMMA SameIsSound ==
  ASSUME NEW p, NEW shown, NEW s, NEW t, Sound(p, shown, s), Same(s, t)
  PROVE  GoesOn(p, shown, s, t)
BY DEF Sound, Same, PlaceOf, GoesOn

\* An event of each kind leads from its place to the next.
LEMMA BlockEvents ==
  ASSUME NEW n \in Nat, NEW kind, NEW of
  PROVE  /\ Leads(Between(n), <<Block(n, kind, of)>>, Inside(n))
         /\ Leads(Inside(n), <<Delta(n, kind, of)>>, Inside(n))
         /\ Leads(Inside(n), <<Close(n)>>, Between(n + 1))
<1>1. Leads(Between(n), <<Block(n, kind, of)>>, Inside(n))
  <2>1. Allowed(Between(n), Block(n, kind, of)) /\ LeftBy(Block(n, kind, of)) = Inside(n)
    BY DEF Allowed, LeftBy, Block
  <2>2. QED BY <2>1, LeadsByOne
<1>2. Leads(Inside(n), <<Delta(n, kind, of)>>, Inside(n))
  <2>1. Allowed(Inside(n), Delta(n, kind, of)) /\ LeftBy(Delta(n, kind, of)) = Inside(n)
    BY DEF Allowed, LeftBy, Delta
  <2>2. QED BY <2>1, LeadsByOne
<1>3. Leads(Inside(n), <<Close(n)>>, Between(n + 1))
  <2>1. Allowed(Inside(n), Close(n)) /\ LeftBy(Close(n)) = Between(n + 1)
    BY DEF Allowed, LeftBy, Close
  <2>2. QED BY <2>1, LeadsByOne
<1>4. QED BY <1>1, <1>2, <1>3

\* Emit adds to the waiting events alone.
LEMMA EmitIs ==
  ASSUME NEW s, NEW events, DOMAIN s = Fields
  PROVE  LET t == Emit(s, events)
         IN  /\ DOMAIN t = Fields /\ t.out = s.out \o events
             /\ t.index = s.index /\ t.searches = s.searches
             /\ t.text = s.text /\ t.thinking = s.thinking
BY DEF Emit, Fields

\* A delta of the open block.
LEMMA DeltaIsSound ==
  ASSUME NEW p, NEW shown, NEW s, Sound(p, shown, s), s.text \/ s.thinking, NEW kind, NEW of
  PROVE  LET t == Emit(s, <<Delta(s.index, kind, of)>>)
         IN  Sound(p, shown, t) /\ t.text = s.text /\ t.thinking = s.thinking
<1> DEFINE t == Emit(s, <<Delta(s.index, kind, of)>>)
<1>1. /\ DOMAIN t = Fields /\ t.out = s.out \o <<Delta(s.index, kind, of)>>
      /\ t.index = s.index /\ t.searches = s.searches /\ t.text = s.text /\ t.thinking = s.thinking
  BY EmitIs DEF Sound
<1> HIDE DEF t
<1>2. s.index \in Nat /\ ~(t.text /\ t.thinking)
  BY <1>1 DEF Sound
<1>3. Leads(PlaceOf(s), <<Delta(s.index, kind, of)>>, PlaceOf(t))
  BY <1>1, <1>2, BlockEvents DEF PlaceOf
<1>4. Sound(p, shown, t)
  BY <1>1, <1>2, <1>3, SoundOn
<1>5. QED BY <1>1, <1>4 DEF t

\* A block that is opened where none was.
LEMMA OpenIsSound ==
  ASSUME NEW p, NEW shown, NEW s, NEW t, Sound(p, shown, s), Closed(s), NEW kind, NEW of,
         DOMAIN t = Fields, t.out = s.out \o <<Block(s.index, kind, of)>>,
         t.index = s.index, t.searches = s.searches, t.text \/ t.thinking, ~(t.text /\ t.thinking)
  PROVE  Sound(p, shown, t)
<1>1. s.index \in Nat
  BY DEF Sound
<1>2. Leads(PlaceOf(s), <<Block(s.index, kind, of)>>, PlaceOf(t))
  BY <1>1, BlockEvents DEF PlaceOf, Closed
<1>3. QED BY <1>1, <1>2, SoundOn

\* A block that is closed, with events that end it.
LEMMA CloseIsSound ==
  ASSUME NEW p, NEW shown, NEW s, NEW t, Sound(p, shown, s), ~Closed(s), NEW events,
         Leads(Inside(s.index), events, Between(s.index + 1)),
         DOMAIN t = Fields, t.out = s.out \o events, t.index = s.index + 1, Closed(t),
         t.searches = s.searches
  PROVE  Sound(p, shown, t)
<1>1. s.index \in Nat
  BY DEF Sound
<1>2. Leads(PlaceOf(s), events, PlaceOf(t))
  BY <1>1 DEF PlaceOf, Closed
<1>3. QED BY <1>1, <1>2, SoundOn DEF Closed

\* _start_text_block
LEMMA StartTextIsSound ==
  ASSUME NEW p, NEW shown, NEW s, Sound(p, shown, s), ~s.thinking
  PROVE  Sound(p, shown, StartText(s)) /\ StartText(s).text
<1>1. CASE s.text
  BY <1>1 DEF StartText
<1>2. CASE ~s.text
  <2> DEFINE e == Emit(s, <<Block(s.index, "text", << >>)>>)
             t == [e EXCEPT !.text = TRUE]
  <2>1. /\ DOMAIN e = Fields /\ e.out = s.out \o <<Block(s.index, "text", << >>)>>
        /\ e.index = s.index /\ e.searches = s.searches /\ e.thinking = s.thinking
    BY EmitIs DEF Sound
  <2> HIDE DEF e
  <2>2. /\ DOMAIN t = Fields /\ t.out = e.out /\ t.index = e.index /\ t.searches = e.searches
        /\ t.thinking = e.thinking /\ t.text = TRUE
    BY <2>1 DEF Fields
  <2> HIDE DEF t
  <2>3. Sound(p, shown, t) /\ t.text
    BY <1>2, <2>1, <2>2, OpenIsSound DEF Closed
  <2>4. StartText(s) = t
    BY <1>2 DEF StartText, t, e
  <2>5. QED BY <2>3, <2>4
<1>3. QED BY <1>1, <1>2

\* _stop_text_block
LEMMA StopTextIsSound ==
  ASSUME NEW p, NEW shown, NEW s, Sound(p, shown, s)
  PROVE  /\ GoesOn(p, shown, s, StopText(s)) /\ ~StopText(s).text
         /\ StopText(s).thinking = s.thinking
<1>1. CASE ~s.text
  BY <1>1 DEF StopText, GoesOn
<1>2. CASE s.text
  <2> DEFINE e == Emit(s, <<Close(s.index)>>)
             t == [e EXCEPT !.text = FALSE, !.index = @ + 1]
  <2>1. /\ DOMAIN e = Fields /\ e.out = s.out \o <<Close(s.index)>>
        /\ e.index = s.index /\ e.searches = s.searches /\ e.thinking = s.thinking
    BY EmitIs DEF Sound
  <2> HIDE DEF e
  <2>2. /\ DOMAIN t = Fields /\ t.out = e.out /\ t.index = e.index + 1 /\ t.searches = e.searches
        /\ t.thinking = e.thinking /\ t.text = FALSE
    BY <2>1 DEF Fields
  <2> HIDE DEF t
  <2>3. Leads(Inside(s.index), <<Close(s.index)>>, Between(s.index + 1))
    BY BlockEvents DEF Sound
  <2>4. ~Closed(s) /\ Closed(t) /\ ~t.text
    BY <1>2, <2>1, <2>2 DEF Closed, Sound
  <2>5. Sound(p, shown, t)
    BY <2>1, <2>2, <2>3, <2>4, CloseIsSound
  <2>6. StopText(s) = t
    BY <1>2 DEF StopText, t, e
  <2>7. QED BY <2>1, <2>2, <2>4, <2>5, <2>6 DEF GoesOn
<1>3. QED BY <1>1, <1>2

\* _start_thinking_block
LEMMA StartThinkingIsSound ==
  ASSUME NEW p, NEW shown, NEW s, Sound(p, shown, s), ~s.text
  PROVE  Sound(p, shown, StartThinking(s)) /\ StartThinking(s).thinking
<1>1. CASE s.thinking
  BY <1>1 DEF StartThinking
<1>2. CASE ~s.thinking
  <2> DEFINE e == Emit(s, <<Block(s.index, "thinking", << >>)>>)
             t == [e EXCEPT !.thinking = TRUE]
  <2>1. /\ DOMAIN e = Fields /\ e.out = s.out \o <<Block(s.index, "thinking", << >>)>>
        /\ e.index = s.index /\ e.searches = s.searches /\ e.text = s.text
    BY EmitIs DEF Sound
  <2> HIDE DEF e
  <2>2. /\ DOMAIN t = Fields /\ t.out = e.out /\ t.index = e.index /\ t.searches = e.searches
        /\ t.thinking = TRUE /\ t.text = e.text
    BY <2>1 DEF Fields
  <2> HIDE DEF t
  <2>3. Sound(p, shown, t) /\ t.thinking
    BY <1>2, <2>1, <2>2, OpenIsSound DEF Closed
  <2>4. StartThinking(s) = t
    BY <1>2 DEF StartThinking, t, e
  <2>5. QED BY <2>3, <2>4
<1>3. QED BY <1>1, <1>2

\* _finalize_thinking_block
LEMMA FinalizeThinkingIsSound ==
  ASSUME NEW p, NEW shown, NEW s, Sound(p, shown, s)
  PROVE  /\ GoesOn(p, shown, s, FinalizeThinking(s)) /\ ~FinalizeThinking(s).thinking
<1>1. CASE ~s.thinking
  BY <1>1 DEF FinalizeThinking, GoesOn
<1>2. CASE s.thinking
  <2> DEFINE sign == IF s.signature THEN <<Delta(s.index, "signature", Encrypted)>> ELSE << >>
             events == sign \o <<Close(s.index)>>
             e == Emit(s, events)
             t == [e EXCEPT !.thinking = FALSE, !.index = @ + 1]
  <2>1. s.index \in Nat
    BY DEF Sound
  <2>2. Leads(Inside(s.index), sign, Inside(s.index))
    BY <2>1, BlockEvents, LeadsNowhere
  <2> HIDE DEF sign
  <2>3. Leads(Inside(s.index), events, Between(s.index + 1))
    BY <2>1, <2>2, BlockEvents, LeadsOn
  <2> HIDE DEF events
  <2>4. /\ DOMAIN e = Fields /\ e.out = s.out \o events
        /\ e.index = s.index /\ e.searches = s.searches /\ e.text = s.text
    BY EmitIs DEF Sound
  <2> HIDE DEF e
  <2>5. /\ DOMAIN t = Fields /\ t.out = e.out /\ t.index = e.index + 1 /\ t.searches = e.searches
        /\ t.thinking = FALSE /\ t.text = e.text
    BY <2>4 DEF Fields
  <2> HIDE DEF t
  <2>6. ~Closed(s) /\ Closed(t) /\ ~t.thinking
    BY <1>2, <2>4, <2>5 DEF Closed, Sound
  <2>7. Sound(p, shown, t)
    BY <2>3, <2>4, <2>5, <2>6, CloseIsSound
  <2>8. FinalizeThinking(s) = t
    BY <1>2 DEF FinalizeThinking, t, e, events, sign
  <2>9. QED BY <2>4, <2>5, <2>6, <2>7, <2>8 DEF GoesOn
<1>3. QED BY <1>1, <1>2

\* _finalize_open_blocks
LEMMA FinalizeOpenBlocksIsSound ==
  ASSUME NEW p, NEW shown, NEW s, Sound(p, shown, s)
  PROVE  Sound(p, shown, FinalizeOpenBlocks(s)) /\ Closed(FinalizeOpenBlocks(s))
BY FinalizeThinkingIsSound, StopTextIsSound DEF FinalizeOpenBlocks, GoesOn, Closed

\* A block that is written at once.
LEMMA CompleteIsSound ==
  ASSUME NEW p, NEW shown, NEW s, Sound(p, shown, s), Closed(s), NEW kind, NEW of, NEW deltas,
         Leads(Inside(s.index), deltas, Inside(s.index))
  PROVE  Sound(p, shown, Complete(s, kind, of, deltas)) /\ Closed(Complete(s, kind, of, deltas))
<1> DEFINE head == <<Block(s.index, kind, of)>>
           last == <<Close(s.index)>>
           events == head \o deltas \o last
           e == Emit(s, events)
           t == [e EXCEPT !.index = @ + 1]
<1>1. s.index \in Nat
  BY DEF Sound
<1>2. /\ Leads(Between(s.index), head, Inside(s.index))
      /\ Leads(Inside(s.index), last, Between(s.index + 1))
  BY <1>1, BlockEvents
<1> HIDE DEF head, last
<1>3. Leads(Between(s.index), head \o deltas, Inside(s.index))
  BY <1>2, LeadsOn
<1>4. Leads(Between(s.index), events, Between(s.index + 1))
  BY <1>2, <1>3, LeadsOn
<1> HIDE DEF events
<1>5. /\ DOMAIN e = Fields /\ e.out = s.out \o events
      /\ e.index = s.index /\ e.searches = s.searches /\ e.text = s.text /\ e.thinking = s.thinking
  BY EmitIs DEF Sound
<1> HIDE DEF e
<1>6. /\ DOMAIN t = Fields /\ t.out = e.out /\ t.index = e.index + 1 /\ t.searches = e.searches
      /\ t.thinking = e.thinking /\ t.text = e.text
  BY <1>5 DEF Fields
<1> HIDE DEF t
<1>7. Closed(t) /\ t.index \in Nat
  BY <1>1, <1>5, <1>6 DEF Closed
<1>8. PlaceOf(s) = Between(s.index) /\ PlaceOf(t) = Between(s.index + 1)
  BY <1>5, <1>6, <1>7 DEF Closed, PlaceOf
<1>9. Sound(p, shown, t)
  BY <1>4, <1>5, <1>6, <1>7, <1>8, SoundOn DEF Closed
<1>10. Complete(s, kind, of, deltas) = t
  BY DEF Complete, t, e, events, head, last
<1>11. QED BY <1>7, <1>9, <1>10
-----------------------------------------------------------------------------
(* Text, reasoning, searches and carriers.                                 *)

\* A text that is said, in the open block or in a new one.
LEMMA SayIsSound ==
  ASSUME NEW p, NEW shown, NEW s, Sound(p, shown, s), NEW n
  PROVE  Sound(p, shown, Say(s, n)) /\ Say(s, n).text
<1> DEFINE r == [s EXCEPT !.parts = @ \union {n}]
           f == FinalizeThinking(r)
           t == StartText(f)
<1>1. Same(s, r)
  BY DEF Same, Sound, Fields
<1> HIDE DEF r
<1>2. Sound(p, shown, f) /\ ~f.thinking
  BY <1>1, SameIsSound, FinalizeThinkingIsSound DEF GoesOn
<1> HIDE DEF f
<1>3. Sound(p, shown, t) /\ t.text
  BY <1>2, StartTextIsSound
<1> HIDE DEF t
<1>4. LET u == Emit(t, <<Delta(t.index, "text", n)>>) IN Sound(p, shown, u) /\ u.text
  BY <1>3, DeltaIsSound
<1>5. Say(s, n) = Emit(t, <<Delta(t.index, "text", n)>>)
  BY DEF Say, t, f, r
<1>6. QED BY <1>4, <1>5

\* A message item starts its text.
LEMMA PartAddedIsSound ==
  ASSUME NEW p, NEW shown, NEW s, Sound(p, shown, s)
  PROVE  Sound(p, shown, PartAdded(s))
BY FinalizeThinkingIsSound, StartTextIsSound DEF PartAdded, GoesOn

\* The end of a part closes its text.
LEMMA PartDoneIsSound ==
  ASSUME NEW p, NEW shown, NEW s, Sound(p, shown, s), NEW n
  PROVE  Sound(p, shown, PartDone(s, n)) /\ ~PartDone(s, n).text
<1>1. Sound(p, shown, SayOnce(s, n))
  BY SayIsSound DEF SayOnce
<1>2. QED BY <1>1, StopTextIsSound DEF PartDone, GoesOn

\* A snapshot of a message repeats no text, or writes a block.
LEMMA MessageFallbackIsSound ==
  ASSUME NEW p, NEW shown, NEW s, Sound(p, shown, s), NEW n
  PROVE  /\ GoesOn(p, shown, s, MessageFallback(s, n))
         /\ Closed(s) => Closed(MessageFallback(s, n))
<1>1. Sound(p, shown, Say(s, n)) /\ Say(s, n).text
  BY SayIsSound
<1>2. /\ Sound(p, shown, StopText(Say(s, n))) /\ ~StopText(Say(s, n)).text
      /\ ~StopText(Say(s, n)).thinking
  BY <1>1, StopTextIsSound DEF GoesOn, Sound
<1>3. QED BY <1>2 DEF MessageFallback, Closed, GoesOn

\* A reasoning item ends the one before it.
LEMMA ReasoningAddedIsSound ==
  ASSUME NEW p, NEW shown, NEW s, Sound(p, shown, s), NEW signed
  PROVE  GoesOn(p, shown, s, ReasoningAdded(s, signed))
<1> DEFINE f == FinalizeThinking(s)
           t == [f EXCEPT !.summary = FALSE, !.signature = signed]
<1>1. GoesOn(p, shown, s, f)
  BY FinalizeThinkingIsSound
<1> HIDE DEF f
<1>2. Same(f, t)
  BY <1>1 DEF GoesOn, Sound, Same, Fields
<1> HIDE DEF t
<1>3. GoesOn(p, shown, s, t)
  BY <1>1, <1>2, SameIsSound DEF GoesOn
<1>4. QED BY <1>3 DEF ReasoningAdded, t, f

\* A part of the summary separates itself from the one before it.
LEMMA SummaryPartIsSound ==
  ASSUME NEW p, NEW shown, NEW s, Sound(p, shown, s), ~s.text
  PROVE  GoesOn(p, shown, s, SummaryPart(s))
<1> DEFINE r == [s EXCEPT !.summary = TRUE]
<1>1. Same(s, r)
  BY DEF Same, Sound, Fields
<1>2. SummaryPart(s) = IF s.thinking THEN Emit(r, <<Delta(s.index, "thinking", None)>>)
                       ELSE StartThinking(r)
  BY DEF SummaryPart
<1> HIDE DEF r
<1>3. Sound(p, shown, r) /\ ~r.text /\ r.index = s.index /\ r.thinking = s.thinking
  BY <1>1, SameIsSound DEF GoesOn, Same
<1>4. CASE s.thinking
  <2>1. r.thinking
    BY <1>3, <1>4, Zenon
  <2> DEFINE u == Emit(r, <<Delta(r.index, "thinking", None)>>)
  <2>2. Sound(p, shown, u) /\ u.text = r.text
    BY <1>3, <2>1, DeltaIsSound
  <2>3. ~u.text
    BY <1>3, <2>2
  <2>4. SummaryPart(s) = u
    BY <1>2, <1>3, <1>4
  <2>5. QED BY <2>2, <2>3, <2>4 DEF GoesOn
<1>5. CASE ~s.thinking
  <2>1. Sound(p, shown, StartThinking(r)) /\ ~StartThinking(r).text
    BY <1>3, StartThinkingIsSound DEF Sound
  <2>2. QED BY <1>2, <1>5, <2>1 DEF GoesOn
<1>6. QED BY <1>4, <1>5

\* The text of a summary is thinking.
LEMMA SummaryTextIsSound ==
  ASSUME NEW p, NEW shown, NEW s, Sound(p, shown, s), ~s.text
  PROVE  GoesOn(p, shown, s, SummaryText(s))
<1> DEFINE t == StartThinking(s)
<1>1. Sound(p, shown, t) /\ t.thinking /\ ~t.text
  BY StartThinkingIsSound DEF Sound
<1>2. SummaryText(s) = Emit(t, <<Delta(t.index, "thinking", None)>>)
  BY DEF SummaryText
<1> HIDE DEF t
<1>3. LET u == Emit(t, <<Delta(t.index, "thinking", None)>>) IN Sound(p, shown, u) /\ u.text = t.text
  BY <1>1, DeltaIsSound
<1>4. QED BY <1>1, <1>2, <1>3 DEF GoesOn

\* A reasoning item that ends: shown, signed, or neither.
LEMMA ReasoningDoneIsSound ==
  ASSUME NEW p, NEW shown, NEW s, Sound(p, shown, s), ~s.text, NEW signed
  PROVE  GoesOn(p, shown, s, ReasoningDone(s, signed))
<1> DEFINE t == [s EXCEPT !.signature = @ \/ signed]
           u == IF t.summary THEN FinalizeThinking(t)
                ELSE IF ~t.signature THEN t ELSE FinalizeThinking(StartThinking(t))
           v == [u EXCEPT !.signature = FALSE, !.summary = FALSE]
<1>1. Same(s, t)
  BY DEF Same, Sound, Fields
<1> HIDE DEF t
<1>2. Sound(p, shown, t) /\ ~t.text
  BY <1>1, SameIsSound DEF GoesOn, Same
<1>3. Sound(p, shown, FinalizeThinking(t)) /\ ~FinalizeThinking(t).text
  BY <1>2, FinalizeThinkingIsSound DEF GoesOn
<1>4. Sound(p, shown, StartThinking(t)) /\ ~StartThinking(t).text
  BY <1>2, StartThinkingIsSound DEF Sound
<1>5. LET w == FinalizeThinking(StartThinking(t)) IN Sound(p, shown, w) /\ ~w.text
  BY <1>4, FinalizeThinkingIsSound DEF GoesOn
<1>6. Sound(p, shown, u) /\ ~u.text
  BY <1>2, <1>3, <1>5
<1> HIDE DEF u
<1>7. Same(u, v)
  BY <1>6 DEF Sound, Same, Fields
<1>8. GoesOn(p, shown, s, v)
  BY <1>6, <1>7, SameIsSound DEF GoesOn
<1>9. QED BY <1>8 DEF ReasoningDone, v, u, t

\* A search is shown once.
LEMMA ServerToolUseIsSound ==
  ASSUME NEW p, NEW shown, NEW s, NEW n,
         Sound(p, shown, s), ~s.text, n \in s.searches => ~s.thinking
  PROVE  LET t == ServerToolUse(s, n) IN Sound(p, shown \union {n}, t) /\ Closed(t)
<1>1. CASE n \in s.searches
  BY <1>1 DEF ServerToolUse, Sound, Closed
<1>2. CASE n \notin s.searches
  <2> DEFINE f == FinalizeThinking(s)
             c == Complete(f, "search", n, << >>)
             t == [c EXCEPT !.searches = @ \union {n}]
  <2>1. Sound(p, shown, f) /\ Closed(f)
    BY FinalizeThinkingIsSound DEF GoesOn, Closed
  <2> HIDE DEF f
  <2>2. Sound(p, shown, c) /\ Closed(c)
    BY <2>1, LeadsNowhere, CompleteIsSound
  <2> HIDE DEF c
  <2>3. /\ DOMAIN t = Fields /\ t.out = c.out /\ t.index = c.index
        /\ t.text = c.text /\ t.thinking = c.thinking /\ t.searches = c.searches \union {n}
    BY <2>2 DEF Sound, Fields
  <2> HIDE DEF t
  <2>4. Sound(p, shown \union {n}, t) /\ Closed(t)
    BY <2>2, <2>3 DEF Sound, Closed, PlaceOf
  <2>5. ServerToolUse(s, n) = t
    BY <1>2 DEF ServerToolUse, t, c, f
  <2>6. QED BY <2>4, <2>5
<1>3. QED BY <1>1, <1>2

\* A search that has ended is shown, then its result once.
LEMMA SearchDoneIsSound ==
  ASSUME NEW p, NEW shown, NEW s, NEW n, NEW hasResult,
         Sound(p, shown, s), ~s.text, n \in s.searches => ~s.thinking
  PROVE  LET t == SearchDone(s, n, hasResult) IN Sound(p, shown \union {n}, t) /\ Closed(t)
<1> DEFINE t == ServerToolUse(s, n)
           c == Complete(t, "result", n, << >>)
           u == [c EXCEPT !.results = @ \union {n}]
<1>1. Sound(p, shown \union {n}, t) /\ Closed(t)
  BY ServerToolUseIsSound
<1> HIDE DEF t
<1>2. Sound(p, shown \union {n}, c) /\ Closed(c)
  BY <1>1, LeadsNowhere, CompleteIsSound
<1> HIDE DEF c
<1>3. Same(c, u)
  BY <1>2 DEF Sound, Same, Fields
<1> HIDE DEF u
<1>4. Sound(p, shown \union {n}, u) /\ Closed(u)
  BY <1>2, <1>3, SameIsSound DEF GoesOn, Closed, Same
<1>5. SearchDone(s, n, hasResult) = IF n \in t.results \/ ~hasResult THEN t ELSE u
  BY DEF SearchDone, t, c, u
<1>6. QED BY <1>1, <1>4, <1>5

\* A signature that is carried has a block of its own.
LEMMA CarrierIsSound ==
  ASSUME NEW p, NEW shown, NEW s, Sound(p, shown, s), Closed(s), NEW tool, NEW sig
  PROVE  Sound(p, shown, Carrier(s, tool, sig)) /\ Closed(Carrier(s, tool, sig))
<1> DEFINE code == Encoded(Provider, tool, sig)
           deltas == <<Delta(s.index, "signature", code)>>
           c == Complete(s, "carrier", << >>, deltas)
           t == [c EXCEPT !.carried = @ \union {tool}]
<1>1. Carrier(s, tool, sig) = IF tool \in s.carried \/ code = None THEN s ELSE t
  BY DEF Carrier
<1> HIDE DEF code
<1>2. Leads(Inside(s.index), deltas, Inside(s.index))
  BY BlockEvents DEF Sound
<1> HIDE DEF deltas
<1>3. Sound(p, shown, c) /\ Closed(c)
  BY <1>2, CompleteIsSound
<1> HIDE DEF c
<1>4. Same(c, t)
  BY <1>3 DEF Sound, Same, Fields
<1> HIDE DEF t
<1>5. Sound(p, shown, t) /\ Closed(t)
  BY <1>3, <1>4, SameIsSound DEF GoesOn, Closed, Same
<1>6. QED BY <1>1, <1>5
-----------------------------------------------------------------------------
(* Calls that are buffered: nothing for the client.                        *)

\* A translator with the same stream follows.
LEMMA SameFollows ==
  ASSUME NEW p, NEW shown, NEW s, NEW t, Sound(p, shown, s), Same(s, t)
  PROVE  Follows(p, shown, s, t)
BY SameIsSound DEF Follows, Same

\* One step follows another.
LEMMA FollowsOn ==
  ASSUME NEW p, NEW shown, NEW s, NEW t, NEW u,
         Follows(p, shown, s, t), Follows(p, shown, t, u)
  PROVE  Follows(p, shown, s, u)
BY DEF Follows, GoesOn

\* Same is an equivalence on the translator's states.
LEMMA SameAs ==
  /\ \A s : DOMAIN s = Fields => Same(s, s)
  /\ \A s, t, u : Same(s, t) /\ Same(t, u) => Same(s, u)
BY DEF Same

\* A TranslationError changes nothing else.
LEMMA RaiseIsSame == ASSUME NEW s, DOMAIN s = Fields PROVE Same(s, Raise(s))
BY DEF Raise, Same, Fields

\* A call that is kept for a late signature.
LEMMA RetainIsSame == ASSUME NEW s, DOMAIN s = Fields, NEW c PROVE Same(s, Retain(s, c))
BY DEF Retain, Same, Fields

\* The call of an event is found, is added, or there is an error.
LEMMA IdentifiedIsSame ==
  ASSUME NEW s, DOMAIN s = Fields, NEW e, NEW listed, NEW position
  PROVE  Same(s, Identified(s, e, listed, position))
<1>1. ASSUME NEW found PROVE Same(s, IdentifiedAs(s, e, found, position))
  <2>1. Same(s, [s EXCEPT !.at = Len(s.calls) + 1,
                          !.calls = Append(@, Learnt(NewCall, e, Known(position, e.index)))])
    BY DEF Same, Fields
  <2>2. \A k : Same(s, [s EXCEPT !.at = k, !.calls[k] = Learnt(@, e, e.index)])
    BY DEF Same, Fields
  <2>3. QED BY <2>1, <2>2, RaiseIsSame DEF IdentifiedAs
<1>2. QED BY <1>1, RaiseIsSame DEF Identified

\* What an event says of its call is kept, or there is an error.
LEMMA BufferedIsSame ==
  ASSUME NEW s, DOMAIN s = Fields, NEW e
  PROVE  Same(s, Buffered(s, e)) /\ Same(s, BufferDelta(s, e))
<1>1. ASSUME NEW c, NEW d PROVE Same(s, BufferedAs(s, c, d, e))
  <2> DEFINE a == [s EXCEPT !.calls[s.at] = d]
  <2>1. Same(s, a) /\ DOMAIN a = Fields
    BY DEF Same, Fields
  <2>2. \A r : Same(a, [a EXCEPT !.retained = r])
    BY <2>1 DEF Same, Fields
  <2>3. \A r : Same(s, [s EXCEPT !.calls[s.at] = d, !.retained = r])
    BY DEF Same, Fields
  <2>4. QED BY <2>3, RaiseIsSame DEF BufferedAs
<1>2. Same(s, [s EXCEPT !.calls[s.at] = Streamed(@, e)])
  BY DEF Same, Fields
<1>3. QED BY <1>1, <1>2, RaiseIsSame, SameAs DEF Buffered, BufferDelta

\* A call that the terminal response lists.
LEMMA ListedCallIsSame ==
  ASSUME NEW s, DOMAIN s = Fields, NEW e, NEW position, NEW incomplete
  PROVE  Same(s, ListedCall(s, e, position, incomplete))
<1> DEFINE t == Identified(s, e, TRUE, position)
<1>1. Same(s, t)
  BY IdentifiedIsSame
<1> HIDE DEF t
<1>2. ASSUME NEW f
      PROVE  Same(s, [Buffered(Identified([t EXCEPT !.matched = {}], f, FALSE, None), f)
                        EXCEPT !.matched = s.matched \union {t.at}])
  <2> DEFINE u == [t EXCEPT !.matched = {}]
             v == Identified(u, f, FALSE, None)
             w == Buffered(v, f)
             x == [w EXCEPT !.matched = s.matched \union {t.at}]
  <2>1. Same(t, u)
    BY <1>1 DEF Same, Fields
  <2> HIDE DEF u
  <2>2. Same(u, v)
    <3>1. DOMAIN u = Fields
      BY <2>1 DEF Same
    <3>2. QED BY <3>1, IdentifiedIsSame
  <2> HIDE DEF v
  <2>3. Same(v, w)
    <3>1. DOMAIN v = Fields
      BY <2>2 DEF Same
    <3>2. QED BY <3>1, BufferedIsSame
  <2> HIDE DEF w
  <2>4. Same(w, x)
    BY <2>3 DEF Same, Fields
  <2> HIDE DEF x
  <2>5. Same(s, x)
    BY <1>1, <2>1, <2>2, <2>3, <2>4 DEF Same
  <2>6. QED BY <2>5 DEF x, w, v, u
<1>3. Same(s, ListedAs(s, t, e, incomplete))
  BY <1>2, RaiseIsSame DEF ListedAs
<1>4. QED BY <1>3 DEF ListedCall, t
-----------------------------------------------------------------------------
(* Loops.                                                                  *)

\* What holds of 0, and of each next number up to n, holds of n.
LEMMA Counted ==
  ASSUME NEW n \in Nat, NEW Good, 0 \in Good, \A k \in 0..(n - 1) : k \in Good => k + 1 \in Good
  PROVE  n \in Good
<1> SUFFICES ASSUME n \notin Good PROVE FALSE
  OBVIOUS
<1> DEFINE Bad == {k \in 0..n : k \notin Good}
<1>1. Bad \in SUBSET Nat /\ Bad # {}
  OBVIOUS
<1> HIDE DEF Bad
<1>2. PICK k \in Bad : \A m \in Bad : ~(<<m, k>> \in OpToRel(<, Nat))
  BY <1>1, NatLessThanWellFounded, WFMin
<1>3. \A m \in Bad : ~(m < k)
  BY <1>1, <1>2, Zenon DEF OpToRel
<1>4. k \in 0..n /\ k \notin Good /\ k # 0
  BY DEF Bad
<1>5. k - 1 \in 0..(n - 1) /\ k - 1 < k /\ (k - 1) + 1 = k
  BY <1>4
<1>6. k - 1 \in Good
  BY <1>3, <1>5 DEF Bad
<1>7. QED BY <1>4, <1>5, <1>6

\* The loop of _flush_validated_function_calls has its states.
LEMMA FlushLoop ==
  ASSUME NEW s
  PROVE  \E list, f :
           /\ Flush(s) = f[Len(list)] /\ f[0] = s
           /\ \A k \in 0..(Len(list) - 1) :
                f[k + 1] = SendCall(f[k], list[k + 1])
<1>0. PICK list : Flush(s) = Looped(SendCall, s, list)
  BY Zenon DEF Flush
<1> DEFINE n == Len(list)
           Go(t, k) == SendCall(t, list[k])
           Run(m, f) == f = [k \in 0..m |-> IF k = 0 THEN s ELSE Go(f[k - 1], k)]
           Good == {m \in 0..n : \E f : Run(m, f)}
<1>1. n \in Nat
  OBVIOUS
<1>2. 0 \in Good
  <2> DEFINE f == [k \in 0..0 |-> s]
  <2>1. f = [k \in 0..0 |-> IF k = 0 THEN s ELSE Go(f[k - 1], k)]
    OBVIOUS
  <2> HIDE DEF f
  <2>2. 0 \in 0..n
    BY <1>1
  <2>3. QED BY <2>1, <2>2
<1>3. ASSUME NEW m \in 0..(n - 1), m \in Good PROVE m + 1 \in Good
  <2>1. PICK f : Run(m, f)
    BY <1>3
  <2> DEFINE g == [k \in 0..(m + 1) |-> IF k = m + 1 THEN Go(f[m], m + 1) ELSE f[k]]
  <2>2. \A k \in 0..(m + 1) : g[k] = IF k = 0 THEN s ELSE Go(g[k - 1], k)
    <3> SUFFICES ASSUME NEW k \in 0..(m + 1)
                 PROVE  g[k] = IF k = 0 THEN s ELSE Go(g[k - 1], k)
      OBVIOUS
    <3>1. CASE k = m + 1
      BY <1>1, <3>1
    <3>2. CASE k # m + 1
      <4>1. k \in 0..m /\ (k # 0 => k - 1 \in 0..m /\ k - 1 # m + 1)
        BY <1>1, <3>2
      <4>2. f[k] = IF k = 0 THEN s ELSE Go(f[k - 1], k)
        BY <2>1, <4>1
      <4>3. g[k] = f[k] /\ (k # 0 => g[k - 1] = f[k - 1])
        BY <1>1, <3>2, <4>1
      <4>4. QED BY <4>2, <4>3
    <3>3. QED BY <3>1, <3>2
  <2>3. g = [k \in 0..(m + 1) |-> g[k]]
    OBVIOUS
  <2> HIDE DEF g
  <2>4. Run(m + 1, g)
    BY <2>2, <2>3
  <2>5. m + 1 \in 0..n
    BY <1>1
  <2>6. QED BY <2>4, <2>5
<1>4. n \in Good
  <2> HIDE DEF Good
  <2>1. QED BY <1>1, <1>2, <1>3, Counted
<1>5. \E f : Run(n, f)
  BY <1>4
<1> DEFINE r == CHOOSE f : Run(n, f)
<1>6. Run(n, r)
  BY <1>5
<1>7. Flush(s) = r[n]
  BY <1>0 DEF Looped
<1> HIDE DEF r
<1>8. r[0] = s /\ \A k \in 0..(n - 1) : r[k + 1] = Go(r[k], k + 1)
  BY <1>1, <1>6
<1>9. QED BY <1>7, <1>8

\* f holds the states the loop of _flush_buffered_calls_from_terminal passes
\* through over the positions of list,
ListedRun(s, terminal, incomplete, list, f) ==
  /\ FlushListed(s, terminal, incomplete) = FlushComplete(f[Len(list)]) /\ f[0] = s
  /\ \A k \in 0..(Len(list) - 1) :
       f[k + 1] = ListedCall(f[k], terminal[list[k + 1]].e, list[k + 1] - 1, incomplete)

\* and those of _emit_closed_call_carriers_from_terminal.
CarrierRun(s, terminal, list, f) ==
  /\ LateCarriers(s, terminal) = f[Len(list)] /\ f[0] = s
  /\ \A k \in 0..(Len(list) - 1) :
       f[k + 1] = LateCarrier(f[k], terminal[list[k + 1]].e, list[k + 1] - 1)

\* The loop of _flush_buffered_calls_from_terminal passes through such states,
LEMMA ListedLoop ==
  ASSUME NEW s, NEW terminal, NEW incomplete
  PROVE  \E list, f : ListedRun(s, terminal, incomplete, list, f)
<1>0. PICK list : FlushListed(s, terminal, incomplete) = FlushComplete(
                      Looped(LAMBDA t, p : ListedCall(t, terminal[p].e, p - 1, incomplete), s, list))
  BY Zenon DEF FlushListed
<1> DEFINE n == Len(list)
           Go(t, k) == ListedCall(t, terminal[list[k]].e, list[k] - 1, incomplete)
           Run(m, f) == f = [k \in 0..m |-> IF k = 0 THEN s ELSE Go(f[k - 1], k)]
           Good == {m \in 0..n : \E f : Run(m, f)}
<1>1. n \in Nat
  OBVIOUS
<1>2. 0 \in Good
  <2> DEFINE f == [k \in 0..0 |-> s]
  <2>1. f = [k \in 0..0 |-> IF k = 0 THEN s ELSE Go(f[k - 1], k)]
    OBVIOUS
  <2> HIDE DEF f
  <2>2. 0 \in 0..n
    BY <1>1
  <2>3. QED BY <2>1, <2>2
<1>3. ASSUME NEW m \in 0..(n - 1), m \in Good PROVE m + 1 \in Good
  <2>1. PICK f : Run(m, f)
    BY <1>3
  <2> DEFINE g == [k \in 0..(m + 1) |-> IF k = m + 1 THEN Go(f[m], m + 1) ELSE f[k]]
  <2>2. \A k \in 0..(m + 1) : g[k] = IF k = 0 THEN s ELSE Go(g[k - 1], k)
    <3> SUFFICES ASSUME NEW k \in 0..(m + 1)
                 PROVE  g[k] = IF k = 0 THEN s ELSE Go(g[k - 1], k)
      OBVIOUS
    <3>1. CASE k = m + 1
      BY <1>1, <3>1
    <3>2. CASE k # m + 1
      <4>1. k \in 0..m /\ (k # 0 => k - 1 \in 0..m /\ k - 1 # m + 1)
        BY <1>1, <3>2
      <4>2. f[k] = IF k = 0 THEN s ELSE Go(f[k - 1], k)
        BY <2>1, <4>1
      <4>3. g[k] = f[k] /\ (k # 0 => g[k - 1] = f[k - 1])
        BY <1>1, <3>2, <4>1
      <4>4. QED BY <4>2, <4>3
    <3>3. QED BY <3>1, <3>2
  <2>3. g = [k \in 0..(m + 1) |-> g[k]]
    OBVIOUS
  <2> HIDE DEF g
  <2>4. Run(m + 1, g)
    BY <2>2, <2>3
  <2>5. m + 1 \in 0..n
    BY <1>1
  <2>6. QED BY <2>4, <2>5
<1>4. n \in Good
  <2> HIDE DEF Good
  <2>1. QED BY <1>1, <1>2, <1>3, Counted
<1>5. \E f : Run(n, f)
  BY <1>4
<1> DEFINE r == CHOOSE f : Run(n, f)
<1>6. Run(n, r)
  BY <1>5
<1>7. FlushListed(s, terminal, incomplete) = FlushComplete(r[n])
  BY <1>0 DEF Looped
<1> HIDE DEF r
<1>8. r[0] = s /\ \A k \in 0..(n - 1) : r[k + 1] = Go(r[k], k + 1)
  BY <1>1, <1>6
<1>9. ListedRun(s, terminal, incomplete, list, r)
  BY <1>1, <1>7, <1>8 DEF ListedRun
<1>10. QED BY <1>9

\* so does the one of _emit_closed_call_carriers_from_terminal,
LEMMA CarrierLoop ==
  ASSUME NEW s, NEW terminal
  PROVE  \E list, f : CarrierRun(s, terminal, list, f)
<1>0. PICK list : LateCarriers(s, terminal) =
                    Looped(LAMBDA t, p : LateCarrier(t, terminal[p].e, p - 1), s, list)
  BY Zenon DEF LateCarriers
<1> DEFINE n == Len(list)
           Go(t, k) == LateCarrier(t, terminal[list[k]].e, list[k] - 1)
           Run(m, f) == f = [k \in 0..m |-> IF k = 0 THEN s ELSE Go(f[k - 1], k)]
           Good == {m \in 0..n : \E f : Run(m, f)}
<1>1. n \in Nat
  OBVIOUS
<1>2. 0 \in Good
  <2> DEFINE f == [k \in 0..0 |-> s]
  <2>1. f = [k \in 0..0 |-> IF k = 0 THEN s ELSE Go(f[k - 1], k)]
    OBVIOUS
  <2> HIDE DEF f
  <2>2. 0 \in 0..n
    BY <1>1
  <2>3. QED BY <2>1, <2>2
<1>3. ASSUME NEW m \in 0..(n - 1), m \in Good PROVE m + 1 \in Good
  <2>1. PICK f : Run(m, f)
    BY <1>3
  <2> DEFINE g == [k \in 0..(m + 1) |-> IF k = m + 1 THEN Go(f[m], m + 1) ELSE f[k]]
  <2>2. \A k \in 0..(m + 1) : g[k] = IF k = 0 THEN s ELSE Go(g[k - 1], k)
    <3> SUFFICES ASSUME NEW k \in 0..(m + 1)
                 PROVE  g[k] = IF k = 0 THEN s ELSE Go(g[k - 1], k)
      OBVIOUS
    <3>1. CASE k = m + 1
      BY <1>1, <3>1
    <3>2. CASE k # m + 1
      <4>1. k \in 0..m /\ (k # 0 => k - 1 \in 0..m /\ k - 1 # m + 1)
        BY <1>1, <3>2
      <4>2. f[k] = IF k = 0 THEN s ELSE Go(f[k - 1], k)
        BY <2>1, <4>1
      <4>3. g[k] = f[k] /\ (k # 0 => g[k - 1] = f[k - 1])
        BY <1>1, <3>2, <4>1
      <4>4. QED BY <4>2, <4>3
    <3>3. QED BY <3>1, <3>2
  <2>3. g = [k \in 0..(m + 1) |-> g[k]]
    OBVIOUS
  <2> HIDE DEF g
  <2>4. Run(m + 1, g)
    BY <2>2, <2>3
  <2>5. m + 1 \in 0..n
    BY <1>1
  <2>6. QED BY <2>4, <2>5
<1>4. n \in Good
  <2> HIDE DEF Good
  <2>1. QED BY <1>1, <1>2, <1>3, Counted
<1>5. \E f : Run(n, f)
  BY <1>4
<1> DEFINE r == CHOOSE f : Run(n, f)
<1>6. Run(n, r)
  BY <1>5
<1>7. LateCarriers(s, terminal) = r[n]
  BY <1>0 DEF Looped
<1> HIDE DEF r
<1>8. r[0] = s /\ \A k \in 0..(n - 1) : r[k + 1] = Go(r[k], k + 1)
  BY <1>1, <1>6
<1>9. CarrierRun(s, terminal, list, r)
  BY <1>1, <1>7, <1>8 DEF CarrierRun
<1>10. QED BY <1>9

\* and the one over the messages of the terminal response.
LEMMA FallBackLoop ==
  ASSUME NEW s, NEW terminal
  PROVE  \E list, f :
           /\ FallBack(s, terminal) = f[Len(list)] /\ f[0] = s
           /\ \A k \in 0..(Len(list) - 1) :
                f[k + 1] = MessageFallback(f[k], list[k + 1] - 1)
<1>0. PICK list : FallBack(s, terminal) = Looped(LAMBDA t, p : MessageFallback(t, p - 1), s, list)
  BY Zenon DEF FallBack
<1> DEFINE n == Len(list)
           Go(t, k) == MessageFallback(t, list[k] - 1)
           Run(m, f) == f = [k \in 0..m |-> IF k = 0 THEN s ELSE Go(f[k - 1], k)]
           Good == {m \in 0..n : \E f : Run(m, f)}
<1>1. n \in Nat
  OBVIOUS
<1>2. 0 \in Good
  <2> DEFINE f == [k \in 0..0 |-> s]
  <2>1. f = [k \in 0..0 |-> IF k = 0 THEN s ELSE Go(f[k - 1], k)]
    OBVIOUS
  <2> HIDE DEF f
  <2>2. 0 \in 0..n
    BY <1>1
  <2>3. QED BY <2>1, <2>2
<1>3. ASSUME NEW m \in 0..(n - 1), m \in Good PROVE m + 1 \in Good
  <2>1. PICK f : Run(m, f)
    BY <1>3
  <2> DEFINE g == [k \in 0..(m + 1) |-> IF k = m + 1 THEN Go(f[m], m + 1) ELSE f[k]]
  <2>2. \A k \in 0..(m + 1) : g[k] = IF k = 0 THEN s ELSE Go(g[k - 1], k)
    <3> SUFFICES ASSUME NEW k \in 0..(m + 1)
                 PROVE  g[k] = IF k = 0 THEN s ELSE Go(g[k - 1], k)
      OBVIOUS
    <3>1. CASE k = m + 1
      BY <1>1, <3>1
    <3>2. CASE k # m + 1
      <4>1. k \in 0..m /\ (k # 0 => k - 1 \in 0..m /\ k - 1 # m + 1)
        BY <1>1, <3>2
      <4>2. f[k] = IF k = 0 THEN s ELSE Go(f[k - 1], k)
        BY <2>1, <4>1
      <4>3. g[k] = f[k] /\ (k # 0 => g[k - 1] = f[k - 1])
        BY <1>1, <3>2, <4>1
      <4>4. QED BY <4>2, <4>3
    <3>3. QED BY <3>1, <3>2
  <2>3. g = [k \in 0..(m + 1) |-> g[k]]
    OBVIOUS
  <2> HIDE DEF g
  <2>4. Run(m + 1, g)
    BY <2>2, <2>3
  <2>5. m + 1 \in 0..n
    BY <1>1
  <2>6. QED BY <2>4, <2>5
<1>4. n \in Good
  <2> HIDE DEF Good
  <2>1. QED BY <1>1, <1>2, <1>3, Counted
<1>5. \E f : Run(n, f)
  BY <1>4
<1> DEFINE r == CHOOSE f : Run(n, f)
<1>6. Run(n, r)
  BY <1>5
<1>7. FallBack(s, terminal) = r[n]
  BY <1>0 DEF Looped
<1> HIDE DEF r
<1>8. r[0] = s /\ \A k \in 0..(n - 1) : r[k + 1] = Go(r[k], k + 1)
  BY <1>1, <1>6
<1>9. QED BY <1>7, <1>8
-----------------------------------------------------------------------------
(* Calls that are sent.                                                    *)

\* A call that is sent closes what is open and has a block of its own, and
\* perhaps one for its signature; or there is an error.
LEMMA SendCallFollows ==
  ASSUME NEW p, NEW shown, NEW s, Sound(p, shown, s), NEW k
  PROVE  Follows(p, shown, s, SendCall(s, k))
<1>1. Follows(p, shown, s, Raise(s))
  BY RaiseIsSame, SameFollows DEF Sound
<1>2. ASSUME NEW c PROVE Follows(p, shown, s, SendAs(s, k, c))
  <2> DEFINE f == FinalizeOpenBlocks(s)
             b == ToolBlock(f, c.tool, c.args)
             d == [b EXCEPT !.calls[k] = c, !.tools = @ \union {c.tool}]
             g == Carrier(d, c.tool, c.sig)
             t == Retain(g, c)
  <2>1. Sound(p, shown, f) /\ Closed(f)
    BY FinalizeOpenBlocksIsSound
  <2> HIDE DEF f
  <2>2. Sound(p, shown, b) /\ Closed(b)
    <3>1. Leads(Inside(f.index), <<Delta(f.index, "tool", c.args)>>, Inside(f.index))
      BY <2>1, BlockEvents DEF Sound
    <3>2. QED BY <2>1, <3>1, CompleteIsSound DEF ToolBlock
  <2> HIDE DEF b
  <2>3. Same(b, d)
    BY <2>2 DEF Sound, Same, Fields
  <2> HIDE DEF d
  <2>4. Sound(p, shown, d) /\ Closed(d)
    BY <2>2, <2>3, SameIsSound DEF GoesOn, Closed, Same
  <2>5. Sound(p, shown, g) /\ Closed(g)
    BY <2>4, CarrierIsSound
  <2> HIDE DEF g
  <2>6. Same(g, t)
    BY <2>5, RetainIsSame DEF Sound
  <2> HIDE DEF t
  <2>7. Sound(p, shown, t) /\ Closed(t)
    BY <2>5, <2>6, SameIsSound DEF GoesOn, Closed, Same
  <2>8. Follows(p, shown, s, t)
    BY <2>7 DEF Follows, GoesOn, Closed
  <2>9. SendAs(s, k, c) = Raise(s) \/ SendAs(s, k, c) = t
    BY DEF SendAs, t, g, d, b, f
  <2>10. QED BY <1>1, <2>8, <2>9
<1>3. QED BY <1>2 DEF SendCall

\* _flush_validated_function_calls
LEMMA FlushFollows ==
  ASSUME NEW p, NEW shown, NEW s, Sound(p, shown, s)
  PROVE  Follows(p, shown, s, Flush(s))
<1>1. PICK list, f : /\ Flush(s) = f[Len(list)]
                     /\ f[0] = s
                     /\ \A k \in 0..(Len(list) - 1) : f[k + 1] = SendCall(f[k], list[k + 1])
  BY FlushLoop
<1> DEFINE Good == {k \in 0..Len(list) : Follows(p, shown, s, f[k])}
<1>2. Len(list) \in Nat
  OBVIOUS
<1>3. 0 \in Good
  BY <1>1, <1>2, SameAs, SameFollows DEF Sound
<1>4. ASSUME NEW k \in 0..(Len(list) - 1), k \in Good PROVE k + 1 \in Good
  <2>1. Follows(p, shown, s, f[k]) /\ f[k + 1] = SendCall(f[k], list[k + 1])
    BY <1>1, <1>4
  <2>2. Follows(p, shown, f[k], f[k + 1])
    BY <2>1, SendCallFollows DEF Follows, GoesOn
  <2>3. QED BY <1>2, <2>1, <2>2, FollowsOn
<1>5. Len(list) \in Good
  <2> HIDE DEF Good
  <2>1. QED BY <1>2, <1>3, <1>4, Counted
<1>6. QED BY <1>1, <1>5

\* _buffer_function_call_event
LEMMA BufferEventFollows ==
  ASSUME NEW p, NEW shown, NEW s, Sound(p, shown, s), NEW e
  PROVE  Follows(p, shown, s, BufferEvent(s, e))
<1> DEFINE i == Identified(s, e, FALSE, None)
<1>1. Same(s, i) /\ DOMAIN i = Fields
  <2>1. DOMAIN s = Fields
    BY DEF Sound
  <2>2. Same(s, i)
    BY <2>1, IdentifiedIsSame
  <2>3. QED BY <2>2 DEF Same
<1> HIDE DEF i
<1>2. Same(s, BufferDelta(i, e)) /\ Same(s, Buffered(i, e))
  BY <1>1, BufferedIsSame, SameAs
<1>3. Follows(p, shown, s, BufferDelta(i, e)) /\ Follows(p, shown, s, Buffered(i, e))
  BY <1>2, SameFollows
<1>4. Follows(p, shown, s, FlushUnlessRaised(Buffered(i, e)))
  BY <1>3, FlushFollows, FollowsOn DEF FlushUnlessRaised, Follows, GoesOn
<1>5. QED BY <1>3, <1>4 DEF BufferEvent, i
-----------------------------------------------------------------------------
(* The end of the answer.                                                  *)

\* _flush_buffered_calls_from_terminal
LEMMA FlushListedIsSound ==
  ASSUME NEW p, NEW shown, NEW s, Sound(p, shown, s), NEW terminal, NEW incomplete
  PROVE  Sound(p, shown, FlushListed(s, terminal, incomplete))
<1>0. PICK list, f : ListedRun(s, terminal, incomplete, list, f)
  BY ListedLoop
<1>1. /\ FlushListed(s, terminal, incomplete) = FlushComplete(f[Len(list)])
      /\ f[0] = s
      /\ \A k \in 0..(Len(list) - 1) :
           f[k + 1] = ListedCall(f[k], terminal[list[k + 1]].e, list[k + 1] - 1, incomplete)
  BY <1>0 DEF ListedRun
<1> DEFINE n == Len(list)
           Good == {k \in 0..n : Same(s, f[k])}
<1>2. n \in Nat
  OBVIOUS
<1>3. 0 \in Good
  BY <1>1, <1>2, SameAs DEF Sound
<1>4. ASSUME NEW k \in 0..(n - 1), k \in Good PROVE k + 1 \in Good
  <2>1. Same(s, f[k]) /\ DOMAIN f[k] = Fields
    BY <1>4 DEF Same
  <2>2. Same(f[k], f[k + 1])
    BY <1>1, <2>1, ListedCallIsSame
  <2>3. QED BY <1>2, <2>1, <2>2, SameAs
<1>5. n \in Good
  <2> HIDE DEF Good
  <2>1. QED BY <1>2, <1>3, <1>4, Counted
<1>6. Sound(p, shown, f[n])
  BY <1>5, SameIsSound DEF GoesOn
<1>7. Sound(p, shown, Raise(f[n])) /\ Sound(p, shown, Flush(f[n]))
  <2>1. Same(f[n], Raise(f[n]))
    BY <1>6, RaiseIsSame DEF Sound
  <2>2. Sound(p, shown, Raise(f[n]))
    BY <1>6, <2>1, SameIsSound DEF GoesOn
  <2>3. QED BY <1>6, <2>2, FlushFollows DEF Follows, GoesOn
<1>8. QED BY <1>1, <1>7 DEF FlushComplete

\* _emit_closed_call_carriers_from_terminal
LEMMA LateCarriersIsSound ==
  ASSUME NEW p, NEW shown, NEW s, Sound(p, shown, s), Closed(s), NEW terminal
  PROVE  Sound(p, shown, LateCarriers(s, terminal)) /\ Closed(LateCarriers(s, terminal))
<1>0. PICK list, f : CarrierRun(s, terminal, list, f)
  BY CarrierLoop
<1>1. /\ LateCarriers(s, terminal) = f[Len(list)] /\ f[0] = s
      /\ \A k \in 0..(Len(list) - 1) :
           f[k + 1] = LateCarrier(f[k], terminal[list[k + 1]].e, list[k + 1] - 1)
  BY <1>0 DEF CarrierRun
<1> DEFINE n == Len(list)
           Good == {k \in 0..n : Sound(p, shown, f[k]) /\ Closed(f[k])}
<1>2. n \in Nat
  OBVIOUS
<1>3. 0 \in Good
  BY <1>1, <1>2
<1>4. ASSUME NEW t, Sound(p, shown, t), Closed(t), NEW e, NEW found
      PROVE  Sound(p, shown, LateCarrierOf(t, e, found)) /\ Closed(LateCarrierOf(t, e, found))
  <2>1. ASSUME NEW r, NEW tool, NEW sig
        PROVE  LET u == Carrier([t EXCEPT !.retained = r], tool, sig) IN Sound(p, shown, u) /\ Closed(u)
    <3> DEFINE v == [t EXCEPT !.retained = r]
    <3>1. Same(t, v)
      BY <1>4 DEF Sound, Same, Fields
    <3> HIDE DEF v
    <3>2. Sound(p, shown, v) /\ Closed(v)
      BY <1>4, <3>1, SameIsSound DEF GoesOn, Closed, Same
    <3>3. LET u == Carrier(v, tool, sig) IN Sound(p, shown, u) /\ Closed(u)
      BY <3>2, CarrierIsSound
    <3>4. QED BY <3>3 DEF v
  <2>2. \E r, tool, sig : \/ LateCarrierOf(t, e, found) = t
                          \/ LateCarrierOf(t, e, found) = Carrier([t EXCEPT !.retained = r], tool, sig)
    BY Zenon DEF LateCarrierOf
  <2>3. QED BY <1>4, <2>1, <2>2
<1>5. ASSUME NEW k \in 0..(n - 1), k \in Good PROVE k + 1 \in Good
  <2>1. Sound(p, shown, f[k]) /\ Closed(f[k])
    BY <1>5
  <2>2. \E e, found : f[k + 1] = LateCarrierOf(f[k], e, found)
    BY <1>1, Zenon DEF LateCarrier
  <2>3. QED BY <1>2, <1>4, <2>1, <2>2
<1>6. n \in Good
  <2> HIDE DEF Good
  <2>1. QED BY <1>2, <1>3, <1>5, Counted
<1>7. QED BY <1>1, <1>6

\* The messages that the terminal response repeats.
LEMMA FallBackIsSound ==
  ASSUME NEW p, NEW shown, NEW s, Sound(p, shown, s), Closed(s), NEW terminal
  PROVE  Sound(p, shown, FallBack(s, terminal)) /\ Closed(FallBack(s, terminal))
<1>1. PICK list, f :
        /\ FallBack(s, terminal) = f[Len(list)] /\ f[0] = s
        /\ \A k \in 0..(Len(list) - 1) : f[k + 1] = MessageFallback(f[k], list[k + 1] - 1)
  BY FallBackLoop
<1> DEFINE n == Len(list)
           Good == {k \in 0..n : Sound(p, shown, f[k]) /\ Closed(f[k])}
<1>2. n \in Nat
  OBVIOUS
<1>3. 0 \in Good
  BY <1>1, <1>2
<1>4. ASSUME NEW k \in 0..(n - 1), k \in Good PROVE k + 1 \in Good
  <2>1. Sound(p, shown, f[k]) /\ Closed(f[k]) /\ ~f[k].text
    BY <1>4 DEF Closed
  <2>2. Sound(p, shown, f[k + 1]) /\ Closed(f[k + 1])
    BY <1>1, <2>1, MessageFallbackIsSound DEF GoesOn
  <2>3. QED BY <1>2, <2>2
<1>5. n \in Good
  <2> HIDE DEF Good
  <2>1. QED BY <1>2, <1>3, <1>4, Counted
<1>6. QED BY <1>1, <1>5

\* An answer that ends without an error leads the reader to the end, with every
\* block closed.
LEMMA CompletedEnds ==
  ASSUME NEW p, NEW shown, NEW s, Sound(p, shown, s), NEW list, NEW incomplete
  PROVE  LET t == Completed(s, list, incomplete)
         IN  t.raised \/ (DOMAIN t = Fields /\ Leads(p, t.out, Over))
<1> DEFINE f == FlushListed(s, list, incomplete)
           c == FinalizeOpenBlocks(f)
           l == LateCarriers(c, list)
           m == FallBack(l, list)
           e == Emit(m, <<Plain("stop")>>)
           t == Released(e)
<1>1. Sound(p, shown, f)
  BY FlushListedIsSound
<1> HIDE DEF f
<1>2. Sound(p, shown, c) /\ Closed(c)
  BY <1>1, FinalizeOpenBlocksIsSound
<1> HIDE DEF c
<1>3. Sound(p, shown, l) /\ Closed(l)
  BY <1>2, LateCarriersIsSound
<1> HIDE DEF l
<1>4. Sound(p, shown, m) /\ Closed(m)
  BY <1>3, FallBackIsSound
<1> HIDE DEF m
<1>5. e.out = m.out \o <<Plain("stop")>>
  BY <1>4, EmitIs DEF Sound
<1> HIDE DEF e
<1>6. Leads(p, e.out, Over)
  <2>1. m.index \in Nat /\ Leads(p, m.out, Between(m.index))
    BY <1>4 DEF Sound, Closed, PlaceOf
  <2>2. Allowed(Between(m.index), Plain("stop")) /\ LeftBy(Plain("stop")) = Over
    BY <2>1 DEF Allowed, LeftBy, Plain
  <2>3. Leads(Between(m.index), <<Plain("stop")>>, Over)
    BY <2>2, LeadsByOne
  <2>4. QED BY <1>5, <2>1, <2>3, LeadsOn
<1>7. DOMAIN t = Fields /\ t.out = e.out
  BY DEF Released, Fresh, Fields
<1>8. Completed(s, list, incomplete) = IF f.raised THEN f ELSE t
  BY DEF Completed, StopUnlessRaised, f, c, l, m, e, t
<1> HIDE DEF t
<1>9. QED BY <1>6, <1>7, <1>8
-----------------------------------------------------------------------------
(* The client.                                                             *)

\* An event that is allowed where the client is takes it to the next place,
\* and is a step of ClaudeStream.
LEMMA ReadIs ==
  ASSUME NEW p, NEW e, Reader(client, p), Allowed(p, e), client.ending = "none",
         client' = Read(e)
  PROVE  Reader(client', LeftBy(e)) /\ Message!Next
<1>1. DOMAIN client = {"started", "blocks", "open", "ending"}
  BY DEF Reader
<1>2. /\ p = Unstarted => ~client.started /\ client.open = {} /\ DOMAIN client.blocks = {}
      /\ \A n \in Nat : p = Between(n) =>
           client.started /\ client.open = {} /\ DOMAIN client.blocks = 0..(n - 1)
      /\ \A n \in Nat : p = Inside(n) =>
           client.started /\ client.open = {n} /\ DOMAIN client.blocks = 0..n
      /\ p # Over
  BY PlacesDiffer DEF Reader
<1>3. CASE e.ev = "start"
  <2>1. p = Unstarted
    BY <1>3 DEF Allowed
  <2>2. client' = [client EXCEPT !.started = TRUE]
    BY <1>3 DEF Read
  <2>3. /\ DOMAIN client' = DOMAIN client /\ client'.started = TRUE
        /\ client'.blocks = client.blocks /\ client'.open = client.open
        /\ client'.ending = client.ending
    BY <1>1, <2>2
  <2>4. Message!Start
    BY <1>2, <2>1, <2>3 DEF Message!Start
  <2>5. LeftBy(e) = Between(0) /\ 0 \in Nat /\ 0..(0 - 1) = {}
    BY <1>3 DEF LeftBy
  <2>6. Reader(client', Between(0))
    BY <1>1, <1>2, <2>1, <2>3, <2>5 DEF Reader
  <2>7. QED BY <2>4, <2>5, <2>6 DEF Message!Next
<1>4. CASE e.ev = "open"
  <2> DEFINE n == e.at
             b == [kind |-> e.kind, of |-> e.data, got |-> << >>]
             blocks == [i \in DOMAIN client.blocks \union {n} |->
                          IF i = n THEN b ELSE client.blocks[i]]
  <2>1. n \in Nat /\ p = Between(n)
    BY <1>4 DEF Allowed
  <2>2. client.started /\ client.open = {} /\ DOMAIN client.blocks = 0..(n - 1)
    BY <1>2, <2>1
  <2>3. client' = [client EXCEPT !.open = @ \union {n}, !.blocks = blocks]
    BY <1>1, <1>4 DEF Read
  <2>4. /\ DOMAIN blocks = DOMAIN client.blocks \union {n}
        /\ \A j \in DOMAIN client.blocks \ {n} : blocks[j] = client.blocks[j]
    OBVIOUS
  <2> HIDE DEF blocks
  <2>5. /\ DOMAIN client' = DOMAIN client /\ client'.started = client.started
        /\ client'.blocks = blocks /\ client'.open = {n} /\ client'.ending = client.ending
    BY <1>1, <2>2, <2>3
  <2>6. Cardinality(0..(n - 1)) = n
    BY <2>1, FS_Interval
  <2>7. Message!Count = n
    BY <2>2, <2>6 DEF Message!Count, Message!Cardinality, Cardinality
  <2>8. Message!OpenBlock
    BY <2>2, <2>4, <2>5, <2>7 DEF Message!OpenBlock, Message!Writing, Message!KeepsAllBut
  <2>9. DOMAIN blocks = 0..n
    BY <2>1, <2>2, <2>4
  <2>10. LeftBy(e) = Inside(n)
    BY <1>4 DEF LeftBy
  <2>11. Reader(client', Inside(n))
    BY <1>1, <2>1, <2>2, <2>5, <2>9 DEF Reader
  <2>12. QED BY <2>8, <2>10, <2>11 DEF Message!Next
<1>5. CASE e.ev = "delta"
  <2> DEFINE n == e.at
             blocks == [client.blocks EXCEPT ![n].got = Append(@, e.data)]
  <2>1. n \in Nat /\ p = Inside(n)
    BY <1>5 DEF Allowed
  <2>2. client.started /\ client.open = {n} /\ DOMAIN client.blocks = 0..n
    BY <1>2, <2>1
  <2>3. client' = [client EXCEPT !.blocks = blocks]
    BY <1>1, <1>5 DEF Read
  <2>4. /\ DOMAIN blocks = DOMAIN client.blocks
        /\ \A j \in DOMAIN client.blocks \ {n} : blocks[j] = client.blocks[j]
    OBVIOUS
  <2> HIDE DEF blocks
  <2>5. /\ DOMAIN client' = DOMAIN client /\ client'.started = client.started
        /\ client'.blocks = blocks /\ client'.open = client.open /\ client'.ending = client.ending
    BY <1>1, <2>3
  <2>6. Message!Extend
    BY <2>2, <2>4, <2>5 DEF Message!Extend, Message!Writing, Message!KeepsAllBut
  <2>7. LeftBy(e) = Inside(n)
    BY <1>5 DEF LeftBy
  <2>8. Reader(client', Inside(n))
    BY <1>1, <2>1, <2>2, <2>4, <2>5 DEF Reader
  <2>9. QED BY <2>6, <2>7, <2>8 DEF Message!Next
<1>6. CASE e.ev = "close"
  <2> DEFINE n == e.at
  <2>1. n \in Nat /\ p = Inside(n)
    BY <1>6 DEF Allowed
  <2>2. client.started /\ client.open = {n} /\ DOMAIN client.blocks = 0..n
    BY <1>2, <2>1
  <2>3. client' = [client EXCEPT !.open = @ \ {n}]
    BY <1>6 DEF Read
  <2>4. /\ DOMAIN client' = DOMAIN client /\ client'.started = client.started
        /\ client'.blocks = client.blocks /\ client'.open = {} /\ client'.ending = client.ending
    BY <1>1, <2>2, <2>3
  <2>5. Message!CloseBlock
    BY <2>2, <2>4 DEF Message!CloseBlock, Message!Writing
  <2>6. LeftBy(e) = Between(n + 1) /\ n + 1 \in Nat /\ (n + 1) - 1 = n
    BY <1>6, <2>1 DEF LeftBy
  <2>7. Reader(client', Between(n + 1))
    BY <1>1, <2>2, <2>4, <2>6 DEF Reader
  <2>8. QED BY <2>5, <2>6, <2>7 DEF Message!Next
<1>7. CASE e.ev = "stop"
  <2>1. PICK n \in Nat : p = Between(n)
    BY <1>7 DEF Allowed
  <2>2. client' = [client EXCEPT !.ending = "whole"]
    BY <1>7 DEF Read
  <2>3. /\ DOMAIN client' = DOMAIN client /\ client'.started = client.started
        /\ client'.blocks = client.blocks /\ client'.open = client.open
        /\ client'.ending = "whole"
    BY <1>1, <2>2
  <2>4. Message!End
    BY <1>2, <2>1, <2>3 DEF Message!End, Message!Writing
  <2>5. LeftBy(e) = Over
    BY <1>7 DEF LeftBy
  <2>6. QED BY <1>1, <2>3, <2>4, <2>5 DEF Message!Next, Reader
<1>8. CASE e.ev = "error"
  <2>1. client' = [client EXCEPT !.ending = "error"]
    BY <1>8 DEF Read
  <2>2. /\ DOMAIN client' = DOMAIN client /\ client'.started = client.started
        /\ client'.blocks = client.blocks /\ client'.open = client.open
        /\ client'.ending = "error"
    BY <1>1, <2>1
  <2>3. Message!Fail
    BY <2>2 DEF Message!Fail
  <2>4. LeftBy(e) = Over
    BY <1>8 DEF LeftBy
  <2>5. QED BY <1>1, <2>2, <2>3, <2>4 DEF Message!Next, Reader
<1>9. e.ev \in {"start", "open", "delta", "close", "stop", "error"}
  BY DEF Allowed
<1>10. QED BY <1>3, <1>4, <1>5, <1>6, <1>7, <1>8, <1>9

\* Before the end the client is at a place where an error is allowed.
LEMMA NotOver ==
  ASSUME NEW p, Reader(client, p), client.ending = "none"
  PROVE  p # Over
BY PlacesDiffer DEF Reader
-----------------------------------------------------------------------------
(* The steps.                                                              *)

\* One item more.
LEMMA OneMore ==
  ASSUME NEW o, IsSeq(o), NEW x
  PROVE  IsSeq(Append(o, x)) /\ Len(Append(o, x)) = Len(o) + 1 /\ Len(o) \in Nat
<1>1. PICK S : o \in Seq(S)
  BY SeqIs
<1>2. Append(o, x) \in Seq(S \union {x}) /\ Len(Append(o, x)) = Len(o) + 1 /\ Len(o) \in Nat
  BY <1>1
<1>3. QED BY <1>2, SeqIs

\* An event is read while the translator goes on and the client waits.
LEMMA Reading ==
  ASSUME IInv, Reads
  PROVE  \E p : /\ Reader(client, p) /\ p # Over
                /\ Sound(p, 0..Len(order), tr) /\ InStep(item, left, order, tr)
<1>1. PICK p : /\ Reader(client, p)
               /\ \/ Sound(p, 0..Len(order), tr) /\ InStep(item, left, order, tr)
                  \/ DOMAIN tr = Fields /\ Leads(p, tr.out, Over)
  BY DEF IInv
<1>2. p # Over
  BY <1>1, NotOver DEF IInv, Reads
<1>3. ~Leads(p, tr.out, Over)
  <2>1. tr.out = << >> /\ Len(<< >>) = 0
    BY DEF Reads
  <2>2. QED BY <1>2, <2>1 DEF Leads
<1>4. QED BY <1>1, <1>2, <1>3

\* What the translator makes of an event that is not the last.
LEMMA Fed ==
  ASSUME NEW p, NEW s, Reader(client, p), p # Over, closed <=> client.ending # "none", Feeds(s),
         Sound(p, 0..Len(order'), s), InStep(item', left', order', s)
  PROVE  IInv'
<1>1. CASE s.raised
  <2>1. Allowed(p, Plain("error")) /\ LeftBy(Plain("error")) = Over
    BY DEF Allowed, LeftBy, Plain
  <2>2. Leads(p, <<Plain("error")>>, Over)
    BY <2>1, LeadsByOne
  <2>3. tr' = Broken /\ client' = client /\ closed' = closed
    BY <1>1 DEF Feeds
  <2>4. DOMAIN Broken = Fields /\ Broken.out = <<Plain("error")>>
    BY DEF Broken, Fresh, Fields
  <2>5. QED BY <2>2, <2>3, <2>4 DEF IInv
<1>2. CASE ~s.raised
  <2> DEFINE t == [s EXCEPT !.at = 0]
  <2>1. tr' = t /\ client' = client /\ closed' = closed
    BY <1>2 DEF Feeds
  <2>2. Same(s, t)
    BY DEF Sound, Same, Fields
  <2> HIDE DEF t
  <2>3. Sound(p, 0..Len(order'), t) /\ InStep(item', left', order', t)
    BY <2>2, SameIsSound DEF GoesOn, Same, InStep
  <2>4. QED BY <2>1, <2>3 DEF IInv
<1>3. QED BY <1>1, <1>2

\* What the translator makes of the last event.
LEMMA FedTheLast ==
  ASSUME NEW p, NEW s, Reader(client, p), p # Over, closed <=> client.ending # "none", Feeds(s),
         s.raised \/ (DOMAIN s = Fields /\ Leads(p, s.out, Over))
  PROVE  IInv'
<1>1. CASE s.raised
  <2>1. Allowed(p, Plain("error")) /\ LeftBy(Plain("error")) = Over
    BY DEF Allowed, LeftBy, Plain
  <2>2. Leads(p, <<Plain("error")>>, Over)
    BY <2>1, LeadsByOne
  <2>3. tr' = Broken /\ client' = client /\ closed' = closed
    BY <1>1 DEF Feeds
  <2>4. DOMAIN Broken = Fields /\ Broken.out = <<Plain("error")>>
    BY DEF Broken, Fresh, Fields
  <2>5. QED BY <2>2, <2>3, <2>4 DEF IInv
<1>2. CASE ~s.raised
  <2> DEFINE t == [s EXCEPT !.at = 0]
  <2>1. tr' = t /\ client' = client /\ closed' = closed
    BY <1>2 DEF Feeds
  <2>2. DOMAIN t = Fields /\ t.out = s.out
    BY <1>2 DEF Fields
  <2> HIDE DEF t
  <2>3. QED BY <1>2, <2>1, <2>2 DEF IInv
<1>3. QED BY <1>1, <1>2

\* Another item of the backend.
LEMMA ItemKeeps ==
  ASSUME OnlyMessages, IInv, BackendSaysItem
  PROVE  IInv'
<1> DEFINE m == Len(order)
<1>1. Reads
  BY DEF BackendSaysItem, StartReasoning, EndReasoning, AddSummaryPart, SaySummary, StartMessage,
         SayText, StartWithText, EndPart, EndMessage, WholeMessage, Search, RepeatSearch, GoesBack,
         Starts, Goes
<1>2. PICK p : /\ Reader(client, p) /\ p # Over
               /\ Sound(p, 0..m, tr) /\ InStep(item, left, order, tr)
  BY <1>1, Reading
<1>3. m \in Nat /\ (closed <=> client.ending # "none")
  BY <1>2, OneMore DEF IInv, InStep
<1>4. ASSUME NEW kind, NEW stage, Starts(kind, stage)
      PROVE  /\ item'.n = m + 1 /\ item'.kind = kind /\ item'.stage = stage
             /\ IsSeq(order') /\ Len(order') = m + 1
             /\ \A x \in left' \union {item'} : DOMAIN x = {"n", "kind", "stage"}
             /\ \A x \in left' : x.kind \in Interleaved
             /\ tr.text => Speaking(item', left')
             /\ kind # "message" => ~tr.text /\ ~Speaking(item', left')
             /\ Sound(p, 0..(m + 1), tr)
  <2>1. /\ item' = [n |-> m + 1, kind |-> kind, stage |-> stage]
        /\ left' = Left /\ order' = Append(order, <<kind, m + 1>>)
        /\ kind \in Interleaved \/ ~Speaking(item, left)
    BY <1>4 DEF Starts, PartsEnded, Speaking
  <2>2. IsSeq(order') /\ Len(order') = m + 1
    BY <1>2, <2>1, OneMore DEF InStep
  <2>3. /\ DOMAIN item' = {"n", "kind", "stage"} /\ item'.n = m + 1
        /\ item'.kind = kind /\ item'.stage = stage
    BY <2>1
  <2>4. /\ left \subseteq left' /\ left' \subseteq left \union {item}
        /\ item \in left' <=> item \in left \/ (item.kind \in Interleaved /\ item.stage # "closed")
    BY <2>1 DEF Left
  <2>5. /\ \A x \in left' \union {item'} : DOMAIN x = {"n", "kind", "stage"}
        /\ \A x \in left' : x.kind \in Interleaved
    BY <1>2, <2>1, <2>3 DEF InStep, Left
  <2>6. ASSUME tr.text PROVE Speaking(item', left') /\ kind = "message"
    <3>1. PICK x \in left \union {item} : x.kind = "message" /\ x.stage # "closed"
      BY <1>2, <2>6 DEF InStep, Speaking
    <3>2. kind = "message" /\ kind \in Interleaved
      BY <2>1, <3>1 DEF OnlyMessages, Speaking
    <3>3. x \in left'
      BY <2>4, <3>1, <3>2
    <3>4. QED BY <3>1, <3>2, <3>3 DEF Speaking
  <2>7. ASSUME kind # "message" PROVE ~Speaking(item', left')
    <3>1. ~Speaking(item, left)
      BY <2>1, <2>7 DEF OnlyMessages
    <3>2. QED BY <2>3, <2>4, <2>7, <3>1 DEF Speaking
  <2>8. Sound(p, 0..(m + 1), tr)
    <3>1. 0..m \subseteq 0..(m + 1)
      BY <1>3
    <3>2. QED BY <1>2, <3>1 DEF Sound
  <2>9. QED BY <2>2, <2>3, <2>5, <2>6, <2>7, <2>8
<1>5. ASSUME NEW kind, NEW from, NEW to, Goes(kind, from, to)
      PROVE  /\ item.kind = kind /\ item.stage = from
             /\ item'.n = item.n /\ item'.kind = kind /\ item'.stage = to
             /\ left' = left /\ order' = order
             /\ \A x \in left' \union {item'} : DOMAIN x = {"n", "kind", "stage"}
             /\ kind # "message" => ~tr.text /\ ~Speaking(item', left')
  <2>1. DOMAIN item = {"n", "kind", "stage"}
    BY <1>2 DEF InStep
  <2>2. /\ item.kind = kind /\ item.stage = from /\ left' = left /\ order' = order
        /\ item' = [item EXCEPT !.stage = to]
    BY <1>5 DEF Goes
  <2>3. /\ DOMAIN item' = {"n", "kind", "stage"} /\ item'.n = item.n
        /\ item'.kind = kind /\ item'.stage = to
    BY <2>1, <2>2
  <2>4. \A x \in left' \union {item'} : DOMAIN x = {"n", "kind", "stage"}
    BY <1>2, <2>2, <2>3 DEF InStep
  <2>5. ASSUME kind # "message" PROVE ~tr.text /\ ~Speaking(item', left')
    BY <1>2, <2>2, <2>3, <2>5 DEF InStep, Speaking
  <2>6. QED BY <2>2, <2>3, <2>4, <2>5
\* After a start, and after an item that went on.
<1>6. ASSUME NEW kind, NEW stage, Starts(kind, stage), NEW s, Feeds(s), Sound(p, 0..(m + 1), s),
             s.text => Speaking(item', left'), kind = "search" => ~s.thinking
      PROVE  IInv'
  <2>1. kind = "search" => m + 1 \in 0..(m + 1)
    BY <1>3
  <2>2. InStep(item', left', order', s)
    BY <1>4, <1>6, <2>1 DEF InStep
  <2>3. Sound(p, 0..Len(order'), s)
    BY <1>4, <1>6
  <2>4. QED BY <1>2, <1>3, <1>6, <2>2, <2>3, Fed
<1>7. ASSUME NEW kind, NEW from, NEW to, Goes(kind, from, to), NEW s, Feeds(s), Sound(p, 0..m, s),
             s.text => Speaking(item', left'), kind = "search" => ~s.thinking
      PROVE  IInv'
  <2>1. kind = "search" => item'.n \in 0..m
    BY <1>2, <1>5, <1>7 DEF InStep
  <2>2. InStep(item', left', order', s)
    BY <1>2, <1>5, <1>7, <2>1 DEF InStep
  <2>3. Sound(p, 0..Len(order'), s)
    BY <1>5, <1>7
  <2>4. QED BY <1>2, <1>3, <1>7, <2>2, <2>3, Fed
<1>8. ASSUME NEW signed, StartReasoning(signed) PROVE IInv'
  <2>1. Starts("reasoning", "new") /\ Feeds(ReasoningAdded(tr, signed))
    BY <1>8 DEF StartReasoning
  <2>2. GoesOn(p, 0..(m + 1), tr, ReasoningAdded(tr, signed)) /\ ~tr.text
    BY <1>4, <2>1, ReasoningAddedIsSound
  <2>3. QED BY <1>6, <2>1, <2>2 DEF GoesOn
<1>9. ASSUME NEW signed, EndReasoning(signed) PROVE IInv'
  <2>1. PICK stage : Goes("reasoning", stage, "closed") /\ Feeds(ReasoningDone(tr, signed))
    BY <1>9 DEF EndReasoning
  <2>2. ~tr.text
    BY <1>5, <2>1
  <2>3. GoesOn(p, 0..m, tr, ReasoningDone(tr, signed))
    BY <1>2, <2>2, ReasoningDoneIsSound
  <2>4. QED BY <1>7, <2>1, <2>2, <2>3 DEF GoesOn
<1>10. ASSUME AddSummaryPart PROVE IInv'
  <2>1. PICK from, to : Goes("reasoning", from, to) /\ Feeds(SummaryPart(tr))
    BY <1>10 DEF AddSummaryPart
  <2>2. ~tr.text
    BY <1>5, <2>1
  <2>3. GoesOn(p, 0..m, tr, SummaryPart(tr))
    BY <1>2, <2>2, SummaryPartIsSound
  <2>4. QED BY <1>7, <2>1, <2>2, <2>3 DEF GoesOn
<1>11. ASSUME SaySummary PROVE IInv'
  <2>1. PICK from : Goes("reasoning", from, "said") /\ Feeds(SummaryText(tr))
    BY <1>11 DEF SaySummary
  <2>2. ~tr.text
    BY <1>5, <2>1
  <2>3. GoesOn(p, 0..m, tr, SummaryText(tr))
    BY <1>2, <2>2, SummaryTextIsSound
  <2>4. QED BY <1>7, <2>1, <2>2, <2>3 DEF GoesOn
<1>12. ASSUME StartMessage PROVE IInv'
  <2>1. Starts("message", "new") /\ Feeds(PartAdded(tr))
    BY <1>12 DEF StartMessage
  <2>2. Sound(p, 0..(m + 1), PartAdded(tr))
    BY <1>4, <2>1, PartAddedIsSound
  <2>3. Speaking(item', left')
    BY <1>4, <2>1 DEF Speaking
  <2>4. QED BY <1>6, <2>1, <2>2, <2>3
<1>13. ASSUME SayText PROVE IInv'
  <2>1. Goes("message", "new", "said") /\ Feeds(Say(tr, ItemIndex))
    BY <1>13 DEF SayText
  <2>2. Sound(p, 0..m, Say(tr, ItemIndex))
    BY <1>2, SayIsSound
  <2>3. Speaking(item', left')
    BY <1>5, <2>1 DEF Speaking
  <2>4. QED BY <1>7, <2>1, <2>2, <2>3
<1>14. ASSUME StartWithText PROVE IInv'
  <2>1. Starts("message", "said") /\ Feeds(Say(tr, Len(order)))
    BY <1>14 DEF StartWithText
  <2>2. Sound(p, 0..(m + 1), Say(tr, Len(order)))
    BY <1>4, <2>1, SayIsSound
  <2>3. Speaking(item', left')
    BY <1>4, <2>1 DEF Speaking
  <2>4. QED BY <1>6, <2>1, <2>2, <2>3
<1>15. ASSUME EndPart PROVE IInv'
  <2>1. PICK from : Goes("message", from, "closed") /\ Feeds(PartDone(tr, ItemIndex))
    BY <1>15 DEF EndPart
  <2>2. Sound(p, 0..m, PartDone(tr, ItemIndex)) /\ ~PartDone(tr, ItemIndex).text
    BY <1>2, PartDoneIsSound
  <2>3. QED BY <1>7, <2>1, <2>2
<1>16. ASSUME EndMessage PROVE IInv'
  <2>1. Goes("message", "closed", "closed") /\ Feeds(MessageFallback(tr, ItemIndex))
    BY <1>16 DEF EndMessage
  <2>2. tr.text => Speaking(item', left')
    BY <1>2, <1>5, <2>1 DEF InStep, Speaking
  <2>3. GoesOn(p, 0..m, tr, MessageFallback(tr, ItemIndex))
    BY <1>2, MessageFallbackIsSound
  <2>4. QED BY <1>7, <2>1, <2>2, <2>3 DEF GoesOn
<1>17. ASSUME WholeMessage PROVE IInv'
  <2>1. Starts("message", "closed") /\ Feeds(MessageFallback(tr, Len(order)))
    BY <1>17 DEF WholeMessage
  <2>2. GoesOn(p, 0..(m + 1), tr, MessageFallback(tr, Len(order)))
    BY <1>4, <2>1, MessageFallbackIsSound
  <2>3. QED BY <1>4, <1>6, <2>1, <2>2 DEF GoesOn
<1>18. ASSUME NEW hasResult, Search(hasResult) PROVE IInv'
  <2>1. Starts("search", "closed") /\ Feeds(SearchDone(tr, m + 1, hasResult))
    BY <1>18 DEF Search
  <2>2. m + 1 \notin tr.searches /\ ~tr.text
    BY <1>2, <1>3, <1>4, <2>1 DEF Sound
  <2> DEFINE s == SearchDone(tr, m + 1, hasResult)
  <2>3. Sound(p, (0..m) \union {m + 1}, s) /\ Closed(s)
    BY <1>2, <2>2, SearchDoneIsSound
  <2> HIDE DEF s
  <2>4. (0..m) \union {m + 1} = 0..(m + 1)
    BY <1>3
  <2>5. Feeds(s)
    BY <2>1 DEF s
  <2>6. QED BY <1>6, <2>1, <2>3, <2>4, <2>5 DEF Closed
<1>19. ASSUME NEW hasResult, RepeatSearch(hasResult) PROVE IInv'
  <2>1. Goes("search", "closed", "closed") /\ Feeds(SearchDone(tr, item.n, hasResult))
    BY <1>19 DEF RepeatSearch
  <2>2. ~tr.text /\ ~tr.thinking /\ item.n \in 0..m
    BY <1>2, <1>5, <2>1 DEF InStep
  <2> DEFINE s == SearchDone(tr, item.n, hasResult)
  <2>3. Sound(p, (0..m) \union {item.n}, s) /\ Closed(s)
    BY <1>2, <2>2, SearchDoneIsSound
  <2> HIDE DEF s
  <2>4. (0..m) \union {item.n} = 0..m
    BY <2>2
  <2>5. Feeds(s)
    BY <2>1 DEF s
  <2>6. QED BY <1>7, <2>1, <2>3, <2>4, <2>5 DEF Closed
<1>20. ASSUME NEW x \in left, GoesBack(x) PROVE IInv'
  <2>1. /\ item' = x /\ left' = Left \ {x} /\ order' = order
        /\ tr' = tr /\ client' = client /\ closed' = closed
    BY <1>20 DEF GoesBack
  <2>2. x.kind = "message" /\ "message" \in Interleaved
    BY <1>2 DEF InStep, OnlyMessages
  <2>3. left' \union {item'} \subseteq left \union {item}
    BY <2>1 DEF Left
  <2>4. \A y \in left' : y.kind \in Interleaved
    BY <1>2, <2>1 DEF InStep, Left
  <2>5. tr.text => Speaking(item', left')
    <3> SUFFICES ASSUME tr.text PROVE Speaking(item', left')
      OBVIOUS
    <3>1. PICK y \in left \union {item} : y.kind = "message" /\ y.stage # "closed"
      BY <1>2 DEF InStep, Speaking
    <3>2. y \in left' \union {item'}
      BY <2>1, <2>2, <3>1 DEF Left
    <3>3. QED BY <3>1, <3>2 DEF Speaking
  <2>6. InStep(item', left', order', tr')
    BY <1>2, <2>1, <2>2, <2>3, <2>4, <2>5 DEF InStep
  <2>7. QED BY <1>2, <1>3, <2>1, <2>6 DEF IInv
<1>21. QED BY <1>8, <1>9, <1>10, <1>11, <1>12, <1>13, <1>14, <1>15, <1>16, <1>17, <1>18, <1>19, <1>20
           DEF BackendSaysItem

\* An event of a call.
LEMMA CallKeeps ==
  ASSUME IInv, BackendSaysCall
  PROVE  IInv'
<1>1. PICK c, e : Reads /\ SayCall(c, e)
  BY DEF BackendSaysCall
<1>2. PICK p : /\ Reader(client, p) /\ p # Over
               /\ Sound(p, 0..Len(order), tr) /\ InStep(item, left, order, tr)
  BY <1>1, Reading
<1> DEFINE s == BufferEvent(tr, e)
<1>3. /\ Feeds(s) /\ item' = item /\ left' = left
      /\ order' = order \/ order' = Append(order, <<"call", c>>)
  BY <1>1 DEF SayCall
<1>4. Follows(p, 0..Len(order), tr, s)
  BY <1>2, BufferEventFollows
<1> HIDE DEF s
<1>5. IsSeq(order') /\ 0..Len(order) \subseteq 0..Len(order')
  <2>1. /\ IsSeq(Append(order, <<"call", c>>)) /\ Len(order) \in Nat
        /\ Len(Append(order, <<"call", c>>)) = Len(order) + 1
    BY <1>2, OneMore DEF InStep
  <2>2. CASE order' = order
    BY <1>2, <2>2 DEF InStep
  <2>3. CASE order' = Append(order, <<"call", c>>)
    <3>1. Len(order') = Len(order) + 1 /\ IsSeq(order')
      BY <2>1, <2>3
    <3>2. QED BY <2>1, <3>1
  <2>4. QED BY <1>3, <2>2, <2>3
<1>6. Sound(p, 0..Len(order'), s)
  BY <1>4, <1>5 DEF Follows, GoesOn, Sound
<1>7. InStep(item', left', order', s)
  BY <1>2, <1>3, <1>4, <1>5 DEF Follows, GoesOn, InStep
<1>8. closed <=> client.ending # "none"
  BY DEF IInv
<1>9. QED BY <1>2, <1>3, <1>6, <1>7, <1>8, Fed

\* The end of the answer, whole or not.
LEMMA EndKeeps ==
  ASSUME IInv, BackendEnds
  PROVE  IInv'
<1>1. Reads
  BY DEF BackendEnds, Terminal, Fails
<1>2. PICK p : /\ Reader(client, p) /\ p # Over
               /\ Sound(p, 0..Len(order), tr) /\ InStep(item, left, order, tr)
  BY <1>1, Reading
<1>3. closed <=> client.ending # "none"
  BY DEF IInv
<1>4. ASSUME NEW which, NEW calls, NEW ids, NEW full, Terminal(which, calls, ids, full)
      PROVE  IInv'
  <2> DEFINE list == Listed(which, calls, ids, full, which # "incomplete")
             s == Completed(tr, list, which = "incomplete")
  <2>1. Feeds(s)
    BY <1>4 DEF Terminal
  <2> HIDE DEF list
  <2>2. s.raised \/ (DOMAIN s = Fields /\ Leads(p, s.out, Over))
    BY <1>2, CompletedEnds
  <2> HIDE DEF s
  <2>3. QED BY <1>2, <1>3, <2>1, <2>2, FedTheLast
<1>5. ASSUME Fails PROVE IInv'
  <2>1. tr' = Broken /\ client' = client /\ closed' = closed
    BY <1>5 DEF Fails
  <2>2. Allowed(p, Plain("error")) /\ LeftBy(Plain("error")) = Over
    BY <1>2 DEF Allowed, LeftBy, Plain
  <2>3. Leads(p, <<Plain("error")>>, Over)
    BY <2>2, LeadsByOne
  <2>4. DOMAIN Broken = Fields /\ Broken.out = <<Plain("error")>>
    BY DEF Broken, Fresh, Fields
  <2>5. QED BY <1>2, <1>3, <2>1, <2>3, <2>4 DEF IInv
<1>6. QED BY <1>4, <1>5 DEF BackendEnds

\* The client reads the next event.
LEMMA YieldKeeps ==
  ASSUME IInv, Yields
  PROVE  IInv' /\ Message!Next
<1>1. PICK p : /\ Reader(client, p)
               /\ \/ Sound(p, 0..Len(order), tr) /\ InStep(item, left, order, tr)
                  \/ DOMAIN tr = Fields /\ Leads(p, tr.out, Over)
  BY DEF IInv
<1>2. PICK e : e = Head(tr.out)
  OBVIOUS
<1>3. /\ tr.out # << >> /\ client.ending = "none" /\ client' = Read(e)
      /\ tr' = [tr EXCEPT !.out = Tail(@)]
      /\ item' = item /\ left' = left /\ order' = order
      /\ closed' <=> client'.ending # "none"
  BY <1>2 DEF Yields, IInv, backend
<1>4. PICK q : /\ Leads(p, tr.out, q)
               /\ \/ /\ Sound(p, 0..Len(order), tr) /\ InStep(item, left, order, tr)
                     /\ q = PlaceOf(tr)
                  \/ DOMAIN tr = Fields /\ q = Over
  BY <1>1 DEF Sound
<1>5. Allowed(p, e) /\ Leads(LeftBy(e), Tail(tr.out), q)
  BY <1>2, <1>3, <1>4, LeadsOnFromHead
<1>6. Reader(client', LeftBy(e)) /\ Message!Next
  BY <1>1, <1>3, <1>5, ReadIs
<1>7. DOMAIN tr = Fields
  BY <1>4 DEF Sound
<1>8. /\ DOMAIN tr' = Fields /\ tr'.out = Tail(tr.out) /\ tr'.index = tr.index
      /\ tr'.text = tr.text /\ tr'.thinking = tr.thinking /\ tr'.searches = tr.searches
  BY <1>3, <1>7 DEF Fields
<1>9. CASE Sound(p, 0..Len(order), tr) /\ InStep(item, left, order, tr) /\ q = PlaceOf(tr)
  <2>1. PlaceOf(tr') = q
    BY <1>8, <1>9 DEF PlaceOf
  <2>2. Sound(LeftBy(e), 0..Len(order), tr')
    BY <1>5, <1>8, <1>9, <2>1 DEF Sound
  <2>3. InStep(item, left, order, tr')
    BY <1>8, <1>9 DEF InStep
  <2>4. QED BY <1>3, <1>6, <2>2, <2>3 DEF IInv
<1>10. CASE q = Over
  BY <1>3, <1>5, <1>6, <1>8, <1>10 DEF IInv
<1>11. QED BY <1>4, <1>6, <1>9, <1>10

\* The upstream was silent for too long.
LEMMA TimeoutKeeps ==
  ASSUME IInv, TimesOut
  PROVE  IInv' /\ Message!Next
<1>1. /\ client.ending = "none" /\ closed' = TRUE
      /\ client' = [client EXCEPT !.ending = "error"]
      /\ tr' = [Broken EXCEPT !.out = << >>]
  BY DEF TimesOut, Reads, IInv, backend
<1>2. DOMAIN client = {"started", "blocks", "open", "ending"}
  BY DEF IInv, Reader
<1>3. /\ DOMAIN client' = DOMAIN client /\ client'.started = client.started
      /\ client'.blocks = client.blocks /\ client'.open = client.open
      /\ client'.ending = "error"
  BY <1>1, <1>2
<1>4. Message!Next
  BY <1>1, <1>3 DEF Message!Next, Message!Fail
<1>5. DOMAIN tr' = Fields /\ tr'.out = << >>
  BY <1>1 DEF Broken, Fresh, Fields
<1>6. Reader(client', Over)
  BY <1>2, <1>3 DEF Reader
<1>7. Leads(Over, << >>, Over)
  BY LeadsNowhere
<1>8. IInv'
  BY <1>1, <1>3, <1>5, <1>6, <1>7 DEF IInv
<1>9. QED BY <1>4, <1>8

\* The invariant holds at the start and is kept by every step.
LEMMA Invariance == ASSUME OnlyMessages PROVE Spec => []IInv
<1>1. Init => IInv
  <2> SUFFICES ASSUME Init PROVE IInv
    OBVIOUS
  <2>1. closed <=> client.ending # "none"
    BY DEF Init
  <2>2. Reader(client, Unstarted)
    BY DEF Init, Reader
  <2>3. /\ DOMAIN tr = Fields /\ tr.index = 0 /\ tr.searches = {} /\ tr.text = FALSE
        /\ tr.thinking = FALSE /\ tr.out = <<Plain("start")>>
    BY DEF Init, Fresh, Fields
  <2>4. Allowed(Unstarted, Plain("start")) /\ LeftBy(Plain("start")) = Between(0)
    BY DEF Allowed, LeftBy, Plain
  <2>5. Leads(Unstarted, <<Plain("start")>>, Between(0))
    BY <2>4, LeadsByOne
  <2>6. PlaceOf(tr) = Between(0)
    BY <2>3 DEF PlaceOf
  <2>7. Sound(Unstarted, 0..Len(order), tr)
    BY <2>3, <2>5, <2>6 DEF Sound
  <2>8. InStep(item, left, order, tr)
    <3>1. /\ DOMAIN item = {"n", "kind", "stage"} /\ item.n = 0 /\ left = {}
          /\ order = << >> /\ Len(<< >>) = 0
      BY DEF Init, NoItem
    <3>2. IsSeq(<< >>)
      BY DEF IsSeq
    <3>3. QED BY <2>3, <3>1, <3>2 DEF InStep, Speaking
  <2>9. QED BY <2>1, <2>2, <2>7, <2>8 DEF IInv
<1>2. IInv /\ [Next]_vars => IInv'
  <2> SUFFICES ASSUME IInv, [Next]_vars PROVE IInv'
    OBVIOUS
  <2>1. CASE UNCHANGED vars
    BY <2>1 DEF vars, IInv, Reader
  <2>2. CASE Next
    BY <2>2, ItemKeeps, CallKeeps, EndKeeps, YieldKeeps, TimeoutKeeps DEF Next
  <2>3. QED BY <2>1, <2>2
<1>3. QED BY <1>1, <1>2, PTL DEF Spec

(* The client reads a well formed message: one block at a time, numbered   *)
(* without a gap, and one end.  This is so whatever order the events of    *)
(* calls, and those of several messages, come in, if no reasoning item and *)
(* no search starts while a text part is open.                             *)
THEOREM WellFormedStream == ASSUME OnlyMessages PROVE Spec => StreamIsWellFormed
<1>1. Init => Message!Init
  BY DEF Init, Message!Init
<1>2. IInv /\ [Next]_vars => [Message!Next]_(Message!vars)
  <2> SUFFICES ASSUME IInv, [Next]_vars PROVE [Message!Next]_(Message!vars)
    OBVIOUS
  <2>1. ASSUME client' = client PROVE UNCHANGED Message!vars
    BY <2>1 DEF Message!vars
  <2>2. CASE UNCHANGED vars
    BY <2>1, <2>2 DEF vars
  <2>3. CASE BackendSaysItem
    BY <2>1, <2>3 DEF BackendSaysItem, StartReasoning, EndReasoning, AddSummaryPart, SaySummary,
       StartMessage, SayText, StartWithText, EndPart, EndMessage, WholeMessage, Search,
       RepeatSearch, GoesBack, Feeds
  <2>4. CASE BackendSaysCall
    BY <2>1, <2>4 DEF BackendSaysCall, SayCall, Feeds
  <2>5. CASE BackendEnds
    BY <2>1, <2>5 DEF BackendEnds, Terminal, Fails, Feeds
  <2>6. CASE Yields \/ TimesOut
    BY <2>6, YieldKeeps, TimeoutKeeps
  <2>7. QED BY <2>2, <2>3, <2>4, <2>5, <2>6 DEF Next
<1>3. QED BY <1>1, <1>2, Invariance, PTL DEF Spec, StreamIsWellFormed, Message!Spec
===============================================================================
