--------------------------- MODULE AccountPoolProofs ---------------------------
(***************************************************************************)
(* What holds of AccountPool for any accounts, requests, 429s, polls and   *)
(* record sizes, over any number of steps of the clocks and restarts.      *)
(*                                                                         *)
(* The invariant relates the copies of a cooldown (in memory, on its way   *)
(* to the disk, on the disk and as it was promised) and says of each       *)
(* request what keeps it, or its client, from being misled.                *)
(***************************************************************************)
EXTENDS AccountPool, SequenceTheorems, WellFoundedInduction, TLAPS

Live == PCs \ {"idle", "done"}

Queries ==
  [pc : PCs, kind : {"message", "count"}, family : Families,
   ready : SUBSET Accounts, chain : SUBSET Accounts, skipped : SUBSET Accounts,
   tried : SUBSET Accounts, account : Accounts \cup {NoAccount}, login : Nat,
   limited : [retryAfter : Int, reset : Int] \cup {NoReply}, failed : BOOLEAN,
   key : Keys \cup {NoKey}, answer : Answers, wait : Nat \cup {NoWait}, void : BOOLEAN]

Entries ==
  {e \in [mono : 1..MaxCooldown, wall : 1..MaxCooldown, profile : {NoProfile, 0, 1}] :
     e.wall <= e.mono} \cup {NoEntry}
Rows == [wall : 0..MaxCooldown, profile : {0, 1}] \cup {NoRow}
RowsKept == [wall : 1..MaxCooldown, profile : {0, 1}] \cup {NoRow}

(* A row says what an entry says.                                          *)
Same(row, entry) == row.wall = entry.wall /\ (row.wall > 0 => row.profile = entry.profile)

(* What is left of an entry's promise, another one keeps.                  *)
Covers(other, entry) ==
  entry.wall > 0 => other.profile = entry.profile /\ entry.wall <= other.wall

CooldownTypes ==
  /\ tracker \in [Accounts -> Entries]
  /\ cooldown \in [Keys -> Entries] /\ vow \in [Keys -> Entries]
  /\ pending \in [Keys -> Rows] /\ disk \in [Keys -> RowsKept]
  /\ view \in [Accounts -> [Windows -> Readings]]

(* The newest row of a key is the write under way, or else the disk's,     *)
(* unless the newest write has failed.                                     *)
CopiesAgree ==
  IF up THEN \A k \in Keys :
               IF k \in unwritten THEN pending[k] = NoRow
               ELSE Same(IF pending[k] = NoRow THEN disk[k] ELSE pending[k], cooldown[k])
        ELSE unwritten = {} /\ \A k \in Keys : pending[k] = NoRow /\ cooldown[k] = NoEntry

OnlyBalancedWrites == mode # "balanced" => \A k \in Keys : pending[k] = NoRow /\ disk[k] = NoRow

(* What a request has waited for is on the disk, if its write has not      *)
(* failed, and in memory if there is a memory.                             *)
VowsCovered ==
  \A k \in Keys : /\ k \notin unwritten => Covers(disk[k], vow[k])
                  /\ up => Covers(cooldown[k], vow[k])

(* Of one request q.                                                       *)
WellTyped(q) ==
  /\ q \in Queries
  /\ q.tried \subseteq q.ready /\ q.chain \subseteq q.ready \cap Registered
  /\ q.pc \in Live => q.account \in q.tried

ChainCovers(q, m) ==
  m = "fallback" /\ q.pc \in Live => q.ready \subseteq q.tried \cup q.skipped \cup q.chain

WritesIfBalanced(q, m) ==
  q.pc \in {"durable", "written"} => m = "balanced" /\ q.kind = "message"

WaitsForWrite(q, pend) ==
  q.pc = "written" /\ q.key # NoKey => pend[q.key] = NoRow

(* What it was told, or will be told, still concerns accounts that are     *)
(* ready.                                                                  *)
Concerns(q) == ~q.void /\ (q.pc \in Live \/ (q.pc = "done" /\ q.wait # NoWait))
StillReady(q, st) == Concerns(q) => \A a \in q.ready : st[a] = "ready"

FreeInMemory(q, a, cd, pf) ==
  \A k \in KeysOf(a, q.family) : CooldownLeft(cd[k], pf[a]) <= q.wait
FreeOnDisk(q, a, dk, pf) ==
  \A k \in KeysOf(a, q.family) : dk[k].profile = pf[a] => dk[k].wall <= q.wait

(* Some account is free by the time the client has waited, by the memory   *)
(* there is or by the one there will be.                                   *)
ToldTheTruth(q, m, u, cd, dk, pf) ==
  m = "balanced" /\ q.pc = "done" /\ Concerns(q) =>
    \E a \in q.ready : IF u THEN FreeInMemory(q, a, cd, pf) ELSE FreeOnDisk(q, a, dk, pf)

RequestFine(q) ==
  /\ WellTyped(q)
  /\ up \/ q.pc \notin Live
  /\ ChainCovers(q, mode) /\ WritesIfBalanced(q, mode)
  /\ WaitsForWrite(q, pending)
  /\ StillReady(q, state)
  /\ ToldTheTruth(q, mode, up, cooldown, disk, profile)

RestTypes ==
  /\ mode \in Modes /\ up \in BOOLEAN
  /\ state \in [Accounts -> States]
  /\ glimpse \in [Ambient -> {"ready", "stale", "absent", "unread"}]
  /\ login \in [Accounts -> Nat] /\ profile \in [Accounts -> {0, 1}]

StoreIInv == CooldownTypes /\ CopiesAgree /\ OnlyBalancedWrites /\ VowsCovered
RequestsFine == DOMAIN req = Requests /\ \A r \in Requests : RequestFine(req[r])

IInv == RestTypes /\ StoreIInv /\ RequestsFine

(* Of the file: its lines are numbered up to the last one that landed.     *)
Line == [no : Nat, size : Nat]
Lines == Seq(Line)

LogIInv ==
  /\ file \in [lines : Lines, torn : BOOLEAN] /\ landed \in Nat
  /\ LogIsSound
-----------------------------------------------------------------------------
(* Numbers and records of the model.                                       *)

(* A set of natural numbers with something in it has a least element.      *)
LEMMA LeastNumber ==
  ASSUME NEW S \in SUBSET Nat, S # {}
  PROVE  \E n \in S : \A m \in S : n <= m
<1>1. PICK n \in S : \A m \in S : ~(<<m, n>> \in OpToRel(<, Nat))
  BY NatLessThanWellFounded, WFMin
<1>2. \A m \in S : ~(m < n)
  BY <1>1, Zenon DEF OpToRel
<1>3. QED BY <1>2

(* Min of such a set is its least element.                                 *)
LEMMA MinIs ==
  ASSUME NEW S \in SUBSET Nat, S # {}
  PROVE  Min(S) \in S /\ \A m \in S : Min(S) <= m
BY LeastNumber DEF Min

(* Of two numbers, Min and Max are the smaller and the bigger one.         *)
LEMMA MinMaxOfTwo ==
  ASSUME NEW m \in Int, NEW n \in Int
  PROVE  /\ Min({m, n}) = IF m <= n THEN m ELSE n
         /\ Max({m, n}) = IF m <= n THEN n ELSE m
BY DEF Min, Max

(* A clamped number is within the bounds, and a number that already is     *)
(* stays the same.                                                         *)
LEMMA ClampIs ==
  ASSUME NEW low \in Int, NEW high \in Int, NEW n \in Int, low <= high
  PROVE  Clamp(low, high, n) \in low..high /\ (n \in low..high => Clamp(low, high, n) = n)
<1>1. Min({high, n}) \in Int /\ Min({high, n}) <= high /\ (n <= high => Min({high, n}) = n)
  BY MinMaxOfTwo
<1> DEFINE k == Min({high, n})
<1> HIDE DEF k
<1>2. Max({low, k}) = IF low <= k THEN k ELSE low
  BY <1>1, MinMaxOfTwo DEF k
<1>3. QED BY <1>1, <1>2 DEF Clamp, k
-----------------------------------------------------------------------------
(* The incident file.                                                      *)

(* A running total of the sizes of the lines.                              *)
Total(lines, n, upTo) ==
  /\ upTo \in [0..n -> Nat] /\ upTo[0] = 0
  /\ \A i \in 1..n : upTo[i] = upTo[i - 1] + lines[i].size

(* There is one, for as many lines as there are: a shortest part without   *)
(* one would have a line before it.                                        *)
LEMMA TotalExists ==
  ASSUME NEW lines \in Lines, NEW n \in 0..Len(lines)
  PROVE  \E upTo : Total(lines, n, upTo)
<1> DEFINE Without == {k \in 0..Len(lines) : ~\E upTo : Total(lines, k, upTo)}
<1>1. SUFFICES ASSUME Without # {} PROVE FALSE
  BY DEF Lines
<1>2. Len(lines) \in Nat /\ Without \subseteq Nat
  BY DEF Lines
<1>3. PICK k \in Without : \A j \in Without : k <= j
  BY <1>1, <1>2, LeastNumber
<1>4. k \in Nat /\ k \in 0..Len(lines)
  BY <1>2
<1>5. k # 0
  <2>1. Total(lines, 0, [i \in 0..0 |-> 0])
    BY DEF Total
  <2>2. QED BY <2>1
<1>6. PICK upTo : Total(lines, k - 1, upTo)
  <2>1. k - 1 \in 0..Len(lines) /\ ~(k <= k - 1)
    BY <1>2, <1>4, <1>5
  <2>2. QED BY <1>3, <2>1
<1> DEFINE more == [i \in 0..k |-> IF i = k THEN upTo[k - 1] + lines[k].size ELSE upTo[i]]
<1>7. lines[k].size \in Nat
  <2>1. k \in 1..Len(lines)
    BY <1>2, <1>4, <1>5
  <2>2. lines[k] \in Line
    BY <2>1, ElementOfSeq DEF Lines
  <2>3. QED BY <2>2 DEF Line
<1>8. upTo[k - 1] \in Nat /\ \A i \in 0..k : i # k => upTo[i] \in Nat
  <2>1. upTo \in [0..(k - 1) -> Nat]
    BY <1>6 DEF Total
  <2>2. k - 1 \in 0..(k - 1) /\ \A i \in 0..k : i # k => i \in 0..(k - 1)
    BY <1>4, <1>5
  <2>3. QED BY <2>1, <2>2
<1>9. more \in [0..k -> Nat]
  <2>1. upTo[k - 1] + lines[k].size \in Nat
    BY <1>7, <1>8
  <2>2. QED BY <1>8, <2>1
<1>10. more[0] = 0
  BY <1>4, <1>5, <1>6 DEF Total
<1>11. ASSUME NEW i \in 1..k
       PROVE  more[i] = more[i - 1] + lines[i].size
  <2>1. CASE i = k
    BY <1>4, <1>5, <2>1
  <2>2. CASE i # k
    <3>1. i \in 1..(k - 1) /\ i - 1 \in 0..k /\ i - 1 # k /\ i \in 0..k
      BY <1>4, <2>2
    <3>2. upTo[i] = upTo[i - 1] + lines[i].size
      BY <1>6, <3>1 DEF Total
    <3>3. more[i] = upTo[i] /\ more[i - 1] = upTo[i - 1]
      BY <2>2, <3>1
    <3>4. QED BY <3>2, <3>3
  <2>3. QED BY <2>1, <2>2
<1>12. Total(lines, k, more)
  <2> HIDE DEF more
  <2>1. QED BY <1>9, <1>10, <1>11 DEF Total
<1>13. QED BY <1>3, <1>12

(* The size of a file is the end of any running total: there is no first   *)
(* place where two totals differ.                                          *)
LEMMA SizeIsTotal ==
  ASSUME NEW lines \in Lines, NEW f, Total(lines, Len(lines), f)
  PROVE  SizeOf(lines) = f[Len(lines)]
<1> DEFINE n == Len(lines)
           Def(g) == g = [i \in 0..n |-> IF i = 0 THEN 0 ELSE g[i - 1] + lines[i].size]
           upTo == CHOOSE g : Def(g)
<1>1. n \in Nat
  BY DEF Lines
<1>2. Def(f)
  <2>1. f = [i \in 0..n |-> f[i]]
    BY DEF Total
  <2>2. ASSUME NEW i \in 0..n
        PROVE  f[i] = IF i = 0 THEN 0 ELSE f[i - 1] + lines[i].size
    BY <1>1 DEF Total
  <2>3. QED BY <2>1, <2>2
<1>3. Def(upTo)
  BY <1>2
<1>4. SizeOf(lines) = upTo[n]
  BY DEF SizeOf
<1>5. \A i \in 0..n : f[i] = upTo[i]
  <2> HIDE DEF upTo
  <2> DEFINE Differ == {i \in 0..n : f[i] # upTo[i]}
  <2>1. SUFFICES ASSUME Differ # {} PROVE FALSE
    OBVIOUS
  <2>a. Differ \in SUBSET Nat
    BY <1>1
  <2>2. PICK i \in Differ : \A j \in Differ : i <= j
    <3> HIDE DEF Differ
    <3>1. QED BY <2>1, <2>a, LeastNumber
  <2>3. upTo[0] = 0 /\ f[0] = 0
    BY <1>1, <1>3 DEF Total
  <2>4. i # 0 /\ i \in 1..n /\ i - 1 \in 0..n
    BY <1>1, <2>2, <2>3
  <2>5. f[i - 1] = upTo[i - 1]
    <3>1. ~(i <= i - 1)
      BY <2>4
    <3>2. QED BY <2>2, <2>4, <3>1
  <2>6. upTo[i] = upTo[i - 1] + lines[i].size
    BY <1>3, <2>4
  <2>7. f[i] = f[i - 1] + lines[i].size
    BY <2>4 DEF Total
  <2>8. QED BY <2>2, <2>5, <2>6, <2>7
<1>6. QED BY <1>1, <1>4, <1>5

(* The size of no lines.                                                   *)
LEMMA SizeOfNothing == <<>> \in Lines /\ SizeOf(<<>>) = 0
<1>1. <<>> \in Lines /\ Len(<<>>) = 0
  BY DEF Lines
<1>2. Total(<<>>, 0, [i \in 0..0 |-> 0])
  BY DEF Total
<1>3. QED BY <1>1, <1>2, SizeIsTotal

(* A line more adds its size.                                              *)
LEMMA SizeOfOneMore ==
  ASSUME NEW lines \in Lines, NEW line \in Line
  PROVE  /\ Append(lines, line) \in Lines /\ SizeOf(lines) \in Nat
         /\ SizeOf(Append(lines, line)) = SizeOf(lines) + line.size
<1> DEFINE more == Append(lines, line)
           n == Len(lines)
<1>1. /\ n \in Nat /\ more \in Lines /\ Len(more) = n + 1 /\ more[n + 1] = line
      /\ \A i \in 1..n : more[i] = lines[i]
  BY AppendProperties DEF Lines
<1> HIDE DEF more
<1>2. PICK f : Total(more, n + 1, f)
  <2>1. n + 1 \in 0..Len(more)
    BY <1>1
  <2>2. QED BY <1>1, <2>1, TotalExists
<1>3. SizeOf(more) = f[n + 1] /\ f[n + 1] = f[n] + line.size
  <2>1. SizeOf(more) = f[n + 1]
    BY <1>1, <1>2, SizeIsTotal
  <2>2. n + 1 \in 1..(n + 1) /\ (n + 1) - 1 = n
    BY <1>1
  <2>3. f[n + 1] = f[n] + more[n + 1].size
    BY <1>2, <2>2 DEF Total
  <2>4. QED BY <1>1, <2>1, <2>3
<1> DEFINE g == [i \in 0..n |-> f[i]]
<1>4. Total(lines, n, g)
  <2>1. g \in [0..n -> Nat] /\ g[0] = 0
    BY <1>1, <1>2 DEF Total
  <2>2. ASSUME NEW i \in 1..n
        PROVE  g[i] = g[i - 1] + lines[i].size
    <3>1. i \in 1..(n + 1) /\ i \in 0..n /\ i - 1 \in 0..n
      BY <1>1
    <3>2. f[i] = f[i - 1] + more[i].size
      BY <1>2, <3>1 DEF Total
    <3>3. QED BY <1>1, <3>1, <3>2
  <2> HIDE DEF g
  <2>3. QED BY <2>1, <2>2 DEF Total
<1>5. SizeOf(lines) = f[n] /\ f[n] \in Nat
  <2>1. SizeOf(lines) = g[n]
    BY <1>4, SizeIsTotal
  <2>2. f[n] \in Nat
    BY <1>1, <1>2 DEF Total
  <2>3. QED BY <1>1, <2>1, <2>2
<1>6. QED BY <1>1, <1>3, <1>5 DEF more

(* The part that is kept are the last lines, and they fit.                 *)
LEMMA NewestFit ==
  ASSUME NEW lines \in Lines, NEW bytes \in Nat
  PROVE  \E n \in 1..(Len(lines) + 1) :
           /\ NewestThatFit(lines, bytes) = SubSeq(lines, n, Len(lines))
           /\ SizeOf(SubSeq(lines, n, Len(lines))) <= bytes
<1> DEFINE suffix(n) == SubSeq(lines, n, Len(lines))
           fits == {n \in 1..(Len(lines) + 1) : SizeOf(suffix(n)) <= bytes}
<1>1. Len(lines) \in Nat
  BY DEF Lines
<1>2. Len(lines) + 1 \in fits
  <2>1. suffix(Len(lines) + 1) = <<>>
    BY <1>1, EmptySeq, SubSeqProperties DEF Lines
  <2>a. SizeOf(suffix(Len(lines) + 1)) = 0
    BY <2>1, SizeOfNothing, Zenon
  <2>2. SizeOf(suffix(Len(lines) + 1)) <= bytes
    BY <2>a
  <2>3. Len(lines) + 1 \in 1..(Len(lines) + 1)
    BY <1>1
  <2>4. QED BY <2>2, <2>3
<1>3. fits \in SUBSET Nat
  BY <1>1
<1>4. NewestThatFit(lines, bytes) = suffix(CHOOSE n \in fits : \A m \in fits : n <= m)
  BY DEF NewestThatFit
<1> DEFINE least == CHOOSE n \in fits : \A m \in fits : n <= m
<1>5. least \in fits
  <2> HIDE DEF fits
  <2>1. QED BY <1>2, <1>3, LeastNumber
<1> HIDE DEF least
<1>6. least \in 1..(Len(lines) + 1) /\ SizeOf(suffix(least)) <= bytes
  BY <1>5
<1>7. NewestThatFit(lines, bytes) = suffix(least)
  BY <1>4 DEF least
<1>8. QED BY <1>6, <1>7

(* Lines that are numbered up to the last one.                             *)
Numbered(lines, last) == \A i \in DOMAIN lines : lines[i].no = last - Len(lines) + i

(* So are the newest of them, and with the next line after them.           *)
LEMMA NextNumber ==
  ASSUME NEW lines \in Lines, NEW last \in Nat, Numbered(lines, last),
         NEW line \in Line, line.no = last + 1, NEW n \in 1..(Len(lines) + 1)
  PROVE  /\ SubSeq(lines, n, Len(lines)) \in Lines
         /\ Numbered(SubSeq(lines, n, Len(lines)), last)
         /\ Numbered(Append(lines, line), last + 1)
<1> DEFINE l == Len(lines)
           newest == SubSeq(lines, n, l)
           more == Append(lines, line)
<1>1. l \in Nat /\ DOMAIN lines = 1..l /\ \A i \in 1..l : lines[i] \in Line
  BY ElementOfSeq DEF Lines
<1>2. /\ newest \in Lines /\ Len(newest) = IF n <= l THEN l - n + 1 ELSE 0
      /\ \A i \in 1..(l - n + 1) : newest[i] = lines[n + i - 1]
  BY <1>1, SubSeqProperties DEF Lines
<1>3. /\ more \in Lines /\ Len(more) = l + 1 /\ more[l + 1] = line
      /\ \A i \in 1..l : more[i] = lines[i]
  BY AppendProperties DEF Lines
<1> HIDE DEF newest, more
<1>4. DOMAIN newest = 1..Len(newest) /\ DOMAIN more = 1..(l + 1)
  BY <1>2, <1>3 DEF Lines
<1>5. Numbered(newest, last)
  <2>1. ASSUME NEW i \in 1..Len(newest)
        PROVE  newest[i].no = last - Len(newest) + i
    <3>1. i \in 1..(l - n + 1) /\ n + i - 1 \in 1..l /\ Len(newest) = l - n + 1
      BY <1>1, <1>2
    <3>2. lines[n + i - 1].no = last - l + (n + i - 1)
      BY <1>1, <3>1 DEF Numbered
    <3>3. newest[i] = lines[n + i - 1]
      BY <1>2, <3>1
    <3>4. last - l + (n + i - 1) = last - Len(newest) + i
      <4>1. l \in Int /\ n \in Int /\ i \in Int /\ last \in Int
        BY <1>1, <3>1
      <4>2. last - l + (n + i - 1) = last - (l - n + 1) + i
        BY <4>1
      <4>3. QED BY <3>1, <4>2
    <3>5. QED BY <3>2, <3>3, <3>4
  <2>2. QED BY <1>4, <2>1 DEF Numbered
<1>6. Numbered(more, last + 1)
  <2>1. ASSUME NEW i \in 1..(l + 1)
        PROVE  more[i].no = (last + 1) - (l + 1) + i
    <3>1. CASE i = l + 1
      BY <1>1, <1>3, <3>1
    <3>2. CASE i # l + 1
      <4>1. i \in 1..l
        BY <1>1, <3>2
      <4>2. lines[i].no = last - l + i
        BY <1>1, <4>1 DEF Numbered
      <4>3. QED BY <1>1, <1>3, <4>1, <4>2
    <3>3. QED BY <3>1, <3>2
  <2>2. QED BY <1>3, <1>4, <2>1 DEF Numbered
<1>7. QED BY <1>2, <1>5, <1>6 DEF newest, more

Files == [lines : Lines, torn : BOOLEAN]
SoundFile(f, last) == Numbered(f.lines, last) /\ SizeOf(f.lines) <= MaxBytes

(* An append that goes well leaves a sound file that ends in its line.     *)
LEMMA AppendedIsSound ==
  ASSUME NEW f \in Files, NEW last \in Nat, SoundFile(f, last),
         NEW line \in Line, line.no = last + 1, line.size <= RecordCap
  PROVE  /\ Appended(f, line) \in Files /\ SoundFile(Appended(f, line), last + 1)
         /\ Appended(f, line).lines # <<>> /\ Last(Appended(f, line).lines).no = last + 1
<1> DEFINE repaired == RepairIncompleteTail(f)
<1>1. repaired \in Files /\ repaired.lines = f.lines /\ repaired.torn = FALSE
  BY DEF Files, RepairIncompleteTail
<1>2. f.lines \in Lines /\ Numbered(f.lines, last) /\ SizeOf(f.lines) <= MaxBytes
  BY DEF Files, SoundFile
<1>3. SUFFICES ASSUME NEW lines \in Lines, Numbered(lines, last),
                      SizeOf(lines) + line.size <= MaxBytes,
                      Appended(f, line) = [lines |-> Append(lines, line), torn |-> FALSE]
               PROVE  /\ Appended(f, line) \in Files /\ SoundFile(Appended(f, line), last + 1)
                      /\ Appended(f, line).lines # <<>>
                      /\ Last(Appended(f, line).lines).no = last + 1
  <2>1. CASE Fits(repaired, line)
    <3>1. Appended(f, line) = [lines |-> Append(f.lines, line), torn |-> FALSE]
      BY <1>1, <2>1 DEF Appended, AppendLine
    <3>2. SizeOf(f.lines) + line.size <= MaxBytes
      BY <1>1, <2>1 DEF Fits
    <3>3. QED BY <1>2, <1>3, <3>1, <3>2
  <2>2. CASE ~Fits(repaired, line)
    <3> DEFINE kept == NewestThatFit(f.lines, MaxBytes - line.size)
    <3>1. MaxBytes - line.size \in Nat
      BY LogAssumption DEF Line
    <3>2. PICK n \in 1..(Len(f.lines) + 1) :
            /\ kept = SubSeq(f.lines, n, Len(f.lines))
            /\ SizeOf(SubSeq(f.lines, n, Len(f.lines))) <= MaxBytes - line.size
      BY <1>2, <3>1, NewestFit
    <3>3. kept \in Lines /\ Numbered(kept, last)
      BY <1>2, <3>2, NextNumber
    <3>4. SizeOf(kept) \in Nat /\ SizeOf(kept) <= MaxBytes - line.size
      BY <3>2, <3>3, SizeOfOneMore
    <3>5. Appended(f, line) = [lines |-> Append(kept, line), torn |-> FALSE]
      BY <1>1, <2>2 DEF Appended, Compacted
    <3> HIDE DEF kept
    <3>6. SizeOf(kept) + line.size <= MaxBytes
      BY <3>4, LogAssumption DEF Line
    <3>7. QED BY <1>3, <3>3, <3>5, <3>6
  <2>3. QED BY <2>1, <2>2
<1> DEFINE more == Append(lines, line)
<1>4. more \in Lines /\ SizeOf(more) <= MaxBytes
  BY <1>3, SizeOfOneMore
<1>5. Numbered(more, last + 1)
  <2>1. 1 \in 1..(Len(lines) + 1)
    BY DEF Lines
  <2>2. QED BY <1>3, <2>1, NextNumber
<1>6. more # <<>> /\ Last(more).no = last + 1
  BY AppendProperties DEF Lines, Last
<1> HIDE DEF more
<1>7. Appended(f, line).lines = more /\ Appended(f, line).torn = FALSE
  BY <1>3 DEF more
<1>8. QED BY <1>3, <1>4, <1>5, <1>6, <1>7 DEF Files, SoundFile, more

(* Whatever becomes of an append, the file it leaves is sound.             *)
LEMMA AppendsAreSound ==
  ASSUME LogIInv, NEW bytes \in Nat, NEW f,
         f = Appended(file, LineOf(landed + 1, bytes))
           \/ f \in Interrupted(file, LineOf(landed + 1, bytes)),
         Leaves(f)
  PROVE  LogIInv'
<1> DEFINE line == LineOf(landed + 1, bytes)
<1>1. line \in Line /\ line.no = landed + 1 /\ line.size <= RecordCap
  BY LogAssumption DEF LogIInv, LineOf, Line
<1>2. file \in Files /\ landed \in Nat /\ SoundFile(file, landed)
  BY DEF LogIInv, Files, LogIsSound, SoundFile, Numbered
<1> HIDE DEF line
<1>3. f = Appended(file, line) \/ (f \in Files /\ f.lines = file.lines)
  BY <1>2 DEF Interrupted, RepairIncompleteTail, Files, line
<1>4. SUFFICES ASSUME NEW last \in Nat, f \in Files, SoundFile(f, last), landed' = last
               PROVE  LogIInv'
  <2>1. CASE f = Appended(file, line)
    <3>1. landed' = landed + 1
      BY <1>1, <1>2, <2>1, AppendedIsSound DEF Leaves
    <3>2. QED BY <1>1, <1>2, <1>4, <2>1, <3>1, AppendedIsSound
  <2>2. CASE f \in Files /\ f.lines = file.lines
    <3>1. ASSUME f.lines # <<>> PROVE Last(f.lines).no = landed
      BY <1>2, <2>2, <3>1 DEF SoundFile, Numbered, Files, Lines, Last
    <3>2. landed' = landed
      BY <1>2, <3>1 DEF Leaves
    <3>3. QED BY <1>2, <1>4, <2>2, <3>2 DEF SoundFile
  <2>3. QED BY <1>3, <2>1, <2>2
<1>5. file' = f
  BY DEF Leaves
<1>6. QED BY <1>4, <1>5 DEF LogIInv, LogIsSound, Files, SoundFile, Numbered

(* A step that leaves the file alone, or appends to it.                    *)
LEMMA LogSteps ==
  ASSUME LogIInv, InputAssumption, mode \in Modes,
         \/ UNCHANGED log
         \/ \E quotas \in Nat : RecordIncident(quotas)
         \/ \E bytes \in RecordSizes[mode] :
              \E f \in Interrupted(file, LineOf(landed + 1, bytes)) : Leaves(f)
  PROVE  LogIInv'
<1>1. CASE UNCHANGED log
  BY <1>1 DEF log, LogIInv, LogIsSound
<1>2. CASE \E bytes \in RecordSizes[mode] :
             \/ Leaves(Appended(file, LineOf(landed + 1, bytes)))
             \/ \E f \in Interrupted(file, LineOf(landed + 1, bytes)) : Leaves(f)
  <2>1. PICK bytes \in RecordSizes[mode] :
             \/ Leaves(Appended(file, LineOf(landed + 1, bytes)))
             \/ \E f \in Interrupted(file, LineOf(landed + 1, bytes)) : Leaves(f)
    BY <1>2
  <2>2. bytes \in Nat
    BY DEF InputAssumption
  <2>3. QED BY <2>1, <2>2, AppendsAreSound
<1>3. QED
  <2>1. CASE \E quotas \in Nat : RecordIncident(quotas)
    <3>1. QED BY <1>2, <2>1 DEF RecordIncident
  <2>2. QED BY <1>1, <1>2, <2>1
-----------------------------------------------------------------------------
(* Cooldowns and their copies.                                             *)

(* What an entry says: its wall clock decides.                             *)
LEMMA EntryFacts ==
  ASSUME NEW entry \in Entries
  PROVE  /\ entry.wall \in 0..MaxCooldown /\ entry.mono \in 0..MaxCooldown
         /\ entry.wall <= entry.mono /\ RemainingSeconds(entry) = entry.wall
         /\ IsRunning(entry) <=> entry.wall > 0
         /\ \A p : CooldownLeft(entry, p) = IF entry.profile = p THEN entry.wall ELSE 0
         /\ entry.profile \in {NoProfile, 0, 1}
<1>1. /\ entry.wall \in 0..MaxCooldown /\ entry.mono \in 0..MaxCooldown
      /\ entry.wall <= entry.mono /\ entry.profile \in {NoProfile, 0, 1}
  BY CooldownAssumption DEF Entries, NoEntry
<1>2. RemainingSeconds(entry) = entry.wall
  BY <1>1, MinMaxOfTwo DEF RemainingSeconds
<1>3. QED BY <1>1, <1>2 DEF IsRunning, CooldownLeft

(* A step of the wall clock: of the time, one less, of somebody still.     *)
Older(new, old) == new.wall = Minus(old.wall) /\ (new.wall > 0 => new.profile = old.profile)

(* Entries are that much older after a step of both clocks or of one.      *)
LEMMA EntryAges ==
  ASSUME NEW entry \in Entries
  PROVE  /\ Ticked(entry) \in Entries /\ Older(Ticked(entry), entry)
         /\ Slept(entry) \in Entries /\ Older(Slept(entry), entry)
<1>1. CASE entry = NoEntry
  <2>1. Minus(0) = 0
    BY DEF Minus
  <2>a. /\ NoEntry \in [mono : Int, wall : Int, profile : {NoProfile}]
        /\ Minus(NoEntry.mono) = NoEntry.mono /\ Minus(NoEntry.wall) = NoEntry.wall
    BY <2>1 DEF NoEntry
  <2>2. [NoEntry EXCEPT !.mono = Minus(@), !.wall = Minus(@)] = NoEntry
        /\ [NoEntry EXCEPT !.wall = Minus(@)] = NoEntry
    BY <2>a
  <2>3. Ticked(entry) = NoEntry /\ Slept(entry) = NoEntry
    BY <1>1, <2>2 DEF Ticked, Slept, Pruned
  <2>4. NoEntry \in Entries /\ NoEntry.wall = 0
    BY DEF Entries, NoEntry
  <2>5. QED BY <1>1, <2>1, <2>3, <2>4 DEF Older
<1>2. CASE entry # NoEntry
  <2>1. /\ entry \in [mono : 1..MaxCooldown, wall : 1..MaxCooldown, profile : {NoProfile, 0, 1}]
        /\ entry.wall <= entry.mono
    BY <1>2 DEF Entries
  <2>2. ASSUME NEW mono \in Int, NEW e, mono \in {entry.mono, entry.mono - 1},
               e = [mono |-> mono, wall |-> entry.wall - 1, profile |-> entry.profile]
        PROVE  Pruned(e) \in Entries /\ Older(Pruned(e), entry)
    <3>1. e.mono = mono /\ e.wall = entry.wall - 1 /\ e.profile = entry.profile
      BY <2>2
    <3>2. entry.wall \in 1..MaxCooldown /\ mono >= entry.wall - 1 /\ mono <= MaxCooldown
      BY <2>1, <2>2, CooldownAssumption
    <3>3. RemainingSeconds(e) = entry.wall - 1
      <4>1. entry.wall - 1 \in Int
        BY <3>2
      <4>2. Min({mono, entry.wall - 1}) = entry.wall - 1
        BY <2>2, <3>2, <4>1, MinMaxOfTwo
      <4>3. QED BY <3>1, <4>2 DEF RemainingSeconds
    <3>4. Minus(entry.wall) = entry.wall - 1
      BY <3>2 DEF Minus
    <3>5. CASE entry.wall = 1
      <4>1. Pruned(e) = NoEntry
        BY <3>3, <3>5 DEF Pruned, IsRunning
      <4>2. QED BY <3>4, <3>5, <4>1 DEF Entries, NoEntry, Older
    <3>6. CASE entry.wall # 1
      <4>1. Pruned(e) = e
        BY <3>2, <3>3, <3>6 DEF Pruned, IsRunning
      <4>2. mono \in 1..MaxCooldown /\ entry.wall - 1 \in 1..MaxCooldown
        BY <3>2, <3>6, CooldownAssumption
      <4>3. e \in Entries
        BY <2>1, <2>2, <3>1, <3>2, <4>2 DEF Entries
      <4>4. QED BY <3>1, <3>4, <4>1, <4>3 DEF Older
    <3>7. QED BY <3>5, <3>6
  <2>3. /\ Minus(entry.wall) = entry.wall - 1 /\ Minus(entry.mono) = entry.mono - 1
        /\ entry = [mono |-> entry.mono, wall |-> entry.wall, profile |-> entry.profile]
    BY <2>1, CooldownAssumption DEF Minus
  <2>4. /\ [entry EXCEPT !.mono = Minus(@), !.wall = Minus(@)]
             = [mono |-> entry.mono - 1, wall |-> entry.wall - 1, profile |-> entry.profile]
        /\ [entry EXCEPT !.wall = Minus(@)]
             = [mono |-> entry.mono, wall |-> entry.wall - 1, profile |-> entry.profile]
    <3>1. /\ [entry EXCEPT !.mono = Minus(@), !.wall = Minus(@)]
               = [mono |-> Minus(entry.mono), wall |-> Minus(entry.wall), profile |-> entry.profile]
          /\ [entry EXCEPT !.wall = Minus(@)]
               = [mono |-> entry.mono, wall |-> Minus(entry.wall), profile |-> entry.profile]
      <4>1. ASSUME NEW m, NEW w
            PROVE  /\ [entry EXCEPT !.mono = m, !.wall = w]
                        = [mono |-> m, wall |-> w, profile |-> entry.profile]
                   /\ [entry EXCEPT !.wall = w]
                        = [mono |-> entry.mono, wall |-> w, profile |-> entry.profile]
        <5>1. [entry EXCEPT !.wall = w]
                = [mono |-> entry.mono, wall |-> w, profile |-> entry.profile]
          BY <2>1
        <5> DEFINE e == [entry EXCEPT !.mono = m]
        <5>a. e = [mono |-> m, wall |-> entry.wall, profile |-> entry.profile]
          BY <2>1
        <5>2. [entry EXCEPT !.mono = m, !.wall = w]
                = [mono |-> m, wall |-> w, profile |-> entry.profile]
          <6> HIDE DEF e
          <6>1. [e EXCEPT !.wall = w] = [mono |-> m, wall |-> w, profile |-> entry.profile]
            BY <5>a
          <6>2. QED BY <6>1 DEF e
        <5>3. QED BY <5>1, <5>2
      <4>2. QED BY <4>1
    <3>2. QED BY <2>3, <3>1
  <2>5. entry.mono \in Int /\ entry.mono - 1 \in Int
    BY <2>1, CooldownAssumption
  <2>6. QED BY <2>2, <2>4, <2>5 DEF Ticked, Slept
<1>3. QED BY <1>1, <1>2

(* So are rows, those of the disk and those on their way.                  *)
LEMMA RowAges ==
  /\ \A row \in RowsKept : RowTicked(row) \in RowsKept /\ Older(RowTicked(row), row)
  /\ \A row \in Rows :
       LET new == [row EXCEPT !.wall = Minus(@)]
       IN  new \in Rows /\ Older(new, row) /\ (new = NoRow <=> row = NoRow)
<1>1. ASSUME NEW row \in RowsKept
      PROVE  RowTicked(row) \in RowsKept /\ Older(RowTicked(row), row)
  <2>1. CASE row = NoRow
    BY <2>1 DEF RowTicked, RowsKept, NoRow, Older, Minus
  <2>2. CASE row # NoRow
    <3>1. row \in [wall : 1..MaxCooldown, profile : {0, 1}] /\ Minus(row.wall) = row.wall - 1
      BY <2>2 DEF RowsKept, Minus
    <3>2. CASE row.wall <= 1
      BY <3>1, <3>2, CooldownAssumption DEF RowTicked, RowsKept, NoRow, Older
    <3>3. CASE ~(row.wall <= 1)
      <4>1. RowTicked(row) = [wall |-> row.wall - 1, profile |-> row.profile]
        BY <3>1, <3>3 DEF RowTicked
      <4>2. row.wall - 1 \in 1..MaxCooldown
        BY <3>1, <3>3, CooldownAssumption
      <4>3. QED BY <3>1, <4>1, <4>2 DEF RowsKept, Older
    <3>4. QED BY <3>2, <3>3
  <2>3. QED BY <2>1, <2>2
<1>2. ASSUME NEW row \in Rows, NEW new, new = [row EXCEPT !.wall = Minus(@)]
      PROVE  new \in Rows /\ Older(new, row) /\ (new = NoRow <=> row = NoRow)
  <2>1. CASE row = NoRow
    BY <1>2, <2>1 DEF Rows, NoRow, Older, Minus
  <2>2. CASE row # NoRow
    <3>1. row \in [wall : 0..MaxCooldown, profile : {0, 1}]
      BY <2>2 DEF Rows
    <3>2. Minus(row.wall) \in 0..MaxCooldown
      BY <3>1, CooldownAssumption DEF Minus
    <3>3. new = [wall |-> Minus(row.wall), profile |-> row.profile]
      BY <1>2, <3>1
    <3>4. QED BY <2>2, <3>1, <3>2, <3>3 DEF Rows, NoRow, NoProfile, Older
  <2>3. QED BY <2>1, <2>2
<1>3. QED BY <1>1, <1>2

(* Copies that agreed still do when both are older, and so do promises.    *)
LEMMA CopiesAge ==
  ASSUME NEW x, NEW y, NEW xx, NEW yy, Older(xx, x), Older(yy, y),
         x.wall \in Nat, y.wall \in Nat
  PROVE  (Same(x, y) => Same(xx, yy)) /\ (Covers(x, y) => Covers(xx, yy))
BY DEF Older, Same, Covers, Minus

(* A row that is restored, and a cooldown that is installed, with its row. *)
LEMMA RestoredIs ==
  ASSUME NEW row \in RowsKept
  PROVE  Restored(row) \in Entries /\ Same(row, Restored(row))
<1>1. CASE row = NoRow
  BY <1>1 DEF Restored, Entries, Same, NoRow, NoEntry
<1>2. CASE row # NoRow
  <2>1. row.wall \in 1..MaxCooldown /\ row.profile \in {0, 1}
    BY <1>2 DEF RowsKept
  <2>a. RestoreMin = 1 /\ MaxCooldown \in Int /\ 1 <= MaxCooldown
    BY CooldownAssumption
  <2>2. Clamp(RestoreMin, MaxCooldown, row.wall) = row.wall
    <3>1. row.wall \in Int /\ 1 \in Int
      BY <2>1
    <3>2. Clamp(1, MaxCooldown, row.wall) = row.wall
      BY <2>1, <2>a, <3>1, ClampIs
    <3>3. QED BY <2>a, <3>2
  <2>3. Restored(row) = [mono |-> row.wall, wall |-> row.wall, profile |-> row.profile]
    BY <1>2, <2>2 DEF Restored, Entry
  <2>4. QED BY <2>1, <2>3 DEF Entries, Same
<1>3. QED BY <1>1, <1>2

(* A cooldown of some time, for some login.                                *)
LEMMA InstalledIs ==
  ASSUME NEW n \in 1..MaxCooldown, NEW p \in {0, 1}
  PROVE  /\ Entry(n, p) \in Entries /\ RowOf(Entry(n, p)) \in Rows /\ RowOf(Entry(n, p)) # NoRow
         /\ Same(RowOf(Entry(n, p)), Entry(n, p))
<1>1. Entry(n, p) = [mono |-> n, wall |-> n, profile |-> p]
  BY DEF Entry
<1>2. Entry(n, p) \in Entries
  BY <1>1, CooldownAssumption DEF Entries
<1>3. RowOf(Entry(n, p)) = [wall |-> n, profile |-> p]
  BY <1>1 DEF RowOf
<1>4. RowOf(Entry(n, p)) \in Rows /\ RowOf(Entry(n, p)) # NoRow
  BY <1>3, CooldownAssumption DEF Rows, NoRow, NoProfile
<1>5. QED BY <1>1, <1>2, <1>3, <1>4 DEF Same

(* How long a 429 keeps an account away.                                   *)
LEMMA CooldownIs ==
  ASSUME NEW reply \in [retryAfter : Int, reset : Int], NEW windows \in [Windows -> Readings]
  PROVE  RateLimitCooldown(reply, windows) \in 1..MaxCooldown
<1> DEFINE used == {w \in DOMAIN windows : windows[w].used >= 99}
           resets == {EpochDelta(windows[w].resetWall) : w \in used} \ {NoSignal}
<1>1. \A n \in Int : EpochDelta(n) \in Int /\ (EpochDelta(n) # NoSignal => EpochDelta(n) \in Nat)
  BY DEF EpochDelta, NoSignal
<1>2. \A w \in used : windows[w].resetWall \in Int
  BY CooldownAssumption DEF Readings, NoReset
<1>3. resets \in SUBSET Nat
  BY <1>1, <1>2
<1>4. UsageResetDelta(windows) \in Int
  <2>1. UsageResetDelta(windows) = IF resets = {} THEN NoSignal ELSE Min(resets)
    BY DEF UsageResetDelta
  <2> HIDE DEF resets
  <2>2. CASE resets = {}
    BY <2>1, <2>2 DEF NoSignal
  <2>3. CASE resets # {}
    <3>1. Min(resets) \in resets
      BY <1>3, <2>3, MinIs
    <3>2. Min(resets) \in Nat
      BY <1>3, <3>1
    <3>3. QED BY <2>1, <2>3, <3>2
  <2>4. QED BY <2>2, <2>3
<1>5. \A m, n \in Int : OrElse(m, n) \in Int
  BY DEF OrElse
<1>6. reply.retryAfter \in Int /\ NamedReset(reply) \in Int /\ DefaultCooldown \in Int
  BY <1>1, CooldownAssumption DEF NamedReset
<1> DEFINE seconds == OrElse(reply.retryAfter, OrElse(NamedReset(reply),
                        OrElse(UsageResetDelta(windows), DefaultCooldown)))
<1>7. seconds \in Int
  BY <1>4, <1>5, <1>6
<1>8. RateLimitCooldown(reply, windows) = Clamp(MinCooldown, MaxCooldown, seconds)
  BY DEF RateLimitCooldown
<1> HIDE DEF seconds
<1>9. MinCooldown \in Int /\ MaxCooldown \in Int /\ 1 <= MinCooldown /\ MinCooldown <= MaxCooldown
  BY CooldownAssumption
<1>10. Clamp(MinCooldown, MaxCooldown, seconds) \in MinCooldown..MaxCooldown
  BY <1>7, <1>9, ClampIs
<1>11. QED BY <1>8, <1>9, <1>10

(* Steps away from the cooldowns, and a mark in the tracker.               *)
LEMMA StoreStays ==
  ASSUME StoreIInv, UNCHANGED <<mode, up, cooldown, pending, unwritten, disk, vow>>,
         tracker' \in [Accounts -> Entries], view' \in [Accounts -> [Windows -> Readings]]
  PROVE  StoreIInv'
<1>1. CooldownTypes'
  BY DEF StoreIInv, CooldownTypes
<1>2. CopiesAgree' /\ OnlyBalancedWrites' /\ VowsCovered'
  BY DEF StoreIInv, CopiesAgree, OnlyBalancedWrites, VowsCovered
<1>3. QED BY <1>1, <1>2 DEF StoreIInv

(* A cooldown is installed: nobody has waited for it yet.                  *)
LEMMA StoreInstalls ==
  ASSUME StoreIInv, up, mode = "balanced", NEW k \in Keys, NEW n \in 1..MaxCooldown, NEW p \in {0, 1},
         UNCHANGED <<mode, up, disk, view>>, tracker' \in [Accounts -> Entries],
         cooldown' = [cooldown EXCEPT ![k] = Entry(n, p)],
         pending' = [pending EXCEPT ![k] = RowOf(Entry(n, p))],
         unwritten' = unwritten \ {k}, vow' = [vow EXCEPT ![k] = NoEntry]
  PROVE  StoreIInv'
<1> DEFINE new == Entry(n, p)
           row == RowOf(new)
<1>1. new \in Entries /\ row \in Rows /\ row # NoRow /\ Same(row, new)
  BY InstalledIs
<1> HIDE DEF new, row
<1>2. CooldownTypes
  BY DEF StoreIInv
<1>3. NoEntry \in Entries /\ NoEntry.wall = 0
  BY DEF Entries, NoEntry
<1>4. \A x \in Keys : /\ cooldown'[x] = IF x = k THEN new ELSE cooldown[x]
                      /\ pending'[x] = IF x = k THEN row ELSE pending[x]
                      /\ vow'[x] = IF x = k THEN NoEntry ELSE vow[x]
  BY <1>2 DEF CooldownTypes, new, row
<1>5. CooldownTypes'
  <2>1. cooldown' \in [Keys -> Entries] /\ vow' \in [Keys -> Entries]
    BY <1>1, <1>2, <1>3 DEF CooldownTypes, new
  <2>2. pending' \in [Keys -> Rows]
    BY <1>1, <1>2 DEF CooldownTypes, new, row
  <2>3. QED BY <1>2, <2>1, <2>2 DEF CooldownTypes
<1>6. CopiesAgree'
  BY <1>1, <1>4 DEF StoreIInv, CopiesAgree
<1>7. OnlyBalancedWrites'
  BY DEF OnlyBalancedWrites
<1>8. VowsCovered'
  <2>1. \A e : Covers(e, NoEntry)
    BY <1>3 DEF Covers
  <2>2. QED BY <1>4, <2>1 DEF StoreIInv, VowsCovered
<1>9. QED BY <1>5, <1>6, <1>7, <1>8 DEF StoreIInv

(* A request has waited for the write of a cooldown.                       *)
LEMMA StoreVows ==
  ASSUME StoreIInv, up, NEW k \in Keys, pending[k] = NoRow,
         UNCHANGED <<mode, up, memory, disk>>, vow' = [vow EXCEPT ![k] = cooldown[k]]
  PROVE  StoreIInv'
<1>1. CooldownTypes /\ \A x \in Keys : vow'[x] = IF x = k THEN cooldown[k] ELSE vow[x]
  BY DEF StoreIInv, CooldownTypes
<1>2. CooldownTypes'
  BY <1>1 DEF CooldownTypes, memory
<1>3. CopiesAgree' /\ OnlyBalancedWrites'
  BY DEF StoreIInv, CopiesAgree, OnlyBalancedWrites, memory
<1>4. (k \notin unwritten => Covers(disk[k], cooldown[k])) /\ Covers(cooldown[k], cooldown[k])
  <2>1. k \notin unwritten => Same(disk[k], cooldown[k])
    BY DEF StoreIInv, CopiesAgree
  <2>a. cooldown[k] \in Entries
    BY <1>1 DEF CooldownTypes
  <2>2. cooldown[k].wall \in Int
    BY <2>a, EntryFacts
  <2>3. QED BY <2>1, <2>2 DEF Same, Covers
<1>5. VowsCovered'
  BY <1>1, <1>4 DEF StoreIInv, VowsCovered, memory
<1>6. QED BY <1>2, <1>3, <1>5 DEF StoreIInv

(* The write of a cooldown is committed.                                   *)
LEMMA StoreCommit ==
  ASSUME StoreIInv, NEW k \in Keys, StoreCommits(k)
  PROVE  StoreIInv'
<1> DEFINE row == IF pending[k].wall = 0 THEN NoRow ELSE pending[k]
<1>1. CooldownTypes /\ up /\ pending[k] # NoRow
  BY DEF StoreIInv, StoreCommits, WriteEnds
<1>2. UNCHANGED <<mode, up, tracker, cooldown, unwritten, view, vow>> /\ k \notin unwritten
  BY <1>1 DEF StoreCommits, WriteEnds, StoreIInv, CopiesAgree
<1>3. row \in RowsKept /\ row.wall = pending[k].wall /\ (row.wall > 0 => row.profile = pending[k].profile)
  <2>1. pending[k] \in [wall : 0..MaxCooldown, profile : {0, 1}]
    BY <1>1 DEF CooldownTypes, Rows
  <2>2. CASE pending[k].wall = 0
    BY <2>2 DEF RowsKept, NoRow
  <2>3. CASE pending[k].wall # 0
    <3>1. pending[k].wall \in 1..MaxCooldown
      BY <2>1, <2>3, CooldownAssumption
    <3>2. QED BY <2>1, <2>3, <3>1 DEF RowsKept
  <2>4. QED BY <2>2, <2>3
<1>4. disk' = [disk EXCEPT ![k] = row] /\ pending' = [pending EXCEPT ![k] = NoRow]
  BY DEF StoreCommits, WriteEnds
<1> HIDE DEF row
<1>5. \A x \in Keys : /\ disk'[x] = IF x = k THEN row ELSE disk[x]
                      /\ pending'[x] = IF x = k THEN NoRow ELSE pending[x]
  BY <1>1, <1>4 DEF CooldownTypes
<1>6. CooldownTypes'
  <2>1. disk' \in [Keys -> RowsKept]
    BY <1>1, <1>3, <1>4 DEF CooldownTypes
  <2>2. pending' \in [Keys -> Rows]
    BY <1>1, <1>4 DEF CooldownTypes, Rows
  <2>3. QED BY <1>1, <1>2, <2>1, <2>2 DEF CooldownTypes
<1>7. Same(row, cooldown[k])
  <2>1. Same(pending[k], cooldown[k])
    BY <1>1, <1>2 DEF StoreIInv, CopiesAgree
  <2>2. QED BY <1>3, <2>1 DEF Same
<1>8. CopiesAgree'
  BY <1>1, <1>2, <1>5, <1>7 DEF StoreIInv, CopiesAgree
<1>9. OnlyBalancedWrites'
  BY <1>1, <1>2, <1>5 DEF StoreIInv, OnlyBalancedWrites
<1>10. Covers(row, vow[k])
  <2>1. Covers(cooldown[k], vow[k])
    BY <1>1 DEF StoreIInv, VowsCovered
  <2>a. vow[k] \in Entries /\ cooldown[k] \in Entries
    BY <1>1 DEF CooldownTypes
  <2>2. vow[k].wall \in Int /\ cooldown[k].wall \in Int
    BY <2>a, EntryFacts
  <2>3. QED BY <1>7, <2>1, <2>2 DEF Same, Covers
<1>11. VowsCovered'
  BY <1>2, <1>5, <1>10 DEF StoreIInv, VowsCovered
<1>12. QED BY <1>6, <1>8, <1>9, <1>11 DEF StoreIInv

(* The write of a cooldown fails: the memory keeps what was promised.      *)
LEMMA StoreFail ==
  ASSUME StoreIInv, NEW k \in Keys, StoreFails(k)
  PROVE  StoreIInv'
<1>1. /\ CooldownTypes /\ up /\ UNCHANGED <<mode, up, tracker, cooldown, disk, view, vow>>
      /\ pending' = [pending EXCEPT ![k] = NoRow] /\ unwritten' = unwritten \cup {k}
  BY DEF StoreIInv, StoreFails, WriteEnds
<1>2. \A x \in Keys : pending'[x] = IF x = k THEN NoRow ELSE pending[x]
  BY <1>1 DEF CooldownTypes
<1>3. CooldownTypes'
  <2>1. pending' \in [Keys -> Rows]
    BY <1>1 DEF CooldownTypes, Rows
  <2>2. QED BY <1>1, <2>1 DEF CooldownTypes
<1>4. CopiesAgree'
  BY <1>1, <1>2 DEF StoreIInv, CopiesAgree
<1>5. OnlyBalancedWrites'
  BY <1>1, <1>2 DEF StoreIInv, OnlyBalancedWrites
<1>6. VowsCovered'
  BY <1>1 DEF StoreIInv, VowsCovered
<1>7. QED BY <1>3, <1>4, <1>5, <1>6 DEF StoreIInv

(* Every copy is older after a step of the clocks.                         *)
LEMMA StoreAges ==
  ASSUME StoreIInv, UNCHANGED <<mode, up, unwritten>>,
         tracker' \in [Accounts -> Entries], view' \in [Accounts -> [Windows -> Readings]],
         cooldown' \in [Keys -> Entries], \A k \in Keys : Older(cooldown'[k], cooldown[k]),
         vow' \in [Keys -> Entries], \A k \in Keys : Older(vow'[k], vow[k]),
         disk' = [k \in Keys |-> RowTicked(disk[k])],
         pending' = [k \in Keys |-> [pending[k] EXCEPT !.wall = Minus(@)]]
  PROVE  /\ StoreIInv' /\ \A k \in Keys : Older(disk'[k], disk[k])
         /\ \A k \in Keys : pending[k] = NoRow => pending'[k] = NoRow
<1>1. CooldownTypes
  BY DEF StoreIInv
<1>2. disk' \in [Keys -> RowsKept] /\ \A k \in Keys : Older(disk'[k], disk[k])
  BY <1>1, RowAges DEF CooldownTypes
<1>3. ASSUME NEW k \in Keys
      PROVE  /\ pending'[k] \in Rows /\ Older(pending'[k], pending[k])
             /\ pending'[k] = NoRow <=> pending[k] = NoRow
  <2>1. pending[k] \in Rows /\ pending'[k] = [pending[k] EXCEPT !.wall = Minus(@)]
    BY <1>1 DEF CooldownTypes
  <2>2. QED BY <2>1, RowAges
<1>4. CooldownTypes'
  <2>1. pending' \in [Keys -> Rows]
    BY <1>3
  <2>2. QED BY <1>2, <2>1 DEF CooldownTypes
<1>5. ASSUME NEW k \in Keys
      PROVE  /\ cooldown[k].wall \in Nat /\ vow[k].wall \in Nat
             /\ pending[k].wall \in Nat /\ disk[k].wall \in Nat
  <2>1. cooldown[k] \in Entries /\ vow[k] \in Entries /\ pending[k] \in Rows /\ disk[k] \in RowsKept
    BY <1>1 DEF CooldownTypes
  <2>2. cooldown[k].wall \in Nat /\ vow[k].wall \in Nat
    BY <2>1, EntryFacts
  <2>3. pending[k].wall \in Nat /\ disk[k].wall \in Nat
    BY <2>1 DEF Rows, RowsKept, NoRow
  <2>4. QED BY <2>2, <2>3
<1>6. CopiesAgree'
  <2>1. ASSUME NEW k \in Keys, up, k \notin unwritten
        PROVE  Same(IF pending'[k] = NoRow THEN disk'[k] ELSE pending'[k], cooldown'[k])
    <3>1. Same(IF pending[k] = NoRow THEN disk[k] ELSE pending[k], cooldown[k])
      BY <2>1 DEF StoreIInv, CopiesAgree
    <3>2. Older(cooldown'[k], cooldown[k])
      OBVIOUS
    <3>3. CASE pending[k] = NoRow
      <4>1. Same(disk[k], cooldown[k]) /\ pending'[k] = NoRow
        BY <1>3, <3>1, <3>3
      <4>2. Same(disk'[k], cooldown'[k])
        BY <1>2, <1>5, <3>2, <4>1, CopiesAge
      <4>3. QED BY <4>1, <4>2
    <3>4. CASE pending[k] # NoRow
      <4>1. Same(pending[k], cooldown[k]) /\ pending'[k] # NoRow /\ Older(pending'[k], pending[k])
        BY <1>3, <3>1, <3>4
      <4>2. Same(pending'[k], cooldown'[k])
        BY <1>5, <3>2, <4>1, CopiesAge
      <4>3. QED BY <4>1, <4>2
    <3>5. QED BY <3>3, <3>4
  <2>2. ASSUME NEW k \in Keys, ~up
        PROVE  pending'[k] = NoRow /\ cooldown'[k] = NoEntry
    <3>1. pending[k] = NoRow /\ cooldown[k] = NoEntry
      BY <2>2 DEF StoreIInv, CopiesAgree
    <3>2. cooldown'[k].wall = 0 /\ cooldown'[k] \in Entries
      BY <3>1 DEF Older, Minus, NoEntry
    <3>3. QED BY <1>3, <3>1, <3>2 DEF Entries
  <2>3. ASSUME NEW k \in Keys, up, k \in unwritten PROVE pending'[k] = NoRow
    BY <1>3, <2>3 DEF StoreIInv, CopiesAgree
  <2>4. ~up => unwritten = {}
    BY DEF StoreIInv, CopiesAgree
  <2>5. QED BY <2>1, <2>2, <2>3, <2>4 DEF CopiesAgree
<1>7. OnlyBalancedWrites'
  <2>1. ASSUME NEW k \in Keys, mode # "balanced"
        PROVE  pending'[k] = NoRow /\ disk'[k] = NoRow
    <3>1. pending[k] = NoRow /\ disk[k] = NoRow
      BY <2>1 DEF StoreIInv, OnlyBalancedWrites
    <3>2. RowTicked(NoRow) = NoRow
      BY DEF RowTicked, NoRow
    <3>3. QED BY <1>3, <3>1, <3>2
  <2>2. QED BY <2>1 DEF OnlyBalancedWrites
<1>8. VowsCovered'
  <2>1. ASSUME NEW k \in Keys
        PROVE  /\ k \notin unwritten => Covers(disk'[k], vow'[k])
               /\ up => Covers(cooldown'[k], vow'[k])
    <3>1. (k \notin unwritten => Covers(disk[k], vow[k])) /\ (up => Covers(cooldown[k], vow[k]))
      BY DEF StoreIInv, VowsCovered
    <3>2. Older(cooldown'[k], cooldown[k]) /\ Older(vow'[k], vow[k]) /\ Older(disk'[k], disk[k])
      BY <1>2
    <3>3. k \notin unwritten => Covers(disk'[k], vow'[k])
      BY <1>5, <3>1, <3>2, CopiesAge
    <3>4. up => Covers(cooldown'[k], vow'[k])
      BY <1>5, <3>1, <3>2, CopiesAge
    <3>5. QED BY <3>3, <3>4
  <2>2. QED BY <2>1 DEF VowsCovered
<1>9. QED BY <1>2, <1>3, <1>4, <1>6, <1>7, <1>8 DEF StoreIInv

(* A crash leaves the disk, which covers the vows that outlive it.         *)
LEMMA StoreCrash ==
  ASSUME StoreIInv, Crash
  PROVE  StoreIInv'
<1>1. CooldownTypes
  BY DEF StoreIInv
<1>2. /\ up' = FALSE /\ UNCHANGED <<mode, disk>>
      /\ tracker' = [a \in Accounts |-> NoEntry] /\ cooldown' = [k \in Keys |-> NoEntry]
      /\ pending' = [k \in Keys |-> NoRow] /\ view' = [a \in Accounts |-> NothingRead]
      /\ unwritten' = {} /\ vow' = [k \in Keys |-> Outlives(k)]
  BY DEF Crash
<1>3. ASSUME NEW k \in Keys
      PROVE  /\ vow'[k] \in Entries
             /\ k \in unwritten => vow'[k] = NoEntry
             /\ k \notin unwritten => vow'[k].wall = vow[k].wall /\ vow'[k].profile = vow[k].profile
  <2>1. /\ vow[k] \in Entries
        /\ vow'[k] = IF k \in unwritten THEN NoEntry ELSE [vow[k] EXCEPT !.mono = vow[k].wall]
    BY <1>1, <1>2 DEF CooldownTypes, Outlives
  <2>a. CASE k \in unwritten
    BY <2>1, <2>a DEF Entries
  <2>2. CASE k \notin unwritten /\ vow[k] = NoEntry
    <3>1. NoEntry \in [mono : {0}, wall : {0}, profile : {NoProfile}]
      BY DEF NoEntry
    <3>2. vow'[k] \in [mono : {0}, wall : {0}, profile : {NoProfile}]
      BY <2>1, <2>2, <3>1
    <3>3. vow'[k] = NoEntry
      BY <3>2 DEF NoEntry
    <3>4. QED BY <2>2, <3>3 DEF Entries
  <2>3. CASE k \notin unwritten /\ vow[k] # NoEntry
    <3>1. vow[k] \in [mono : 1..MaxCooldown, wall : 1..MaxCooldown, profile : {NoProfile, 0, 1}]
      BY <2>1, <2>3 DEF Entries
    <3>a. vow'[k] = [vow[k] EXCEPT !.mono = vow[k].wall]
      BY <2>1, <2>3
    <3>2. vow'[k] = [mono |-> vow[k].wall, wall |-> vow[k].wall, profile |-> vow[k].profile]
      BY <3>1, <3>a
    <3>3. vow[k].wall <= vow[k].wall
      BY <3>1, CooldownAssumption
    <3>4. QED BY <2>3, <3>1, <3>2, <3>3 DEF Entries
  <2>4. QED BY <2>a, <2>2, <2>3
<1>4. NoEntry \in Entries /\ NoRow \in Rows
  BY DEF Entries, Rows
<1>5. NothingRead \in [Windows -> Readings]
  BY CooldownAssumption DEF NothingRead, Unread, Readings, Unknown, NoReset
<1>6. CooldownTypes'
  <2>1. vow' \in [Keys -> Entries]
    BY <1>2, <1>3
  <2>2. disk' \in [Keys -> RowsKept]
    BY <1>1, <1>2 DEF CooldownTypes
  <2>3. tracker' \in [Accounts -> Entries] /\ view' \in [Accounts -> [Windows -> Readings]]
    BY <1>2, <1>4, <1>5
  <2>4. cooldown' \in [Keys -> Entries] /\ pending' \in [Keys -> Rows]
    BY <1>2, <1>4
  <2>5. QED BY <2>1, <2>2, <2>3, <2>4 DEF CooldownTypes
<1>7. CopiesAgree' /\ OnlyBalancedWrites'
  BY <1>2 DEF StoreIInv, CopiesAgree, OnlyBalancedWrites
<1>8. VowsCovered'
  <2>1. \A k \in Keys : k \notin unwritten => Covers(disk[k], vow[k])
    BY DEF StoreIInv, VowsCovered
  <2>2. \A e : Covers(e, NoEntry)
    BY DEF Covers, NoEntry
  <2>3. QED BY <1>2, <1>3, <2>1, <2>2 DEF VowsCovered, Covers
<1>9. QED BY <1>6, <1>7, <1>8 DEF StoreIInv

(* A restart takes the memory from the disk, which covers the vows.        *)
LEMMA StoreRestart ==
  ASSUME StoreIInv, Restart
  PROVE  StoreIInv'
<1>1. CooldownTypes
  BY DEF StoreIInv
<1>2. /\ ~up /\ up' /\ UNCHANGED <<mode, tracker, pending, unwritten, disk, view, vow>>
      /\ cooldown' = IF mode = "balanced" THEN [k \in Keys |-> Restored(disk[k])] ELSE cooldown
  BY DEF Restart
<1>a. unwritten = {}
  BY <1>2 DEF StoreIInv, CopiesAgree
<1>3. ASSUME NEW k \in Keys
      PROVE  cooldown'[k] \in Entries /\ Same(disk[k], cooldown'[k]) /\ pending'[k] = NoRow
  <2>1. pending[k] = NoRow /\ cooldown[k] = NoEntry /\ disk[k] \in RowsKept
    BY <1>1, <1>2 DEF StoreIInv, CopiesAgree, CooldownTypes
  <2>2. CASE mode = "balanced"
    BY <1>2, <2>1, <2>2, RestoredIs
  <2>3. CASE mode # "balanced"
    <3>1. disk[k] = NoRow
      BY <2>3 DEF StoreIInv, OnlyBalancedWrites
    <3>2. QED BY <1>2, <2>1, <2>3, <3>1 DEF Same, NoRow, NoEntry, Entries
  <2>4. QED BY <2>2, <2>3
<1>4. CooldownTypes'
  <2>1. cooldown' \in [Keys -> Entries]
    BY <1>1, <1>2, <1>3 DEF CooldownTypes
  <2>2. QED BY <1>1, <1>2, <2>1 DEF CooldownTypes
<1>5. CopiesAgree'
  BY <1>a, <1>2, <1>3 DEF CopiesAgree
<1>6. OnlyBalancedWrites'
  BY <1>2 DEF StoreIInv, OnlyBalancedWrites
<1>7. VowsCovered'
  <2>1. ASSUME NEW k \in Keys
        PROVE  Covers(disk[k], vow[k]) /\ Covers(cooldown'[k], vow[k])
    <3>1. Covers(disk[k], vow[k]) /\ Same(disk[k], cooldown'[k])
      BY <1>a, <1>3 DEF StoreIInv, VowsCovered
    <3>2. vow[k] \in Entries /\ disk[k] \in RowsKept
      BY <1>1 DEF CooldownTypes
    <3>3. vow[k].wall \in Int /\ disk[k].wall \in Int
      BY <3>2, EntryFacts DEF RowsKept, NoRow
    <3>4. QED BY <3>1, <3>3 DEF Same, Covers
  <2>2. QED BY <1>2, <2>1 DEF VowsCovered
<1>8. QED BY <1>4, <1>5, <1>6, <1>7 DEF StoreIInv
-----------------------------------------------------------------------------
(* What a request does next.                                               *)

(* The keys of an account, and how long they keep it away.                 *)
LEMMA UnblockIs ==
  ASSUME CooldownTypes, profile \in [Accounts -> {0, 1}], NEW a \in Accounts, NEW family
  PROVE  /\ KeysOf(a, family) \subseteq Keys /\ UnblockIn(a, family) \in Nat
         /\ \A k \in KeysOf(a, family) : /\ CooldownLeft(cooldown[k], profile[a]) \in Nat
                                         /\ CooldownLeft(cooldown[k], profile[a]) <= UnblockIn(a, family)
         /\ \E k \in KeysOf(a, family) : UnblockIn(a, family) = CooldownLeft(cooldown[k], profile[a])
<1> DEFINE left(k) == CooldownLeft(cooldown[k], profile[a])
           k1 == <<a, "account">>
           k2 == <<a, "family">>
<1>1. k1 \in Keys /\ k2 \in Keys /\ (KeysOf(a, family) = {k1} \/ KeysOf(a, family) = {k1, k2})
  BY DEF KeysOf, Keys
<1>2. \A k \in Keys : left(k) \in Nat
  <2>1. ASSUME NEW k \in Keys PROVE left(k) \in Nat
    <3>1. cooldown[k] \in Entries
      BY DEF CooldownTypes
    <3>2. cooldown[k].wall \in Nat /\ left(k) \in {cooldown[k].wall, 0}
      BY <3>1, EntryFacts
    <3>3. QED BY <3>2
  <2>2. QED BY <2>1
<1>3. UnblockIn(a, family) = Max({left(k) : k \in KeysOf(a, family)})
  BY DEF UnblockIn
<1> HIDE DEF left, k1, k2
<1>4. left(k1) \in Nat /\ left(k2) \in Nat
  BY <1>1, <1>2
<1>5. CASE KeysOf(a, family) = {k1}
  <2>1. {left(k) : k \in KeysOf(a, family)} = {left(k1), left(k1)}
    BY <1>5
  <2>2. UnblockIn(a, family) = left(k1)
    BY <1>3, <1>4, <2>1, MinMaxOfTwo
  <2>3. QED BY <1>1, <1>4, <1>5, <2>2 DEF left
<1>6. CASE KeysOf(a, family) = {k1, k2}
  <2>1. {left(k) : k \in KeysOf(a, family)} = {left(k1), left(k2)}
    BY <1>6
  <2>a. Max({left(k1), left(k2)}) = IF left(k1) <= left(k2) THEN left(k2) ELSE left(k1)
    <3>1. left(k1) \in Int /\ left(k2) \in Int
      BY <1>4
    <3>2. QED BY <3>1, MinMaxOfTwo
  <2>2. UnblockIn(a, family) = IF left(k1) <= left(k2) THEN left(k2) ELSE left(k1)
    BY <1>3, <2>1, <2>a
  <2>3. UnblockIn(a, family) \in Nat /\ left(k1) <= UnblockIn(a, family) /\ left(k2) <= UnblockIn(a, family)
    BY <1>4, <2>2
  <2>4. \E k \in KeysOf(a, family) : UnblockIn(a, family) = left(k)
    BY <1>6, <2>2
  <2>5. \A k \in KeysOf(a, family) : left(k) \in Nat /\ left(k) <= UnblockIn(a, family)
    BY <1>4, <1>6, <2>3
  <2>6. QED BY <1>1, <2>3, <2>4, <2>5 DEF left
<1>7. QED BY <1>1, <1>5, <1>6

(* The first account that is back is one of those asked about.             *)
LEMMA FirstBackIs ==
  ASSUME CooldownTypes, profile \in [Accounts -> {0, 1}],
         NEW ready \in SUBSET Accounts, ready # {}, NEW family
  PROVE  FirstBackIn(ready, family) \in Nat
         /\ \E a \in ready : FirstBackIn(ready, family) = UnblockIn(a, family)
<1> DEFINE S == {UnblockIn(a, family) : a \in ready}
<1>1. S \in SUBSET Nat /\ S # {}
  BY UnblockIs
<1>2. FirstBackIn(ready, family) = Min(S)
  BY DEF FirstBackIn
<1>3. Min(S) \in S
  <2> HIDE DEF S
  <2>1. QED BY <1>1, MinIs
<1>4. Min(S) \in Nat
  BY <1>1, <1>3
<1>5. QED BY <1>2, <1>3, <1>4

(* The records: an attempt, and the two kinds of answers.                  *)
LEMMA AttemptIs ==
  ASSUME NEW q \in Queries, NEW a \in Accounts, NEW n, n = Attempt(q, a)
  PROVE  /\ n \in Queries /\ n.pc = "credentials" /\ n.account = a /\ n.tried = q.tried \cup {a}
         /\ n.ready = q.ready /\ n.chain = q.chain /\ n.skipped = q.skipped
         /\ n.family = q.family /\ n.void = q.void
<1>1. q.tried \cup {a} \in SUBSET Accounts
  BY DEF Queries
<1>2. n \in Queries
  BY <1>1 DEF Attempt, Queries, PCs
<1>3. QED BY <1>2 DEF Attempt, Queries

(* The record before a request has come.                                   *)
LEMMA FreshIs ==
  /\ Fresh \in Queries /\ Fresh.pc = "idle" /\ Fresh.ready = {} /\ Fresh.tried = {} /\ Fresh.chain = {}
  /\ Fresh.skipped = {} /\ Fresh.wait = NoWait /\ Fresh.void = FALSE /\ Fresh.key = NoKey
  /\ Fresh.limited = NoReply /\ Fresh.failed = FALSE
<1>1. NoWait \in Nat \cup {NoWait} /\ NoKey \in Keys \cup {NoKey} /\ "none" \in Answers
  BY DEF Answers
<1>2. QED BY <1>1 DEF Fresh, Queries, PCs, Families

(* An answer that says nothing of a wait.                                  *)
LEMMA AnsweredIs ==
  ASSUME NEW q \in Queries, NEW what \in Answers, NEW n, n = Answered(q, what)
  PROVE  /\ n \in Queries /\ n.pc = "done" /\ n.family = q.family /\ n.answer = what
         /\ n.wait = NoWait /\ n.ready = {} /\ n.tried = {} /\ n.chain = {}
<1> DEFINE first == [Fresh EXCEPT !.pc = "done", !.family = q.family]
<1>1. "done" \in PCs /\ q.family \in Families
  BY DEF Queries, PCs
<1>2. first \in Queries /\ first.pc = "done" /\ first.family = q.family
      /\ first.wait = NoWait /\ first.ready = {} /\ first.tried = {} /\ first.chain = {}
  BY <1>1, FreshIs DEF Queries
<1>3. n = [first EXCEPT !.answer = what]
  BY DEF Answered
<1> HIDE DEF first
<1>4. QED BY <1>2, <1>3 DEF Queries

(* An answer that does.                                                    *)
LEMMA AnsweredAfterIs ==
  ASSUME NEW q \in Queries, NEW what \in Answers, NEW wait \in Nat, NEW n, n = AnsweredAfter(q, what, wait)
  PROVE  /\ n \in Queries /\ n.pc = "done" /\ n.family = q.family /\ n.answer = what
         /\ n.wait = wait /\ n.ready = q.ready /\ n.void = q.void /\ n.tried = {} /\ n.chain = {}
<1>a. /\ "done" \in PCs /\ q.family \in Families /\ q.ready \in SUBSET Accounts
      /\ wait \in Nat \cup {NoWait} /\ q.void \in BOOLEAN
  BY DEF Queries, PCs
<1>1. n \in Queries
  <2> DEFINE first == [Fresh EXCEPT !.pc = "done", !.family = q.family, !.ready = q.ready]
  <2>1. first \in Queries
    <3> DEFINE begun == [Fresh EXCEPT !.pc = "done", !.family = q.family]
    <3>1. begun \in Queries
      BY <1>a, FreshIs DEF Queries
    <3> HIDE DEF begun
    <3>2. [begun EXCEPT !.ready = q.ready] \in Queries
      BY <1>a, <3>1 DEF Queries
    <3>3. QED BY <3>2 DEF begun
  <2> HIDE DEF first
  <2> DEFINE second == [first EXCEPT !.answer = what, !.wait = wait]
  <2>2. second \in Queries
    BY <1>a, <2>1 DEF Queries
  <2>3. n = [second EXCEPT !.void = q.void]
    BY DEF AnsweredAfter, first
  <2> HIDE DEF second
  <2>4. QED BY <1>a, <2>2, <2>3 DEF Queries
<1>2. QED BY <1>1, FreshIs DEF AnsweredAfter, Queries

(* Before a request attempts its next account: what RequestFine says of it *)
(* that it will need.                                                      *)
GoesOn(q) ==
  /\ q \in Queries /\ q.tried \subseteq q.ready /\ q.chain \subseteq q.ready \cap Registered
  /\ mode = "fallback" => q.ready \subseteq q.tried \cup q.skipped \cup q.chain
  /\ ~q.void => \A a \in q.ready : state[a] = "ready"

(* It attempts one of its accounts, or gives up when none is left.         *)
Attempts(q, n) ==
  /\ n.pc = "credentials" /\ n.family = q.family /\ n.account \in q.ready
  /\ mode = "balanced" => n.account \in Eligible(q)

GivesUp(q, n) ==
  /\ n.pc = "done" /\ n.family = q.family
  /\ mode = "fallback" => q.ready \subseteq q.tried \cup q.skipped
  /\ mode = "balanced" /\ (HasFailover(q) \/ q.pc = "idle") => Eligible(q) = {}

(* An attempt of one of the accounts is fine.                              *)
LEMMA AttemptFine ==
  ASSUME NEW q, GoesOn(q), up, NEW qq, NEW a \in q.ready, NEW n, n = Attempt(qq, a),
         qq = [q EXCEPT !.chain = @ \ {a}] \/ (mode # "fallback" /\ qq = q)
  PROVE  RequestFine(n) /\ n.pc = "credentials" /\ n.family = q.family /\ n.account = a
<1>1. /\ q \in Queries /\ a \in Accounts /\ q.tried \subseteq q.ready
      /\ q.chain \subseteq q.ready \cap Registered
  BY DEF GoesOn, Queries
<1>2. /\ qq \in Queries /\ qq.ready = q.ready /\ qq.tried = q.tried /\ qq.skipped = q.skipped
      /\ qq.void = q.void /\ qq.family = q.family
      /\ qq.chain \subseteq q.chain /\ (mode = "fallback" => q.chain \subseteq qq.chain \cup {a})
  <2>1. CASE qq = q
    BY <1>1, <2>1
  <2>2. CASE qq = [q EXCEPT !.chain = @ \ {a}]
    <3>1. q.chain \ {a} \in SUBSET Accounts
      BY <1>1 DEF Queries
    <3>2. QED BY <1>1, <2>2, <3>1 DEF Queries
  <2>3. QED BY <2>1, <2>2
<1>3. /\ n \in Queries /\ n.pc = "credentials" /\ n.account = a /\ n.tried = q.tried \cup {a}
      /\ n.ready = q.ready /\ n.chain = qq.chain /\ n.skipped = q.skipped
      /\ n.family = q.family /\ n.void = q.void
  BY <1>1, <1>2, AttemptIs
<1>4. WellTyped(n)
  BY <1>1, <1>2, <1>3 DEF WellTyped
<1>5. ChainCovers(n, mode)
  BY <1>2, <1>3 DEF ChainCovers, GoesOn
<1>6. StillReady(n, state)
  BY <1>3 DEF StillReady, Concerns, GoesOn
<1>7. /\ WritesIfBalanced(n, mode) /\ WaitsForWrite(n, pending)
      /\ ToldTheTruth(n, mode, up, cooldown, disk, profile)
  BY <1>3 DEF WritesIfBalanced, WaitsForWrite, ToldTheTruth
<1>8. QED BY <1>3, <1>4, <1>5, <1>6, <1>7 DEF RequestFine

(* An answer that tells nobody to wait is fine in any state.               *)
LEMMA AnswerFine ==
  ASSUME NEW q \in Queries, NEW what \in Answers, NEW n, n = Answered(q, what)
  PROVE  RequestFine(n) /\ n.pc = "done" /\ n.family = q.family
<1>1. /\ n \in Queries /\ n.pc = "done" /\ n.family = q.family /\ n.answer = what
      /\ n.wait = NoWait /\ n.ready = {} /\ n.tried = {} /\ n.chain = {}
  BY AnsweredIs
<1>2. n.pc \notin Live /\ n.pc # "written" /\ ~Concerns(n)
  BY <1>1 DEF Live, Concerns
<1>3. WellTyped(n)
  BY <1>1, <1>2 DEF WellTyped
<1>4. WritesIfBalanced(n, mode) /\ ChainCovers(n, mode) /\ WaitsForWrite(n, pending)
  BY <1>1, <1>2 DEF WritesIfBalanced, ChainCovers, WaitsForWrite
<1>5. StillReady(n, state) /\ ToldTheTruth(n, mode, up, cooldown, disk, profile)
  BY <1>1, <1>2 DEF StillReady, ToldTheTruth
<1>6. QED BY <1>1, <1>2, <1>3, <1>4, <1>5 DEF RequestFine

(* The fallback pool.                                                      *)
LEMMA PoolGoesOn ==
  ASSUME PoolAssumption, mode = "fallback", up, NEW q, GoesOn(q), NEW n, n = NextInPool(q)
  PROVE  RequestFine(n) /\ (Attempts(q, n) \/ GivesUp(q, n))
<1> DEFINE next == CHOOSE a \in q.chain : \A b \in q.chain : ServingOrder(a) <= ServingOrder(b)
<1>1. CASE q.chain = {}
  <2>1. n = Answered(q, IF q.limited # NoReply THEN "limited" ELSE "failed")
    BY <1>1 DEF NextInPool, PoolExhausted
  <2>2. RequestFine(n) /\ n.pc = "done" /\ n.family = q.family
    BY <2>1, AnswerFine DEF GoesOn, Answers
  <2>3. QED BY <1>1, <2>2 DEF GivesUp, GoesOn
<1>2. CASE q.chain # {}
  <2>1. ASSUME NEW a \in Registered PROVE ServingOrder(a) \in Nat
    <3>1. CASE a = Serving
      BY <3>1 DEF ServingOrder
    <3>2. CASE a # Serving
      <4>1. \E i \in DOMAIN Registration : Registration[i] = a
        BY DEF Registered, ToSet
      <4>2. ServingOrder(a) \in DOMAIN Registration
        BY <3>2, <4>1 DEF ServingOrder
      <4>3. QED BY <4>2, PoolAssumption DEF PoolAssumption
    <3>3. QED BY <3>1, <3>2
  <2>2. \A a \in q.chain : ServingOrder(a) \in Nat
    BY <2>1 DEF GoesOn
  <2> DEFINE places == {ServingOrder(a) : a \in q.chain}
  <2>3. places \in SUBSET Nat /\ places # {}
    BY <1>2, <2>2
  <2>4. PICK least \in places : \A m \in places : least <= m
    <3> HIDE DEF places
    <3>1. QED BY <2>3, LeastNumber
  <2>5. PICK a \in q.chain : \A b \in q.chain : ServingOrder(a) <= ServingOrder(b)
    BY <2>4
  <2>6. next \in q.chain
    BY <2>5
  <2>7. n = Attempt([q EXCEPT !.chain = @ \ {next}], next)
    BY <1>2 DEF NextInPool
  <2> HIDE DEF next
  <2>8. next \in q.ready
    BY <2>6 DEF GoesOn
  <2>9. RequestFine(n) /\ n.pc = "credentials" /\ n.family = q.family /\ n.account = next
    BY <2>7, <2>8, AttemptFine
  <2>10. QED BY <2>8, <2>9 DEF Attempts
<1>3. QED BY <1>1, <1>2

(* An answer that tells how long to wait, when that is long enough.        *)
LEMMA WaitFine ==
  ASSUME NEW q, GoesOn(q), up, NEW what \in Answers, NEW wait \in Nat, NEW n,
         n = AnsweredAfter(q, what, wait),
         mode = "balanced" => \E a \in q.ready : \A k \in KeysOf(a, q.family) :
                                CooldownLeft(cooldown[k], profile[a]) <= wait
  PROVE  RequestFine(n) /\ n.pc = "done" /\ n.family = q.family
<1>1. /\ n \in Queries /\ n.pc = "done" /\ n.family = q.family /\ n.answer = what
      /\ n.wait = wait /\ n.ready = q.ready /\ n.void = q.void /\ n.tried = {} /\ n.chain = {}
  BY AnsweredAfterIs DEF GoesOn
<1>2. n.pc \notin Live
  BY <1>1 DEF Live
<1>3. WellTyped(n)
  BY <1>1, <1>2 DEF WellTyped
<1>4. WritesIfBalanced(n, mode) /\ ChainCovers(n, mode) /\ WaitsForWrite(n, pending)
  BY <1>1, <1>2 DEF WritesIfBalanced, ChainCovers, WaitsForWrite
<1>5. StillReady(n, state)
  BY <1>1 DEF StillReady, Concerns, GoesOn
<1>6. ToldTheTruth(n, mode, up, cooldown, disk, profile)
  BY <1>1 DEF ToldTheTruth, FreeInMemory
<1>7. QED BY <1>1, <1>2, <1>3, <1>4, <1>5, <1>6 DEF RequestFine

(* No account is left for a balanced request.                              *)
LEMMA AllCoolingFine ==
  ASSUME CooldownTypes, profile \in [Accounts -> {0, 1}], up, NEW q, GoesOn(q), NEW n, n = AllCooling(q),
         q.ready # {} \/ (q.limited = NoReply /\ ~q.failed)
  PROVE  RequestFine(n) /\ n.pc = "done" /\ n.family = q.family
<1> DEFINE left == Max({1, FirstBackIn(q.ready, q.family)})
<1>1. q \in Queries /\ q.ready \in SUBSET Accounts /\ q.failed \in BOOLEAN
      /\ {"failed", "limited", "unavailable", "cooling"} \subseteq Answers
  BY DEF GoesOn, Queries, Answers
<1>2. ASSUME q.ready # {}, NEW what \in Answers, n = AnsweredAfter(q, what, left)
      PROVE  RequestFine(n) /\ n.pc = "done" /\ n.family = q.family
  <2> DEFINE first == FirstBackIn(q.ready, q.family)
  <2>1. PICK a \in q.ready : first = UnblockIn(a, q.family)
    BY <1>1, <1>2, FirstBackIs
  <2>2. first \in Nat
    BY <1>1, <1>2, FirstBackIs
  <2> HIDE DEF first
  <2>3. left = IF 1 <= first THEN first ELSE 1
    <3>1. first \in Int /\ 1 \in Int
      BY <2>2
    <3>2. Max({1, first}) = IF 1 <= first THEN first ELSE 1
      BY <3>1, MinMaxOfTwo
    <3>3. QED BY <3>2 DEF first
  <2> HIDE DEF left
  <2>4. left \in Nat /\ first <= left
    BY <2>2, <2>3
  <2>5. ASSUME NEW k \in KeysOf(a, q.family)
        PROVE  CooldownLeft(cooldown[k], profile[a]) <= left
    <3>1. a \in Accounts
      BY <1>1
    <3>2. /\ CooldownLeft(cooldown[k], profile[a]) \in Nat
          /\ CooldownLeft(cooldown[k], profile[a]) <= UnblockIn(a, q.family)
      BY <3>1, UnblockIs
    <3>3. QED BY <2>1, <2>2, <2>4, <3>2
  <2>6. QED BY <1>2, <2>4, <2>5, WaitFine
<1>3. \/ n = Answered(q, "failed") \/ n = Answered(q, "limited") \/ n = Answered(q, "unavailable")
      \/ (q.ready # {} /\ n = AnsweredAfter(q, "limited", left))
      \/ (q.ready # {} /\ n = AnsweredAfter(q, "cooling", left))
  <2> HIDE DEF left
  <2>1. CASE q.limited = NoReply /\ q.failed
    BY <2>1 DEF AllCooling, left
  <2>2. CASE q.limited # NoReply /\ q.limited.retryAfter # NoSignal
    BY <2>2 DEF AllCooling, left
  <2>3. CASE q.limited # NoReply /\ q.limited.retryAfter = NoSignal
    <3>1. q.ready # {}
      BY <2>3
    <3>2. n = AnsweredAfter(q, "limited", left)
      BY <2>3 DEF AllCooling, left
    <3>3. QED BY <3>1, <3>2
  <2>4. CASE q.limited = NoReply /\ ~q.failed /\ q.ready = {}
    BY <2>4 DEF AllCooling, left
  <2>5. CASE q.limited = NoReply /\ ~q.failed /\ q.ready # {}
    BY <2>5 DEF AllCooling, left
  <2>6. QED BY <1>1, <2>1, <2>2, <2>3, <2>4, <2>5
<1>4. QED BY <1>1, <1>2, <1>3, AnswerFine

(* Somebody can be drawn whenever somebody is eligible, and nobody else.   *)
LEMMA DrawnAreEligible ==
  ASSUME NEW vw, NEW eligible, NEW family, NEW inFlight
  PROVE  /\ CanBeDrawn(vw, eligible, family, inFlight) \subseteq eligible
         /\ CanBeDrawn(vw, eligible, family, inFlight) = {} => eligible = {}
<1>1. ASSUME NEW f PROVE SelectWeights(f) \subseteq DOMAIN f /\ (SelectWeights(f) = {} => DOMAIN f = {})
  BY DEF SelectWeights
<1>2. PICK f : CanBeDrawn(vw, eligible, family, inFlight) = SelectWeights(f) /\ DOMAIN f = eligible
  BY DEF CanBeDrawn
<1>3. QED BY <1>1, <1>2

(* Balanced routing.                                                       *)
LEMMA BalancedGoesOn ==
  ASSUME CooldownTypes, profile \in [Accounts -> {0, 1}], up, mode = "balanced",
         NEW r, NEW q, GoesOn(q), q.ready # {} \/ (q.limited = NoReply /\ ~q.failed),
         NEW n \in NextBalanced(r, q)
  PROVE  RequestFine(n) /\ (Attempts(q, n) \/ GivesUp(q, n))
<1> DEFINE drawn == IF Eligible(q) = {} THEN {}
                    ELSE CanBeDrawn(view, Eligible(q), q.family, InFlight(r))
<1>1. drawn \subseteq Eligible(q) /\ (drawn = {} => Eligible(q) = {})
  BY DrawnAreEligible
<1>2. n \in IF drawn = {} THEN {AllCooling(q)} ELSE {Attempt(q, a) : a \in drawn}
  BY DEF NextBalanced
<1> HIDE DEF drawn
<1>3. CASE drawn = {}
  <2>1. n = AllCooling(q) /\ Eligible(q) = {}
    BY <1>1, <1>2, <1>3
  <2>2. RequestFine(n) /\ n.pc = "done" /\ n.family = q.family
    BY <2>1, AllCoolingFine
  <2>3. QED BY <2>1, <2>2 DEF GivesUp
<1>4. CASE drawn # {}
  <2>1. PICK a \in drawn : n = Attempt(q, a)
    BY <1>2, <1>4
  <2>2. a \in Eligible(q) /\ a \in q.ready
    BY <1>1 DEF Eligible
  <2>3. RequestFine(n) /\ n.pc = "credentials" /\ n.family = q.family /\ n.account = a
    BY <2>1, <2>2, AttemptFine
  <2>4. QED BY <2>2, <2>3 DEF Attempts
<1>5. QED BY <1>3, <1>4

(* A request whose attempt failed.                                         *)
LEMMA LiveGoesOn ==
  ASSUME NEW q, RequestFine(q), q.pc \in Live
  PROVE  GoesOn(q) /\ q.ready # {}
BY DEF RequestFine, WellTyped, ChainCovers, StillReady, Concerns, GoesOn

(* It goes on to the next account, or gives up, under either routing mode  *)
(* that has a failover.                                                    *)
LEMMA OnwardFine ==
  ASSUME PoolAssumption, CooldownTypes, profile \in [Accounts -> {0, 1}], up, mode \in Modes,
         NEW r, NEW q, RequestFine(q), q.pc \in Live, mode # "disabled",
         NEW reply \in [retryAfter : Int, reset : Int],
         NEW qq \in {q, [q EXCEPT !.limited = reply], [q EXCEPT !.failed = TRUE]},
         NEW n \in Onward(r, qq)
  PROVE  RequestFine(n) /\ (Attempts(q, n) \/ GivesUp(q, n))
<1>1. GoesOn(q) /\ q.ready # {}
  BY LiveGoesOn
<1>2. /\ qq \in Queries /\ qq.ready = q.ready /\ qq.tried = q.tried /\ qq.skipped = q.skipped
      /\ qq.chain = q.chain /\ qq.void = q.void /\ qq.family = q.family /\ qq.kind = q.kind
      /\ qq.pc = q.pc
  <2>1. q \in Queries
    BY <1>1 DEF GoesOn
  <2>2. CASE qq = q
    BY <2>1, <2>2
  <2>3. CASE qq = [q EXCEPT !.limited = reply]
    BY <2>1, <2>3 DEF Queries
  <2>4. CASE qq = [q EXCEPT !.failed = TRUE]
    BY <2>1, <2>4 DEF Queries
  <2>5. QED BY <2>2, <2>3, <2>4
<1>3. GoesOn(qq) /\ qq.ready # {}
  BY <1>1, <1>2 DEF GoesOn
<1>4. RequestFine(n) /\ (Attempts(qq, n) \/ GivesUp(qq, n))
  <2>1. CASE mode = "fallback"
    BY <1>3, <2>1, PoolGoesOn DEF Onward
  <2>2. CASE mode # "fallback"
    <3>1. mode = "balanced" /\ n \in NextBalanced(r, qq)
      BY <2>2, PoolAssumption DEF Onward, PoolAssumption
    <3>2. QED BY <1>3, <3>1, BalancedGoesOn
  <2>3. QED BY <2>1, <2>2
<1>5. QED BY <1>2, <1>4 DEF Attempts, GivesUp, Eligible, HasFailover

(* So it does after a failure; without a failover it gives up.             *)
LEMMA AfterFailureFine ==
  ASSUME PoolAssumption, CooldownTypes, profile \in [Accounts -> {0, 1}], up, mode \in Modes,
         NEW r, NEW q, RequestFine(q), q.pc \in Live, NEW n \in AfterFailure(r, q)
  PROVE  RequestFine(n) /\ (Attempts(q, n) \/ GivesUp(q, n))
<1>1. CASE HasFailover(q)
  <2>1. n \in Onward(r, [q EXCEPT !.failed = TRUE]) /\ mode # "disabled"
    BY <1>1 DEF AfterFailure, HasFailover
  <2>2. [retryAfter |-> 0, reset |-> 0] \in [retryAfter : Int, reset : Int]
    OBVIOUS
  <2>3. QED BY <2>1, <2>2, OnwardFine
<1>2. CASE ~HasFailover(q)
  <2>1. n = Answered(q, "failed") /\ "failed" \in Answers
    BY <1>2 DEF AfterFailure, Answers
  <2>2. RequestFine(n) /\ n.pc = "done" /\ n.family = q.family
    BY <2>1, LiveGoesOn, AnswerFine DEF GoesOn
  <2>3. QED BY <1>2, <2>2 DEF GivesUp, HasFailover, Live
<1>3. QED BY <1>1, <1>2

(* A request that has just come, before its first step.                    *)
Asking(q, seen, kind, family) ==
  /\ q \in Queries /\ q.pc = "idle" /\ q.kind = kind /\ q.family = family /\ q.ready = ReadyNow(seen)
  /\ q.tried = {} /\ q.limited = NoReply /\ ~q.failed
  /\ q.chain \subseteq q.ready \cap Registered
  /\ ~q.void => \A a \in q.ready : state[a] = "ready"

(* A new request of any kind is such a one.                                *)
LEMMA AskingIs ==
  ASSUME state \in [Accounts -> States], NEW kind \in {"message", "count"}, NEW family \in Families, NEW seen,
         NEW q, q = [Fresh EXCEPT !.kind = kind, !.family = family, !.ready = ReadyNow(seen),
                                  !.void = \E a \in ReadyNow(seen) : state[a] # "ready"]
  PROVE  Asking(q, seen, kind, family)
<1>1. ReadyNow(seen) \in SUBSET Accounts
  BY DEF ReadyNow, Accounts
<1> DEFINE v == \E a \in ReadyNow(seen) : state[a] # "ready"
<1>2. v \in BOOLEAN /\ (~v => \A a \in ReadyNow(seen) : state[a] = "ready")
  OBVIOUS
<1> HIDE DEF v
<1>3. q = [Fresh EXCEPT !.kind = kind, !.family = family, !.ready = ReadyNow(seen), !.void = v]
  BY DEF v
<1>4. q \in Queries
  <2> DEFINE first == [Fresh EXCEPT !.kind = kind, !.family = family]
  <2>1. first \in Queries
    BY FreshIs DEF Queries
  <2> HIDE DEF first
  <2>2. [first EXCEPT !.ready = ReadyNow(seen), !.void = v] \in Queries
    BY <1>1, <1>2, <2>1 DEF Queries
  <2>3. QED BY <1>3, <2>2 DEF first
<1>5. /\ q.pc = "idle" /\ q.kind = kind /\ q.family = family /\ q.ready = ReadyNow(seen) /\ q.void = v
      /\ q.tried = {} /\ q.chain = {} /\ q.limited = NoReply /\ q.failed = FALSE
  BY <1>3, FreshIs DEF Queries
<1>6. QED BY <1>2, <1>4, <1>5 DEF Asking

(* The fallback pool, when a request comes.                                *)
LEMMA PoolStarts ==
  ASSUME PoolAssumption, CooldownTypes, mode = "fallback", up,
         NEW seen, NEW kind, NEW family, NEW q, Asking(q, seen, kind, family),
         NEW n, n = PassthroughWithClaudePool(q)
  PROVE  RequestFine(n) /\ \E qq : /\ Asking(qq, seen, kind, family) /\ (Attempts(qq, n) \/ GivesUp(qq, n))
                                  /\ \A a \in qq.skipped : IsCoolingInPool(a)
<1> DEFINE chained == BuildServingChain(q)
           free == {a \in q.ready : ~IsCoolingInPool(a)}
           cooling == {a \in q.ready : IsCoolingInPool(a)}
<1>1. q \in Queries /\ q.ready \subseteq Registered /\ q.tried = {} /\ q.ready \in SUBSET Accounts
  BY DEF Asking, ReadyNow, Queries
<1>2. chained = [q EXCEPT !.chain = free, !.skipped = cooling]
  BY DEF BuildServingChain
<1>3. free \in SUBSET Accounts /\ cooling \in SUBSET Accounts /\ free \subseteq q.ready
      /\ q.ready \subseteq free \cup cooling /\ \A a \in cooling : IsCoolingInPool(a)
  BY <1>1
<1> HIDE DEF free, cooling, chained
<1>4. /\ chained \in Queries /\ chained.chain = free /\ chained.skipped = cooling
      /\ chained.ready = q.ready /\ chained.tried = q.tried /\ chained.void = q.void
      /\ chained.kind = q.kind /\ chained.family = q.family /\ chained.limited = q.limited
      /\ chained.failed = q.failed /\ chained.pc = q.pc
  BY <1>1, <1>2, <1>3 DEF Queries
<1>5. Asking(chained, seen, kind, family) /\ GoesOn(chained)
  BY <1>1, <1>3, <1>4 DEF Asking, GoesOn
<1>6. SUFFICES RequestFine(n) /\ (Attempts(chained, n) \/ GivesUp(chained, n))
  BY <1>3, <1>4, <1>5
<1>7. CASE chained.chain # {}
  <2>1. n = NextInPool(chained)
    BY <1>7 DEF PassthroughWithClaudePool, chained
  <2>2. QED BY <1>5, <2>1, PoolGoesOn
<1>8. CASE chained.chain = {} /\ chained.skipped # {}
  <2> DEFINE running == {RemainingSeconds(tracker[a]) : a \in Accounts} \ {0}
             wait == Max({1, MinRemaining})
  <2>1. running \in SUBSET Nat
    <3>1. \A a \in Accounts : tracker[a] \in Entries
      BY DEF CooldownTypes
    <3>2. \A a \in Accounts : RemainingSeconds(tracker[a]) \in Nat
      BY <3>1, EntryFacts
    <3>3. QED BY <3>2
  <2>2. MinRemaining \in Nat
    <3>1. MinRemaining = IF running = {} THEN DefaultCooldown ELSE Min(running)
      BY DEF MinRemaining
    <3> HIDE DEF running
    <3>2. running # {} => Min(running) \in Nat
      BY <2>1, MinIs
    <3>3. DefaultCooldown \in Nat
      BY CooldownAssumption
    <3>4. QED BY <3>1, <3>2, <3>3
  <2>3. wait \in Nat
    <3> HIDE DEF running
    <3>1. MinRemaining \in Int /\ 1 \in Int
      BY <2>2
    <3>2. wait = IF 1 <= MinRemaining THEN MinRemaining ELSE 1
      BY <3>1, MinMaxOfTwo
    <3>3. QED BY <2>2, <3>2
  <2>4. n = AnsweredAfter(chained, "cooling", wait)
    BY <1>8 DEF PassthroughWithClaudePool, chained
  <2> HIDE DEF running, wait
  <2>5. "cooling" \in Answers
    BY DEF Answers
  <2>6. RequestFine(n) /\ n.pc = "done" /\ n.family = chained.family
    BY <1>5, <2>3, <2>4, <2>5, WaitFine
  <2>7. QED BY <1>5, <1>8, <2>6 DEF GivesUp, GoesOn
<1>9. CASE chained.chain = {} /\ chained.skipped = {}
  <2>1. n = Answered(chained, "unavailable") /\ "unavailable" \in Answers
    BY <1>9 DEF PassthroughWithClaudePool, chained, Answers
  <2>2. RequestFine(n) /\ n.pc = "done" /\ n.family = chained.family
    BY <1>4, <2>1, AnswerFine
  <2>3. QED BY <1>5, <1>9, <2>2 DEF GivesUp, GoesOn
<1>10. QED BY <1>7, <1>8, <1>9

(* Any request, when it comes.                                             *)
LEMMA ArriveFine ==
  ASSUME PoolAssumption, InputAssumption, IInv, NEW r \in Requests, NEW ask \in Asks[r],
         Arrive(r, ask.kind, ask.family)
  PROVE  \E n, qq : /\ req' = [req EXCEPT ![r] = n] /\ RequestFine(n)
                    /\ Asking(qq, glimpse', ask.kind, ask.family) /\ (Attempts(qq, n) \/ GivesUp(qq, n))
                    /\ mode = "fallback" => \A a \in qq.skipped : IsCoolingInPool(a)
<1> DEFINE kind == ask.kind
           family == ask.family
           seen == IF mode = "balanced" THEN PoolMember ELSE glimpse
           q == [Fresh EXCEPT !.kind = kind, !.family = family, !.ready = ReadyNow(seen),
                               !.void = \E a \in ReadyNow(seen) : state[a] # "ready"]
<1>1. kind \in {"message", "count"} /\ family \in Families
  BY DEF InputAssumption
<1>2. state \in [Accounts -> States] /\ CooldownTypes /\ profile \in [Accounts -> {0, 1}] /\ mode \in Modes
  BY DEF IInv, RestTypes, StoreIInv
<1>3. Asking(q, seen, kind, family)
  BY <1>1, <1>2, AskingIs
<1> DEFINE nexts == CASE mode = "disabled" -> {PassthroughWithClaudeAccount(q)}
                      [] mode = "fallback" -> {PassthroughWithClaudePool(q)}
                      [] mode = "balanced" /\ kind = "count" -> ServeCountTokens(r, q)
                      [] mode = "balanced" /\ kind = "message" -> NextBalanced(r, q)
<1>4. up /\ glimpse' = seen /\ Goes(r, nexts)
  BY DEF Arrive
<1> HIDE DEF kind, family, seen, q
<1>5. PICK n \in nexts : req' = [req EXCEPT ![r] = n]
  <2> HIDE DEF nexts
  <2>1. QED BY <1>4 DEF Goes
<1>6. \/ mode = "disabled" /\ n = PassthroughWithClaudeAccount(q)
      \/ mode = "fallback" /\ n = PassthroughWithClaudePool(q)
      \/ mode = "balanced" /\ n \in NextBalanced(r, q)
  <2>1. mode \in {"disabled", "fallback", "balanced"}
    BY <1>2, PoolAssumption DEF PoolAssumption
  <2>2. CASE mode = "disabled"
    <3>1. nexts = {PassthroughWithClaudeAccount(q)}
      BY <2>2
    <3>2. QED BY <1>5, <2>2, <3>1
  <2>3. CASE mode = "fallback"
    <3>1. nexts = {PassthroughWithClaudePool(q)}
      BY <2>3
    <3>2. QED BY <1>5, <2>3, <3>1
  <2>4. CASE mode = "balanced"
    <3>1. nexts = NextBalanced(r, q)
      BY <1>1, <2>4 DEF ServeCountTokens
    <3>2. QED BY <1>5, <2>4, <3>1
  <2>5. QED BY <2>1, <2>2, <2>3, <2>4
<1> HIDE DEF nexts
<1> DEFINE Starts(qq) == /\ Asking(qq, seen, kind, family)
                         /\ Attempts(qq, n) \/ GivesUp(qq, n)
                         /\ mode = "fallback" => \A a \in qq.skipped : IsCoolingInPool(a)
<1>7. ASSUME mode = "disabled" /\ n = PassthroughWithClaudeAccount(q)
      PROVE  RequestFine(n) /\ \E qq : Starts(qq)
  <2>1. GoesOn(q) /\ q \in Queries
    BY <1>3, <1>7 DEF Asking, GoesOn
  <2>2. CASE Serving \in q.ready
    <3>1. n = Attempt(q, Serving)
      BY <1>7, <2>2 DEF PassthroughWithClaudeAccount
    <3>2. RequestFine(n) /\ n.pc = "credentials" /\ n.family = q.family /\ n.account = Serving
      BY <1>4, <1>7, <2>1, <2>2, <3>1, AttemptFine
    <3>3. Attempts(q, n)
      BY <1>7, <2>2, <3>2 DEF Attempts
    <3>4. QED BY <1>3, <1>7, <3>2, <3>3
  <2>3. CASE Serving \notin q.ready
    <3>1. n = Answered(q, "unavailable") /\ "unavailable" \in Answers
      BY <1>7, <2>3 DEF PassthroughWithClaudeAccount, Answers
    <3>2. RequestFine(n) /\ n.pc = "done" /\ n.family = q.family
      BY <2>1, <3>1, AnswerFine
    <3>3. GivesUp(q, n)
      BY <1>7, <3>2 DEF GivesUp
    <3>4. QED BY <1>3, <1>7, <3>2, <3>3
  <2>4. QED BY <2>2, <2>3
<1>8. ASSUME mode = "fallback" /\ n = PassthroughWithClaudePool(q)
      PROVE  RequestFine(n) /\ \E qq : Starts(qq)
  BY <1>2, <1>3, <1>4, <1>8, PoolStarts
<1>9. ASSUME mode = "balanced" /\ n \in NextBalanced(r, q)
      PROVE  RequestFine(n) /\ \E qq : Starts(qq)
  <2>1. GoesOn(q) /\ q.limited = NoReply /\ ~q.failed
    BY <1>3, <1>9 DEF Asking, GoesOn
  <2>2. RequestFine(n) /\ (Attempts(q, n) \/ GivesUp(q, n))
    BY <1>2, <1>4, <1>9, <2>1, BalancedGoesOn
  <2>3. QED BY <1>3, <1>9, <2>2
<1>10. RequestFine(n) /\ \E qq : Starts(qq)
  BY <1>6, <1>7, <1>8, <1>9
<1>11. PICK qq : Starts(qq)
  BY <1>10
<1>12. /\ Asking(qq, glimpse', ask.kind, ask.family) /\ (Attempts(qq, n) \/ GivesUp(qq, n))
       /\ mode = "fallback" => \A a \in qq.skipped : IsCoolingInPool(a)
  <2>1. glimpse' = seen
    BY <1>4
  <2>2. QED BY <1>11, <2>1 DEF kind, family
<1>13. QED BY <1>5, <1>10, <1>12
-----------------------------------------------------------------------------
(* The requests from one state to the next.                                *)

(* A record that differs only in what no attempt depends on.               *)
Like(v, q) ==
  /\ v \in Queries /\ v.pc = q.pc /\ v.kind = q.kind /\ v.family = q.family /\ v.ready = q.ready
  /\ v.answer = q.answer
  /\ v.chain = q.chain /\ v.skipped = q.skipped /\ v.tried = q.tried /\ v.account = q.account

(* What is said of the one is true of the other.                           *)
LEMMA LikeIs ==
  ASSUME NEW q, WellTyped(q), NEW v, Like(v, q), NEW m
  PROVE  /\ WellTyped(v) /\ (ChainCovers(q, m) => ChainCovers(v, m))
         /\ WritesIfBalanced(q, m) => WritesIfBalanced(v, m)
BY DEF Like, WellTyped, ChainCovers, WritesIfBalanced

(* One request moves, and nothing changes that the others depend on.       *)
LEMMA OneGoes ==
  ASSUME RequestsFine, NEW r \in Requests, NEW n, RequestFine(n), req' = [req EXCEPT ![r] = n],
         UNCHANGED <<mode, up, state, profile, cooldown, pending, disk>>
  PROVE  RequestsFine'
<1>1. DOMAIN req' = Requests
  BY DEF RequestsFine
<1>2. ASSUME NEW x \in Requests PROVE RequestFine(req[x])'
  <2>1. PICK v : v = req'[x] /\ RequestFine(v)
    BY DEF RequestsFine
  <2>2. QED BY <2>1 DEF RequestFine
<1>3. QED BY <1>1, <1>2 DEF RequestsFine

(* Nothing moves.                                                          *)
LEMMA NoneGoes ==
  ASSUME RequestsFine, UNCHANGED <<mode, up, state, profile, cooldown, pending, disk, req>>
  PROVE  RequestsFine'
BY DEF RequestsFine, RequestFine

(* What is void concerns nobody, whatever becomes of the accounts.         *)
LEMMA UnconcernedFine ==
  ASSUME NEW q, RequestFine(q), NEW v, Like(v, q), v.key = q.key \/ v.key = NoKey, ~Concerns(v),
         NEW st, NEW cd, NEW dk, NEW pf
  PROVE  /\ WellTyped(v) /\ (up \/ v.pc \notin Live) /\ ChainCovers(v, mode) /\ WritesIfBalanced(v, mode)
         /\ WaitsForWrite(v, pending) /\ StillReady(v, st) /\ ToldTheTruth(v, mode, up, cd, dk, pf)
<1>1. WellTyped(v) /\ ChainCovers(v, mode) /\ WritesIfBalanced(v, mode)
  BY LikeIs DEF RequestFine
<1>2. WaitsForWrite(v, pending) /\ (up \/ v.pc \notin Live)
  BY DEF RequestFine, WaitsForWrite, Like
<1>3. StillReady(v, st) /\ ToldTheTruth(v, mode, up, cd, dk, pf)
  BY DEF StillReady, ToldTheTruth
<1>4. QED BY <1>1, <1>2, <1>3

(* All that clients were told, or will be, is void.                        *)
LEMMA AllVoided ==
  ASSUME NEW requests, DOMAIN requests = Requests, \A x \in Requests : RequestFine(requests[x]),
         req' = Voided(requests), UNCHANGED <<mode, up, pending>>
  PROVE  RequestsFine'
<1>1. DOMAIN req' = Requests
  BY DEF Voided
<1>2. ASSUME NEW x \in Requests PROVE RequestFine(req[x])'
  <2> DEFINE q == requests[x]
             v == IF q.pc = "idle" \/ (q.pc = "done" /\ q.wait = NoWait) THEN q ELSE [q EXCEPT !.void = TRUE]
  <2>1. req'[x] = v /\ RequestFine(q)
    BY DEF Voided
  <2> HIDE DEF q
  <2>2. q \in Queries
    BY <2>1 DEF RequestFine, WellTyped
  <2>3. Like(v, q) /\ v.key = q.key /\ ~Concerns(v)
    <3>1. CASE q.pc = "idle" \/ (q.pc = "done" /\ q.wait = NoWait)
      BY <2>2, <3>1 DEF Like, Concerns, Live
    <3>2. CASE ~(q.pc = "idle" \/ (q.pc = "done" /\ q.wait = NoWait))
      <4>1. v = [q EXCEPT !.void = TRUE]
        BY <3>2
      <4>2. v \in Queries /\ v.void = TRUE
        BY <2>2, <4>1 DEF Queries
      <4>3. Like(v, q) /\ v.key = q.key
        BY <2>2, <4>1, <4>2 DEF Like, Queries
      <4>4. QED BY <4>2, <4>3 DEF Concerns
    <3>3. QED BY <3>1, <3>2
  <2> HIDE DEF v
  <2>4. PICK w : w = v /\ w = req'[x]
    BY <2>1
  <2>5. /\ WellTyped(w) /\ (up \/ w.pc \notin Live) /\ ChainCovers(w, mode) /\ WritesIfBalanced(w, mode)
        /\ WaitsForWrite(w, pending) /\ ~Concerns(w)
    BY <2>1, <2>3, <2>4, UnconcernedFine
  <2>6. QED BY <2>4, <2>5 DEF RequestFine, StillReady, ToldTheTruth
<1>3. QED BY <1>1, <1>2 DEF RequestsFine

(* A cooldown is installed.                                                *)
LEMMA AllSuperseded ==
  ASSUME RequestsFine, up, mode = "balanced", NEW r \in Requests, NEW k \in Keys, NEW row,
         NEW q, RequestFine(q), q.pc \in Live, q.kind = "message",
         pending' = [pending EXCEPT ![k] = row], pending \in [Keys -> Rows],
         req' = [Superseded(k) EXCEPT ![r] = [q EXCEPT !.pc = AfterInstall, !.key = k]],
         UNCHANGED <<mode, up, state, profile, disk>>
  PROVE  RequestsFine'
<1>1. DOMAIN req' = Requests
  BY DEF Superseded
<1>2. ASSUME NEW x \in Requests, x # r PROVE RequestFine(req[x])'
  <2> DEFINE o == req[x]
             v == CASE o.pc = "done" -> [o EXCEPT !.void = o.wait # NoWait]
                    [] o.pc = "written" /\ o.key = k -> [o EXCEPT !.key = NoKey]
                    [] OTHER -> o
  <2>1. req'[x] = v /\ RequestFine(o)
    BY <1>2 DEF Superseded, RequestsFine
  <2> HIDE DEF o
  <2>2. o \in Queries
    BY <2>1 DEF RequestFine, WellTyped
  <2>3. /\ Like(v, o) /\ (v.pc = "written" => v.key = NoKey \/ (v.key = o.key /\ v.key # k))
        /\ Concerns(v) => v.pc # "done" /\ Concerns(o)
    <3>1. CASE o.pc = "done"
      <4>1. v = [o EXCEPT !.void = o.wait # NoWait]
        BY <3>1
      <4>2. (o.wait # NoWait) \in BOOLEAN
        OBVIOUS
      <4>3. v \in Queries
        BY <2>2, <4>1 DEF Queries
      <4>4. Like(v, o) /\ v.void = (o.wait # NoWait) /\ v.wait = o.wait
        BY <2>2, <4>1, <4>3 DEF Like, Queries
      <4>5. QED BY <3>1, <4>4 DEF Like, Concerns, Live
    <3>2. CASE o.pc = "written" /\ o.key = k
      <4>1. v = [o EXCEPT !.key = NoKey]
        BY <3>2
      <4>2. v \in Queries
        BY <2>2, <4>1 DEF Queries
      <4>3. Like(v, o) /\ v.void = o.void /\ v.wait = o.wait /\ v.key = NoKey
        BY <2>2, <4>1, <4>2 DEF Like, Queries
      <4>4. QED BY <3>2, <4>3 DEF Like, Concerns, Live
    <3>3. CASE o.pc # "done" /\ ~(o.pc = "written" /\ o.key = k)
      <4>1. v = o
        BY <3>3
      <4>2. QED BY <2>2, <3>3, <4>1 DEF Like
    <3>4. QED BY <3>1, <3>2, <3>3
  <2> HIDE DEF v
  <2>4. WellTyped(v) /\ ChainCovers(v, mode) /\ WritesIfBalanced(v, mode)
    BY <2>1, <2>3, LikeIs DEF RequestFine
  <2>5. WaitsForWrite(v, pending')
    <3>1. ASSUME v.pc = "written", v.key # NoKey PROVE pending'[v.key] = NoRow
      <4>1. v.key = o.key /\ v.key # k /\ o.pc = "written"
        BY <2>3, <3>1 DEF Like
      <4>2. pending[o.key] = NoRow
        BY <2>1, <3>1, <4>1 DEF RequestFine, WaitsForWrite
      <4>3. o.key \in Keys
        BY <2>2, <3>1, <4>1 DEF Queries
      <4>4. QED BY <4>1, <4>2, <4>3
    <3>2. QED BY <3>1 DEF WaitsForWrite
  <2>6. StillReady(v, state)
    BY <2>1, <2>3 DEF RequestFine, StillReady, Like
  <2>7. \A cd : ToldTheTruth(v, mode, up, cd, disk, profile)
    BY <2>3 DEF ToldTheTruth
  <2>8. QED BY <2>1, <2>4, <2>5, <2>6, <2>7 DEF RequestFine
<1>3. RequestFine(req[r])'
  <2> DEFINE v == [q EXCEPT !.pc = AfterInstall, !.key = k]
  <2>1. req'[r] = v /\ q \in Queries
    BY DEF Superseded, RequestFine, WellTyped
  <2>2. AfterInstall \in PCs /\ k \in Keys \cup {NoKey}
    BY DEF AfterInstall, PCs
  <2>3. /\ v \in Queries /\ v.pc = "durable" /\ v.kind = q.kind /\ v.family = q.family /\ v.ready = q.ready
        /\ v.chain = q.chain /\ v.skipped = q.skipped /\ v.tried = q.tried /\ v.account = q.account
        /\ v.void = q.void
    BY <2>1, <2>2 DEF Queries, AfterInstall
  <2> HIDE DEF v
  <2>4. WellTyped(v) /\ WritesIfBalanced(v, mode)
    BY <2>3 DEF RequestFine, WellTyped, WritesIfBalanced
  <2>5. ChainCovers(v, mode) /\ (\A pend : WaitsForWrite(v, pend))
    BY <2>3 DEF ChainCovers, WaitsForWrite
  <2>6. StillReady(v, state)
    BY <2>3 DEF RequestFine, StillReady, Concerns
  <2>7. \A cd : ToldTheTruth(v, mode, up, cd, disk, profile)
    BY <2>3 DEF ToldTheTruth
  <2>8. QED BY <2>1, <2>4, <2>5, <2>6, <2>7 DEF RequestFine
<1>4. QED BY <1>1, <1>2, <1>3 DEF RequestsFine

(* The write that a request waits for is committed, or has failed.         *)
LEMMA AllTold ==
  ASSUME RequestsFine, CooldownTypes, NEW k \in Keys, WriteEnds(k)
  PROVE  RequestsFine'
<1>1. DOMAIN req' = Requests
  BY DEF WriteEnds
<1>2. ASSUME NEW x \in Requests PROVE RequestFine(req[x])'
  <2> DEFINE o == req[x]
             v == IF o.pc = "durable" /\ o.key = k THEN [o EXCEPT !.pc = "written"] ELSE o
  <2>1. /\ req'[x] = v /\ RequestFine(o) /\ up /\ UNCHANGED <<mode, up, state, profile, cooldown>>
        /\ pending' = [pending EXCEPT ![k] = NoRow]
    BY <1>2 DEF WriteEnds, RequestsFine, logins
  <2> HIDE DEF o
  <2>2. o \in Queries
    BY <2>1 DEF RequestFine, WellTyped
  <2>3. \A kk \in Keys : kk = k \/ pending[kk] = NoRow => pending'[kk] = NoRow
    BY <2>1 DEF CooldownTypes
  <2>4. CASE o.pc = "durable" /\ o.key = k
    <3>1. v = [o EXCEPT !.pc = "written"] /\ "written" \in PCs
      BY <2>4 DEF PCs
    <3>2. /\ v \in Queries /\ v.pc = "written" /\ v.kind = o.kind /\ v.family = o.family
          /\ v.ready = o.ready /\ v.chain = o.chain /\ v.skipped = o.skipped /\ v.tried = o.tried
          /\ v.account = o.account /\ v.void = o.void /\ v.key = k
      BY <2>2, <2>4, <3>1 DEF Queries
    <3> HIDE DEF v
    <3>3. o.pc \in Live /\ WellTyped(v) /\ ChainCovers(v, mode) /\ WritesIfBalanced(v, mode)
      BY <2>1, <2>4, <3>2 DEF RequestFine, WellTyped, ChainCovers, WritesIfBalanced, Live, PCs
    <3>4. WaitsForWrite(v, pending')
      BY <2>3, <3>2 DEF WaitsForWrite
    <3>5. StillReady(v, state) /\ (\A dk : ToldTheTruth(v, mode, up, cooldown, dk, profile))
      BY <2>1, <3>2, <3>3 DEF RequestFine, StillReady, Concerns, ToldTheTruth, Live
    <3>6. QED BY <2>1, <3>3, <3>4, <3>5 DEF RequestFine
  <2>5. CASE ~(o.pc = "durable" /\ o.key = k)
    <3>1. v = o
      BY <2>5
    <3>2. WaitsForWrite(o, pending')
      BY <2>1, <2>2, <2>3 DEF RequestFine, WaitsForWrite, Queries
    <3>3. \A dk : ToldTheTruth(o, mode, up, cooldown, dk, profile)
      BY <2>1 DEF RequestFine, ToldTheTruth
    <3>4. QED BY <2>1, <3>1, <3>2, <3>3 DEF RequestFine
  <2>6. QED BY <2>4, <2>5
<1>3. QED BY <1>1, <1>2 DEF RequestsFine

(* Clients wait while the cooldowns they wait for get shorter.             *)
LEMMA AllWaited ==
  ASSUME RequestsFine, CooldownTypes, CooldownTypes', req' = Waited, UNCHANGED <<mode, up, state, profile>>,
         \A k \in Keys : Older(cooldown'[k], cooldown[k]) /\ Older(disk'[k], disk[k]),
         \A k \in Keys : pending[k] = NoRow => pending'[k] = NoRow
  PROVE  RequestsFine'
<1>1. DOMAIN req' = Requests
  BY DEF Waited
<1>2. ASSUME NEW x \in Requests PROVE RequestFine(req[x])'
  <2> DEFINE o == req[x]
             v == [o EXCEPT !.wait = Minus(@)]
  <2>1. req'[x] = v /\ RequestFine(o)
    BY <1>2 DEF Waited, RequestsFine
  <2> HIDE DEF o
  <2>2. o \in Queries
    BY <2>1 DEF RequestFine, WellTyped
  <2>3. o.wait \in Nat \cup {NoWait}
    BY <2>2 DEF Queries
  <2>4. Minus(o.wait) \in Nat \cup {NoWait} /\ (Minus(o.wait) = NoWait <=> o.wait = NoWait)
    BY <2>3 DEF Minus, NoWait
  <2>5. v \in Queries
    BY <2>2, <2>4 DEF Queries
  <2>6. Like(v, o) /\ v.key = o.key /\ v.void = o.void /\ v.wait = Minus(o.wait)
    BY <2>2, <2>5 DEF Like, Queries
  <2> HIDE DEF v
  <2>7. Concerns(v) <=> Concerns(o)
    BY <2>4, <2>6 DEF Concerns, Like
  <2>8. WellTyped(v) /\ ChainCovers(v, mode) /\ WritesIfBalanced(v, mode)
    BY <2>1, <2>6, LikeIs DEF RequestFine
  <2>9. WaitsForWrite(v, pending')
    BY <2>1, <2>2, <2>6 DEF RequestFine, WaitsForWrite, Like, Queries
  <2>10. StillReady(v, state)
    BY <2>1, <2>6, <2>7 DEF RequestFine, StillReady, Like
  <2>11. ToldTheTruth(v, mode, up, cooldown', disk', profile)
    <3>1. SUFFICES ASSUME mode = "balanced", v.pc = "done", Concerns(v)
                   PROVE  \E a \in v.ready : IF up THEN FreeInMemory(v, a, cooldown', profile)
                                                  ELSE FreeOnDisk(v, a, disk', profile)
      BY DEF ToldTheTruth
    <3>2. PICK a \in o.ready : IF up THEN FreeInMemory(o, a, cooldown, profile)
                                      ELSE FreeOnDisk(o, a, disk, profile)
      BY <2>1, <2>6, <2>7, <3>1 DEF RequestFine, ToldTheTruth, Like
    <3>3. a \in v.ready /\ v.family = o.family /\ KeysOf(a, o.family) \subseteq Keys
      BY <2>2, <2>6, <3>2 DEF Like, KeysOf, Keys, Queries
    <3>4. o.wait \in Nat
      BY <2>3, <2>6, <2>7, <3>1 DEF Concerns, Live, Like
    <3>5. ASSUME NEW k \in Keys
          PROVE  /\ CooldownLeft(cooldown[k], profile[a]) <= o.wait
                      => CooldownLeft(cooldown'[k], profile[a]) <= v.wait
                 /\ (disk[k].profile = profile[a] => disk[k].wall <= o.wait)
                      => (disk'[k].profile = profile[a] => disk'[k].wall <= v.wait)
      <4>1. /\ cooldown[k] \in Entries /\ cooldown'[k] \in Entries
            /\ disk[k] \in RowsKept /\ disk'[k] \in RowsKept
        BY DEF CooldownTypes
      <4>2. /\ cooldown[k].wall \in Nat /\ cooldown'[k].wall \in Nat
            /\ \A p : /\ CooldownLeft(cooldown[k], p) = IF cooldown[k].profile = p THEN cooldown[k].wall ELSE 0
                      /\ CooldownLeft(cooldown'[k], p)
                           = IF cooldown'[k].profile = p THEN cooldown'[k].wall ELSE 0
        BY <4>1, EntryFacts
      <4>3. disk[k].wall \in Nat /\ disk'[k].wall \in Nat
        BY <4>1 DEF RowsKept, NoRow
      <4>4. 0 <= v.wait /\ \A m \in Nat : m <= o.wait => Minus(m) <= v.wait
        BY <2>6, <3>4 DEF Minus
      <4>5. /\ cooldown'[k].wall = Minus(cooldown[k].wall) /\ disk'[k].wall = Minus(disk[k].wall)
            /\ cooldown'[k].wall > 0 => cooldown'[k].profile = cooldown[k].profile
            /\ disk'[k].wall > 0 => disk'[k].profile = disk[k].profile
        BY DEF Older
      <4>6. (disk[k].profile = profile[a] => disk[k].wall <= o.wait)
              => (disk'[k].profile = profile[a] => disk'[k].wall <= v.wait)
        <5>1. disk'[k].wall = 0 \/ disk'[k].profile = disk[k].profile
          BY <4>3, <4>5
        <5>2. disk[k].wall <= o.wait => disk'[k].wall <= v.wait
          BY <4>3, <4>4, <4>5
        <5>3. QED BY <4>4, <5>1, <5>2
      <4>7. CASE cooldown'[k].profile = profile[a] /\ cooldown'[k].wall > 0
        <5>1. CooldownLeft(cooldown[k], profile[a]) = cooldown[k].wall
              /\ CooldownLeft(cooldown'[k], profile[a]) = Minus(cooldown[k].wall)
          BY <4>2, <4>5, <4>7
        <5>2. cooldown[k].wall <= o.wait => Minus(cooldown[k].wall) <= v.wait
          BY <4>2, <4>4
        <5>3. QED BY <4>6, <5>1, <5>2
      <4>8. CASE ~(cooldown'[k].profile = profile[a] /\ cooldown'[k].wall > 0)
        <5>1. CooldownLeft(cooldown'[k], profile[a]) = 0
          BY <4>2, <4>8
        <5>2. QED BY <4>4, <4>6, <5>1
      <4>9. QED BY <4>7, <4>8
    <3>6. QED BY <3>2, <3>3, <3>5 DEF FreeInMemory, FreeOnDisk
  <2>12. QED BY <2>1, <2>6, <2>8, <2>9, <2>10, <2>11 DEF RequestFine, Like
<1>3. QED BY <1>1, <1>2 DEF RequestsFine

(* A crash: what a client was told is still true by the disk, unless the   *)
(* disk has kept a row whose replacement is lost.                          *)
LEMMA AllLost ==
  ASSUME RequestsFine, StoreIInv, Crash
  PROVE  RequestsFine'
<1>1. DOMAIN req' = Requests
  BY DEF Crash
<1>2. /\ up /\ ~up' /\ UNCHANGED <<mode, state, profile, disk>> /\ CooldownTypes
      /\ \A x \in Requests : req'[x] = Lost(req[x])
  BY DEF Crash, StoreIInv
<1>3. ASSUME NEW x \in Requests PROVE RequestFine(req[x])'
  <2> DEFINE o == req[x]
             v == Lost(o)
  <2>1. req'[x] = v /\ RequestFine(o)
    BY <1>2 DEF RequestsFine
  <2> HIDE DEF o
  <2>2. o \in Queries
    BY <2>1 DEF RequestFine, WellTyped
  <2>3. CASE o.pc \notin {"idle", "done"}
    <3>1. v = Answered(o, "lost") /\ "lost" \in Answers
      BY <2>3 DEF Lost, Answers
    <3> HIDE DEF v
    <3>2. /\ v \in Queries /\ v.pc = "done" /\ v.wait = NoWait /\ v.ready = {} /\ v.tried = {} /\ v.chain = {}
      BY <2>2, <3>1, AnsweredIs
    <3>3. v.pc \notin Live /\ ~Concerns(v) /\ v.pc \notin {"durable", "written"}
      BY <3>2 DEF Live, Concerns
    <3>4. WellTyped(v) /\ ChainCovers(v, mode) /\ WritesIfBalanced(v, mode) /\ WaitsForWrite(v, pending')
      BY <3>2, <3>3 DEF WellTyped, ChainCovers, WritesIfBalanced, WaitsForWrite
    <3>5. StillReady(v, state) /\ ToldTheTruth(v, mode, up', cooldown', disk, profile)
      BY <3>3 DEF StillReady, ToldTheTruth
    <3>6. QED BY <1>2, <2>1, <3>3, <3>4, <3>5 DEF RequestFine
  <2>4. CASE o.pc \in {"idle", "done"}
    <3> DEFINE back == o.pc = "done" /\ o.wait # NoWait /\ \E k \in Keys : LosesReplacement(k)
    <3>1. v = [o EXCEPT !.void = @ \/ back]
      BY <2>4 DEF Lost
    <3>2. (o.void \/ back) \in BOOLEAN
      OBVIOUS
    <3> HIDE DEF v
    <3>3. v \in Queries
      <4> HIDE DEF back
      <4>1. QED BY <2>2, <3>1, <3>2 DEF Queries
    <3>4. /\ Like(v, o) /\ v.key = o.key /\ v.wait = o.wait
          /\ v.void <=> (o.void \/ back)
      <4> HIDE DEF back
      <4>1. v.void = (o.void \/ back)
        BY <2>2, <3>1 DEF Queries
      <4>2. QED BY <2>2, <3>1, <3>3, <4>1 DEF Like, Queries
    <3>5. v.pc \notin Live /\ v.pc \notin {"durable", "written"}
      BY <2>4, <3>4 DEF Like, Live
    <3>6. WellTyped(v) /\ ChainCovers(v, mode) /\ WritesIfBalanced(v, mode) /\ WaitsForWrite(v, pending')
      BY <2>1, <3>4, <3>5, LikeIs DEF RequestFine, WaitsForWrite
    <3>7. StillReady(v, state)
      BY <2>1, <3>4 DEF RequestFine, StillReady, Concerns, Like
    <3>8. ToldTheTruth(v, mode, up', cooldown', disk, profile)
      <4>1. SUFFICES ASSUME mode = "balanced", v.pc = "done", Concerns(v)
                     PROVE  \E a \in v.ready : FreeOnDisk(v, a, disk, profile)
        BY <1>2 DEF ToldTheTruth
      <4>2. /\ o.pc = "done" /\ Concerns(o) /\ o.wait \in Nat
            /\ \A k \in Keys : (pending[k] = NoRow /\ k \notin unwritten) \/ disk[k] = NoRow
        <5>1. o.pc = "done" /\ ~o.void /\ ~back /\ o.wait # NoWait
          BY <3>4, <4>1 DEF Concerns, Live, Like
        <5>2. QED BY <2>2, <5>1 DEF Concerns, Queries, LosesReplacement
      <4>3. PICK a \in o.ready : FreeInMemory(o, a, cooldown, profile)
        BY <1>2, <2>1, <4>1, <4>2 DEF RequestFine, ToldTheTruth
      <4>4. a \in v.ready /\ v.family = o.family /\ KeysOf(a, o.family) \subseteq Keys
        BY <2>2, <3>4, <4>3 DEF Like, KeysOf, Keys, Queries
      <4>5. ASSUME NEW k \in KeysOf(a, o.family), disk[k].profile = profile[a]
            PROVE  disk[k].wall <= o.wait
        <5>1. k \in Keys /\ CooldownLeft(cooldown[k], profile[a]) <= o.wait
          BY <4>3, <4>4 DEF FreeInMemory
        <5>2. CASE disk[k] = NoRow
          BY <4>2, <5>2 DEF NoRow
        <5>3. CASE disk[k] # NoRow
          <6>1. Same(disk[k], cooldown[k])
            BY <1>2, <4>2, <5>1, <5>3 DEF StoreIInv, CopiesAgree
          <6>2. disk[k].wall > 0
            <7>1. disk[k] \in RowsKept
              BY <1>2, <5>1 DEF CooldownTypes
            <7>2. QED BY <5>3, <7>1, CooldownAssumption DEF RowsKept
          <6>3. cooldown[k].profile = profile[a] /\ cooldown[k].wall = disk[k].wall /\ cooldown[k] \in Entries
            BY <1>2, <4>5, <5>1, <6>1, <6>2 DEF Same, CooldownTypes
          <6>4. CooldownLeft(cooldown[k], profile[a]) = disk[k].wall
            BY <6>3, EntryFacts
          <6>5. QED BY <5>1, <6>4
        <5>4. QED BY <5>2, <5>3
      <4>6. FreeOnDisk(v, a, disk, profile)
        BY <3>4, <4>4, <4>5 DEF FreeOnDisk
      <4>7. QED BY <4>4, <4>6
    <3>9. QED BY <1>2, <2>1, <3>5, <3>6, <3>7, <3>8 DEF RequestFine
  <2>5. QED BY <2>3, <2>4
<1>4. QED BY <1>1, <1>3 DEF RequestsFine

(* A restart: what is true by the disk is true by the memory made of it.   *)
LEMMA AllRestored ==
  ASSUME RequestsFine, StoreIInv, StoreIInv', Restart
  PROVE  RequestsFine'
<1>1. /\ ~up /\ up' /\ UNCHANGED <<mode, state, profile, disk, pending, req>>
      /\ mode = "balanced" => cooldown' = [k \in Keys |-> Restored(disk[k])]
  BY DEF Restart, logins
<1>2. DOMAIN req' = Requests
  BY <1>1 DEF RequestsFine
<1>3. ASSUME NEW x \in Requests PROVE RequestFine(req[x])'
  <2>1. PICK o : o = req[x] /\ o = req'[x] /\ RequestFine(o)
    BY <1>1 DEF RequestsFine
  <2>2. o \in Queries
    BY <2>1 DEF RequestFine, WellTyped
  <2>3. ToldTheTruth(o, mode, up', cooldown', disk, profile)
    <3>1. SUFFICES ASSUME mode = "balanced", o.pc = "done", Concerns(o)
                   PROVE  \E a \in o.ready : FreeInMemory(o, a, cooldown', profile)
      BY <1>1 DEF ToldTheTruth
    <3>2. PICK a \in o.ready : FreeOnDisk(o, a, disk, profile)
      BY <1>1, <2>1, <3>1 DEF RequestFine, ToldTheTruth
    <3>3. KeysOf(a, o.family) \subseteq Keys /\ o.wait \in Nat
      BY <2>2, <3>1, <3>2 DEF KeysOf, Keys, Queries, Concerns, Live
    <3>4. ASSUME NEW k \in KeysOf(a, o.family)
          PROVE  CooldownLeft(cooldown'[k], profile[a]) <= o.wait
      <4>1. k \in Keys /\ disk[k] \in RowsKept /\ cooldown'[k] = Restored(disk[k])
        BY <1>1, <3>1, <3>3 DEF StoreIInv, CooldownTypes
      <4>2. cooldown'[k] \in Entries /\ Same(disk[k], cooldown'[k])
        BY <4>1, RestoredIs
      <4>3. /\ cooldown'[k].wall \in Nat
            /\ CooldownLeft(cooldown'[k], profile[a])
                 = IF cooldown'[k].profile = profile[a] THEN cooldown'[k].wall ELSE 0
        BY <4>2, EntryFacts
      <4>4. disk[k].profile = profile[a] => disk[k].wall <= o.wait
        BY <3>2 DEF FreeOnDisk
      <4>5. QED BY <3>3, <4>2, <4>3, <4>4 DEF Same
    <3>5. QED BY <3>2, <3>4 DEF FreeInMemory
  <2>4. QED BY <1>1, <2>1, <2>3 DEF RequestFine
<1>4. QED BY <1>2, <1>3 DEF RequestsFine

(* A login brings an account back, and another one's profile voids.        *)
LEMMA AllLoggedIn ==
  ASSUME RequestsFine, state \in [Accounts -> States], profile \in [Accounts -> {0, 1}],
         NEW a \in Registered, NEW p \in {0, 1}, Relogin(a, p)
  PROVE  RequestsFine'
<1>1. /\ state' = [state EXCEPT ![a] = "ready"] /\ profile' = [profile EXCEPT ![a] = p]
      /\ req' = IF p = profile[a] THEN req ELSE Voided(req)
      /\ UNCHANGED <<mode, up, cooldown, pending, disk>>
  BY DEF Relogin, memory
<1>2. CASE p # profile[a]
  BY <1>1, <1>2, AllVoided DEF RequestsFine
<1>3. CASE p = profile[a]
  <2>1. profile' = profile /\ req' = req
    BY <1>1, <1>3
  <2>2. \A x \in Accounts : state[x] = "ready" => state'[x] = "ready"
    BY <1>1
  <2>3. DOMAIN req' = Requests
    BY <2>1 DEF RequestsFine
  <2>4. ASSUME NEW x \in Requests PROVE RequestFine(req[x])'
    <3>1. PICK o : o = req[x] /\ o = req'[x] /\ RequestFine(o)
      BY <2>1 DEF RequestsFine
    <3>2. o.ready \subseteq Accounts
      BY <3>1 DEF RequestFine, WellTyped, Queries
    <3>3. StillReady(o, state')
      BY <2>2, <3>1, <3>2 DEF RequestFine, StillReady
    <3>4. QED BY <1>1, <2>1, <3>1, <3>3 DEF RequestFine
  <2>5. QED BY <2>3, <2>4 DEF RequestsFine
<1>4. QED BY <1>2, <1>3

(* An attempt gets from one await to the next.                             *)
LEMMA StillLive ==
  ASSUME NEW q, RequestFine(q), q.pc \in Live, NEW n \in Queries, n.pc \in {"sent", "refreshing", "resent"},
         n.kind = q.kind, n.family = q.family, n.ready = q.ready, n.chain = q.chain,
         n.skipped = q.skipped, n.tried = q.tried, n.account = q.account, n.void = q.void
  PROVE  RequestFine(n)
<1>1. q \in Queries /\ n.pc \in Live
  BY DEF RequestFine, WellTyped, PCs, Live
<1>2. WellTyped(n) /\ ChainCovers(n, mode) /\ WritesIfBalanced(n, mode) /\ WaitsForWrite(n, pending)
  BY <1>1 DEF RequestFine, WellTyped, ChainCovers, WritesIfBalanced, WaitsForWrite
<1>3. StillReady(n, state) /\ ToldTheTruth(n, mode, up, cooldown, disk, profile)
  BY <1>1 DEF RequestFine, StillReady, Concerns, ToldTheTruth
<1>4. QED BY <1>1, <1>2, <1>3 DEF RequestFine
-----------------------------------------------------------------------------
(* The steps of the requests, with what each of them amounts to.           *)

Stays(x) == req'[x].pc = req[x].pc /\ req'[x].account = req[x].account

(* It is not about the accounts: an attempt goes on, or ends for good.     *)
Passes(x) ==
  \/ req'[x].pc \notin {"credentials", "done"}
  \/ req'[x].pc = "done" /\ req'[x].answer \in {"served", "unreachable", "lost"}

Decides(x) == up /\ req[x].pc \in Live /\ (Attempts(req[x], req'[x]) \/ GivesUp(req[x], req'[x]))

Comes(x) ==
  /\ up /\ req[x].pc = "idle"
  /\ \E q : /\ \E kind, family : Asking(q, glimpse', kind, family)
            /\ Attempts(q, req'[x]) \/ GivesUp(q, req'[x])
            /\ mode = "fallback" => \A a \in q.skipped : IsCoolingInPool(a)

Moved == \A x \in Requests : Stays(x) \/ Passes(x) \/ Decides(x) \/ Comes(x)

(* When one request moves, it decides what happened.                       *)
LEMMA OneMoves ==
  ASSUME RequestsFine, NEW r \in Requests, NEW n \in Queries,
         req' = [req EXCEPT ![r] = n] \/ req' = Voided([req EXCEPT ![r] = n])
  PROVE  /\ \A x \in Requests : x # r => Stays(x)
         /\ /\ req'[r].pc = n.pc /\ req'[r].account = n.account
            /\ req'[r].family = n.family /\ req'[r].answer = n.answer
<1> DEFINE requests == [req EXCEPT ![r] = n]
<1>1. ASSUME NEW x \in Requests
      PROVE  /\ requests[x] = IF x = r THEN n ELSE req[x]
             /\ requests[x] \in Queries
  BY DEF RequestsFine, RequestFine, WellTyped
<1> HIDE DEF requests
<1>2. ASSUME NEW x \in Requests
      PROVE  /\ req'[x].pc = requests[x].pc /\ req'[x].account = requests[x].account
             /\ req'[x].family = requests[x].family /\ req'[x].answer = requests[x].answer
  <2>1. CASE req' = requests
    BY <2>1
  <2>2. CASE req' = Voided(requests)
    <3>1. req'[x] \in {requests[x], [requests[x] EXCEPT !.void = TRUE]}
      BY <2>2 DEF Voided
    <3>2. requests[x] \in Queries
      BY <1>1
    <3>3. QED BY <3>1, <3>2 DEF Queries
  <2>3. QED BY <2>1, <2>2 DEF requests
<1>3. QED BY <1>1, <1>2 DEF Stays

(* One goes on or gives up, perhaps with an account that is no longer      *)
(* ready.                                                                  *)
LEMMA OneDecides ==
  ASSUME RequestsFine, NEW r \in Requests, NEW n, RequestFine(n), up, req[r].pc \in Live,
         Attempts(req[r], n) \/ GivesUp(req[r], n),
         \/ /\ req' = [req EXCEPT ![r] = n]
            /\ UNCHANGED <<mode, up, state, profile, cooldown, pending, disk>>
         \/ req' = Voided([req EXCEPT ![r] = n]) /\ UNCHANGED <<mode, up, pending>>
  PROVE  RequestsFine' /\ Moved
<1>1. n \in Queries
  BY DEF RequestFine, WellTyped
<1>2. /\ \A x \in Requests : x # r => Stays(x)
      /\ /\ req'[r].pc = n.pc /\ req'[r].account = n.account
         /\ req'[r].family = n.family /\ req'[r].answer = n.answer
  BY <1>1, OneMoves
<1>3. Decides(r)
  BY <1>2 DEF Decides, Attempts, GivesUp
<1>4. RequestsFine'
  <2>1. CASE req' = [req EXCEPT ![r] = n] /\ UNCHANGED <<mode, up, state, profile, cooldown, pending, disk>>
    BY <2>1, OneGoes
  <2>2. CASE req' = Voided([req EXCEPT ![r] = n]) /\ UNCHANGED <<mode, up, pending>>
    <3> DEFINE requests == [req EXCEPT ![r] = n]
    <3>1. DOMAIN requests = Requests /\ \A x \in Requests : RequestFine(requests[x])
      BY DEF RequestsFine
    <3> HIDE DEF requests
    <3>2. req' = Voided(requests)
      BY <2>2 DEF requests
    <3>3. QED BY <2>2, <3>1, <3>2, AllVoided
  <2>3. QED BY <2>1, <2>2
<1>5. QED BY <1>2, <1>3, <1>4 DEF Moved

(* One passes on its way.                                                  *)
LEMMA OnePasses ==
  ASSUME RequestsFine, NEW r \in Requests, NEW n, RequestFine(n),
         \/ n.pc \notin {"credentials", "done"}
         \/ n.pc = "done" /\ n.answer \in {"served", "unreachable", "lost"},
         req' = [req EXCEPT ![r] = n], UNCHANGED <<mode, up, state, profile, cooldown, pending, disk>>
  PROVE  RequestsFine' /\ Moved
<1>1. n \in Queries
  BY DEF RequestFine, WellTyped
<1>2. /\ \A x \in Requests : x # r => Stays(x)
      /\ req'[r].pc = n.pc /\ req'[r].answer = n.answer
  BY <1>1, OneMoves
<1>3. RequestsFine'
  BY OneGoes
<1>4. QED BY <1>2, <1>3 DEF Moved, Passes

(* Everything but the requests is typed whatever the step.                 *)
LEMMA RestSteps ==
  ASSUME PoolAssumption, RestTypes, RequestsFine, [Next]_vars
  PROVE  RestTypes'
<1> USE DEF RestTypes
<1>1. ASSUME NEW a, NEW rejected PROVE MarkNeedsReauth(a, rejected) => state' \in [Accounts -> States]
  BY DEF MarkNeedsReauth, States
<1>2. PoolMember \in [Ambient -> {"ready", "stale", "absent", "unread"}]
  BY DEF PoolMember
<1>3. CASE \E r \in Requests : \E kind, family : Arrive(r, kind, family)
  BY <1>2, <1>3 DEF Arrive
<1>4. CASE \E r \in Requests : CredentialsRead(r)
  BY <1>2, <1>4 DEF CredentialsRead
<1>5. CASE \E r \in Requests : CredentialsUnusable(r)
  <2>1. UNCHANGED <<mode, up, state, login, profile>>
    BY <1>5 DEF CredentialsUnusable
  <2>2. glimpse' \in [Ambient -> {"ready", "stale", "absent", "unread"}]
    BY <1>2, <1>5 DEF CredentialsUnusable, ReadAgain
  <2>3. QED BY <2>1, <2>2
<1>6. CASE \E r \in Requests : ReauthRequired(r) \/ RejectedAgain(r)
  BY <1>1, <1>6 DEF ReauthRequired, RejectedAgain
<1>7. CASE \E r \in Requests : Rejected(r) \/ Relayed(r) \/ Unreachable(r) \/ CooldownWritten(r)
  BY <1>7 DEF Rejected, Relayed, Unreachable, CooldownWritten, logins
<1>8. CASE \E r \in Requests : Refreshed(r)
  BY <1>8 DEF Refreshed
<1>9. CASE \E r \in Requests : \E reply : FallbackQuota(r, reply) \/ BalancedQuota(r, reply)
  BY <1>9 DEF FallbackQuota, BalancedQuota, logins
<1>10. CASE \/ \E k \in Keys : StoreCommits(k) \/ StoreFails(k)
            \/ \E a \in Accounts : \E poll : Observe(a, poll)
  BY <1>10 DEF StoreCommits, StoreFails, WriteEnds, Observe, logins
<1>11. CASE \E a \in Registered, p \in {0, 1} : Relogin(a, p)
  <2>1. PICK a \in Registered, p \in {0, 1} : Relogin(a, p)
    BY <1>11
  <2>2. a \in Accounts /\ "ready" \in States
    BY DEF Accounts, States
  <2>3. /\ login' = [login EXCEPT ![a] = @ + 1] /\ profile' = [profile EXCEPT ![a] = p]
        /\ state' = [state EXCEPT ![a] = "ready"] /\ UNCHANGED <<mode, up, glimpse>>
    BY <2>1 DEF Relogin
  <2>4. login' \in [Accounts -> Nat] /\ profile' \in [Accounts -> {0, 1}] /\ state' \in [Accounts -> States]
    BY <2>2, <2>3
  <2>5. QED BY <2>3, <2>4
<1>12. CASE \E a \in Ambient : CliRefreshes(a) \/ CliLogsOut(a)
  <2>1. "absent" \in States
    BY DEF States
  <2>2. PICK a \in Ambient : CliRefreshes(a) \/ CliLogsOut(a)
    BY <1>12
  <2>3. CASE CliRefreshes(a)
    <3>1. glimpse' = [glimpse EXCEPT ![a] = "stale"] /\ UNCHANGED <<mode, up, state, login, profile>>
      BY <2>3 DEF CliRefreshes
    <3>2. QED BY <3>1
  <2>4. CASE CliLogsOut(a)
    <3>1. state' = [state EXCEPT ![a] = "absent"] /\ UNCHANGED <<mode, up, glimpse, login, profile>>
      BY <2>4 DEF CliLogsOut
    <3>2. QED BY <2>1, <3>1
  <2>5. QED BY <2>2, <2>3, <2>4
<1>13. CASE TimePasses \/ Sleeps \/ Crash
  BY <1>13 DEF TimePasses, Sleeps, Crash, logins
<1>14. CASE Restart
  BY <1>14 DEF Restart, logins
<1>15. CASE UNCHANGED vars
  BY <1>15 DEF vars, logins
<1>16. QED
  BY <1>3, <1>4, <1>5, <1>6, <1>7, <1>8, <1>9, <1>10, <1>11, <1>12, <1>13, <1>14, <1>15 DEF Next

(* The readings that a step of the clocks leaves.                          *)
LEMMA ReadingsAge ==
  ASSUME NEW reading \in Readings
  PROVE  TickedReading(reading) \in Readings /\ [reading EXCEPT !.resetWall = Minus(@)] \in Readings
<1>1. \A n \in NoReset..MaxCooldown : Minus(n) \in NoReset..MaxCooldown
  BY CooldownAssumption DEF Minus, NoReset
<1>2. Min({reading.age + 1, FreshPlus10 + 1}) \in Nat
  <2>1. reading.age + 1 \in Int /\ FreshPlus10 + 1 \in Int /\ reading.age + 1 \in Nat /\ FreshPlus10 + 1 \in Nat
    BY SelectionAssumption DEF Readings
  <2> DEFINE m == reading.age + 1
             n == FreshPlus10 + 1
  <2> HIDE DEF m, n
  <2>2. Min({m, n}) \in {m, n}
    BY <2>1, MinMaxOfTwo DEF m, n
  <2>3. QED BY <2>1, <2>2 DEF m, n
<1>3. [reading EXCEPT !.resetWall = Minus(@)] \in Readings
  BY <1>1 DEF Readings
<1>4. TickedReading(reading) \in Readings
  <2>1. CASE reading = Unread
    BY <2>1 DEF TickedReading
  <2>2. CASE reading # Unread
    <3> DEFINE age == Min({reading.age + 1, FreshPlus10 + 1})
               old == [reading EXCEPT !.age = age]
    <3>1. old \in Readings /\ old.resetMono = reading.resetMono /\ old.resetWall = reading.resetWall
      <4> HIDE DEF age
      <4>1. QED BY <1>2 DEF Readings, age
    <3>2. TickedReading(reading)
            = [old EXCEPT !.resetMono = Minus(reading.resetMono), !.resetWall = Minus(reading.resetWall)]
      BY <2>2 DEF TickedReading, Readings
    <3> HIDE DEF old
    <3>3. QED BY <1>1, <3>1, <3>2 DEF Readings
  <2>3. QED BY <2>1, <2>2
<1>5. QED BY <1>3, <1>4

(* A 429's mark in the tracker, and the end of a balanced cooldown.        *)
LEMMA MarkIs ==
  ASSUME CooldownTypes, NEW a \in Accounts, NEW reply \in [retryAfter : Int, reset : Int], MarkTracker(a, reply)
  PROVE  tracker' \in [Accounts -> Entries]
<1> DEFINE n == RateLimitCooldown(reply, view[a])
<1>1. n \in 1..MaxCooldown
  BY CooldownIs DEF CooldownTypes
<1> HIDE DEF n
<1>2. Entry(n, NoProfile) = [mono |-> n, wall |-> n, profile |-> NoProfile]
  BY DEF Entry
<1>3. Entry(n, NoProfile) \in Entries
  BY <1>1, <1>2, CooldownAssumption DEF Entries
<1>4. QED BY <1>3 DEF CooldownTypes, MarkTracker, n

\* A rejection yields a deadline within the bound, for a cooldown of its scope.
LEMMA DeadlineIs ==
  ASSUME CooldownTypes, NEW q, q.account \in Accounts, NEW reply \in [retryAfter : Int, reset : Int]
  PROVE  DeadlineOf(q, reply) \in 1..MaxCooldown /\ <<q.account, ScopeOf(q)>> \in Keys
<1>1. view[q.account] \in [Windows -> Readings]
  BY DEF CooldownTypes
<1>2. CASE FamilyGate(view[q.account], q.family)
  <2>1. view[q.account]["fable_weekly"].resetMono > 0
    BY <1>2 DEF FamilyGate
  <2>2. view[q.account]["fable_weekly"] \in Readings
    BY <1>1 DEF Windows
  <2>3. view[q.account]["fable_weekly"].resetMono \in 1..MaxCooldown
    BY <2>1, <2>2, CooldownAssumption DEF Readings, NoReset
  <2>4. ScopeOf(q) = "family"
    BY <1>2 DEF ScopeOf
  <2>5. DeadlineOf(q, reply) = view[q.account]["fable_weekly"].resetMono
    BY <2>4 DEF DeadlineOf
  <2>6. QED BY <2>3, <2>4, <2>5 DEF Keys
<1>3. CASE ~FamilyGate(view[q.account], q.family)
  <2>1. ScopeOf(q) = "account"
    BY <1>3 DEF ScopeOf
  <2>2. DeadlineOf(q, reply) = RateLimitCooldown(reply, view[q.account])
    BY <2>1 DEF DeadlineOf
  <2>3. QED BY <1>1, <2>1, <2>2, CooldownIs DEF Keys
<1>4. QED BY <1>2, <1>3

(* Whom a request is about, while it is under way.                         *)
LEMMA AccountIs ==
  ASSUME NEW q, RequestFine(q), q.pc \in Live
  PROVE  q.account \in Accounts
BY DEF RequestFine, WellTyped, Queries

(* A balanced 429.                                                         *)
LEMMA QuotaSteps ==
  ASSUME PoolAssumption, InputAssumption, IInv, NEW r \in Requests, NEW reply \in Replies[mode],
         BalancedQuota(r, reply)
  PROVE  StoreIInv' /\ RequestsFine' /\ Moved
<1> DEFINE o == req[r]
           q == [o EXCEPT !.limited = reply]
<1>1. /\ up /\ o.pc \in {"sent", "resent"} /\ mode = "balanced" /\ HasFailover(q)
      /\ MarkTracker(q.account, reply)
      /\ InstallCooldown(r, q, <<q.account, ScopeOf(q)>>, Entry(DeadlineOf(q, reply), profile[q.account]))
      /\ UNCHANGED <<mode, up, logins, view, disk, log>>
  BY DEF BalancedQuota
<1>2. RequestFine(o) /\ CooldownTypes /\ RequestsFine /\ StoreIInv /\ RestTypes
  BY DEF IInv, RequestsFine, StoreIInv
<1>3. reply \in [retryAfter : Int, reset : Int]
  <2>1. Replies[mode] \subseteq [retryAfter : Int, reset : Int]
    BY <1>2, InputAssumption DEF InputAssumption, RestTypes
  <2>2. QED BY <2>1
<1> HIDE DEF o
<1>4. o \in Queries /\ o.pc \in Live
  BY <1>1, <1>2 DEF RequestFine, WellTyped, Live, PCs
<1>5. /\ q \in Queries /\ Like(q, o) /\ q.key = o.key /\ q.void = o.void /\ q.wait = o.wait
  BY <1>3, <1>4 DEF Queries, Like
<1> HIDE DEF q
<1>6. RequestFine(q) /\ q.pc \in Live /\ q.kind = "message"
  <2>1. WellTyped(q) /\ ChainCovers(q, mode) /\ WritesIfBalanced(q, mode)
    BY <1>2, <1>5, LikeIs DEF RequestFine
  <2>2. WaitsForWrite(q, pending) /\ StillReady(q, state)
    BY <1>2, <1>5 DEF RequestFine, WaitsForWrite, StillReady, Concerns, Like
  <2>3. ToldTheTruth(q, mode, up, cooldown, disk, profile)
    BY <1>4, <1>5 DEF ToldTheTruth, Live, Like
  <2>4. QED BY <1>1, <1>4, <1>5, <2>1, <2>2, <2>3 DEF RequestFine, HasFailover, Like
<1> DEFINE k == <<q.account, ScopeOf(q)>>
           n == DeadlineOf(q, reply)
           p == profile[q.account]
<1>7. q.account \in Accounts
  BY <1>6, AccountIs
<1>8. k \in Keys /\ n \in 1..MaxCooldown /\ p \in {0, 1} /\ tracker' \in [Accounts -> Entries]
  BY <1>1, <1>2, <1>3, <1>7, DeadlineIs, MarkIs DEF RestTypes
<1> HIDE DEF k, n, p
<1>9. /\ cooldown' = [cooldown EXCEPT ![k] = Entry(n, p)]
      /\ pending' = [pending EXCEPT ![k] = RowOf(Entry(n, p))]
      /\ unwritten' = unwritten \ {k} /\ vow' = [vow EXCEPT ![k] = NoEntry]
      /\ req' = [Superseded(k) EXCEPT ![r] = [q EXCEPT !.pc = AfterInstall, !.key = k]]
  BY <1>1 DEF InstallCooldown, k, n, p
<1>10. UNCHANGED <<mode, up, state, profile, disk, view>>
  BY <1>1 DEF logins
<1>11. StoreIInv'
  BY <1>1, <1>2, <1>8, <1>9, <1>10, StoreInstalls
<1>12. RequestsFine'
  BY <1>1, <1>2, <1>6, <1>8, <1>9, <1>10, AllSuperseded DEF CooldownTypes
<1>13. Moved
  <2>1. ASSUME NEW x \in Requests, x # r PROVE Stays(x)
    <3>1. req'[x] = Superseded(k)[x] /\ req[x] \in Queries
      BY <1>2, <1>9, <2>1 DEF Superseded, RequestsFine, RequestFine, WellTyped
    <3> DEFINE y == req[x]
               v == CASE y.pc = "done" -> [y EXCEPT !.void = y.wait # NoWait]
                      [] y.pc = "written" /\ y.key = k -> [y EXCEPT !.key = NoKey]
                      [] OTHER -> y
    <3>2. req'[x] = v
      BY <3>1 DEF Superseded
    <3> HIDE DEF y
    <3>3. v.pc = y.pc /\ v.account = y.account
      <4>1. y \in Queries
        BY <3>1 DEF y
      <4>2. CASE y.pc = "done"
        <5>1. v = [y EXCEPT !.void = y.wait # NoWait]
          BY <4>2
        <5>2. QED BY <4>1, <5>1 DEF Queries
      <4>3. CASE y.pc = "written" /\ y.key = k
        <5>1. v = [y EXCEPT !.key = NoKey]
          BY <4>3
        <5>2. QED BY <4>1, <5>1 DEF Queries
      <4>4. CASE y.pc # "done" /\ ~(y.pc = "written" /\ y.key = k)
        BY <4>4
      <4>5. QED BY <4>2, <4>3, <4>4
    <3>4. QED BY <3>2, <3>3 DEF Stays, y
  <2>2. req'[r].pc = AfterInstall
    BY <1>5, <1>9 DEF Superseded, Queries
  <2>3. Passes(r)
    BY <2>2 DEF Passes, AfterInstall
  <2>4. QED BY <2>1, <2>3 DEF Moved
<1>14. QED BY <1>11, <1>12, <1>13

(* A step of the clocks.                                                   *)
LEMMA ClocksStep ==
  ASSUME StoreIInv, RequestsFine, TimePasses \/ Sleeps
  PROVE  StoreIInv' /\ RequestsFine' /\ Moved
<1>1. CooldownTypes
  BY DEF StoreIInv
<1>2. /\ UNCHANGED <<mode, up, state, profile, unwritten>> /\ req' = Waited
      /\ disk' = [k \in Keys |-> RowTicked(disk[k])]
      /\ pending' = [k \in Keys |-> [pending[k] EXCEPT !.wall = Minus(@)]]
  BY DEF TimePasses, Sleeps, logins
<1>3. ASSUME NEW f, NEW S, f \in [S -> Entries], NEW g, g = [x \in S |-> Ticked(f[x])] \/ g = [x \in S |-> Slept(f[x])]
      PROVE  g \in [S -> Entries] /\ \A x \in S : Older(g[x], f[x])
  BY <1>3, EntryAges
<1>4. /\ tracker' \in [Accounts -> Entries]
      /\ cooldown' \in [Keys -> Entries] /\ \A k \in Keys : Older(cooldown'[k], cooldown[k])
      /\ vow' \in [Keys -> Entries] /\ \A k \in Keys : Older(vow'[k], vow[k])
  <2>1. /\ tracker' = [a \in Accounts |-> Ticked(tracker[a])] \/ tracker' = [a \in Accounts |-> Slept(tracker[a])]
        /\ cooldown' = [k \in Keys |-> Ticked(cooldown[k])] \/ cooldown' = [k \in Keys |-> Slept(cooldown[k])]
        /\ vow' = [k \in Keys |-> Ticked(vow[k])] \/ vow' = [k \in Keys |-> Slept(vow[k])]
    BY DEF TimePasses, Sleeps
  <2>2. /\ tracker \in [Accounts -> Entries]
        /\ cooldown \in [Keys -> Entries] /\ vow \in [Keys -> Entries]
    BY <1>1 DEF CooldownTypes
  <2>3. tracker' \in [Accounts -> Entries]
    BY <1>3, <2>1, <2>2
  <2>4. cooldown' \in [Keys -> Entries] /\ \A k \in Keys : Older(cooldown'[k], cooldown[k])
    BY <1>3, <2>1, <2>2
  <2>5. vow' \in [Keys -> Entries] /\ \A k \in Keys : Older(vow'[k], vow[k])
    BY <1>3, <2>1, <2>2
  <2>6. QED BY <2>3, <2>4, <2>5
<1>5. view' \in [Accounts -> [Windows -> Readings]]
  <2>1. \A a \in Accounts, w \in Windows : view[a][w] \in Readings
    BY <1>1 DEF CooldownTypes
  <2>2. \/ view' = [a \in Accounts |-> [w \in Windows |-> TickedReading(view[a][w])]]
        \/ view' = [a \in Accounts |-> [w \in Windows |-> [view[a][w] EXCEPT !.resetWall = Minus(@)]]]
    BY DEF TimePasses, Sleeps
  <2>3. QED BY <2>1, <2>2, ReadingsAge
<1>6. /\ StoreIInv' /\ \A k \in Keys : Older(disk'[k], disk[k])
      /\ \A k \in Keys : pending[k] = NoRow => pending'[k] = NoRow
  BY <1>2, <1>4, <1>5, StoreAges
<1>7. RequestsFine'
  BY <1>1, <1>2, <1>4, <1>6, AllWaited DEF StoreIInv
<1>8. Moved
  <2>1. ASSUME NEW x \in Requests PROVE Stays(x)
    <3>1. \E w : req'[x] = [req[x] EXCEPT !.wait = w]
      BY <1>2 DEF Waited
    <3>2. req[x] \in Queries
      BY DEF RequestsFine, RequestFine, WellTyped
    <3>3. QED BY <3>1, <3>2 DEF Stays, Queries
  <2>2. QED BY <2>1 DEF Moved
<1>9. QED BY <1>6, <1>7, <1>8

(* The copies of the cooldowns, whatever the step.                         *)
LEMMA StoreSteps ==
  ASSUME PoolAssumption, InputAssumption, IInv, [Next]_vars
  PROVE  StoreIInv'
<1>1. CooldownTypes /\ StoreIInv /\ RequestsFine /\ RestTypes
  BY DEF IInv, StoreIInv
<1>2. CASE UNCHANGED <<mode, up, memory, disk, vow>>
  BY <1>1, <1>2, StoreStays DEF CooldownTypes, memory
<1>3. CASE \E r \in Requests, reply \in Replies[mode] : FallbackQuota(r, reply)
  <2>1. PICK r \in Requests, reply \in Replies[mode] : FallbackQuota(r, reply)
    BY <1>3
  <2>2. /\ req[r].pc \in Live /\ RequestFine(req[r]) /\ MarkTracker(req[r].account, reply)
        /\ UNCHANGED <<mode, up, cooldown, pending, unwritten, view, disk, vow>>
    BY <1>1, <2>1 DEF FallbackQuota, RequestsFine, Live, PCs
  <2>3. reply \in [retryAfter : Int, reset : Int]
    <3>1. Replies[mode] \subseteq [retryAfter : Int, reset : Int]
      BY <1>1 DEF InputAssumption, RestTypes
    <3>2. QED BY <3>1
  <2>4. tracker' \in [Accounts -> Entries]
    BY <1>1, <2>2, <2>3, AccountIs, MarkIs
  <2>5. QED BY <1>1, <2>2, <2>4, StoreStays DEF CooldownTypes
<1>4. CASE \E r \in Requests, reply \in Replies[mode] : BalancedQuota(r, reply)
  BY <1>4, QuotaSteps
<1>5. CASE \E r \in Requests : CooldownWritten(r)
  <2>1. PICK r \in Requests : CooldownWritten(r)
    BY <1>5
  <2> DEFINE k == req[r].key
  <2>2. /\ up /\ req[r].pc = "written" /\ RequestFine(req[r])
        /\ vow' = IF k = NoKey THEN vow ELSE [vow EXCEPT ![k] = cooldown[k]]
        /\ UNCHANGED <<mode, up, memory, disk>>
    BY <1>1, <2>1 DEF CooldownWritten, RequestsFine
  <2>3. k \in Keys \cup {NoKey}
    BY <2>2 DEF RequestFine, WellTyped, Queries
  <2>4. CASE k = NoKey
    BY <1>2, <2>2, <2>4
  <2>5. CASE k # NoKey
    <3>1. pending[k] = NoRow
      BY <2>2, <2>5 DEF RequestFine, WaitsForWrite
    <3> HIDE DEF k
    <3>2. QED BY <1>1, <2>2, <2>3, <2>5, <3>1, StoreVows
  <2>6. QED BY <2>4, <2>5
<1>6. CASE \E k \in Keys : StoreCommits(k) \/ StoreFails(k)
  BY <1>1, <1>6, StoreCommit, StoreFail
<1>7. CASE \E a \in Accounts, poll \in Polls : Observe(a, poll)
  <2>1. PICK a \in Accounts, poll \in Polls : Observe(a, poll)
    BY <1>7
  <2>2. /\ view' = [view EXCEPT ![a] = IngestUsagePeek(@, poll)]
        /\ UNCHANGED <<mode, up, tracker, cooldown, pending, unwritten, disk, vow>>
    BY <2>1 DEF Observe
  <2>3. poll \in [Windows -> Readings]
    BY DEF InputAssumption
  <2>4. view \in [Accounts -> [Windows -> Readings]]
    BY <1>1 DEF CooldownTypes
  <2>5. IngestUsagePeek(view[a], poll) \in [Windows -> Readings]
    BY <2>3, <2>4 DEF IngestUsagePeek
  <2>6. view' \in [Accounts -> [Windows -> Readings]]
    BY <2>2, <2>4, <2>5
  <2>7. QED BY <1>1, <2>2, <2>6, StoreStays DEF CooldownTypes
<1>8. CASE TimePasses \/ Sleeps
  BY <1>1, <1>8, ClocksStep
<1>9. CASE Crash \/ Restart
  BY <1>1, <1>9, StoreCrash, StoreRestart
<1>10. QED
  <2>1. CASE \E r \in Requests : \E ask \in Asks[r] : Arrive(r, ask.kind, ask.family)
    BY <1>2, <2>1 DEF Arrive
  <2>2. CASE \E r \in Requests :
               \/ CredentialsRead(r) \/ CredentialsUnusable(r) \/ ReauthRequired(r)
               \/ Rejected(r) \/ Refreshed(r) \/ RejectedAgain(r) \/ Relayed(r) \/ Unreachable(r)
    BY <1>2, <2>2 DEF CredentialsRead, CredentialsUnusable, ReauthRequired, Rejected, Refreshed,
                      RejectedAgain, Relayed, Unreachable
  <2>3. CASE \/ \E a \in Registered, p \in {0, 1} : Relogin(a, p)
             \/ \E a \in Ambient : CliRefreshes(a) \/ CliLogsOut(a)
    BY <1>2, <2>3 DEF Relogin, CliRefreshes, CliLogsOut
  <2>4. CASE UNCHANGED vars
    BY <1>2, <2>4 DEF vars, memory
  <2>5. QED
    BY <1>3, <1>4, <1>5, <1>6, <1>7, <1>8, <1>9, <2>1, <2>2, <2>3, <2>4 DEF Next

(* Every other step of the requests.                                       *)
LEMMA RequestSteps ==
  ASSUME PoolAssumption, InputAssumption, IInv, StoreIInv', [Next]_vars
  PROVE  RequestsFine' /\ Moved
<1>1. /\ CooldownTypes /\ StoreIInv /\ RequestsFine /\ RestTypes
      /\ profile \in [Accounts -> {0, 1}] /\ state \in [Accounts -> States] /\ mode \in Modes
      /\ \A r \in Requests : RequestFine(req[r])
  BY DEF IInv, StoreIInv, RestTypes, RequestsFine
<1>2. ASSUME req' = req \/ \A x \in Requests : Stays(x) PROVE Moved
  BY <1>2 DEF Moved, Stays
<1>3. ASSUME NEW r \in Requests, NEW ask \in Asks[r], Arrive(r, ask.kind, ask.family)
      PROVE  RequestsFine' /\ Moved
  <2>1. PICK n, q : /\ req' = [req EXCEPT ![r] = n] /\ RequestFine(n)
                    /\ Asking(q, glimpse', ask.kind, ask.family) /\ (Attempts(q, n) \/ GivesUp(q, n))
                    /\ mode = "fallback" => \A a \in q.skipped : IsCoolingInPool(a)
    BY <1>3, ArriveFine
  <2>2. up /\ req[r].pc = "idle" /\ UNCHANGED <<mode, up, state, profile, cooldown, pending, disk>>
    BY <1>3 DEF Arrive, memory
  <2>3. RequestsFine'
    BY <1>1, <2>1, <2>2, OneGoes
  <2>4. /\ \A x \in Requests : x # r => Stays(x)
        /\ req'[r] = n
    BY <1>1, <2>1 DEF Stays, RequestsFine
  <2>5. Comes(r)
    BY <2>1, <2>2, <2>4 DEF Comes
  <2>6. QED BY <2>3, <2>4, <2>5 DEF Moved
<1>4. ASSUME NEW r \in Requests, CredentialsRead(r) \/ Rejected(r) \/ Refreshed(r)
      PROVE  RequestsFine' /\ Moved
  <2> DEFINE q == req[r]
  <2>1. q.pc \in Live /\ RequestFine(q) /\ UNCHANGED <<mode, up, state, profile, cooldown, pending, disk>>
    BY <1>1, <1>4 DEF CredentialsRead, Rejected, Refreshed, logins, memory, Live, PCs
  <2>2. login[q.account] \in Nat
    BY <1>1, <2>1, AccountIs DEF RestTypes
  <2>3. PICK n : /\ req' = [req EXCEPT ![r] = n]
                 /\ \/ n = [q EXCEPT !.pc = "sent", !.login = login[q.account]]
                    \/ n = [q EXCEPT !.pc = "refreshing"]
                    \/ n = [q EXCEPT !.pc = "resent", !.login = login[q.account]]
    BY <1>4 DEF CredentialsRead, Rejected, Refreshed, Goes
  <2> HIDE DEF q
  <2>4. RequestFine(n) /\ n.pc \notin {"credentials", "done"}
    <3>1. q \in Queries /\ {"sent", "refreshing", "resent"} \subseteq PCs
      BY <2>1 DEF RequestFine, WellTyped, PCs
    <3>2. /\ n \in Queries /\ n.pc \in {"sent", "refreshing", "resent"}
          /\ n.kind = q.kind /\ n.family = q.family /\ n.ready = q.ready /\ n.chain = q.chain
          /\ n.skipped = q.skipped /\ n.tried = q.tried /\ n.account = q.account /\ n.void = q.void
      <4> DEFINE l == login[q.account]
      <4>1. l \in Nat
        BY <2>2
      <4>2. \/ n = [q EXCEPT !.pc = "sent", !.login = l]
            \/ n = [q EXCEPT !.pc = "refreshing"]
            \/ n = [q EXCEPT !.pc = "resent", !.login = l]
        BY <2>3
      <4> HIDE DEF l
      <4>3. CASE n = [q EXCEPT !.pc = "sent", !.login = l]
        BY <3>1, <4>1, <4>3 DEF Queries
      <4>4. CASE n = [q EXCEPT !.pc = "refreshing"]
        BY <3>1, <4>4 DEF Queries
      <4>5. CASE n = [q EXCEPT !.pc = "resent", !.login = l]
        BY <3>1, <4>1, <4>5 DEF Queries
      <4>6. QED BY <4>2, <4>3, <4>4, <4>5
    <3>3. QED BY <2>1, <3>2, StillLive
  <2>5. QED BY <1>1, <2>1, <2>3, <2>4, OnePasses
<1>5. ASSUME NEW r \in Requests, CredentialsUnusable(r) \/ ReauthRequired(r) \/ RejectedAgain(r)
      PROVE  RequestsFine' /\ Moved
  <2> DEFINE q == req[r]
  <2>1. q.pc \in Live /\ RequestFine(q) /\ up /\ UNCHANGED <<mode, up, profile, cooldown, pending, disk>>
    BY <1>1, <1>5 DEF CredentialsUnusable, ReauthRequired, RejectedAgain, memory, Live, PCs
  <2>2. PICK n \in AfterFailure(r, q) : \/ req' = [req EXCEPT ![r] = n] /\ UNCHANGED state
                                        \/ req' = Voided([req EXCEPT ![r] = n])
    BY <1>5 DEF CredentialsUnusable, ReauthRequired, RejectedAgain, Goes, GoesVoiding
  <2>3. RequestFine(n) /\ (Attempts(q, n) \/ GivesUp(q, n))
    BY <1>1, <2>1, AfterFailureFine
  <2>4. QED BY <1>1, <2>1, <2>2, <2>3, OneDecides
<1>6. ASSUME NEW r \in Requests, Relayed(r) \/ Unreachable(r)
      PROVE  RequestsFine' /\ Moved
  <2>1. UNCHANGED <<mode, up, state, profile, cooldown, pending, disk>>
    BY <1>6 DEF Relayed, Unreachable, logins, memory
  <2>2. PICK what \in {"served", "unreachable"} : req' = [req EXCEPT ![r] = Answered(req[r], what)]
    BY <1>6 DEF Relayed, Unreachable, Goes
  <2>3. req[r] \in Queries /\ what \in Answers
    BY <1>1 DEF RequestFine, WellTyped, Answers
  <2> DEFINE n == Answered(req[r], what)
  <2>4. RequestFine(n) /\ n.pc = "done" /\ n.answer = what
    BY <2>3, AnswerFine, AnsweredIs
  <2> HIDE DEF n
  <2>5. req' = [req EXCEPT ![r] = n]
    BY <2>2 DEF n
  <2>6. QED BY <1>1, <2>1, <2>4, <2>5, OnePasses
<1>7. ASSUME NEW r \in Requests, NEW reply \in Replies[mode], FallbackQuota(r, reply)
      PROVE  RequestsFine' /\ Moved
  <2> DEFINE q == req[r]
  <2>1. /\ q.pc \in Live /\ RequestFine(q) /\ up /\ mode # "disabled"
        /\ UNCHANGED <<mode, up, state, profile, cooldown, pending, disk>>
    BY <1>1, <1>7 DEF FallbackQuota, logins, Live, PCs
  <2>2. reply \in [retryAfter : Int, reset : Int]
    <3>1. Replies[mode] \subseteq [retryAfter : Int, reset : Int]
      BY <1>1 DEF InputAssumption, RestTypes
    <3>2. QED BY <3>1
  <2>3. PICK n \in Onward(r, [q EXCEPT !.limited = reply]) : req' = [req EXCEPT ![r] = n]
    BY <1>7 DEF FallbackQuota, Goes
  <2> HIDE DEF q
  <2>4. RequestFine(n) /\ (Attempts(q, n) \/ GivesUp(q, n))
    BY <1>1, <2>1, <2>2, <2>3, OnwardFine
  <2>5. QED BY <1>1, <2>1, <2>3, <2>4, OneDecides DEF q
<1>8. ASSUME NEW r \in Requests, CooldownWritten(r)
      PROVE  RequestsFine' /\ Moved
  <2> DEFINE q == req[r]
  <2>1. /\ q.pc = "written" /\ RequestFine(q) /\ up
        /\ UNCHANGED <<mode, up, state, profile, cooldown, pending, disk>>
    BY <1>1, <1>8 DEF CooldownWritten, logins, memory
  <2>2. q.pc \in Live /\ mode # "disabled"
    BY <2>1 DEF RequestFine, WritesIfBalanced, Live, PCs
  <2>3. [retryAfter |-> 0, reset |-> 0] \in [retryAfter : Int, reset : Int]
    OBVIOUS
  <2>4. PICK n \in Onward(r, q) : req' = [req EXCEPT ![r] = n]
    BY <1>8 DEF CooldownWritten, Goes
  <2> HIDE DEF q
  <2>5. RequestFine(n) /\ (Attempts(q, n) \/ GivesUp(q, n))
    BY <1>1, <2>1, <2>2, <2>3, <2>4, OnwardFine
  <2>6. QED BY <1>1, <2>1, <2>2, <2>4, <2>5, OneDecides DEF q
<1>9. ASSUME NEW k \in Keys, StoreCommits(k) \/ StoreFails(k)
      PROVE  RequestsFine' /\ Moved
  <2>a. WriteEnds(k)
    BY <1>9 DEF StoreCommits, StoreFails
  <2>1. RequestsFine'
    BY <1>1, <2>a, AllTold
  <2>2. ASSUME NEW x \in Requests PROVE Stays(x) \/ req'[x].pc = "written"
    <3>1. req'[x] = req[x] \/ req'[x] = [req[x] EXCEPT !.pc = "written"]
      BY <2>a DEF WriteEnds
    <3>2. req[x] \in Queries
      BY <1>1 DEF RequestFine, WellTyped
    <3>3. QED BY <3>1, <3>2 DEF Stays, Queries
  <2>3. QED BY <2>1, <2>2 DEF Moved, Passes
<1>10. CASE TimePasses \/ Sleeps
  BY <1>1, <1>10, ClocksStep
<1>11. CASE Crash
  <2>1. RequestsFine'
    BY <1>1, <1>11, AllLost
  <2>2. ASSUME NEW x \in Requests PROVE Stays(x) \/ Passes(x)
    <3>1. req'[x] = Lost(req[x]) /\ req[x] \in Queries
      BY <1>1, <1>11 DEF Crash, RequestFine, WellTyped
    <3>2. CASE req[x].pc \notin {"idle", "done"}
      <4>1. req'[x] = Answered(req[x], "lost") /\ "lost" \in Answers
        BY <3>1, <3>2 DEF Lost, Answers
      <4>2. QED BY <3>1, <4>1, AnsweredIs DEF Passes
    <3>3. CASE req[x].pc \in {"idle", "done"}
      <4>1. \E v : req'[x] = [req[x] EXCEPT !.void = v]
        BY <3>1, <3>3 DEF Lost
      <4>2. QED BY <3>1, <4>1 DEF Stays, Queries
    <3>4. QED BY <3>2, <3>3
  <2>3. QED BY <2>1, <2>2 DEF Moved
<1>12. CASE Restart
  <2>1. RequestsFine'
    BY <1>1, <1>12, AllRestored
  <2>2. QED BY <1>2, <1>12, <2>1 DEF Restart
<1>13. ASSUME NEW requests, requests = req, req' = Voided(requests) PROVE Moved
  <2>1. ASSUME NEW x \in Requests PROVE Stays(x)
    <3>1. req'[x] \in {req[x], [req[x] EXCEPT !.void = TRUE]} /\ req[x] \in Queries
      BY <1>1, <1>13 DEF Voided, RequestFine, WellTyped
    <3>2. QED BY <3>1 DEF Stays, Queries
  <2>2. QED BY <1>2, <2>1
<1>14. CASE \E a \in Registered, p \in {0, 1} : Relogin(a, p)
  <2>1. RequestsFine'
    BY <1>1, <1>14, AllLoggedIn
  <2>2. QED BY <1>2, <1>13, <1>14, <2>1 DEF Relogin
<1>15. CASE \E a \in Ambient : CliLogsOut(a)
  <2>1. req' = Voided(req) /\ UNCHANGED <<mode, up, pending>>
    BY <1>15 DEF CliLogsOut, memory
  <2>2. RequestsFine'
    BY <1>1, <2>1, AllVoided DEF RequestsFine
  <2>3. QED BY <1>13, <2>1, <2>2
<1>16. CASE UNCHANGED <<mode, up, state, profile, cooldown, pending, disk, req>>
  BY <1>1, <1>2, <1>16, NoneGoes
<1>17. QED
  <2>1. CASE \E a \in Accounts, poll \in Polls : Observe(a, poll)
    BY <1>16, <2>1 DEF Observe, logins
  <2>2. CASE \E a \in Ambient : CliRefreshes(a)
    BY <1>16, <2>2 DEF CliRefreshes, memory
  <2>3. CASE UNCHANGED vars
    BY <1>16, <2>3 DEF vars, logins, memory
  <2>4. CASE \E r \in Requests, reply \in Replies[mode] : BalancedQuota(r, reply)
    BY <2>4, QuotaSteps
  <2>5. QED
    BY <1>3, <1>4, <1>5, <1>6, <1>7, <1>8, <1>9, <1>10, <1>11, <1>12, <1>14, <1>15,
       <2>1, <2>2, <2>3, <2>4 DEF Next
-----------------------------------------------------------------------------
(* The invariant.                                                          *)

\* The initial states satisfy the inductive invariant.
LEMMA InitIsFine ==
  ASSUME PoolAssumption, InputAssumption, Init
  PROVE  IInv
<1>1. RestTypes
  <2>1. Initially[mode] \in [Accounts -> States]
    BY DEF Init, InputAssumption
  <2>2. QED BY <2>1 DEF Init, RestTypes
<1>2. CooldownTypes
  <2>1. NoEntry \in Entries /\ NoRow \in Rows /\ NoRow \in RowsKept
    BY DEF Entries, Rows, RowsKept
  <2>2. NothingRead \in [Windows -> Readings]
    BY CooldownAssumption DEF NothingRead, Unread, Readings, Unknown, NoReset
  <2>3. /\ tracker = [a \in Accounts |-> NoEntry] /\ cooldown = [k \in Keys |-> NoEntry]
        /\ vow = [k \in Keys |-> NoEntry] /\ pending = [k \in Keys |-> NoRow]
        /\ disk = [k \in Keys |-> NoRow] /\ view = [a \in Accounts |-> NothingRead]
    BY DEF Init
  <2>4. tracker \in [Accounts -> Entries] /\ cooldown \in [Keys -> Entries] /\ vow \in [Keys -> Entries]
    BY <2>1, <2>3
  <2>5. /\ pending \in [Keys -> Rows] /\ disk \in [Keys -> RowsKept]
        /\ view \in [Accounts -> [Windows -> Readings]]
    BY <2>1, <2>2, <2>3
  <2>6. QED BY <2>4, <2>5 DEF CooldownTypes
<1>3. CopiesAgree /\ OnlyBalancedWrites /\ VowsCovered
  BY DEF Init, CopiesAgree, OnlyBalancedWrites, VowsCovered, Same, Covers, NoRow, NoEntry
<1>4. RequestsFine
  <2>1. DOMAIN req = Requests /\ \A r \in Requests : req[r] = Fresh
    BY DEF Init
  <2>2. RequestFine(Fresh)
    <3>1. Fresh.pc \notin Live /\ ~Concerns(Fresh) /\ Fresh.pc \notin {"durable", "written"}
      BY FreshIs DEF Live, Concerns
    <3>2. QED
      BY <3>1, FreshIs DEF RequestFine, WellTyped, ChainCovers, WritesIfBalanced, WaitsForWrite,
                           StillReady, ToldTheTruth
  <2>3. QED BY <2>1, <2>2 DEF RequestsFine
<1>5. QED BY <1>1, <1>2, <1>3, <1>4 DEF IInv, StoreIInv

(* It holds of every state of every behaviour.                             *)
THEOREM Inductive == Spec => []IInv
<1>1. ASSUME Init PROVE IInv
  BY <1>1, PoolAssumption, InputAssumption, InitIsFine
<1>2. ASSUME IInv, [Next]_vars PROVE IInv'
  <2>1. RestTypes /\ RequestsFine
    BY <1>2 DEF IInv
  <2>2. RestTypes'
    BY <1>2, <2>1, PoolAssumption, RestSteps
  <2>3. StoreIInv'
    BY <1>2, PoolAssumption, InputAssumption, StoreSteps
  <2>4. RequestsFine'
    BY <1>2, <2>3, PoolAssumption, InputAssumption, RequestSteps
  <2>5. QED BY <2>2, <2>3, <2>4 DEF IInv
<1>3. QED BY <1>1, <1>2, PTL DEF Spec

(* The variables hold what their comments say: a request under way has     *)
(* been counted as trying its account, which was ready when it came, and   *)
(* no cooldown lingers that is over on one clock.                          *)
THEOREM TypeCorrect == Spec => []TypeOK
<1>1. ASSUME IInv PROVE TypeOK
  <2>1. ASSUME NEW r \in Requests
        PROVE  /\ req[r].pc \in PCs /\ req[r].answer \in Answers
               /\ req[r].ready \subseteq Accounts /\ req[r].tried \subseteq req[r].ready
               /\ req[r].pc \in {"credentials", "sent", "refreshing", "resent", "durable", "written"}
                    => req[r].account \in req[r].tried
    <3>1. WellTyped(req[r])
      BY <1>1 DEF IInv, RequestsFine, RequestFine
    <3>2. QED BY <3>1 DEF WellTyped, Queries, Live, PCs
  <2>2. ASSUME NEW k \in Keys PROVE IsRunning(cooldown[k]) \/ cooldown[k] = NoEntry
    <3>1. cooldown[k] \in Entries
      BY <1>1 DEF IInv, StoreIInv, CooldownTypes
    <3>2. IsRunning(cooldown[k]) <=> cooldown[k].wall > 0
      BY <3>1, EntryFacts
    <3>3. QED BY <3>1, <3>2, CooldownAssumption DEF Entries
  <2>3. QED BY <1>1, <2>1, <2>2 DEF TypeOK, IInv, RestTypes
<1>2. QED BY <1>1, Inductive, PTL

(* A client that balanced routing told to wait, and that waits so long,    *)
(* finds an account that is ready and not cooling for its family (see the  *)
(* property for what voids the promise): over restarts, and when the       *)
(* machine slept.                                                          *)
THEOREM ObedientClientServed == Spec => []ObedientClientIsServed
<1>1. ASSUME IInv PROVE ObedientClientIsServed
  <2>1. SUFFICES ASSUME NEW r \in Requests, mode = "balanced", req[r].pc = "done", req[r].wait = 0, ~req[r].void
                 PROVE  \E a \in req[r].ready : state[a] = "ready" /\ ~IsCooling(a, req[r].family)
    BY DEF ObedientClientIsServed
  <2> DEFINE q == req[r]
  <2>2. /\ RequestFine(q) /\ CooldownTypes /\ CopiesAgree /\ profile \in [Accounts -> {0, 1}]
    BY <1>1 DEF IInv, RequestsFine, StoreIInv, RestTypes
  <2>3. Concerns(q) /\ q.ready \subseteq Accounts
    BY <2>1, <2>2 DEF Concerns, NoWait, RequestFine, WellTyped, Queries
  <2>4. \A a \in q.ready : state[a] = "ready"
    BY <2>2, <2>3 DEF RequestFine, StillReady
  <2>5. PICK a \in q.ready : up => FreeInMemory(q, a, cooldown, profile)
    BY <2>1, <2>2, <2>3 DEF RequestFine, ToldTheTruth
  <2> HIDE DEF q
  <2>6. \A k \in KeysOf(a, q.family) : CooldownLeft(cooldown[k], profile[a]) <= 0
    <3>1. CASE up
      BY <2>1, <2>5, <3>1 DEF FreeInMemory, q
    <3>2. CASE ~up
      <4>1. \A k \in Keys : cooldown[k] = NoEntry
        BY <2>2, <3>2 DEF CopiesAgree
      <4>2. KeysOf(a, q.family) \subseteq Keys
        BY <2>2, <2>3, UnblockIs
      <4>3. \A p : CooldownLeft(NoEntry, p) <= 0
        <5>1. NoEntry \in Entries
          BY DEF Entries
        <5>2. NoEntry.wall = 0
          BY DEF NoEntry
        <5>3. QED BY <5>1, <5>2, EntryFacts
      <4>4. QED BY <4>1, <4>2, <4>3
    <3>3. QED BY <3>1, <3>2
  <2>7. UnblockIn(a, q.family) \in Nat /\ UnblockIn(a, q.family) <= 0
    BY <2>2, <2>3, <2>6, UnblockIs
  <2>8. QED BY <2>4, <2>5, <2>7 DEF IsCooling, q
<1>2. QED BY <1>1, Inductive, PTL

(* The incident file holds the newest lines that got complete, in order,   *)
(* none spoilt and within its bound: failed appends and crashes included.  *)
THEOREM IncidentLogSound == Spec => []LogIsSound
<1>1. ASSUME Init PROVE LogIInv
  <2>1. file = EmptyFile /\ landed = 0
    BY <1>1 DEF Init
  <2>2. EmptyFile.lines = <<>> /\ EmptyFile \in [lines : Lines, torn : BOOLEAN]
    BY SizeOfNothing DEF EmptyFile
  <2>3. DOMAIN <<>> = {} /\ SizeOf(<<>>) <= MaxBytes
    BY SizeOfNothing, LogAssumption DEF LogAssumption
  <2>4. QED BY <2>1, <2>2, <2>3 DEF LogIInv, LogIsSound
<1>2. ASSUME IInv, LogIInv, [Next]_vars PROVE LogIInv'
  <2>1. mode \in Modes
    BY <1>2 DEF IInv, RestTypes
  <2>2. \/ UNCHANGED log
        \/ \E quotas \in Nat : RecordIncident(quotas)
        \/ \E bytes \in RecordSizes[mode] :
             \E f \in Interrupted(file, LineOf(landed + 1, bytes)) : Leaves(f)
    <3>1. CASE \E r \in Requests, reply \in Replies[mode] : FallbackQuota(r, reply)
      <4>1. RecordIncident(1)
        BY <3>1 DEF FallbackQuota
      <4>2. QED BY <4>1
    <3>2. CASE \E r \in Requests : CooldownWritten(r)
      <4>1. RecordIncident(0)
        BY <3>2 DEF CooldownWritten
      <4>2. QED BY <4>1
    <3>3. CASE Crash
      BY <3>3 DEF Crash
    <3>4. CASE UNCHANGED log
      BY <3>4
    <3>5. CASE \E r \in Requests : \E ask \in Asks[r] : Arrive(r, ask.kind, ask.family)
      BY <3>5 DEF Arrive
    <3>6. CASE \E r \in Requests :
                 \/ CredentialsRead(r) \/ CredentialsUnusable(r) \/ ReauthRequired(r)
                 \/ Rejected(r) \/ Refreshed(r) \/ RejectedAgain(r) \/ Relayed(r) \/ Unreachable(r)
                 \/ \E reply \in Replies[mode] : BalancedQuota(r, reply)
      BY <3>6 DEF CredentialsRead, CredentialsUnusable, ReauthRequired, Rejected, Refreshed,
                  RejectedAgain, Relayed, Unreachable, BalancedQuota
    <3>7. CASE \/ \E k \in Keys : StoreCommits(k) \/ StoreFails(k)
               \/ \E a \in Accounts, poll \in Polls : Observe(a, poll)
               \/ \E a \in Registered, p \in {0, 1} : Relogin(a, p)
               \/ \E a \in Ambient : CliRefreshes(a) \/ CliLogsOut(a)
               \/ TimePasses \/ Sleeps \/ Restart
      BY <3>7 DEF StoreCommits, StoreFails, WriteEnds, Observe, Relogin, CliRefreshes, CliLogsOut,
                  TimePasses, Sleeps, Restart
    <3>8. CASE UNCHANGED vars
      BY <3>8 DEF vars, log
    <3>9. QED
      BY <1>2, <3>1, <3>2, <3>3, <3>5, <3>6, <3>7, <3>8 DEF Next
  <2>3. QED BY <1>2, <2>1, <2>2, InputAssumption, LogSteps
<1>3. LogIInv => LogIsSound
  BY DEF LogIInv
<1>4. QED BY <1>1, <1>2, <1>3, Inductive, PTL DEF Spec

(* What a step of one request amounts to, in every behaviour.              *)
LEMMA StepsMove ==
  ASSUME IInv, [Next]_vars
  PROVE  Moved
<1>1. StoreIInv'
  BY PoolAssumption, InputAssumption, StoreSteps
<1>2. QED BY <1>1, PoolAssumption, InputAssumption, RequestSteps

(* No cooldown that a request has waited for keeps an eligible account.    *)
LEMMA EligibleIsFree ==
  ASSUME IInv, up, NEW q \in Queries, NEW a \in Eligible(q), NEW k \in KeysOf(a, q.family)
  PROVE  CooldownLeft(vow[k], profile[a]) = 0
<1>1. /\ CooldownTypes /\ VowsCovered /\ profile \in [Accounts -> {0, 1}]
      /\ a \in Accounts /\ ~IsCooling(a, q.family)
  BY DEF IInv, StoreIInv, RestTypes, Eligible, Queries
<1>2. /\ k \in Keys /\ UnblockIn(a, q.family) \in Nat /\ CooldownLeft(cooldown[k], profile[a]) \in Nat
      /\ CooldownLeft(cooldown[k], profile[a]) <= UnblockIn(a, q.family)
  BY <1>1, UnblockIs
<1>3. CooldownLeft(cooldown[k], profile[a]) = 0
  BY <1>1, <1>2 DEF IsCooling
<1>4. Covers(cooldown[k], vow[k]) /\ cooldown[k] \in Entries /\ vow[k] \in Entries
  BY <1>1, <1>2 DEF VowsCovered, CooldownTypes
<1>5. /\ cooldown[k].wall \in Nat /\ vow[k].wall \in Nat
      /\ CooldownLeft(cooldown[k], profile[a]) = IF cooldown[k].profile = profile[a] THEN cooldown[k].wall ELSE 0
      /\ CooldownLeft(vow[k], profile[a]) = IF vow[k].profile = profile[a] THEN vow[k].wall ELSE 0
  BY <1>4, EntryFacts
<1>6. QED BY <1>3, <1>4, <1>5 DEF Covers

(* Once a request has waited for the write of a cooldown, no balanced      *)
(* attempt begins with that account, family and login before the time is   *)
(* up: whatever other requests do, and whenever the gateway crashes,       *)
(* unless the write failed: then the promise holds until the next crash.   *)
THEOREM CooldownsHold == Spec => AcknowledgedCooldownHolds
<1>1. ASSUME IInv, [Next]_vars
      PROVE  [\A r \in Requests, a \in Accounts : mode = "balanced" /\ Begins(r, a) =>
                \A k \in KeysOf(a, req'[r].family) : CooldownLeft(vow[k], profile[a]) = 0]_vars
  <2>1. SUFFICES ASSUME NEW r \in Requests, NEW a \in Accounts, mode = "balanced", Begins(r, a),
                        NEW k \in KeysOf(a, req'[r].family)
                 PROVE  CooldownLeft(vow[k], profile[a]) = 0
    OBVIOUS
  <2>2. /\ req'[r].pc = "credentials" /\ req'[r].account = a
        /\ req[r].pc # "credentials" \/ req[r].account # a
    BY <2>1 DEF Begins
  <2>3. Decides(r) \/ Comes(r)
    BY <1>1, <2>2, StepsMove DEF Moved, Stays, Passes
  <2>4. up /\ \E q : q \in Queries /\ Attempts(q, req'[r])
    <3>1. CASE Decides(r)
      <4>1. req[r] \in Queries
        BY <1>1 DEF IInv, RequestsFine, RequestFine, WellTyped
      <4>2. QED BY <2>2, <3>1, <4>1 DEF Decides, GivesUp
    <3>2. CASE Comes(r)
      BY <2>2, <3>2 DEF Comes, GivesUp, Asking
    <3>3. QED BY <2>3, <3>1, <3>2
  <2>5. PICK q : q \in Queries /\ Attempts(q, req'[r])
    BY <2>4
  <2>6. a \in Eligible(q) /\ k \in KeysOf(a, q.family)
    BY <2>1, <2>2, <2>5 DEF Attempts
  <2>7. QED BY <1>1, <2>4, <2>5, <2>6, EligibleIsFree
<1>2. QED BY <1>1, Inductive, PTL DEF Spec, AcknowledgedCooldownHolds

(* A request is given up for its accounts' sake only after each one that   *)
(* was ready when it came was tried, or was cooling.                       *)
THEOREM UsableAccountsTried == Spec => EveryUsableAccountTried
<1> DEFINE Tried ==
      \A r \in Requests :
       (/\ req[r].pc # "done" /\ req'[r].pc = "done"
        /\ mode # "disabled" /\ req[r].kind = "message"
        /\ req'[r].answer \in {"limited", "cooling", "failed", "unavailable"}) =>
       IF req[r].pc = "idle"
       THEN \A a \in ReadyNow(glimpse') :
              IF mode = "fallback" THEN IsCoolingInPool(a) ELSE IsCooling(a, req'[r].family)
       ELSE \A a \in req[r].ready \ req[r].tried :
              a \in req[r].skipped \/ (mode = "balanced" /\ IsCooling(a, req[r].family))
<1>1. ASSUME IInv, [Next]_vars PROVE Tried
  <2>1. SUFFICES ASSUME NEW r \in Requests, req[r].pc # "done", req'[r].pc = "done",
                        mode # "disabled", req[r].kind = "message",
                        req'[r].answer \in {"limited", "cooling", "failed", "unavailable"}
                 PROVE  IF req[r].pc = "idle"
                        THEN \A a \in ReadyNow(glimpse') :
                               IF mode = "fallback" THEN IsCoolingInPool(a) ELSE IsCooling(a, req'[r].family)
                        ELSE \A a \in req[r].ready \ req[r].tried :
                               a \in req[r].skipped \/ (mode = "balanced" /\ IsCooling(a, req[r].family))
    OBVIOUS
  <2>2. Decides(r) \/ Comes(r)
    BY <1>1, <2>1, StepsMove DEF Moved, Stays, Passes
  <2>3. mode \in {"fallback", "balanced"}
    BY <1>1, <2>1, PoolAssumption DEF IInv, RestTypes, PoolAssumption
  <2>4. CASE Decides(r)
    <3>1. req[r].pc # "idle" /\ GivesUp(req[r], req'[r])
      BY <2>1, <2>4 DEF Decides, Attempts, Live
    <3>2. CASE mode = "fallback"
      BY <3>1, <3>2 DEF GivesUp
    <3>3. CASE mode = "balanced"
      <4>1. Eligible(req[r]) = {}
        BY <2>1, <3>1, <3>3 DEF GivesUp, HasFailover
      <4>2. QED BY <3>1, <3>3, <4>1 DEF Eligible
    <3>4. QED BY <2>3, <3>2, <3>3
  <2>5. CASE Comes(r)
    <3>1. PICK q : /\ \E kind, family : Asking(q, glimpse', kind, family)
                   /\ Attempts(q, req'[r]) \/ GivesUp(q, req'[r])
                   /\ mode = "fallback" => \A a \in q.skipped : IsCoolingInPool(a)
      BY <2>5 DEF Comes
    <3>2. GivesUp(q, req'[r]) /\ q.pc = "idle" /\ q.ready = ReadyNow(glimpse') /\ q.tried = {}
      BY <2>1, <3>1 DEF Attempts, Asking
    <3>3. req[r].pc = "idle" /\ q.family = req'[r].family
      BY <2>5, <3>2 DEF Comes, GivesUp
    <3>4. CASE mode = "fallback"
      BY <3>1, <3>2, <3>3, <3>4 DEF GivesUp
    <3>5. CASE mode = "balanced"
      <4>1. Eligible(q) = {}
        BY <3>2, <3>5 DEF GivesUp
      <4>2. QED BY <3>2, <3>3, <3>5, <4>1 DEF Eligible
    <3>6. QED BY <2>3, <3>4, <3>5
  <2>6. QED BY <2>2, <2>4, <2>5
<1>2. IInv /\ [Next]_vars => [Tried]_vars
  BY <1>1
<1>3. QED BY <1>2, Inductive, PTL DEF Spec, EveryUsableAccountTried
===============================================================================
