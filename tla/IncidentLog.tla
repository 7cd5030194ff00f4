------------------------------ MODULE IncidentLog ------------------------------
(***************************************************************************)
(* The file of quota incidents: Quota429IncidentWriter of                  *)
(* src/claudex/claude/quota_429.py.  One line is appended for each 429;    *)
(* when the file would grow beyond its bound it is replaced by a newest    *)
(* part of its lines.                                                      *)
(*                                                                         *)
(* A file is its complete lines and whether something without an end       *)
(* follows them.  A line is its number, counting the lines that ever got   *)
(* complete, and its size; a part without an end to which another line     *)
(* is appended becomes one spoilt line.                                    *)
(***************************************************************************)
EXTENDS Integers, Sequences

CONSTANTS
  MaxBytes,   \* max_bytes: the bound on the size of the file
  RecordCap,  \* _RECORD_BYTES_CAP and the newline: a longer record is cut down
  TornBytes   \* size of a part without an end

ASSUME LogAssumption ==
  /\ {MaxBytes, RecordCap, TornBytes} \subseteq Nat \ {0}
  /\ RecordCap <= MaxBytes /\ TornBytes < RecordCap

EmptyFile == [lines |-> <<>>, torn |-> FALSE]

(* A record that is too long keeps its main fields only.                   *)
LineOf(number, bytes) == [no |-> number, size |-> IF bytes > RecordCap THEN RecordCap ELSE bytes]

Spoilt(line) == [line EXCEPT !.no = 0, !.size = @ + TornBytes]

SizeOf(lines) ==
  LET upTo[n \in 0..Len(lines)] == IF n = 0 THEN 0 ELSE upTo[n - 1] + lines[n].size
  IN  upTo[Len(lines)]

(* A bug: the incomplete tail stays.                                       *)
RepairIncompleteTail_Never(file) == file

RepairIncompleteTail(file) == [file EXCEPT !.torn = FALSE]

AppendLine(file, line) ==
  [lines |-> Append(file.lines, IF file.torn THEN Spoilt(line) ELSE line), torn |-> FALSE]

(* The longest newest part of the lines that fits.                         *)
NewestThatFit(lines, bytes) ==
  LET suffix(n) == SubSeq(lines, n, Len(lines))
      fits == {n \in 1..Len(lines) + 1 : SizeOf(suffix(n)) <= bytes}
  IN  suffix(CHOOSE n \in fits : \A m \in fits : n <= m)

Compacted(file, line) ==
  [lines |-> Append(NewestThatFit(file.lines, MaxBytes - line.size), line), torn |-> FALSE]

Fits(file, line) == SizeOf(file.lines) + line.size <= MaxBytes

(* append_record when nothing goes wrong.                                  *)
Appended(file, line) ==
  LET repaired == RepairIncompleteTail(file)
  IN  IF Fits(repaired, line) THEN AppendLine(repaired, line) ELSE Compacted(repaired, line)

(* What an append that fails, or a crash in the middle of it, leaves: the  *)
(* tail not yet cut or just cut, a part of the line, or all of it before   *)
(* it is synced.  A replacement happens whole or not at all.               *)
Interrupted(file, line) ==
  LET repaired == RepairIncompleteTail(file)
  IN  {file, repaired, Appended(file, line)}
        \cup (IF Fits(repaired, line) THEN {[repaired EXCEPT !.torn = TRUE]} ELSE {})
================================================================================
