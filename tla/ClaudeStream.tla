----------------------------- MODULE ClaudeStream -----------------------------
(***************************************************************************)
(* What a streamed Claude message promises its reader, whoever writes it:  *)
(* the message starts once; its blocks are numbered from zero without a    *)
(* gap and are written one after the other, the next one only after the    *)
(* last one was closed; a closed block never changes; and the message ends *)
(* once, either whole, with every block closed, or with an error, after    *)
(* which nothing comes.                                                    *)
(***************************************************************************)
EXTENDS Naturals, FiniteSets

VARIABLES started, \* message_start was read
          blocks,  \* index -> what was read of the block
          open,    \* the indices of the blocks that are not closed
          ending   \* "none", "whole" or "error"

vars == <<started, blocks, open, ending>>

Init == ~started /\ blocks = << >> /\ open = {} /\ ending = "none"

Writing == started /\ ending = "none"
Count == Cardinality(DOMAIN blocks)
KeepsAllBut(i) == \A j \in DOMAIN blocks \ {i} : blocks'[j] = blocks[j]

Start ==
  /\ ~started /\ ending = "none"
  /\ started' = TRUE
  /\ UNCHANGED <<blocks, open, ending>>

OpenBlock ==
  /\ Writing /\ open = {}
  /\ DOMAIN blocks' = DOMAIN blocks \union {Count} /\ KeepsAllBut(Count)
  /\ open' = {Count}
  /\ UNCHANGED <<started, ending>>

Extend ==
  /\ Writing
  /\ \E i \in open : DOMAIN blocks' = DOMAIN blocks /\ KeepsAllBut(i)
  /\ UNCHANGED <<started, open, ending>>

CloseBlock ==
  /\ Writing /\ open # {}
  /\ open' = {}
  /\ UNCHANGED <<started, blocks, ending>>

End ==
  /\ Writing /\ open = {}
  /\ ending' = "whole"
  /\ UNCHANGED <<started, blocks, open>>

Fail ==
  /\ ending = "none"
  /\ ending' = "error"
  /\ UNCHANGED <<started, blocks, open>>

Next == Start \/ OpenBlock \/ Extend \/ CloseBlock \/ End \/ Fail

Spec == Init /\ [][Next]_vars
===============================================================================
