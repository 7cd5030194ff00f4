------------------------------ MODULE Attachments ------------------------------
(***************************************************************************)
(* attach_files of gptpro/attachments.py, and the revalidation of its      *)
(* observer that _click_send of gptpro/ask.py does before it sends.        *)
(*                                                                         *)
(* Files are dropped on the page, which uploads them.  The ask learns what *)
(* became of them from three sources that are never read together: the     *)
(* responses to the page's file-create requests, the responses to its      *)
(* processing requests, and the cards of the composer.  A response is      *)
(* counted when it arrives and read by a callback of its own later.        *)
(* The files have different names; a name that the site changes is left    *)
(* out.                                                                    *)
(***************************************************************************)
EXTENDS Naturals, FiniteSets

CONSTANTS Files,
          MaxResponses  \* bound: create and processing responses that arrive

VARIABLES
  stage,      \* where attach_files, and later the revalidation, is
  generation, \* observer_generation: the responses that arrived
  settledAt,  \* settled_observer_generation
  tasks,      \* per kind and file: the callbacks that have not read their response
  creates,    \* completed_file_create_responses
  receipts,   \* per file: the create responses attributed to it
  metadataFailed,    \* metadata_failures is not empty
  processingFailed,  \* processing_failure
  processing, \* per file: the processing events seen
  card,       \* per file: its card in the page
  before,     \* the files that were complete before the current read
  bound       \* the files with a ready card in the last snapshot of the bindings

attachmentVars == <<stage, generation, settledAt, tasks, creates, receipts, metadataFailed,
                    processingFailed, processing, card, before, bound>>
evidence == <<generation, tasks, creates, receipts, metadataFailed, processingFailed, processing>>
page == card

NoTasks == [k \in {"create", "processing"} |-> [f \in Files |-> 0]]
Idle(kind) == \A f \in Files : tasks[kind][f] = 0

AttachmentsInit ==
  /\ stage = "preflight"
  /\ generation = 0 /\ settledAt = 0
  /\ tasks = NoTasks
  /\ creates = 0
  /\ receipts = [f \in Files |-> 0]
  /\ metadataFailed = FALSE /\ processingFailed = FALSE
  /\ processing = [f \in Files |-> {}]
  /\ card = [f \in Files |-> "none"]
  /\ before = {} /\ bound = {}

Dropped == stage \notin {"preflight", "clicked", "over"}

---------------------------------------------------------------------------
(* The page, and on_response with its callbacks *)

\* The page shows, finishes or fails a card at any time.
CardChanges ==
  /\ Dropped
  /\ \E f \in Files, s \in {"processing", "ready", "failed"} :
       /\ card[f] # s /\ card[f] # "failed"
       /\ card' = [card EXCEPT ![f] = s]
  /\ UNCHANGED <<stage, settledAt, before, bound, evidence>>

\* on_response counts the response and starts its callback.
ResponseArrives ==
  /\ Dropped /\ generation < MaxResponses
  /\ generation' = generation + 1
  /\ \E f \in Files, kind \in {"create", "processing"} :
       tasks' = [tasks EXCEPT ![kind][f] = @ + 1]
  /\ UNCHANGED <<stage, settledAt, creates, receipts, metadataFailed, processingFailed,
                 processing, card, before, bound>>

\* record_completed_response: attributed to its file, or not attributable; a
\* second id for a file is one too many, and the same id twice is a conflict.
ReceiptRead ==
  \E f \in Files :
    /\ Dropped /\ tasks["create"][f] > 0
    /\ tasks' = [tasks EXCEPT !["create"][f] = @ - 1]
    /\ \/ metadataFailed' = TRUE
          /\ UNCHANGED <<creates, receipts, processingFailed>>
       \/ /\ creates' = creates + 1
          /\ \/ /\ receipts' = [receipts EXCEPT ![f] = @ + 1]
                /\ metadataFailed' = (metadataFailed \/ receipts[f] > 0)
                /\ UNCHANGED processingFailed
             \/ metadataFailed' = TRUE /\ UNCHANGED <<receipts, processingFailed>>
             \/ /\ receipts[f] > 0 /\ processingFailed' = TRUE
                /\ UNCHANGED <<receipts, metadataFailed>>
    /\ UNCHANGED <<stage, generation, settledAt, processing, card, before, bound>>

\* record_processing_response: events of one file, or a response that cannot be
\* used.
ProcessingRead ==
  \E f \in Files :
    /\ Dropped /\ tasks["processing"][f] > 0
    /\ tasks' = [tasks EXCEPT !["processing"][f] = @ - 1]
    /\ \/ processingFailed' = TRUE /\ UNCHANGED processing
       \/ /\ \E events \in {{"seen"}, {"seen", "completed"}, {"seen", "failed"}} :
               processing' = [processing EXCEPT ![f] = @ \union events]
          /\ UNCHANGED processingFailed
    /\ UNCHANGED <<stage, generation, settledAt, creates, receipts, metadataFailed, card,
                   before, bound>>

---------------------------------------------------------------------------
(* What the evidence says *)

\* resolved_file: the processing of a file completed, or none was seen, not even
\* of a file that nothing is known of.
Complete(f) ==
  /\ receipts[f] > 0
  /\ IF processing[f] = {}
     THEN \A g \in Files : processing[g] # {} => receipts[g] > 0
     ELSE "completed" \in processing[f] /\ "failed" \notin processing[f]

CompleteFiles == {f \in Files : Complete(f)}

\* has_exact_receipt_attribution
ExactAttribution ==
  /\ Idle("create")
  /\ ~metadataFailed /\ ~processingFailed
  /\ creates = Cardinality(Files)
  /\ \A f \in Files : receipts[f] = 1

NoProcessingPending == Idle("processing")

Failures == {f \in Files : receipts[f] > 0 /\ "failed" \in processing[f]}

\* qualified_ready_count: the complete files whose card was ready.
AllQualified == bound \intersect CompleteFiles = Files

---------------------------------------------------------------------------
(* attach_files: the drop, and the polls until it is settled *)

\* The preflight allows the drop, which happens once.
Drop ==
  /\ stage = "preflight"
  /\ stage' = "polling"
  /\ UNCHANGED <<settledAt, before, bound, evidence, page>>

\* A poll starts with what is complete now, and reads the composer.
PollBegins ==
  /\ stage = "polling"
  /\ stage' = "reading"
  /\ before' = CompleteFiles
  /\ UNCHANGED <<settledAt, bound, evidence, page>>

\* Evidence that changed during the read starts the poll again.
StateRead ==
  /\ stage = "reading"
  /\ stage' = IF before # CompleteFiles THEN "polling"
              ELSE IF processingFailed \/ Failures # {}
                      \/ \E f \in Files : card[f] = "failed"
                   THEN "over" ELSE "binding"
  /\ UNCHANGED <<settledAt, before, bound, evidence, page>>

\* The page evaluates the bindings; the answer is on its way, and a failed card
\* in it is a processing failure from then on.
Snapshot(from, to) ==
  /\ stage = from
  /\ stage' = to
  /\ bound' = {f \in Files : card[f] = "ready"}
  /\ processingFailed' = (processingFailed \/ \E f \in Files : card[f] = "failed")
  /\ UNCHANGED <<settledAt, before, generation, tasks, creates, receipts, metadataFailed,
                 processing, page>>

UnchangedSince(files) == files = CompleteFiles

\* The last check of a poll: it settles, fails, or the next poll begins.
BindingsRead ==
  /\ stage = "bound"
  /\ IF processingFailed
     THEN stage' = "over" /\ UNCHANGED settledAt
     ELSE IF UnchangedSince(before) /\ ExactAttribution /\ NoProcessingPending /\ AllQualified
     THEN stage' = "settled" /\ settledAt' = generation
     ELSE stage' = "polling" /\ UNCHANGED settledAt
  /\ UNCHANGED <<before, bound, evidence, page>>

---------------------------------------------------------------------------
(* revalidate_observation, before the click and while the button is waited for *)

Refuse == stage' = "over" /\ UNCHANGED <<settledAt, before, bound, evidence, page>>

\* Mutant: what arrived since the settlement is not looked at again.
Untouched_Always == TRUE

Untouched == generation = settledAt

\* The callbacks are waited for, for a time.
RevalidationBegins ==
  /\ stage \in {"settled", "cleared"}
  /\ stage' = "awaiting"
  /\ UNCHANGED <<settledAt, before, bound, evidence, page>>

EvidenceChecked ==
  /\ stage = "awaiting"
  /\ IF /\ tasks = NoTasks /\ ~metadataFailed /\ ~processingFailed /\ Failures = {}
        /\ ExactAttribution /\ CompleteFiles = Files /\ Untouched
     THEN stage' = "rereading" /\ UNCHANGED <<settledAt, before, bound, evidence, page>>
     ELSE Refuse

StateReread ==
  /\ stage = "rereading"
  /\ IF Untouched /\ \A f \in Files : card[f] # "failed"
     THEN stage' = "rebinding" /\ UNCHANGED <<settledAt, before, bound, evidence, page>>
     ELSE Refuse

BindingsReread ==
  /\ stage = "rebound"
  /\ IF ~processingFailed /\ Untouched /\ AllQualified
     THEN stage' = "cleared" /\ UNCHANGED <<settledAt, before, bound, evidence, page>>
     ELSE Refuse

\* The click; or the ask ends, and closes the observer with its callbacks.
Click ==
  /\ stage = "cleared"
  /\ stage' = "clicked"
  /\ UNCHANGED <<settledAt, before, bound, evidence, page>>

Closed ==
  /\ stage \notin {"over", "clicked"}
  /\ stage' = "over"
  /\ tasks' = NoTasks
  /\ UNCHANGED <<generation, settledAt, creates, receipts, metadataFailed, processingFailed,
                 processing, card, before, bound>>
-------------------------------------------------------------------------------
AttachmentsNext ==
  \/ CardChanges \/ ResponseArrives \/ ReceiptRead \/ ProcessingRead
  \/ Drop \/ PollBegins \/ StateRead \/ Snapshot("binding", "bound") \/ BindingsRead
  \/ RevalidationBegins \/ EvidenceChecked \/ StateReread
  \/ Snapshot("rebinding", "rebound") \/ BindingsReread
  \/ Click \/ Closed

AttachmentsSpec == AttachmentsInit /\ [][AttachmentsNext]_attachmentVars
-------------------------------------------------------------------------------
\* All that has arrived has been read, none of it speaks against a file, and each
\* file was received once, processed and shown ready.
EvidenceIsComplete ==
  /\ tasks = NoTasks
  /\ ~metadataFailed /\ ~processingFailed
  /\ creates = Cardinality(Files)
  /\ \A f \in Files : receipts[f] = 1 /\ "failed" \notin processing[f] /\ f \in bound

\* An upload is taken for settled, and a send is cleared, only when all evidence
\* that has arrived by then agrees, although it is read in several awaits with
\* responses coming in between (attach_files, revalidate_observation).
OnlyCompleteEvidencePasses ==
  [][stage' # stage /\ stage' \in {"settled", "cleared"} => EvidenceIsComplete]_attachmentVars
===============================================================================
