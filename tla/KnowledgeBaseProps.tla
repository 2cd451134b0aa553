------------------------- MODULE KnowledgeBaseProps -------------------------
(***************************************************************************)
(* What a knowledge base promises about its documents.                     *)
(***************************************************************************)
EXTENDS KnowledgeBase, TLC

(* A document that is ready can be searched in full: every text it was cut *)
(* into is in the store and nothing else is, however often its ingest      *)
(* failed and was retried and whatever a failed attempt or a failed        *)
(* clean-up left there (_ingest_document, retry_document).  Each text is   *)
(* there once, and the row counts no fewer chunks than the store has,      *)
(* unless an ingest could not read what was there already.  That two       *)
(* operations worked on it at once, or one was broken off, is excused.     *)
ReadyIsStored ==
  \A d \in Docs \ disturbed :
    row[d].status = "ready" /\ Calling(d) = {} /\ Closing = {} =>
      /\ d \notin reworked =>
           \A t \in Chunks : store[d][t] > 0 <=> t \in Range(ChunksOf[d])
      /\ d \notin misread =>
           /\ d \notin reworked => \A t \in Chunks : store[d][t] <= 1
           /\ Vectors(d) <= row[d].count

(* A deleted document leaves nothing behind that a search could find, and  *)
(* no file, whatever its ingest had left (delete_document, delete_kb).     *)
(* That it was deleted while it was worked on is excused; vectors stay     *)
(* when the store failed to delete them, and a file when the disk did.     *)
DeletedIsForgotten ==
  \A d \in Docs \ disturbed :
    row[d].status = "deleted" =>
      /\ d \notin unswept => store[d] = NoVectors
      /\ d \notin kept => d \notin files

(* document_count and total_chunks are what the rows add up to, once every *)
(* document was counted, unless one was computed from values that another  *)
(* commit had overtaken, a document was deleted that was not counted or a  *)
(* chunk of one that counts none.  They never become negative, which the   *)
(* type invariant says.                                                    *)
CountersRight ==
  /\ TypeOK
  /\ kb.exists /\ ~skewed /\ uncounted = {} =>
       /\ kb.docs = Cardinality(Rows)
       /\ kb.chunks = SumOver([d \in Docs |-> row[d].count], Rows)

(* No document is processing for ever: it becomes ready or failed, also    *)
(* when it is retried, or it is deleted.  Excused is one whose ingest died *)
(* with the process, was never started because its row could not be read   *)
(* again, or could not write down that it failed: nobody takes these up.   *)
Settles ==
  \A d \in Docs :
    row[d].status = "processing" ~> row[d].status # "processing" \/ d \in lost
=============================================================================
