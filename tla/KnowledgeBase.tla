--------------------------- MODULE KnowledgeBase ---------------------------
(***************************************************************************)
(* One knowledge base: the requests of web/api/knowledge_bases.py, the     *)
(* background ingest of a document and the vector store they share         *)
(* (rag/manager.py, rag/store/lancedb.py).                                 *)
(*                                                                         *)
(* A request reads rows, awaits the store or the disk, and commits what it *)
(* computed from the rows as read; the steps between two awaits are one    *)
(* action.  A chunk is its text: the store knows chunks by content hash.   *)
(* Every document has a file name of its own and its id is used once.      *)
(***************************************************************************)
EXTENDS Integers, Sequences, FiniteSetsExt, Sums

CONSTANTS
  Docs,     \* documents that may be uploaded
  Initial,  \* what is ready at first: one of these sets of documents
  Texts,    \* chunk texts
  ChunksOf, \* the chunks each document is cut into
  Edited,   \* what an edited chunk says
  Callers,  \* requests at a time
  Ingests,  \* background ingests at a time
  MaxRequests, \* bound: requests in all
  Faults    \* "ingest": loading, embedding or storing fails;
            \* "search": the store fails to tell which hashes a document has;
            \* "vectors": the store fails to delete or to change vectors;
            \* "disk": a file cannot be written or removed;
            \* "database": a look-up or a commit fails;
            \* "crash": the server process dies and is started again

ASSUME KnowledgeBaseAssumption ==
  /\ IsFiniteSet(Docs) /\ Docs # {} /\ IsFiniteSet(Texts) /\ Initial \subseteq SUBSET Docs
  /\ ChunksOf \in [Docs -> Seq(Texts)]
  /\ Edited \notin Texts
  /\ Callers \cap Ingests = {}
  /\ MaxRequests \in Nat
  /\ Faults \subseteq {"ingest", "search", "vectors", "disk", "database", "crash"}

VARIABLES
  kb,        \* the row of the knowledge base with its two counters
  row,       \* the rows of its documents
  folder,    \* the upload directory exists
  files,     \* documents whose file is in it
  store,     \* vectors of each document, by the text of their chunk
  call,      \* what each request has in hand
  ingest,    \* what each background ingest has in hand
  asked,     \* requests so far
  disturbed, \* documents two operations worked on at once, or whose deletion broke off
  unswept,   \* documents whose vectors were last not deleted when they should be
  kept,      \* documents whose file a deletion left
  misread,   \* documents with vectors whose ingest was told of none
  lost,      \* documents that were left processing with nobody to process them
  reworked,  \* documents with a chunk edited or deleted by hand
  uncounted, \* documents changed since the counters were last counted
  behind,    \* requests and ingests whose reading another commit overtook
  skewed     \* the counters were computed from such a reading, or lack its share

shared == <<kb, row, folder, files, store>>
left == <<unswept, kept, misread>>
history == <<disturbed, left, lost, reworked>>
counting == <<uncounted, behind, skewed>>
vars == <<shared, call, ingest, asked, history, counting>>

Chunks == Texts \cup {Edited}
Rows == {d \in Docs : row[d].status \in {"processing", "ready", "failed"}}
NoVectors == [t \in Chunks |-> 0]
Vectors(d) == SumOver(store[d], Chunks)
AtLeastZero(n) == IF n < 0 THEN 0 ELSE n

\* A session writes a column only when its value is not the one it read.
Written(current, read, new) == IF new = read THEN current ELSE new

Counters == [docs : Nat, chunks : Nat]
NoCall == [step |-> "none", doc |-> CHOOSE d \in Docs : TRUE, text |-> Edited,
           count |-> 0, kb |-> [docs |-> 0, chunks |-> 0], loaded |-> {}]
NoIngest == [step |-> "none", doc |-> CHOOSE d \in Docs : TRUE, seen |-> {},
             kb |-> [docs |-> 0, chunks |-> 0]]

TypeOK ==
  /\ kb \in [exists : BOOLEAN, docs : Nat, chunks : Nat]
  /\ row \in [Docs -> [status : {"absent", "processing", "ready", "failed", "deleted"},
                       count : Nat]]
  /\ folder \in BOOLEAN /\ files \subseteq Docs
  /\ store \in [Docs -> [Chunks -> Nat]]
  /\ call \in [Callers ->
       [step : {"none", "upload", "save", "delete", "deleted", "retry", "cleaned",
                "drop", "dropped", "edit", "close", "closed"},
        doc : Docs, text : Chunks, count : Nat, kb : Counters, loaded : SUBSET Docs]]
  /\ ingest \in [Ingests ->
       [step : {"none", "load", "store", "add", "record", "count", "counted", "fail"},
        doc : Docs, seen : SUBSET Chunks, kb : Counters]]
  /\ asked \in 0 .. MaxRequests
  /\ {disturbed, unswept, kept, misread, lost, reworked, uncounted} \subseteq SUBSET Docs
  /\ behind \subseteq Callers \cup Ingests /\ skewed \in BOOLEAN

\* A knowledge base whose documents in Held are ready and counted.
StartsWith(Held) ==
  /\ row = [d \in Docs |-> IF d \in Held THEN [status |-> "ready", count |-> Len(ChunksOf[d])]
                           ELSE [status |-> "absent", count |-> 0]]
  /\ kb = [exists |-> TRUE, docs |-> Cardinality(Held),
           chunks |-> SumOver([d \in Docs |-> Len(ChunksOf[d])], Held)]
  /\ folder = (Held # {}) /\ files = Held
  /\ store = [d \in Docs |-> IF d \in Held
                             THEN [t \in Chunks |-> IF t \in Range(ChunksOf[d]) THEN 1 ELSE 0]
                             ELSE NoVectors]

Init ==
  /\ \E Held \in Initial : StartsWith(Held)
  /\ call = [c \in Callers |-> NoCall]
  /\ ingest = [i \in Ingests |-> NoIngest]
  /\ asked = 0
  /\ disturbed = {} /\ unswept = {} /\ kept = {} /\ misread = {} /\ lost = {}
  /\ reworked = {}
  /\ uncounted = {} /\ behind = {} /\ skewed = FALSE
-----------------------------------------------------------------------------
(* Who works on what.                                                      *)

Calling(d) ==
  {c \in Callers : call[c].step \notin {"none", "close", "closed"} /\ call[c].doc = d}
Closing == {c \in Callers : call[c].step \in {"close", "closed"}}
Ingesting(d) == {i \in Ingests : ingest[i].step \notin {"none", "count", "counted"}
                                 /\ ingest[i].doc = d}
Worked(d) == Calling(d) \cup Ingesting(d) \cup Closing # {}

\* A request takes up the documents D.
Takes(c, D, request) ==
  /\ call[c].step = "none" /\ kb.exists
  /\ call' = [call EXCEPT ![c] = request]
  /\ asked < MaxRequests /\ asked' = asked + 1
  /\ disturbed' = disturbed \cup {d \in D : Worked(d)}
  /\ UNCHANGED <<kb, row, files, store, ingest, left, lost, reworked, counting>>

For(d, step) == [NoCall EXCEPT !.step = step, !.doc = d]

\* ... with the rows as they are now.
Reading(d, step) ==
  [For(d, step) EXCEPT !.count = row[d].count, !.loaded = {d} \cap Rows,
                       !.kb = [docs |-> kb.docs, chunks |-> kb.chunks]]

Moves(c, step) == call' = [call EXCEPT ![c].step = step]
Ends(c) == call' = [call EXCEPT ![c] = NoCall]

\* Documents whose vectors and files are deleted and their rows not yet.
HalfDeleted(c) ==
  {d \in Docs : \/ call[c].step = "deleted" /\ call[c].doc = d
               \/ call[c].step = "closed"}

\* An answer with an error; the session is rolled back.
Refused(c) ==
  /\ Ends(c)
  /\ disturbed' = disturbed \cup HalfDeleted(c)
  /\ behind' = behind \ {c}
  /\ UNCHANGED <<shared, ingest, left, lost, reworked, uncounted, skewed>>

\* ... because what it wanted to commit was not committed.
CommitFails(c) ==
  /\ "database" \in Faults
  /\ call[c].step \in {"save", "deleted", "cleaned", "dropped", "closed"}
  /\ Refused(c)

\* A commit by p of what it computed from its reading.
Overtakes(p) ==
  behind' = (behind \cup {c \in Callers : call[c].step # "none"}
                    \cup {i \in Ingests : ingest[i].step = "counted"}) \ {p}

Starts(i, d) ==
  /\ ingest[i].step = "none"
  /\ ingest' = [ingest EXCEPT ![i] = [NoIngest EXCEPT !.step = "load", !.doc = d]]
-----------------------------------------------------------------------------
(* upload_document, create_document, import_urls.                          *)

\* The directory is made; then the upload or the page is awaited.
BeginUpload(c, d) ==
  /\ row[d].status = "absent" /\ Calling(d) = {} /\ d \notin files
  /\ Takes(c, {d}, For(d, "upload"))
  /\ folder' = TRUE

\* Deleting the last document has removed the directory meanwhile, or the
\* file cannot be written.
UploadLost(c) ==
  /\ call[c].step = "upload" /\ (~folder \/ "disk" \in Faults)
  /\ Refused(c)

SaveFile(c) ==
  /\ call[c].step = "upload" /\ folder
  /\ files' = files \cup {call[c].doc}
  /\ Moves(c, "save")
  /\ UNCHANGED <<kb, row, folder, store, ingest, history, counting>>

\* The row refers to its knowledge base.
UploadOrphaned(c) ==
  /\ call[c].step = "save" /\ ~kb.exists
  /\ Refused(c)

CommitsRow(c) ==
  /\ call[c].step = "save" /\ kb.exists
  /\ row' = [row EXCEPT ![call[c].doc] = [status |-> "processing", count |-> 0]]
  /\ uncounted' = uncounted \cup {call[c].doc}
  /\ Ends(c) /\ Overtakes(c)
  /\ UNCHANGED <<kb, folder, files, store, disturbed, left, reworked, skewed>>

SaveRow(c, i) == CommitsRow(c) /\ Starts(i, call[c].doc) /\ UNCHANGED lost

\* The row is committed, but reading it again fails: no ingest is started.
SaveUnread(c) ==
  /\ "database" \in Faults
  /\ CommitsRow(c) /\ lost' = lost \cup {call[c].doc}
  /\ UNCHANGED ingest
-----------------------------------------------------------------------------
(* _ingest_document.                                                       *)

Reaches(i, step) == ingest' = [ingest EXCEPT ![i].step = step]

\* load, chunk and embed; a document without chunks has nothing to store.
Load(i) ==
  LET d == ingest[i].doc
  IN  /\ ingest[i].step = "load"
      /\ \/ d \in files /\ Reaches(i, IF ChunksOf[d] = << >> THEN "record" ELSE "store")
         \/ (d \notin files \/ "ingest" \in Faults) /\ Reaches(i, "fail")
      /\ UNCHANGED <<shared, call, history, counting>>

\* _add_documents_sync reads the hashes the document has; when it cannot it
\* takes it that there are none ...
ReadHashes(i) ==
  LET d == ingest[i].doc
      Reads(seen) == ingest' = [ingest EXCEPT ![i].step = "add", ![i].seen = seen]
  IN  /\ ingest[i].step = "store"
      /\ \/ Reads({t \in Chunks : store[d][t] > 0}) /\ UNCHANGED misread
         \/ /\ "search" \in Faults /\ store[d] # NoVectors
            /\ Reads({}) /\ misread' = misread \cup {d}
      /\ UNCHANGED <<shared, call, disturbed, unswept, kept, lost, reworked, counting>>

\* Mutant of AddVectors: no chunk is recognised.
AddAgain(i) ==
  LET d == ingest[i].doc
  IN  /\ ingest[i].step = "add"
      /\ store' = [store EXCEPT ![d] =
                    [t \in Chunks |-> @[t] + Cardinality({k \in DOMAIN ChunksOf[d] : ChunksOf[d][k] = t})]]
      /\ Reaches(i, "record")
      /\ UNCHANGED <<kb, row, folder, files, call, history, counting>>

\* ... and adds each text it has not seen once.
AddVectors(i) ==
  LET d == ingest[i].doc
      New == Range(ChunksOf[d]) \ ingest[i].seen
  IN  /\ ingest[i].step = "add"
      /\ \/ /\ store' = [store EXCEPT ![d] = [t \in Chunks |-> IF t \in New THEN @[t] + 1 ELSE @[t]]]
            /\ Reaches(i, "record")
         \/ "ingest" \in Faults /\ Reaches(i, "fail") /\ UNCHANGED store
      /\ UNCHANGED <<kb, row, folder, files, call, history, counting>>

\* The number of chunks is what the document was cut into.  When the database
\* fails, or the row is deleted between the look-up and the commit, nothing is
\* written, and the vectors are there all the same.
Record(i) ==
  LET d == ingest[i].doc
  IN  /\ ingest[i].step = "record"
      /\ \/ /\ d \in Rows
            /\ row' = [row EXCEPT ![d] = [status |-> "ready", count |-> Len(ChunksOf[d])]]
            /\ uncounted' = uncounted \cup {d}
            /\ Reaches(i, "count") /\ Overtakes(i)
         \/ /\ \/ d \notin Rows /\ Reaches(i, "count")
               \/ (d \notin Rows \/ "database" \in Faults) /\ Reaches(i, "fail")
            /\ UNCHANGED <<row, uncounted, behind>>
      /\ UNCHANGED <<kb, folder, files, store, call, history, skewed>>

\* The counters from the rows.
CountRows(i) ==
  /\ ingest[i].step = "count"
  /\ ingest' = [ingest EXCEPT ![i] =
       IF kb.exists
       THEN [@ EXCEPT !.step = "counted",
                      !.kb = [docs |-> Cardinality(Rows),
                              chunks |-> SumOver([d \in Docs |-> row[d].count], Rows)]]
       ELSE NoIngest]
  /\ behind' = behind \ {i}
  /\ UNCHANGED <<shared, call, history, uncounted, skewed>>

WriteCounters(i) ==
  /\ ingest[i].step = "counted"
  /\ kb' = IF kb.exists
           THEN [kb EXCEPT !.docs = ingest[i].kb.docs, !.chunks = ingest[i].kb.chunks]
           ELSE kb
  /\ skewed' = (i \in behind)
  /\ uncounted' = IF i \in behind THEN uncounted ELSE {}
  /\ Overtakes(i)
  /\ ingest' = [ingest EXCEPT ![i] = NoIngest]
  /\ UNCHANGED <<row, folder, files, store, call, history>>

\* Counting fails, or the knowledge base is deleted before the commit: the
\* document, which is ready, goes the way of a failed one.  That is one more
\* operation on a document somebody has worked on since.
CountFails(i) ==
  LET d == ingest[i].doc
  IN  /\ \/ "database" \in Faults /\ ingest[i].step \in {"count", "counted"}
         \/ ~kb.exists /\ ingest[i].step = "counted"
      /\ Reaches(i, "fail")
      /\ disturbed' = IF Worked(d) \/ d \in reworked THEN disturbed \cup {d} ELSE disturbed
      /\ behind' = behind \ {i}
      /\ UNCHANGED <<shared, call, left, lost, reworked, uncounted, skewed>>

\* The counters are left as they are.  That this write fails too is only
\* logged.
FailIngest(i) ==
  LET d == ingest[i].doc
  IN  /\ ingest[i].step = "fail"
      /\ \/ /\ row' = IF d \in Rows THEN [row EXCEPT ![d].status = "failed"] ELSE row
            /\ UNCHANGED lost
         \/ "database" \in Faults /\ lost' = lost \cup {d} /\ UNCHANGED row
      /\ ingest' = [ingest EXCEPT ![i] = NoIngest]
      /\ UNCHANGED <<kb, folder, files, store, call, disturbed, left, reworked, counting>>
-----------------------------------------------------------------------------
(* delete_document.                                                        *)

\* Mutant of Sweeps: nothing is deleted.
SweepsNothing(d) == UNCHANGED <<store, unswept, misread>>

\* Vectors of d are deleted, or the store fails to and says nothing.
Sweeps(d) ==
  \/ /\ store' = [store EXCEPT ![d] = NoVectors]
     /\ unswept' = unswept \ {d} /\ misread' = misread \ {d}
  \/ "vectors" \in Faults /\ unswept' = unswept \cup {d} /\ UNCHANGED <<store, misread>>

\* So is the file, and the directory when nothing is left in it; that the
\* file cannot be removed is only logged.
Unlinks(d) ==
  \/ /\ files' = files \ {d} /\ folder' = (folder /\ files \ {d} # {})
     /\ UNCHANGED kept
  \/ /\ "disk" \in Faults /\ d \in files /\ kept' = kept \cup {d}
     /\ UNCHANGED <<files, folder>>

\* Whatever the document's status is.
BeginDelete(c, d) ==
  /\ d \in Rows
  /\ Takes(c, {d}, Reading(d, "delete"))
  /\ UNCHANGED folder

DeleteVectors(c) ==
  LET d == call[c].doc
  IN  /\ call[c].step = "delete"
      /\ Sweeps(d) /\ Unlinks(d)
      /\ Moves(c, "deleted")
      /\ UNCHANGED <<kb, row, ingest, disturbed, lost, reworked, counting>>

\* The counters less n documents and m chunks, from the values c has read.
Less(c, n, m) ==
  LET read == call[c].kb
  IN  IF kb.exists
      THEN [kb EXCEPT !.docs = Written(@, read.docs, AtLeastZero(read.docs - n)),
                      !.chunks = Written(@, read.chunks, AtLeastZero(read.chunks - m))]
      ELSE kb

\* Mutant of DeleteRow: the chunks stay counted.
DeleteUncounted(c) ==
  LET d == call[c].doc
  IN  /\ call[c].step = "deleted"
      /\ row' = [row EXCEPT ![d] = [status |-> "deleted", count |-> 0]]
      /\ kb' = Less(c, 1, 0)
      /\ skewed' = (skewed \/ c \in behind \/ d \in uncounted)
      /\ uncounted' = uncounted \ {d}
      /\ Ends(c) /\ Overtakes(c)
      /\ UNCHANGED <<folder, files, store, ingest, history>>

\* The row goes and the counters are set to the values read less its share.
DeleteRow(c) ==
  LET d == call[c].doc
  IN  /\ call[c].step = "deleted"
      /\ row' = [row EXCEPT ![d] = [status |-> "deleted", count |-> 0]]
      /\ kb' = Less(c, 1, call[c].count)
      /\ skewed' = (skewed \/ c \in behind \/ d \in uncounted)
      /\ uncounted' = uncounted \ {d}
      /\ Ends(c) /\ Overtakes(c)
      /\ UNCHANGED <<folder, files, store, ingest, history>>
-----------------------------------------------------------------------------
(* retry_document.                                                         *)

BeginRetry(c, d) ==
  /\ row[d].status = "failed" /\ d \in files
  /\ Takes(c, {d}, Reading(d, "retry"))
  /\ UNCHANGED folder

RetryCleans(c) ==
  /\ call[c].step = "retry"
  /\ Sweeps(call[c].doc)
  /\ Moves(c, "cleaned")
  /\ UNCHANGED <<kb, row, folder, files, ingest, disturbed, kept, lost, reworked, counting>>

\* Mutant of RetryStarts: the document is reset and nothing started.
RetryResets(c, i) ==
  LET d == call[c].doc
  IN  /\ call[c].step = "cleaned" /\ d \in Rows /\ ingest[i].step = "none"
      /\ row' = [row EXCEPT ![d] = [status |-> "processing",
                                    count |-> Written(@.count, call[c].count, 0)]]
      /\ uncounted' = uncounted \cup {d}
      /\ Ends(c) /\ Overtakes(c)
      /\ UNCHANGED <<kb, folder, files, store, ingest, history, skewed>>

RetryStarts(c, i) ==
  LET d == call[c].doc
  IN  /\ call[c].step = "cleaned" /\ d \in Rows
      /\ row' = [row EXCEPT ![d] = [status |-> "processing",
                                    count |-> Written(@.count, call[c].count, 0)]]
      /\ uncounted' = uncounted \cup {d}
      /\ Starts(i, d)
      /\ Ends(c) /\ Overtakes(c)
      /\ UNCHANGED <<kb, folder, files, store, history, skewed>>

\* The row to update is gone.
RetryLost(c) ==
  /\ call[c].step = "cleaned" /\ call[c].doc \notin Rows
  /\ Refused(c)
-----------------------------------------------------------------------------
(* update_chunk and delete_chunk: of a ready document or of one that has   *)
(* no row any more.                                                        *)

MayTouch(d, t) == store[d][t] > 0 /\ row[d].status \notin {"processing", "failed"}

BeginEdit(c, d, t) ==
  /\ MayTouch(d, t)
  /\ Takes(c, {d}, [For(d, "edit") EXCEPT !.text = t])
  /\ UNCHANGED folder

EditVector(c) ==
  LET d == call[c].doc
      Says == [t \in Chunks |-> IF t = Edited THEN 1 ELSE 0]
      Said == [t \in Chunks |-> IF t = call[c].text THEN 1 ELSE 0]
  IN  /\ call[c].step = "edit" /\ store[d][call[c].text] > 0
      /\ store' = [store EXCEPT ![d] = [t \in Chunks |-> @[t] + Says[t] - Said[t]]]
      /\ reworked' = reworked \cup {d}
      /\ Ends(c)
      /\ behind' = behind \ {c}
      /\ UNCHANGED <<kb, row, folder, files, ingest, disturbed, left, lost, uncounted, skewed>>

BeginDrop(c, d, t) ==
  /\ MayTouch(d, t)
  /\ Takes(c, {d}, [Reading(d, "drop") EXCEPT !.text = t])
  /\ UNCHANGED folder

\* The store tells a deletion by the table being shorter than before; with
\* vectors added at the same time it is not.
DropVector(c) ==
  LET d == call[c].doc
  IN  /\ call[c].step = "drop" /\ store[d][call[c].text] > 0
      /\ store' = [store EXCEPT ![d][call[c].text] = @ - 1]
      /\ reworked' = reworked \cup {d}
      /\ \/ Moves(c, "dropped") /\ UNCHANGED behind
         \/ /\ \E i \in Ingests : ingest[i].step = "add"
            /\ Ends(c) /\ behind' = behind \ {c}
      /\ UNCHANGED <<kb, row, folder, files, ingest, disturbed, left, lost, uncounted, skewed>>

\* The chunk is gone, or the store fails.
ChunkLost(c) ==
  /\ call[c].step \in {"edit", "drop"}
  /\ store[call[c].doc][call[c].text] = 0 \/ "vectors" \in Faults
  /\ Refused(c)

\* The document is looked for again.  When it has no row, or none any more,
\* the knowledge base counts one less all the same.
DropCounted(c) ==
  LET d == call[c].doc
  IN  /\ call[c].step = "dropped"
      /\ row' = IF d \in Rows
                THEN [row EXCEPT ![d].count =
                       Written(@, call[c].count, AtLeastZero(call[c].count - 1))]
                ELSE row
      /\ kb' = Less(c, 0, 1)
      /\ skewed' = (skewed \/ c \in behind \/ d \notin Rows \/ call[c].count = 0)
      /\ Ends(c) /\ Overtakes(c)
      /\ UNCHANGED <<folder, files, store, ingest, history, uncounted>>

\* It is deleted between being looked for and the commit that changes it.
DropLost(c) ==
  /\ call[c].step = "dropped" /\ call[c].doc \in call[c].loaded \ Rows /\ call[c].count > 0
  /\ Refused(c)
-----------------------------------------------------------------------------
(* delete_kb.                                                              *)

BeginClose(c) ==
  /\ Takes(c, Docs, [NoCall EXCEPT !.step = "close", !.loaded = Rows])
  /\ UNCHANGED folder

CloseVectors(c) ==
  /\ call[c].step = "close"
  /\ \/ store' = [d \in Docs |-> NoVectors] /\ unswept' = {} /\ misread' = {}
     \/ "vectors" \in Faults /\ unswept' = Docs /\ UNCHANGED <<store, misread>>
  /\ \/ files' = {} /\ folder' = FALSE /\ UNCHANGED kept
     \/ /\ "disk" \in Faults /\ files' \in SUBSET files /\ UNCHANGED folder
        /\ kept' = kept \cup files'
  /\ Moves(c, "closed")
  /\ UNCHANGED <<kb, row, ingest, disturbed, lost, reworked, counting>>

CloseRows(c) ==
  /\ call[c].step = "closed" /\ Rows \subseteq call[c].loaded
  /\ kb' = [exists |-> FALSE, docs |-> 0, chunks |-> 0]
  /\ row' = [d \in Docs |-> IF d \in Rows THEN [status |-> "deleted", count |-> 0] ELSE row[d]]
  /\ uncounted' = {}
  /\ Ends(c) /\ Overtakes(c)
  /\ UNCHANGED <<folder, files, store, ingest, history, skewed>>

\* A document came in meanwhile: its row holds the knowledge base.
CloseBlocked(c) ==
  /\ call[c].step = "closed" /\ ~(Rows \subseteq call[c].loaded)
  /\ Refused(c)
-----------------------------------------------------------------------------
\* Nothing takes up again what a process that died had in hand.
Crash ==
  /\ "crash" \in Faults
  /\ \E d \in Docs : Worked(d)
  /\ call' = [c \in Callers |-> NoCall]
  /\ ingest' = [i \in Ingests |-> NoIngest]
  /\ disturbed' = disturbed \cup {d \in Docs : \E c \in Callers : d \in HalfDeleted(c)}
  /\ lost' = lost \cup {d \in Docs : Ingesting(d) # {}}
  /\ behind' = {}
  /\ UNCHANGED <<shared, asked, left, reworked, uncounted, skewed>>

Request(c) ==
  \/ \E d \in Docs :
       \/ BeginUpload(c, d) \/ BeginDelete(c, d) \/ BeginRetry(c, d)
       \/ \E t \in Chunks : BeginEdit(c, d, t) \/ BeginDrop(c, d, t)
  \/ BeginClose(c)

Continue(c) ==
  /\ \/ UploadLost(c) \/ SaveFile(c) \/ UploadOrphaned(c) \/ SaveUnread(c) \/ CommitFails(c)
     \/ DeleteVectors(c) \/ DeleteRow(c)
     \/ RetryCleans(c) \/ RetryLost(c)
     \/ EditVector(c) \/ DropVector(c) \/ ChunkLost(c) \/ DropCounted(c) \/ DropLost(c)
     \/ CloseVectors(c) \/ CloseRows(c) \/ CloseBlocked(c)
     \/ \E i \in Ingests : SaveRow(c, i) \/ RetryStarts(c, i)
  /\ UNCHANGED asked

Process(i) ==
  /\ \/ Load(i) \/ ReadHashes(i) \/ AddVectors(i) \/ Record(i)
     \/ CountRows(i) \/ WriteCounters(i) \/ CountFails(i) \/ FailIngest(i)
  /\ UNCHANGED asked

Next ==
  \/ \E c \in Callers : Request(c) \/ Continue(c)
  \/ \E i \in Ingests : Process(i)
  \/ Crash

Spec == Init /\ [][Next]_vars

\* A background task runs on.
FairSpec == Spec /\ \A i \in Ingests : WF_vars(Process(i))
=============================================================================
