------------------------- MODULE KnowledgeBaseProofs ------------------------
EXTENDS KnowledgeBaseProps, LibraryProofs

(* The vectors of a document d: each text it was cut into and no other,    *)
(* each once, only some of them, or none.                                  *)
Share(d) == [t \in Chunks |-> IF t \in Range(ChunksOf[d]) THEN 1 ELSE 0]
Stores(d) == \A t \in Chunks : store[d][t] > 0 <=> t \in Range(ChunksOf[d])
Single(d) == d \notin misread => \A t \in Chunks : store[d][t] <= 1
InPart(d) == (\A t \in Chunks : store[d][t] > 0 => t \in Range(ChunksOf[d])) /\ Single(d)
Covered(d) == d \notin misread => Vectors(d) <= row[d].count
Full(d) == (d \notin reworked => Stores(d) /\ Single(d)) /\ Covered(d)
NoFile(d) == d \notin kept => d \notin files
Gone(d) == NoFile(d) /\ (d \notin unswept => store[d] = NoVectors)
Untouched(d) == store[d] = NoVectors /\ d \notin reworked

\* How a document is when nobody works on it.
Resting(d) ==
  /\ row[d].status = "absent" => Untouched(d)
  /\ row[d].status \in {"processing", "failed"} => InPart(d) /\ d \notin reworked
  /\ row[d].status = "ready" => Full(d)
  /\ row[d].status = "deleted" => Gone(d)

\* A deleted document some of whose vectors are left.
Remains(d) == row[d].status = "deleted" /\ d \in unswept /\ NoFile(d)

\* A request r works on d: until vectors are deleted d might as well rest.
Held(d, r) ==
  /\ IF r.step \in {"deleted", "closed"} THEN Gone(d) ELSE Resting(d)
  /\ r.step \in {"upload", "save"} => row[d].status = "absent"
  /\ r.step = "delete" => d \in Rows
  /\ r.step \in {"retry", "cleaned"} => row[d].status = "failed"
  /\ r.step \in {"edit", "drop"} => row[d].status = "ready" \/ Remains(d)
  /\ r.step \in {"drop", "dropped"} =>
       r.count = row[d].count /\ (d \in r.loaded <=> d \in Rows)
  /\ r.step = "dropped" =>
       \/ /\ row[d].status = "ready" /\ d \in reworked
          /\ d \notin misread => Vectors(d) < row[d].count
       \/ Remains(d)
  /\ r.step = "closed" => (row[d].status = "absent" => Untouched(d))

\* A background ingest r works on d.
IngestHeld(d, r) ==
  /\ Resting(d) /\ (row[d].status # "deleted" => d \notin reworked)
  /\ r.step # "fail" => row[d].status = "processing"
  /\ r.step = "add" =>
       /\ r.seen \subseteq {t \in Chunks : store[d][t] > 0}
       /\ d \notin misread => r.seen = {t \in Chunks : store[d][t] > 0}
  /\ r.step = "record" => Stores(d)

Requests(d) == Calling(d) \cup Closing
Workers(d) == Requests(d) \cup Ingesting(d)

(* A document nothing disturbed is worked on by one at a time, and is as   *)
(* that one's last step left it.                                           *)
DocSound(d) ==
  /\ \A v, w \in Workers(d) : v = w
  /\ Workers(d) = {} => Resting(d)
  /\ \A c \in Requests(d) : Held(d, call[c])
  /\ \A i \in Ingesting(d) : IngestHeld(d, ingest[i])

Counts == [d \in Docs |-> row[d].count]
Total == SumOver(Counts, Rows)
AsCounted == [docs |-> Cardinality(Rows), chunks |-> Total]
Stored == [docs |-> kb.docs, chunks |-> kb.chunks]

Standing(w) == w.status \in {"processing", "ready", "failed"}

(* What a request r read is what it will find in the rows k and w, unless  *)
(* it was overtaken.                                                       *)
ReadSound(r, k, w) ==
  r.step \in {"delete", "deleted", "retry", "cleaned", "drop", "dropped"} =>
    r.kb = k /\ r.count = w.count /\ (r.doc \in r.loaded <=> Standing(w))

LoadedSound(r) == r.step \in {"delete", "deleted"} => r.doc \in r.loaded

CountersSound ==
  /\ kb.exists /\ ~skewed /\ uncounted = {} => Stored = AsCounted
  /\ \A c \in Callers : LoadedSound(call[c])
  /\ \A c \in Callers \ behind : ReadSound(call[c], Stored, row[call[c].doc])
  /\ \A i \in Ingests \ behind : ingest[i].step = "counted" => ingest[i].kb = AsCounted

Inv == TypeOK /\ CountersSound /\ \A d \in Docs \ disturbed : DocSound(d)
-----------------------------------------------------------------------------
(* The type of the state.                                                  *)

CallRecords ==
  [step : {"none", "upload", "save", "delete", "deleted", "retry", "cleaned",
           "drop", "dropped", "edit", "close", "closed"},
   doc : Docs, text : Chunks, count : Nat, kb : Counters, loaded : SUBSET Docs]
IngestRecords ==
  [step : {"none", "load", "store", "add", "record", "count", "counted", "fail"},
   doc : Docs, seen : SUBSET Chunks, kb : Counters]
RowRecords == [status : {"absent", "processing", "ready", "failed", "deleted"}, count : Nat]
KbRecords == [exists : BOOLEAN, docs : Nat, chunks : Nat]

LEMMA RecordsTyped ==
  /\ NoCall \in CallRecords /\ NoCall.step = "none"
  /\ NoIngest \in IngestRecords /\ NoIngest.step = "none"
  /\ IsFiniteSet(Chunks) /\ Edited \in Chunks /\ NoVectors \in [Chunks -> Nat]
<1>1. (CHOOSE d \in Docs : TRUE) \in Docs
  BY KnowledgeBaseAssumption
<1>2. [docs |-> 0, chunks |-> 0] \in Counters
  BY DEF Counters
<1>3. IsFiniteSet(Texts \cup {Edited})
  BY KnowledgeBaseAssumption, FS_AddElement
<1>4. Edited \in Chunks /\ NoVectors \in [Chunks -> Nat]
  BY DEF Chunks, NoVectors
<1>5. NoCall \in CallRecords /\ NoCall.step = "none"
  BY <1>1, <1>2, <1>4 DEF NoCall, CallRecords
<1>6. NoIngest \in IngestRecords /\ NoIngest.step = "none"
  BY <1>1, <1>2 DEF NoIngest, IngestRecords
<1> QED
  BY <1>3, <1>4, <1>5, <1>6 DEF Chunks

LEMMA RowsTyped ==
  ASSUME TypeOK
  PROVE  /\ Rows \subseteq Docs /\ IsFiniteSet(Rows) /\ Cardinality(Rows) \in Nat
         /\ Counts \in [Docs -> Nat] /\ Total \in Nat /\ AsCounted \in Counters
<1>1. Rows \subseteq Docs /\ IsFiniteSet(Rows)
  BY KnowledgeBaseAssumption, FS_Subset DEF Rows
<1>2. Counts \in [Docs -> Nat]
  BY DEF TypeOK, Counts
<1>3. Total \in Nat
  BY <1>1, <1>2, SumOverNat DEF Total
<1>4. Cardinality(Rows) \in Nat
  BY <1>1, FS_CardinalityType
<1> QED
  BY <1>1, <1>2, <1>3, <1>4 DEF AsCounted, Counters

\* TypeOK with the records named.
LEMMA TypeParts ==
  TypeOK <=>
  /\ kb \in KbRecords /\ row \in [Docs -> RowRecords]
  /\ folder \in BOOLEAN /\ files \subseteq Docs /\ store \in [Docs -> [Chunks -> Nat]]
  /\ call \in [Callers -> CallRecords] /\ ingest \in [Ingests -> IngestRecords]
  /\ asked \in 0 .. MaxRequests
  /\ {disturbed, unswept, kept, misread, lost, reworked, uncounted} \subseteq SUBSET Docs
  /\ behind \subseteq Callers \cup Ingests /\ skewed \in BOOLEAN
BY DEF TypeOK, KbRecords, RowRecords, CallRecords, IngestRecords

LEMMA TypeNext ==
  ASSUME kb' \in KbRecords, row' \in [Docs -> RowRecords],
         folder' \in BOOLEAN, files' \subseteq Docs, store' \in [Docs -> [Chunks -> Nat]],
         call' \in [Callers -> CallRecords], ingest' \in [Ingests -> IngestRecords],
         asked' \in 0 .. MaxRequests,
         {disturbed', unswept', kept', misread', lost', reworked', uncounted'} \subseteq SUBSET Docs,
         behind' \subseteq Callers \cup Ingests, skewed' \in BOOLEAN
  PROVE  TypeOK'
BY DEF TypeOK, KbRecords, RowRecords, CallRecords, IngestRecords

LEMMA MovesTyped ==
  ASSUME NEW r \in CallRecords,
         NEW s \in {"deleted", "save", "cleaned", "dropped", "closed"}
  PROVE  /\ [r EXCEPT !.step = s] \in CallRecords
         /\ [r EXCEPT !.step = s].step = s /\ [r EXCEPT !.step = s].doc = r.doc
         /\ [r EXCEPT !.step = s].count = r.count /\ [r EXCEPT !.step = s].kb = r.kb
         /\ [r EXCEPT !.step = s].loaded = r.loaded
BY DEF CallRecords

LEMMA ReachesTyped ==
  ASSUME NEW r \in IngestRecords, NEW s \in {"store", "record", "count", "fail"}
  PROVE  /\ [r EXCEPT !.step = s] \in IngestRecords
         /\ [r EXCEPT !.step = s].step = s /\ [r EXCEPT !.step = s].doc = r.doc
BY DEF IngestRecords

LEMMA ReadingTyped ==
  ASSUME TypeOK, NEW d \in Docs,
         NEW s \in {"upload", "delete", "retry", "edit", "drop"}
  PROVE  /\ For(d, s) \in CallRecords /\ For(d, s).step = s /\ For(d, s).doc = d
         /\ Reading(d, s) \in CallRecords
         /\ Reading(d, s).step = s /\ Reading(d, s).doc = d
         /\ Reading(d, s).count = row[d].count /\ Reading(d, s).loaded = {d} \cap Rows
         /\ Reading(d, s).kb = Stored
<1>1. For(d, s) \in CallRecords /\ For(d, s).step = s /\ For(d, s).doc = d
  BY RecordsTyped DEF For, CallRecords
<1>2. row[d].count \in Nat /\ Stored \in Counters
  BY DEF TypeOK, Stored, Counters
<1> QED
  BY <1>1, <1>2 DEF Reading, CallRecords, Stored
Texted(r, t) == [r EXCEPT !.text = t]

LEMMA TextedTyped ==
  ASSUME NEW r \in CallRecords, NEW t \in Chunks
  PROVE  /\ Texted(r, t) \in CallRecords /\ Texted(r, t).text = t
         /\ Texted(r, t).step = r.step /\ Texted(r, t).doc = r.doc
         /\ Texted(r, t).count = r.count /\ Texted(r, t).kb = r.kb
         /\ Texted(r, t).loaded = r.loaded
BY DEF Texted, CallRecords

\* What delete_kb has in hand.
Closes == [NoCall EXCEPT !.step = "close", !.loaded = Rows]

LEMMA ClosesTyped ==
  ASSUME TypeOK
  PROVE  Closes \in CallRecords /\ Closes.step = "close" /\ Closes.loaded = Rows
BY RecordsTyped, RowsTyped DEF Closes, CallRecords

\* A request of any kind.
TakesUp(c, D, r) == Takes(c, D, r) /\ folder' \in BOOLEAN /\ r \in CallRecords

LEMMA RequestIs ==
  ASSUME TypeOK, NEW c \in Callers, Request(c)
  PROVE  \/ TakesUp(c, Docs, Closes)
         \/ \E d \in Docs :
              \/ TakesUp(c, {d}, For(d, "upload")) /\ row[d].status = "absent"
              \/ TakesUp(c, {d}, Reading(d, "delete")) /\ d \in Rows
              \/ TakesUp(c, {d}, Reading(d, "retry")) /\ row[d].status = "failed"
              \/ \E t \in Chunks : /\ MayTouch(d, t)
                                   /\ \/ TakesUp(c, {d}, Texted(For(d, "edit"), t))
                                      \/ TakesUp(c, {d}, Texted(Reading(d, "drop"), t))
<1>1. folder \in BOOLEAN
  BY DEF TypeOK
<1>2. CASE BeginClose(c)
  BY <1>1, <1>2, ClosesTyped DEF BeginClose, TakesUp, Closes
<1>3. ASSUME NEW d \in Docs, BeginUpload(c, d)
      PROVE  TakesUp(c, {d}, For(d, "upload")) /\ row[d].status = "absent"
  BY <1>3, ReadingTyped DEF BeginUpload, TakesUp
<1>4. ASSUME NEW d \in Docs, BeginDelete(c, d)
      PROVE  TakesUp(c, {d}, Reading(d, "delete")) /\ d \in Rows
  BY <1>1, <1>4, ReadingTyped DEF BeginDelete, TakesUp
<1>5. ASSUME NEW d \in Docs, BeginRetry(c, d)
      PROVE  TakesUp(c, {d}, Reading(d, "retry")) /\ row[d].status = "failed"
  BY <1>1, <1>5, ReadingTyped DEF BeginRetry, TakesUp
<1>6. ASSUME NEW d \in Docs, NEW t \in Chunks, BeginEdit(c, d, t)
      PROVE  TakesUp(c, {d}, Texted(For(d, "edit"), t)) /\ MayTouch(d, t)
  BY <1>1, <1>6, ReadingTyped, TextedTyped DEF BeginEdit, TakesUp, Texted
<1>7. ASSUME NEW d \in Docs, NEW t \in Chunks, BeginDrop(c, d, t)
      PROVE  TakesUp(c, {d}, Texted(Reading(d, "drop"), t)) /\ MayTouch(d, t)
  BY <1>1, <1>7, ReadingTyped, TextedTyped DEF BeginDrop, TakesUp, Texted
<1>8. CASE \E d \in Docs :
             \/ BeginUpload(c, d) \/ BeginDelete(c, d) \/ BeginRetry(c, d)
             \/ \E t \in Chunks : BeginEdit(c, d, t) \/ BeginDrop(c, d, t)
  <2>1. PICK d \in Docs :
             \/ BeginUpload(c, d) \/ BeginDelete(c, d) \/ BeginRetry(c, d)
             \/ \E t \in Chunks : BeginEdit(c, d, t) \/ BeginDrop(c, d, t)
    BY <1>8
  <2>2. CASE BeginUpload(c, d) \/ BeginDelete(c, d) \/ BeginRetry(c, d)
    BY <2>2, <1>3, <1>4, <1>5
  <2>3. CASE \E t \in Chunks : BeginEdit(c, d, t) \/ BeginDrop(c, d, t)
    BY <2>3, <1>6, <1>7
  <2> QED
    BY <2>1, <2>2, <2>3
<1> QED
  BY <1>2, <1>8 DEF Request

LEMMA TakesUpType ==
  ASSUME TypeOK, NEW c \in Callers, NEW D \in SUBSET Docs, NEW r, TakesUp(c, D, r)
  PROVE  TypeOK'
<1>1. MaxRequests \in Nat /\ asked' \in 0 .. MaxRequests
  BY KnowledgeBaseAssumption DEF TakesUp, Takes, TypeOK
<1>2. call' \in [Callers -> CallRecords]
  BY TypeParts DEF TakesUp, Takes
<1> QED
  BY <1>1, <1>2, TypeParts, TypeNext DEF TakesUp, Takes, left, counting

LEMMA EndsType ==
  ASSUME TypeOK, NEW c \in Callers
  PROVE  /\ Ends(c) => call' \in [Callers -> CallRecords]
         /\ \A s \in {"deleted", "save", "cleaned", "dropped", "closed"} :
              Moves(c, s) => call' \in [Callers -> CallRecords]
<1>1. call \in [Callers -> CallRecords] /\ NoCall \in CallRecords
  BY TypeParts, RecordsTyped
<1>2. ASSUME NEW s \in {"deleted", "save", "cleaned", "dropped", "closed"}, Moves(c, s)
      PROVE  call' \in [Callers -> CallRecords]
  <2>1. [call[c] EXCEPT !.step = s] \in CallRecords
    BY <1>1, MovesTyped
  <2> QED
    BY <1>1, <1>2, <2>1 DEF Moves
<1> QED
  BY <1>1, <1>2 DEF Ends

LEMMA StartsType ==
  ASSUME TypeOK, NEW i \in Ingests, NEW d \in Docs, Starts(i, d)
  PROVE  ingest' \in [Ingests -> IngestRecords]
<1>1. [NoIngest EXCEPT !.step = "load", !.doc = d] \in IngestRecords
  BY RecordsTyped DEF IngestRecords
<1> QED
  BY <1>1, TypeParts DEF Starts

LEMMA OvertakesType ==
  ASSUME TypeOK, NEW p, Overtakes(p)
  PROVE  behind' \subseteq Callers \cup Ingests
BY DEF Overtakes, TypeOK

LEMMA LessType ==
  ASSUME TypeOK, NEW c \in Callers, NEW n \in Nat, NEW m \in Nat
  PROVE  Less(c, n, m) \in KbRecords
<1>1. kb \in KbRecords /\ call[c].kb \in Counters
  BY TypeParts DEF CallRecords
<1>2. \A a, b \in Nat : Written(a, b, AtLeastZero(b - n)) \in Nat
                      /\ Written(a, b, AtLeastZero(b - m)) \in Nat
  BY DEF Written, AtLeastZero
<1> QED
  BY <1>1, <1>2 DEF Less, KbRecords, Counters
\* A request that is answered with an error.
Refusal(c) ==
  \/ UploadLost(c) \/ UploadOrphaned(c) \/ RetryLost(c) \/ ChunkLost(c) \/ DropLost(c)
  \/ CloseBlocked(c) \/ CommitFails(c)

LEMMA RefusalIs ==
  ASSUME NEW c, Refusal(c)
  PROVE  Refused(c) /\ call[c].step # "none"
BY DEF Refusal, UploadLost, UploadOrphaned, RetryLost, ChunkLost, DropLost, CloseBlocked,
       CommitFails

LEMMA ContinueType ==
  ASSUME TypeOK, NEW c \in Callers, Continue(c)
  PROVE  TypeOK'
<1> DEFINE d == call[c].doc
<1>1. /\ kb \in KbRecords /\ row \in [Docs -> RowRecords]
      /\ folder \in BOOLEAN /\ files \subseteq Docs /\ store \in [Docs -> [Chunks -> Nat]]
      /\ call \in [Callers -> CallRecords] /\ ingest \in [Ingests -> IngestRecords]
      /\ asked' \in 0 .. MaxRequests
      /\ {disturbed, unswept, kept, misread, lost, reworked, uncounted} \subseteq SUBSET Docs
      /\ behind \subseteq Callers \cup Ingests /\ skewed \in BOOLEAN
  BY TypeParts DEF Continue
<1>2. /\ d \in Docs /\ call[c].text \in Chunks /\ call[c].count \in Nat
  BY <1>1 DEF CallRecords
<1>3. /\ Ends(c) => call' \in [Callers -> CallRecords]
      /\ \A s \in {"deleted", "save", "cleaned", "dropped", "closed"} :
           Moves(c, s) => call' \in [Callers -> CallRecords]
  BY EndsType
<1>4. Overtakes(c) => behind' \subseteq Callers \cup Ingests
  BY OvertakesType
<1> HIDE DEF d
<1>5. CASE Refusal(c)
  <2>1. Refused(c)
    BY <1>5, RefusalIs
  <2>2. HalfDeleted(c) \subseteq Docs
    BY DEF HalfDeleted
  <2> QED
    BY <1>1, <1>3, <2>1, <2>2, TypeNext DEF Refused, shared, left
<1>6. CASE SaveFile(c)
  BY <1>1, <1>2, <1>3, <1>6, TypeNext DEF SaveFile, history, left, counting, d
<1>7. CASE DeleteVectors(c)
  <2>1. Sweeps(d) /\ Unlinks(d) /\ Moves(c, "deleted")
    BY <1>7 DEF DeleteVectors, d
  <2>2. store' \in [Docs -> [Chunks -> Nat]] /\ {unswept', misread'} \subseteq SUBSET Docs
    BY <1>1, <1>2, <2>1, RecordsTyped DEF Sweeps
  <2>3. files' \subseteq Docs /\ folder' \in BOOLEAN /\ kept' \subseteq Docs
    BY <1>1, <1>2, <2>1 DEF Unlinks
  <2> QED
    BY <1>1, <1>3, <1>7, <2>1, <2>2, <2>3, TypeNext DEF DeleteVectors, counting
<1>8. CASE DeleteRow(c)
  <2>1. kb' \in KbRecords
    BY <1>2, <1>8, LessType DEF DeleteRow
  <2>2. row' \in [Docs -> RowRecords]
    BY <1>1, <1>8 DEF DeleteRow, RowRecords
  <2> QED
    BY <1>1, <1>2, <1>3, <1>4, <1>8, <2>1, <2>2, TypeNext DEF DeleteRow, history, left, d
<1>9. CASE RetryCleans(c)
  BY <1>1, <1>2, <1>3, <1>9, RecordsTyped, TypeNext DEF RetryCleans, Sweeps, counting, d
<1>10. CASE EditVector(c)
  <2>1. store' \in [Docs -> [Chunks -> Nat]]
    <3> DEFINE Says == [t \in Chunks |-> IF t = Edited THEN 1 ELSE 0]
               Said == [t \in Chunks |-> IF t = call[c].text THEN 1 ELSE 0]
    <3>1. store[d][call[c].text] > 0 /\ store[d] \in [Chunks -> Nat]
      BY <1>1, <1>2, <1>10 DEF EditVector, d
    <3>2. \A t \in Chunks : store[d][t] + Says[t] - Said[t] \in Nat
      BY <1>2, <3>1
    <3>3. [t \in Chunks |-> store[d][t] + Says[t] - Said[t]] \in [Chunks -> Nat]
      BY <3>2
    <3>4. store' = [store EXCEPT ![d] = [t \in Chunks |-> store[d][t] + Says[t] - Said[t]]]
      BY <1>1, <1>2, <1>10 DEF EditVector, d
    <3> HIDE DEF Says, Said
    <3> QED
      BY <1>1, <1>2, <3>3, <3>4
  <2> QED
    BY <1>1, <1>2, <1>3, <1>10, <2>1, TypeNext DEF EditVector, left, d
<1>11. CASE DropVector(c)
  <2>1. store' \in [Docs -> [Chunks -> Nat]]
    <3>1. store[d][call[c].text] - 1 \in Nat
      BY <1>1, <1>2, <1>11 DEF DropVector, d
    <3>2. [store[d] EXCEPT ![call[c].text] = store[d][call[c].text] - 1] \in [Chunks -> Nat]
      BY <1>1, <1>2, <3>1
    <3> QED
      BY <1>1, <1>2, <1>11, <3>2 DEF DropVector, d
  <2> QED
    BY <1>1, <1>2, <1>3, <1>11, <2>1, TypeNext DEF DropVector, left, d
<1>12. CASE DropCounted(c)
  <2>1. kb' \in KbRecords
    BY <1>12, LessType DEF DropCounted
  <2>2. Written(row[d].count, call[c].count, AtLeastZero(call[c].count - 1)) \in Nat
    BY <1>1, <1>2 DEF Written, AtLeastZero, RowRecords
  <2>3. row' \in [Docs -> RowRecords]
    BY <1>1, <1>2, <1>12, <2>2 DEF DropCounted, RowRecords, d
  <2> QED
    BY <1>1, <1>2, <1>3, <1>4, <1>12, <2>1, <2>3, TypeNext DEF DropCounted, history, left
<1>13. CASE CloseVectors(c)
  <2>1. store' \in [Docs -> [Chunks -> Nat]] /\ {unswept', misread'} \subseteq SUBSET Docs
    BY <1>1, <1>13, RecordsTyped DEF CloseVectors
  <2>2. files' \subseteq Docs /\ folder' \in BOOLEAN /\ kept' \subseteq Docs
    BY <1>1, <1>13 DEF CloseVectors
  <2> QED
    BY <1>1, <1>3, <1>13, <2>1, <2>2, TypeNext DEF CloseVectors, counting
<1>14. CASE CloseRows(c)
  <2>1. kb' \in KbRecords /\ row' \in [Docs -> RowRecords]
    BY <1>1, <1>14 DEF CloseRows, KbRecords, RowRecords
  <2> QED
    BY <1>1, <1>3, <1>4, <1>14, <2>1, TypeNext DEF CloseRows, history, left
<1>15. ASSUME CommitsRow(c), ingest' \in [Ingests -> IngestRecords], lost' \subseteq Docs
       PROVE  TypeOK'
  <2>1. row' \in [Docs -> RowRecords]
    BY <1>1, <1>15 DEF CommitsRow, RowRecords
  <2> QED
    BY <1>1, <1>2, <1>3, <1>4, <1>15, <2>1, TypeNext DEF CommitsRow, left, d
<1>16. ASSUME NEW i \in Ingests, SaveRow(c, i) PROVE TypeOK'
  <2>1. ingest' \in [Ingests -> IngestRecords]
    BY <1>2, <1>16, StartsType DEF SaveRow, d
  <2> QED
    BY <1>1, <1>15, <1>16, <2>1 DEF SaveRow
<1>18. CASE SaveUnread(c)
  BY <1>1, <1>2, <1>15, <1>18 DEF SaveUnread, d
<1>17. ASSUME NEW i \in Ingests, RetryStarts(c, i) PROVE TypeOK'
  <2>1. ingest' \in [Ingests -> IngestRecords]
    BY <1>2, <1>17, StartsType DEF RetryStarts, d
  <2>2. Written(row[d].count, call[c].count, 0) \in Nat
    BY <1>1, <1>2 DEF Written, RowRecords
  <2>3. row' \in [Docs -> RowRecords]
    BY <1>1, <1>2, <1>17, <2>2 DEF RetryStarts, RowRecords, d
  <2> QED
    BY <1>1, <1>2, <1>3, <1>4, <1>17, <2>1, <2>3, TypeNext DEF RetryStarts, history, left, d
<1> QED
  BY <1>5, <1>6, <1>7, <1>8, <1>9, <1>10, <1>11, <1>12, <1>13, <1>14, <1>16, <1>17,
     <1>18 DEF Continue, Refusal

LEMMA ProcessType ==
  ASSUME TypeOK, NEW i \in Ingests, Process(i)
  PROVE  TypeOK'
<1> DEFINE d == ingest[i].doc
<1>1. /\ kb \in KbRecords /\ row \in [Docs -> RowRecords]
      /\ folder \in BOOLEAN /\ files \subseteq Docs /\ store \in [Docs -> [Chunks -> Nat]]
      /\ call \in [Callers -> CallRecords] /\ ingest \in [Ingests -> IngestRecords]
      /\ asked' \in 0 .. MaxRequests
      /\ {disturbed, unswept, kept, misread, lost, reworked, uncounted} \subseteq SUBSET Docs
      /\ behind \subseteq Callers \cup Ingests /\ skewed \in BOOLEAN
  BY TypeParts DEF Process
<1>2. d \in Docs /\ ingest[i] \in IngestRecords /\ ingest[i].kb \in Counters
  BY <1>1 DEF IngestRecords
<1>3. ASSUME NEW s \in {"store", "record", "count", "fail"}, Reaches(i, s)
      PROVE  ingest' \in [Ingests -> IngestRecords]
  <2>1. [ingest[i] EXCEPT !.step = s] \in IngestRecords
    BY <1>2, ReachesTyped
  <2> QED
    BY <1>1, <1>3, <2>1 DEF Reaches
<1>4. Overtakes(i) => behind' \subseteq Callers \cup Ingests
  BY OvertakesType
<1>5. NoIngest \in IngestRecords
  BY RecordsTyped
<1> HIDE DEF d
<1>6. CASE Load(i)
  BY <1>1, <1>3, <1>6, TypeNext DEF Load, shared, history, left, counting
<1>7. CASE ReadHashes(i)
  <2>1. PICK seen \in SUBSET Chunks :
          ingest' = [ingest EXCEPT ![i].step = "add", ![i].seen = seen]
    BY <1>7 DEF ReadHashes
  <2>2. [ingest[i] EXCEPT !.step = "add", !.seen = seen] \in IngestRecords
    BY <1>2 DEF IngestRecords
  <2>3. ingest' \in [Ingests -> IngestRecords]
    BY <1>1, <2>1, <2>2
  <2>4. misread' \subseteq Docs
    BY <1>1, <1>2, <1>7 DEF ReadHashes, d
  <2>5. /\ kb' = kb /\ row' = row /\ folder' = folder /\ files' = files /\ store' = store
        /\ call' = call /\ disturbed' = disturbed /\ unswept' = unswept /\ kept' = kept
        /\ lost' = lost /\ reworked' = reworked /\ uncounted' = uncounted
        /\ behind' = behind /\ skewed' = skewed
    BY <1>7 DEF ReadHashes, shared, counting
  <2> QED
    BY <1>1, <2>3, <2>4, <2>5, TypeNext
<1>8. CASE AddVectors(i)
  <2>1. store' \in [Docs -> [Chunks -> Nat]]
    <3> DEFINE New == Range(ChunksOf[d]) \ ingest[i].seen
               Added == [t \in Chunks |-> IF t \in New THEN store[d][t] + 1 ELSE store[d][t]]
    <3>1. Added \in [Chunks -> Nat]
      BY <1>1, <1>2
    <3>2. store' = store \/ store' = [store EXCEPT ![d] = Added]
      BY <1>1, <1>2, <1>8 DEF AddVectors, d
    <3> HIDE DEF Added
    <3> QED
      BY <1>1, <3>1, <3>2
  <2> QED
    BY <1>1, <1>3, <1>8, <2>1, TypeNext DEF AddVectors, history, left, counting
<1>9. CASE Record(i)
  <2>1. row' \in [Docs -> RowRecords]
    <3>1. Len(ChunksOf[d]) \in Nat
      BY <1>2, KnowledgeBaseAssumption
    <3>2. [status |-> "ready", count |-> Len(ChunksOf[d])] \in RowRecords
      BY <3>1 DEF RowRecords
    <3>3. \/ row' = row
          \/ row' = [row EXCEPT ![d] = [status |-> "ready", count |-> Len(ChunksOf[d])]]
      BY <1>9 DEF Record, d
    <3> QED
      BY <1>1, <1>2, <3>2, <3>3
  <2> QED
    BY <1>1, <1>2, <1>3, <1>4, <1>9, <2>1, TypeNext DEF Record, history, left, d
<1>10. CASE CountRows(i)
  <2> DEFINE n == [ingest[i] EXCEPT !.step = "counted", !.kb = AsCounted]
  <2>1. n \in IngestRecords
    BY <1>2, RowsTyped DEF IngestRecords
  <2>2. ingest' = [ingest EXCEPT ![i] = IF kb.exists THEN n ELSE NoIngest]
    BY <1>1, <1>10 DEF CountRows, AsCounted, Total, Counts
  <2> HIDE DEF n
  <2>3. ingest' \in [Ingests -> IngestRecords]
    BY <1>1, <1>5, <2>1, <2>2
  <2> QED
    BY <1>1, <1>10, <2>3, TypeNext DEF CountRows, shared, history, left
<1>11. CASE WriteCounters(i)
  <2>1. kb' \in KbRecords
    BY <1>1, <1>2, <1>11 DEF WriteCounters, KbRecords, Counters
  <2>2. skewed' \in BOOLEAN /\ uncounted' \in SUBSET Docs
    BY <1>1, <1>11 DEF WriteCounters
  <2> QED
    BY <1>1, <1>4, <1>5, <1>11, <2>1, <2>2, TypeNext DEF WriteCounters, history, left
<1>12. CASE FailIngest(i)
  <2>1. row' \in [Docs -> RowRecords]
    BY <1>1, <1>2, <1>12 DEF FailIngest, RowRecords, d
  <2>2. lost' \subseteq Docs
    BY <1>1, <1>2, <1>12 DEF FailIngest, d
  <2> QED
    BY <1>1, <1>5, <1>12, <2>1, <2>2, TypeNext DEF FailIngest, left, counting
<1>13. CASE CountFails(i)
  <2>1. disturbed' \subseteq Docs
    BY <1>1, <1>2, <1>13 DEF CountFails, d
  <2> QED
    BY <1>1, <1>3, <1>13, <2>1, TypeNext DEF CountFails, shared, left
<1> QED
  BY <1>6, <1>7, <1>8, <1>9, <1>10, <1>11, <1>12, <1>13 DEF Process

LEMMA CrashType ==
  ASSUME TypeOK, Crash
  PROVE  TypeOK'
<1>1. call' \in [Callers -> CallRecords] /\ ingest' \in [Ingests -> IngestRecords]
  BY RecordsTyped DEF Crash
<1> QED
  BY <1>1, TypeParts, TypeNext DEF Crash, shared, left
-----------------------------------------------------------------------------
(* The counters.                                                           *)

LEMMA TableKept ==
  ASSUME TypeOK, TypeOK', kb' = kb, Rows' = Rows, Counts' = Counts
  PROVE  /\ Stored' = Stored /\ AsCounted' = AsCounted
         /\ \A d \in Docs : /\ row'[d].count = row[d].count
                            /\ Standing(row'[d]) <=> Standing(row[d])
<1>1. Stored' = Stored /\ AsCounted' = AsCounted
  BY DEF Stored, AsCounted, Total
<1>2. ASSUME NEW d \in Docs
      PROVE  row'[d].count = row[d].count /\ (Standing(row'[d]) <=> Standing(row[d]))
  <2>1. Counts[d] = row[d].count /\ Counts'[d] = row'[d].count
    BY DEF Counts
  <2>2. (d \in Rows <=> Standing(row[d])) /\ (d \in Rows' <=> Standing(row'[d]))
    BY DEF Rows, Standing
  <2> QED
    BY <2>1, <2>2
<1> QED
  BY <1>1, <1>2

\* Rows and counters are left alone; some request or ingest goes on.
LEMMA CountersKept ==
  ASSUME TypeOK, TypeOK', CountersSound, kb' = kb, Rows' = Rows, Counts' = Counts,
         uncounted' = uncounted, skewed' = skewed,
         \A c \in Callers :
           \/ call'[c] = call[c] /\ (c \in behind => c \in behind')
           \/ /\ c \in behind' \/ ReadSound(call'[c], Stored, row[call'[c].doc])
              /\ LoadedSound(call'[c]),
         \A i \in Ingests :
           \/ ingest'[i] = ingest[i] /\ (i \in behind => i \in behind')
           \/ ingest'[i].step # "counted" \/ ingest'[i].kb = AsCounted
  PROVE  CountersSound'
<1>1. /\ Stored' = Stored /\ AsCounted' = AsCounted
      /\ \A d \in Docs : /\ row'[d].count = row[d].count
                         /\ Standing(row'[d]) <=> Standing(row[d])
  BY TableKept
<1>2. \A c \in Callers : call'[c].doc \in Docs
  BY DEF TypeOK
<1>3. ASSUME NEW c \in Callers
      PROVE  LoadedSound(call'[c])
  BY DEF CountersSound
<1>4. ASSUME NEW c \in Callers, c \notin behind'
      PROVE  ReadSound(call'[c], Stored', row'[call'[c].doc])
  <2>1. ReadSound(call'[c], Stored, row[call'[c].doc])
    BY <1>4 DEF CountersSound
  <2> QED
    BY <1>1, <1>2, <2>1 DEF ReadSound
<1>5. ASSUME NEW i \in Ingests, i \notin behind', ingest'[i].step = "counted"
      PROVE  ingest'[i].kb = AsCounted'
  BY <1>1, <1>5 DEF CountersSound
<1> QED
  BY <1>1, <1>3, <1>4, <1>5 DEF CountersSound

\* A commit overtakes every reading.
LEMMA CountersCommitted ==
  ASSUME TypeOK, TypeOK', CountersSound, NEW p, Overtakes(p),
         \A c \in Callers : \/ c # p /\ call'[c] = call[c]
                            \/ call'[c].step = "none",
         \A i \in Ingests : \/ i # p /\ ingest'[i] = ingest[i]
                            \/ ingest'[i].step # "counted",
         kb'.exists /\ ~skewed' /\ uncounted' = {} => Stored' = AsCounted'
  PROVE  CountersSound'
<1>1. ASSUME NEW c \in Callers
      PROVE  LoadedSound(call'[c])
  BY DEF CountersSound, LoadedSound
<1>2. ASSUME NEW c \in Callers, c \notin behind'
      PROVE  ReadSound(call'[c], Stored', row'[call'[c].doc])
  <2>1. call'[c].step = "none"
    BY <1>2 DEF Overtakes
  <2> QED
    BY <2>1 DEF ReadSound
<1>3. ASSUME NEW i \in Ingests, i \notin behind', ingest'[i].step = "counted"
      PROVE  ingest'[i].kb = AsCounted'
  BY <1>3 DEF Overtakes
<1> QED
  BY <1>1, <1>2, <1>3 DEF CountersSound
LEMMA TakesUpCounters ==
  ASSUME TypeOK, CountersSound, NEW c \in Callers, NEW D \in SUBSET Docs, NEW r,
         TakesUp(c, D, r), ReadSound(r, Stored, row[r.doc]), LoadedSound(r)
  PROVE  TypeOK' /\ CountersSound'
<1>1. TypeOK'
  BY TakesUpType
<1>2. /\ kb' = kb /\ row' = row /\ uncounted' = uncounted /\ skewed' = skewed
      /\ behind' = behind /\ ingest' = ingest
  BY DEF TakesUp, Takes, counting
<1>3. Rows' = Rows /\ Counts' = Counts
  BY <1>2 DEF Rows, Counts
<1>4. \A o \in Callers : call'[o] = IF o = c THEN r ELSE call[o]
  BY TypeParts DEF TakesUp, Takes
<1> QED
  BY <1>1, <1>2, <1>3, <1>4, CountersKept

LEMMA RequestCounters ==
  ASSUME TypeOK, CountersSound, NEW c \in Callers, Request(c)
  PROVE  TypeOK' /\ CountersSound'
<1>1. CASE TakesUp(c, Docs, Closes)
  <2>1. ReadSound(Closes, Stored, row[Closes.doc]) /\ LoadedSound(Closes)
    BY ClosesTyped DEF ReadSound, LoadedSound
  <2> QED
    BY <1>1, <2>1, TakesUpCounters
<1>2. ASSUME NEW d \in Docs, TakesUp(c, {d}, For(d, "upload"))
      PROVE  TypeOK' /\ CountersSound'
  <2>1. ReadSound(For(d, "upload"), Stored, row[d]) /\ LoadedSound(For(d, "upload"))
        /\ For(d, "upload").doc = d
    BY ReadingTyped DEF ReadSound, LoadedSound
  <2> QED
    BY <1>2, <2>1, TakesUpCounters
<1>3. ASSUME NEW d \in Docs, NEW s \in {"delete", "retry", "drop"}
      PROVE  /\ ReadSound(Reading(d, s), Stored, row[d]) /\ Reading(d, s).doc = d
             /\ (s = "delete" /\ d \in Rows) \/ s # "delete" => LoadedSound(Reading(d, s))
  BY ReadingTyped DEF ReadSound, LoadedSound, Standing, Rows
<1>4. ASSUME NEW d \in Docs,
             \/ TakesUp(c, {d}, Reading(d, "delete")) /\ d \in Rows
             \/ TakesUp(c, {d}, Reading(d, "retry"))
      PROVE  TypeOK' /\ CountersSound'
  BY <1>3, <1>4, TakesUpCounters
<1>5. ASSUME NEW d \in Docs, NEW t \in Chunks, TakesUp(c, {d}, Texted(For(d, "edit"), t))
      PROVE  TypeOK' /\ CountersSound'
  <2> DEFINE r == Texted(For(d, "edit"), t)
  <2>1. r.step = "edit"
    BY ReadingTyped, TextedTyped
  <2>2. ReadSound(r, Stored, row[r.doc]) /\ LoadedSound(r)
    BY <2>1 DEF ReadSound, LoadedSound
  <2> QED
    BY <1>5, <2>2, TakesUpCounters
<1>6. ASSUME NEW d \in Docs, NEW t \in Chunks, TakesUp(c, {d}, Texted(Reading(d, "drop"), t))
      PROVE  TypeOK' /\ CountersSound'
  <2> DEFINE q == Reading(d, "drop")
             r == Texted(q, t)
  <2>1. /\ q \in CallRecords /\ ReadSound(q, Stored, row[d]) /\ q.step = "drop" /\ q.doc = d
    BY <1>3, ReadingTyped
  <2>2. /\ r.step = "drop" /\ r.doc = d /\ r.count = q.count /\ r.kb = q.kb /\ r.loaded = q.loaded
    <3> HIDE DEF q
    <3> QED BY <2>1, TextedTyped
  <2> HIDE DEF q, r
  <2>3. ReadSound(r, Stored, row[r.doc]) /\ LoadedSound(r)
    BY <2>1, <2>2 DEF ReadSound, LoadedSound
  <2>4. TakesUp(c, {d}, r)
    BY <1>6 DEF q, r
  <2> QED
    BY <2>3, <2>4, TakesUpCounters
<1> QED
  BY <1>1, <1>2, <1>4, <1>5, <1>6, RequestIs

LEMMA LessIs ==
  ASSUME TypeOK, NEW c \in Callers, NEW n \in Nat, NEW m \in Nat,
         kb.exists, call[c].kb = Stored
  PROVE  /\ Less(c, n, m).docs = AtLeastZero(kb.docs - n)
         /\ Less(c, n, m).chunks = AtLeastZero(kb.chunks - m)
BY DEF TypeOK, Less, Stored, Written

LEMMA DeleteRowCounters ==
  ASSUME TypeOK, TypeOK', CountersSound, NEW c \in Callers, DeleteRow(c),
         kb'.exists, ~skewed', uncounted' = {}
  PROVE  Stored' = AsCounted'
<1> DEFINE d == call[c].doc
<1>1. /\ call[c].step = "deleted" /\ kb' = Less(c, 1, call[c].count)
      /\ c \notin behind /\ ~skewed /\ uncounted = {}
      /\ row' = [row EXCEPT ![d] = [status |-> "deleted", count |-> 0]]
  BY DEF DeleteRow
<1>2. kb.exists /\ d \in Docs /\ call[c].count \in Nat
  BY <1>1, TypeParts DEF Less, CallRecords
<1>3. Stored = AsCounted
  BY <1>1, <1>2 DEF CountersSound
<1>4. call[c].kb = Stored /\ call[c].count = row[d].count /\ d \in Rows
  BY <1>1, <1>2 DEF CountersSound, ReadSound, LoadedSound, Standing, Rows
<1> HIDE DEF d
<1>5. Rows' = Rows \ {d}
  BY <1>1, <1>2 DEF Rows, TypeOK
<1>6. \A x \in Rows \ {d} : Counts'[x] = Counts[x]
  BY <1>1, <1>2, RowsTyped DEF Counts, TypeOK
<1>7. IsFiniteSet(Rows) /\ IsFiniteSet(Rows \ {d}) /\ \A x \in Rows : Counts[x] \in Nat
  BY RowsTyped, FS_RemoveElement
<1>8. Total = row[d].count + Total' /\ Total' \in Nat
  <2>1. Total = Counts[d] + SumOver(Counts, Rows \ {d}) /\ Counts[d] = row[d].count
    BY <1>2, <1>4, <1>7, SumOverMember DEF Total, Counts
  <2>2. SumOver(Counts, Rows \ {d}) = Total'
    BY <1>5, <1>6, <1>7, SumOverSame DEF Total
  <2>3. SumOver(Counts, Rows \ {d}) \in Nat
    BY <1>7, SumOverNat
  <2> QED
    BY <2>1, <2>2, <2>3
<1>9. Cardinality(Rows') = Cardinality(Rows) - 1 /\ Cardinality(Rows') \in Nat
      /\ Cardinality(Rows) \in Nat
  BY <1>4, <1>5, <1>7, FS_RemoveElement, FS_CardinalityType
<1>10. kb.docs = Cardinality(Rows) /\ kb.chunks = Total
  BY <1>3 DEF Stored, AsCounted
<1>11. kb'.docs = AtLeastZero(kb.docs - 1) /\ kb'.chunks = AtLeastZero(kb.chunks - call[c].count)
  BY <1>1, <1>2, <1>4, LessIs
<1>12. row[d].count \in Nat
  BY <1>2, <1>4
<1>13. kb'.docs = Cardinality(Rows')
  BY <1>9, <1>10, <1>11 DEF AtLeastZero
<1>14. kb'.chunks = Total'
  BY <1>4, <1>8, <1>10, <1>11, <1>12 DEF AtLeastZero
<1> QED
  BY <1>13, <1>14 DEF Stored, AsCounted

LEMMA DropCountedCounters ==
  ASSUME TypeOK, TypeOK', CountersSound, NEW c \in Callers, DropCounted(c),
         kb'.exists, ~skewed', uncounted' = {}
  PROVE  Stored' = AsCounted'
<1> DEFINE d == call[c].doc
           n == call[c].count
<1>1. /\ call[c].step = "dropped" /\ kb' = Less(c, 0, 1)
      /\ c \notin behind /\ ~skewed /\ uncounted = {} /\ d \in Rows /\ n # 0
      /\ row' = [row EXCEPT ![d].count = Written(row[d].count, n, AtLeastZero(n - 1))]
  BY TypeParts DEF DropCounted
<1>2. kb.exists /\ d \in Docs /\ n \in Nat
  BY <1>1, TypeParts DEF Less, CallRecords
<1>3. Stored = AsCounted
  BY <1>1, <1>2 DEF CountersSound
<1>4. call[c].kb = Stored /\ n = row[d].count /\ d \in Rows
  BY <1>1, <1>2 DEF CountersSound, ReadSound
<1> HIDE DEF d, n
<1>5. row'[d].count = n - 1 /\ \A x \in Docs \ {d} : row'[x] = row[x]
  <2>1. Written(row[d].count, n, AtLeastZero(n - 1)) = n - 1
    BY <1>1, <1>2, <1>4 DEF Written, AtLeastZero
  <2> QED
    BY <1>1, <1>2, <2>1 DEF TypeOK
<1>6. Rows' = Rows
  BY <1>1, <1>2 DEF Rows, TypeOK
<1>7. IsFiniteSet(Rows) /\ \A x \in Rows : Counts[x] \in Nat /\ Counts'[x] \in Nat
  <2>1. Counts' \in [Docs -> Nat]
    BY DEF TypeOK, Counts
  <2> QED
    BY <2>1, RowsTyped
<1>8. Total' = Total - 1 /\ Total \in Nat /\ Total >= 1
  <2>1. Counts[d] = n /\ Counts'[d] = n - 1 /\ \A x \in Rows \ {d} : Counts[x] = Counts'[x]
    BY <1>2, <1>4, <1>5, RowsTyped DEF Counts
  <2>2. Total' = Total - n + (n - 1)
    <3>1. \A x \in Rows : Counts[x] \in Int /\ Counts'[x] \in Int
      BY <1>7
    <3>2. SumOver(Counts', Rows) = SumOver(Counts, Rows) - Counts[d] + Counts'[d]
      BY <1>4, <1>7, <2>1, <3>1, SumOverChange
    <3> QED
      BY <1>6, <2>1, <3>2 DEF Total
  <2>3. Total \in Nat /\ n <= Total
    BY <1>4, <1>7, <2>1, SumOverNat DEF Total
  <2> QED
    BY <1>1, <1>2, <2>2, <2>3
<1>9. kb.docs = Cardinality(Rows) /\ kb.chunks = Total /\ Cardinality(Rows) \in Nat
  BY <1>3, RowsTyped DEF Stored, AsCounted
<1>10. kb'.docs = AtLeastZero(kb.docs - 0) /\ kb'.chunks = AtLeastZero(kb.chunks - 1)
  BY <1>1, <1>2, <1>4, LessIs
<1>11. kb'.docs = Cardinality(Rows') /\ kb'.chunks = Total'
  BY <1>6, <1>8, <1>9, <1>10 DEF AtLeastZero
<1> QED
  BY <1>11 DEF Stored, AsCounted
\* A request that ends without a commit, or goes on to its next step.
LEMMA CountersGoOn ==
  ASSUME TypeOK, TypeOK', CountersSound, NEW c \in Callers,
         kb' = kb, row' = row, uncounted' = uncounted, skewed' = skewed, ingest' = ingest,
         \/ Ends(c) /\ behind' = behind \ {c}
         \/ \E s \in {"deleted", "save", "cleaned", "dropped", "closed"} :
              /\ Moves(c, s) /\ behind' = behind
              /\ s = "deleted" => call[c].step = "delete"
              /\ s = "cleaned" => call[c].step = "retry"
              /\ s = "dropped" => call[c].step = "drop"
  PROVE  CountersSound'
<1>1. Rows' = Rows /\ Counts' = Counts
  BY DEF Rows, Counts
<1>2. call \in [Callers -> CallRecords]
  BY TypeParts
<1>3. CASE Ends(c) /\ behind' = behind \ {c}
  <2>1. \A o \in Callers : call'[o] = IF o = c THEN NoCall ELSE call[o]
    BY <1>2, <1>3 DEF Ends
  <2>2. ReadSound(NoCall, Stored, row[NoCall.doc]) /\ LoadedSound(NoCall)
    BY RecordsTyped DEF ReadSound, LoadedSound
  <2>3. \A o \in Callers : o # c /\ o \in behind => o \in behind'
    BY <1>3
  <2>4. \A i \in Ingests : i \in behind => i \in behind'
    BY <1>3, KnowledgeBaseAssumption
  <2> QED
    BY <1>1, <2>1, <2>2, <2>3, <2>4, CountersKept
<1>4. CASE \E s \in {"deleted", "save", "cleaned", "dropped", "closed"} :
             /\ Moves(c, s) /\ behind' = behind
             /\ s = "deleted" => call[c].step = "delete"
             /\ s = "cleaned" => call[c].step = "retry"
             /\ s = "dropped" => call[c].step = "drop"
  <2>1. PICK s \in {"deleted", "save", "cleaned", "dropped", "closed"} :
             /\ Moves(c, s) /\ behind' = behind
             /\ s = "deleted" => call[c].step = "delete"
             /\ s = "cleaned" => call[c].step = "retry"
             /\ s = "dropped" => call[c].step = "drop"
    BY <1>4
  <2> DEFINE r == call[c]
             n == [r EXCEPT !.step = s]
  <2>2. r \in CallRecords
    BY <1>2
  <2>3. \A o \in Callers : call'[o] = IF o = c THEN n ELSE call[o]
    BY <1>2, <2>1 DEF Moves
  <2>4. n.step = s /\ n.doc = r.doc /\ n.count = r.count /\ n.kb = r.kb /\ n.loaded = r.loaded
    <3> HIDE DEF r
    <3> QED BY <2>2, MovesTyped
  <2>5. c \in behind' \/ ReadSound(n, Stored, row[n.doc])
    <3>1. c \in behind \/ ReadSound(r, Stored, row[r.doc])
      BY DEF CountersSound
    <3>2. n.step \in {"deleted", "cleaned", "dropped"} =>
            r.step \in {"delete", "retry", "drop"}
      BY <2>1, <2>4
    <3> HIDE DEF r, n
    <3> QED
      BY <2>1, <2>4, <3>1, <3>2 DEF ReadSound
  <2>6. LoadedSound(n)
    <3>1. LoadedSound(r) /\ (n.step \in {"delete", "deleted"} => r.step = "delete")
      BY <2>1, <2>4 DEF CountersSound
    <3> HIDE DEF r, n
    <3> QED
      BY <2>4, <3>1 DEF LoadedSound
  <2> HIDE DEF n
  <2> QED
    BY <1>1, <2>1, <2>3, <2>5, <2>6, CountersKept
<1> QED
  BY <1>3, <1>4

LEMMA ContinueCounters ==
  ASSUME TypeOK, CountersSound, NEW c \in Callers, Continue(c)
  PROVE  TypeOK' /\ CountersSound'
<1> DEFINE d == call[c].doc
<1>1. TypeOK' /\ call \in [Callers -> CallRecords] /\ c \notin Ingests
  BY ContinueType, TypeParts, KnowledgeBaseAssumption
<1>2. CASE Refusal(c)
  <2>1. Refused(c)
    BY <1>2, RefusalIs
  <2> QED
    BY <1>1, <2>1, CountersGoOn DEF Refused, shared
<1>3. CASE SaveFile(c) \/ DeleteVectors(c) \/ RetryCleans(c) \/ CloseVectors(c)
  <2>1. /\ kb' = kb /\ row' = row /\ uncounted' = uncounted /\ skewed' = skewed
        /\ ingest' = ingest /\ behind' = behind
    BY <1>3 DEF SaveFile, DeleteVectors, RetryCleans, CloseVectors, counting
  <2>2. \E s \in {"deleted", "save", "cleaned", "dropped", "closed"} :
          /\ Moves(c, s)
          /\ s = "deleted" => call[c].step = "delete"
          /\ s = "cleaned" => call[c].step = "retry"
          /\ s = "dropped" => call[c].step = "drop"
    BY <1>3 DEF SaveFile, DeleteVectors, RetryCleans, CloseVectors
  <2> QED
    BY <1>1, <2>1, <2>2, CountersGoOn
<1>4. CASE EditVector(c)
  BY <1>1, <1>4, CountersGoOn DEF EditVector
<1>5. CASE DropVector(c)
  <2>1. /\ kb' = kb /\ row' = row /\ uncounted' = uncounted /\ skewed' = skewed
        /\ ingest' = ingest /\ call[c].step = "drop"
        /\ \/ Moves(c, "dropped") /\ behind' = behind
           \/ Ends(c) /\ behind' = behind \ {c}
    BY <1>5 DEF DropVector
  <2> QED
    BY <1>1, <2>1, CountersGoOn
<1>6. ASSUME Ends(c), Overtakes(c), \A i \in Ingests : ingest'[i] = ingest[i] \/ ingest'[i].step = "load",
             kb'.exists /\ ~skewed' /\ uncounted' = {} => Stored' = AsCounted'
      PROVE  CountersSound'
  <2>1. \A o \in Callers : call'[o] = IF o = c THEN NoCall ELSE call[o]
    BY <1>1, <1>6 DEF Ends
  <2>2. NoCall.step = "none"
    BY RecordsTyped
  <2> QED
    BY <1>1, <1>6, <2>1, <2>2, CountersCommitted
<1>7. CASE DeleteRow(c)
  BY <1>1, <1>6, <1>7, DeleteRowCounters DEF DeleteRow
<1>8. CASE DropCounted(c)
  BY <1>1, <1>6, <1>8, DropCountedCounters DEF DropCounted
<1>9. CASE CloseRows(c)
  BY <1>1, <1>6, <1>9 DEF CloseRows
<1>10. ASSUME NEW i \in Ingests, Starts(i, d)
       PROVE  \A o \in Ingests : ingest'[o] = ingest[o] \/ ingest'[o].step = "load"
  <2>1. ingest \in [Ingests -> IngestRecords]
    BY TypeParts
  <2>2. [NoIngest EXCEPT !.step = "load", !.doc = d].step = "load"
    BY RecordsTyped DEF IngestRecords
  <2> QED
    BY <1>10, <2>1, <2>2 DEF Starts
<1>11. ASSUME NEW i \in Ingests, SaveRow(c, i) PROVE CountersSound'
  <2>1. uncounted' # {} /\ Ends(c) /\ Overtakes(c) /\ Starts(i, d)
    BY <1>11 DEF SaveRow, CommitsRow
  <2> QED
    BY <1>1, <1>6, <1>10, <2>1
<1>13. CASE SaveUnread(c)
  <2>1. uncounted' # {} /\ Ends(c) /\ Overtakes(c) /\ ingest' = ingest
    BY <1>13 DEF SaveUnread, CommitsRow
  <2> QED
    BY <1>1, <1>6, <2>1
<1>12. ASSUME NEW i \in Ingests, RetryStarts(c, i) PROVE CountersSound'
  <2>1. uncounted' # {}
    BY <1>12 DEF RetryStarts
  <2> QED
    BY <1>1, <1>6, <1>10, <1>12, <2>1 DEF RetryStarts
<1> QED
  BY <1>1, <1>2, <1>3, <1>4, <1>5, <1>7, <1>8, <1>9, <1>11, <1>12, <1>13 DEF Continue, Refusal

LEMMA ProcessCounters ==
  ASSUME TypeOK, CountersSound, NEW i \in Ingests, Process(i)
  PROVE  TypeOK' /\ CountersSound'
<1> DEFINE d == ingest[i].doc
<1>1. /\ TypeOK' /\ ingest \in [Ingests -> IngestRecords] /\ i \notin Callers
      /\ d \in Docs /\ NoIngest.step = "none" /\ call' = call
  <2>1. call' = call
    BY DEF Process, Load, ReadHashes, AddVectors, Record, CountRows, WriteCounters, CountFails,
           FailIngest
  <2>2. ingest \in [Ingests -> IngestRecords] /\ NoIngest.step = "none" /\ i \notin Callers
    BY TypeParts, RecordsTyped, KnowledgeBaseAssumption
  <2>3. d \in Docs
    BY <2>2 DEF IngestRecords
  <2> QED
    BY <2>1, <2>2, <2>3, ProcessType
<1>2. ASSUME NEW s \in {"store", "record", "count", "fail"}, Reaches(i, s)
      PROVE  \A o \in Ingests : (o # i /\ ingest'[o] = ingest[o]) \/ ingest'[o].step # "counted"
  BY <1>1, <1>2 DEF Reaches, IngestRecords
<1>3. CASE Load(i)
  <2>1. Rows' = Rows /\ Counts' = Counts
    BY <1>3 DEF Load, shared, Rows, Counts
  <2> QED
    BY <1>1, <1>2, <1>3, <2>1, CountersKept DEF Load, shared, counting
<1>4. CASE ReadHashes(i)
  <2>1. Rows' = Rows /\ Counts' = Counts
    BY <1>4 DEF ReadHashes, shared, Rows, Counts
  <2>2. \A o \in Ingests : (o # i /\ ingest'[o] = ingest[o]) \/ ingest'[o].step # "counted"
    <3>1. PICK seen : ingest' = [ingest EXCEPT ![i].step = "add", ![i].seen = seen]
      BY <1>4 DEF ReadHashes
    <3> QED
      BY <1>1, <3>1 DEF IngestRecords
  <2> QED
    BY <1>1, <1>4, <2>1, <2>2, CountersKept DEF ReadHashes, shared, counting
<1>5. CASE AddVectors(i)
  <2>1. Rows' = Rows /\ Counts' = Counts
    BY <1>5 DEF AddVectors, Rows, Counts
  <2> QED
    BY <1>1, <1>2, <1>5, <2>1, CountersKept DEF AddVectors, counting
<1>6. CASE Record(i)
  <2>1. CASE uncounted' = uncounted \cup {d} /\ Reaches(i, "count") /\ Overtakes(i)
    BY <1>1, <1>2, <2>1, CountersCommitted
  <2>2. CASE UNCHANGED <<row, uncounted, behind>> /\ \E s \in {"count", "fail"} : Reaches(i, s)
    <3>1. /\ kb' = kb /\ row' = row /\ uncounted' = uncounted /\ skewed' = skewed
          /\ behind' = behind /\ \E s \in {"count", "fail"} : Reaches(i, s)
      BY <1>6, <2>2 DEF Record
    <3>2. Rows' = Rows /\ Counts' = Counts
      BY <3>1 DEF Rows, Counts
    <3> QED
      BY <1>1, <1>2, <3>1, <3>2, CountersKept
  <2> QED
    BY <1>6, <2>1, <2>2 DEF Record
<1>7. CASE CountRows(i)
  <2>1. Rows' = Rows /\ Counts' = Counts /\ kb' = kb /\ behind' = behind \ {i}
        /\ uncounted' = uncounted /\ skewed' = skewed
    BY <1>7 DEF CountRows, shared, Rows, Counts
  <2>2. ingest' = [ingest EXCEPT ![i] =
                     IF kb.exists THEN [ingest[i] EXCEPT !.step = "counted", !.kb = AsCounted]
                     ELSE NoIngest]
    BY <1>1, <1>7 DEF CountRows, AsCounted, Total, Counts
  <2>3. ingest'[i].kb = AsCounted \/ ingest'[i].step # "counted"
    BY <1>1, <2>2 DEF IngestRecords
  <2>4. \A o \in Ingests : o # i => ingest'[o] = ingest[o] /\ (o \in behind => o \in behind')
    BY <1>1, <2>1, <2>2
  <2>5. \A o \in Callers : o \in behind => o \in behind'
    BY <1>1, <2>1
  <2> QED
    BY <1>1, <2>1, <2>3, <2>4, <2>5, CountersKept
<1>8. CASE WriteCounters(i)
  <2>1. /\ Overtakes(i) /\ ingest' = [ingest EXCEPT ![i] = NoIngest] /\ row' = row
        /\ skewed' = (i \in behind) /\ ingest[i].step = "counted"
        /\ kb' = IF kb.exists
                 THEN [kb EXCEPT !.docs = ingest[i].kb.docs, !.chunks = ingest[i].kb.chunks]
                 ELSE kb
    BY <1>8 DEF WriteCounters
  <2>2. ASSUME kb'.exists, ~skewed' PROVE Stored' = AsCounted'
    <3>1. ingest[i].kb = AsCounted
      BY <2>1, <2>2 DEF CountersSound
    <3>2. AsCounted' = AsCounted
      BY <2>1 DEF AsCounted, Total, Counts, Rows
    <3>3. AsCounted = [docs |-> AsCounted.docs, chunks |-> AsCounted.chunks]
      BY DEF AsCounted
    <3>4. kb'.docs = AsCounted.docs /\ kb'.chunks = AsCounted.chunks
      BY <2>1, <2>2, <3>1 DEF TypeOK
    <3> QED
      BY <3>2, <3>3, <3>4 DEF Stored
  <2>3. \A o \in Ingests : (o # i /\ ingest'[o] = ingest[o]) \/ ingest'[o].step # "counted"
    BY <1>1, <2>1
  <2> QED
    BY <1>1, <2>1, <2>2, <2>3, CountersCommitted
<1>9. CASE FailIngest(i)
  <2>1. Rows' = Rows /\ Counts' = Counts
    <3>1. CASE row' = row
      BY <3>1 DEF Rows, Counts
    <3>2. CASE d \in Rows /\ row' = [row EXCEPT ![d].status = "failed"]
      <4>1. Rows' = Rows
        BY <1>1, <3>2 DEF Rows, TypeOK
      <4>2. \A x \in Docs : row'[x].count = row[x].count
        BY <1>1, <3>2 DEF TypeOK
      <4> QED
        BY <4>1, <4>2 DEF Counts
    <3> QED
      BY <1>9, <3>1, <3>2 DEF FailIngest
  <2>3. \A o \in Ingests : (o # i /\ ingest'[o] = ingest[o]) \/ ingest'[o].step # "counted"
    BY <1>1, <1>9 DEF FailIngest
  <2> QED
    BY <1>1, <1>9, <2>1, <2>3, CountersKept DEF FailIngest, counting
<1>10. CASE CountFails(i)
  <2>1. /\ kb' = kb /\ row' = row /\ uncounted' = uncounted /\ skewed' = skewed
        /\ behind' = behind \ {i} /\ Reaches(i, "fail")
    BY <1>10 DEF CountFails, shared
  <2>2. Rows' = Rows /\ Counts' = Counts
    BY <2>1 DEF Rows, Counts
  <2>3. \A o \in Ingests : \/ o # i /\ ingest'[o] = ingest[o] /\ (o \in behind => o \in behind')
                          \/ ingest'[o].step # "counted"
    BY <1>2, <2>1
  <2>4. \A o \in Callers : o \in behind => o \in behind'
    BY <1>1, <2>1
  <2> QED
    BY <1>1, <2>1, <2>2, <2>3, <2>4, CountersKept
<1> QED
  BY <1>1, <1>3, <1>4, <1>5, <1>6, <1>7, <1>8, <1>9, <1>10 DEF Process

LEMMA CrashCounters ==
  ASSUME TypeOK, CountersSound, Crash
  PROVE  TypeOK' /\ CountersSound'
<1>1. /\ TypeOK' /\ kb' = kb /\ row' = row /\ uncounted' = uncounted /\ skewed' = skewed
      /\ \A c \in Callers : call'[c].step = "none"
      /\ \A i \in Ingests : ingest'[i].step = "none"
  BY CrashType, RecordsTyped DEF Crash, shared
<1>2. Rows' = Rows /\ Counts' = Counts
  BY <1>1 DEF Rows, Counts
<1>3. \A c \in Callers : ReadSound(call'[c], Stored, row[call'[c].doc]) /\ LoadedSound(call'[c])
  BY <1>1 DEF ReadSound, LoadedSound
<1> QED
  BY <1>1, <1>2, <1>3, CountersKept
-----------------------------------------------------------------------------
(* The vectors of a document.                                              *)

LEMMA ShareSum ==
  ASSUME NEW d \in Docs
  PROVE  SumOver(Share(d), Chunks) <= Len(ChunksOf[d]) /\ Share(d) \in [Chunks -> Nat]
<1> DEFINE s == ChunksOf[d]
<1>1. s \in Seq(Texts) /\ Len(s) \in Nat /\ DOMAIN s = 1 .. Len(s)
  BY KnowledgeBaseAssumption
<1>3. Range(s) = {s[k] : k \in DOMAIN s}
  BY DEF Range
<1>4. Cardinality(Range(s)) <= Len(s)
  <2>1. s \in Surjection(1 .. Len(s), Range(s))
    BY <1>1, <1>3 DEF Surjection
  <2> QED
    BY <1>1, <2>1, FS_SurjCardinalityBound DEF ExistsSurjection
<1>5. Range(s) \subseteq Chunks
  BY <1>1, <1>3 DEF Chunks
<1>6. Chunks \cap Range(s) = Range(s)
  BY <1>5
<1>7. SumOver(Share(d), Chunks) = Cardinality(Range(s))
  <2> DEFINE R == Range(s)
             f == Share(d)
  <2>1. \A t \in Chunks : f[t] = IF t \in R THEN 1 ELSE 0
    BY DEF Share
  <2>2. IsFiniteSet(Chunks)
    BY RecordsTyped
  <2> HIDE DEF R, f
  <2>3. SumOver(f, Chunks) = Cardinality(Chunks \cap R)
    BY <2>1, <2>2, SumOverOnes
  <2> QED
    BY <1>6, <2>3 DEF R, f
<1> QED
  BY <1>4, <1>7 DEF Share

LEMMA VectorsTyped ==
  ASSUME TypeOK, NEW d \in Docs
  PROVE  Vectors(d) \in Nat /\ store[d] \in [Chunks -> Nat]
BY RecordsTyped, SumOverNat DEF TypeOK, Vectors

\* What is stored once is no more than the document was cut into.
LEMMA StoredOnce ==
  ASSUME TypeOK, NEW d \in Docs, Stores(d), Single(d), d \notin misread
  PROVE  Vectors(d) <= Len(ChunksOf[d])
<1>1. store[d] \in [Chunks -> Nat] /\ \A t \in Chunks : Share(d)[t] = IF t \in Range(ChunksOf[d]) THEN 1 ELSE 0
  BY DEF TypeOK, Share
<1>2. \A t \in Chunks : store[d][t] = Share(d)[t]
  BY <1>1 DEF Stores, Single
<1>3. store[d] = Share(d)
  <2>1. store[d] = [t \in Chunks |-> store[d][t]] /\ Share(d) = [t \in Chunks |-> Share(d)[t]]
    BY <1>1 DEF Share
  <2> QED
    BY <1>2, <2>1
<1> QED
  BY <1>3, ShareSum DEF Vectors

\* One vector less.
LEMMA VectorDropped ==
  ASSUME TypeOK, TypeOK', NEW d \in Docs, NEW t \in Chunks,
         store' = [store EXCEPT ![d][t] = @ - 1]
  PROVE  Vectors(d)' = Vectors(d) - 1
<1>1. /\ store[d] \in [Chunks -> Nat] /\ store'[d] \in [Chunks -> Nat]
      /\ store'[d] = [store[d] EXCEPT ![t] = store[d][t] - 1]
  BY DEF TypeOK
<1>2. /\ \A x \in Chunks : store[d][x] \in Int /\ store'[d][x] \in Int
      /\ \A x \in Chunks \ {t} : store[d][x] = store'[d][x]
      /\ store'[d][t] = store[d][t] - 1
  BY <1>1
<1>3. SumOver(store'[d], Chunks) = SumOver(store[d], Chunks) - store[d][t] + store'[d][t]
  <2> DEFINE v == store[d]
             w == store'[d]
  <2>1. \A x \in Chunks : v[x] \in Int /\ w[x] \in Int
    BY <1>2
  <2>2. \A x \in Chunks \ {t} : v[x] = w[x]
    BY <1>2
  <2> HIDE DEF v, w
  <2>3. SumOver(w, Chunks) = SumOver(v, Chunks) - v[t] + w[t]
    BY <2>1, <2>2, RecordsTyped, SumOverChange
  <2> QED
    BY <2>3 DEF v, w
<1>4. SumOver(store[d], Chunks) \in Int
  BY <1>2, RecordsTyped, SumOverInt
<1> QED
  BY <1>2, <1>3, <1>4 DEF Vectors

\* One text in the place of another.
LEMMA VectorEdited ==
  ASSUME TypeOK, TypeOK', NEW c \in Callers, NEW d \in Docs, d = call[c].doc, EditVector(c)
  PROVE  Vectors(d)' = Vectors(d)
<1> DEFINE u == call[c].text
           v == store[d]
           Says == [t \in Chunks |-> IF t = Edited THEN 1 ELSE 0]
           Said == [t \in Chunks |-> IF t = u THEN 1 ELSE 0]
           w == [v EXCEPT ![u] = @ - 1]
           z == [t \in Chunks |-> v[t] + Says[t] - Said[t]]
<1>1. u \in Chunks /\ v \in [Chunks -> Nat] /\ v[u] > 0
  BY TypeParts DEF CallRecords, EditVector
<1>2. Edited \in Chunks /\ IsFiniteSet(Chunks)
  BY RecordsTyped
<1>3. store'[d] = z
  BY <1>1, TypeParts DEF EditVector
<1> HIDE DEF u, v
<1>4. /\ \A x \in Chunks : v[x] \in Int /\ w[x] \in Int /\ z[x] \in Int
      /\ \A x \in Chunks \ {u} : v[x] = w[x]
      /\ \A x \in Chunks \ {Edited} : w[x] = z[x]
      /\ w[u] = v[u] - 1 /\ z[Edited] = w[Edited] + 1
  BY <1>1, <1>2
<1> HIDE DEF w, z
<1>5. SumOver(w, Chunks) = SumOver(v, Chunks) - v[u] + w[u]
  BY <1>1, <1>2, <1>4, SumOverChange
<1>6. SumOver(z, Chunks) = SumOver(w, Chunks) - w[Edited] + z[Edited]
  BY <1>2, <1>4, SumOverChange
<1>7. SumOver(v, Chunks) \in Int /\ SumOver(w, Chunks) \in Int
  BY <1>2, <1>4, SumOverInt
<1>8. SumOver(z, Chunks) = SumOver(v, Chunks)
  BY <1>1, <1>2, <1>4, <1>5, <1>6, <1>7
<1> QED
  BY <1>3, <1>8 DEF Vectors, v
-----------------------------------------------------------------------------
(* One document: who works on it.                                          *)

Engaged(r, d) == r.step \in {"close", "closed"} \/ (r.step # "none" /\ r.doc = d)
Taken(r, d) == r.step \notin {"none", "count", "counted"} /\ r.doc = d

LEMMA WorkersAre ==
  ASSUME NEW d
  PROVE  /\ Requests(d) = {c \in Callers : Engaged(call[c], d)}
         /\ Ingesting(d) = {i \in Ingests : Taken(ingest[i], d)}
         /\ Workers(d) = Requests(d) \cup Ingesting(d)
         /\ ~Worked(d) <=> Workers(d) = {}
         /\ Requests(d)' = {c \in Callers : Engaged(call'[c], d)}
         /\ Ingesting(d)' = {i \in Ingests : Taken(ingest'[i], d)}
         /\ Workers(d)' = Requests(d)' \cup Ingesting(d)'
BY DEF Requests, Calling, Closing, Ingesting, Workers, Worked, Engaged, Taken

\* What is stored of d, and all others have in hand, is as it was.
SameDoc(d) ==
  /\ row'[d] = row[d] /\ store'[d] = store[d]
  /\ d \in files' <=> d \in files
  /\ d \in unswept' <=> d \in unswept
  /\ d \in kept' <=> d \in kept
  /\ d \in misread' <=> d \in misread
  /\ d \in reworked' <=> d \in reworked

LEMMA SameDocHeld ==
  ASSUME NEW d \in Docs, SameDoc(d)
  PROVE  /\ Resting(d)' <=> Resting(d)
         /\ Remains(d)' <=> Remains(d)
         /\ Stores(d)' <=> Stores(d)
         /\ Gone(d)' <=> Gone(d)
         /\ Untouched(d)' <=> Untouched(d)
         /\ Vectors(d)' = Vectors(d)
<1>1. Vectors(d)' = Vectors(d)
  BY DEF SameDoc, Vectors
<1>2. (Stores(d)' <=> Stores(d)) /\ (Single(d)' <=> Single(d)) /\ (InPart(d)' <=> InPart(d))
  BY DEF SameDoc, Stores, Single, InPart
<1>3. Full(d)' <=> Full(d)
  BY <1>1, <1>2 DEF SameDoc, Full, Covered
<1>4. (NoFile(d)' <=> NoFile(d)) /\ (Gone(d)' <=> Gone(d)) /\ (Untouched(d)' <=> Untouched(d))
  BY DEF SameDoc, NoFile, Gone, Untouched
<1>5. Resting(d)' <=> Resting(d)
  BY <1>2, <1>3, <1>4 DEF SameDoc, Resting
<1>6. Remains(d)' <=> Remains(d)
  BY <1>4 DEF SameDoc, Remains
<1> QED
  BY <1>1, <1>2, <1>4, <1>5, <1>6

\* A request that has r in hand holds d as before.
LEMMA SameRequest ==
  ASSUME NEW d \in Docs, SameDoc(d), NEW c \in Callers, NEW r, call'[c] = r, Held(d, r)
  PROVE  Held(d, call[c])'
<1>1. (d \in Rows' <=> d \in Rows) /\ row'[d] = row[d]
  BY DEF SameDoc, Rows
<1>2. (d \in misread' <=> d \in misread) /\ (d \in reworked' <=> d \in reworked)
  BY DEF SameDoc
<1> QED
  BY <1>1, <1>2, SameDocHeld DEF Held

LEMMA DocKept ==
  ASSUME NEW d \in Docs, DocSound(d), SameDoc(d),
         \A c \in Callers : \/ call'[c] = call[c]
                            \/ ~Engaged(call[c], d) /\ ~Engaged(call'[c], d),
         \A i \in Ingests : \/ ingest'[i] = ingest[i]
                            \/ ~Taken(ingest[i], d) /\ ~Taken(ingest'[i], d)
  PROVE  DocSound(d)'
<1>1. Requests(d)' = Requests(d) /\ Ingesting(d)' = Ingesting(d) /\ Workers(d)' = Workers(d)
  <2>1. \A c \in Callers : Engaged(call'[c], d) <=> Engaged(call[c], d)
    OBVIOUS
  <2>2. \A i \in Ingests : Taken(ingest'[i], d) <=> Taken(ingest[i], d)
    OBVIOUS
  <2>3. Requests(d)' = Requests(d)
    BY <2>1, WorkersAre
  <2>4. Ingesting(d)' = Ingesting(d)
    BY <2>2, WorkersAre
  <2> QED
    BY <2>3, <2>4, WorkersAre
<1>2. ASSUME NEW c \in Requests(d)' PROVE Held(d, call[c])'
  <2>1. c \in Callers /\ call'[c] = call[c] /\ Held(d, call[c])
    BY <1>1, <1>2, WorkersAre DEF DocSound
  <2> QED
    BY <2>1, SameRequest
<1>3. ASSUME NEW i \in Ingesting(d)' PROVE IngestHeld(d, ingest[i])'
  <2>1. ingest'[i] = ingest[i] /\ IngestHeld(d, ingest[i])
    BY <1>1, <1>3, WorkersAre DEF DocSound
  <2> QED
    BY <2>1, SameDocHeld DEF SameDoc, IngestHeld
<1>4. Workers(d)' = {} => Resting(d)'
  BY <1>1, SameDocHeld DEF DocSound
<1>5. \A v, w \in Workers(d)' : v = w
  BY <1>1 DEF DocSound
<1> QED
  BY <1>2, <1>3, <1>4, <1>5 DEF DocSound

\* The one that worked on d goes on, or ends.
LEMMA OneRequest ==
  ASSUME NEW d \in Docs, NEW c \in Callers, Workers(d) \subseteq {c},
         \A o \in Callers \ {c} : call'[o] = call[o], ingest' = ingest,
         Engaged(call'[c], d) => Held(d, call[c])',
         ~Engaged(call'[c], d) => Resting(d)'
  PROVE  DocSound(d)'
<1>1. c \notin Ingests
  BY KnowledgeBaseAssumption
<1>2. Ingesting(d)' = {} /\ Requests(d)' = IF Engaged(call'[c], d) THEN {c} ELSE {}
  BY <1>1, WorkersAre
<1>3. Workers(d)' = Requests(d)'
  BY <1>2, WorkersAre
<1> QED
  BY <1>2, <1>3 DEF DocSound

LEMMA OneIngest ==
  ASSUME NEW d \in Docs, NEW i \in Ingests, Workers(d) \subseteq {i},
         \A o \in Ingests \ {i} : ingest'[o] = ingest[o], call' = call,
         Taken(ingest'[i], d) => IngestHeld(d, ingest[i])',
         ~Taken(ingest'[i], d) => Resting(d)'
  PROVE  DocSound(d)'
<1>1. i \notin Callers
  BY KnowledgeBaseAssumption
<1>2. Requests(d)' = {} /\ Ingesting(d)' = IF Taken(ingest'[i], d) THEN {i} ELSE {}
  BY <1>1, WorkersAre
<1>3. Workers(d)' = Ingesting(d)'
  BY <1>2, WorkersAre
<1> QED
  BY <1>2, <1>3 DEF DocSound

\* A request hands d over to a background ingest.
LEMMA HandedOver ==
  ASSUME NEW d \in Docs, NEW c \in Callers, NEW i \in Ingests, Workers(d) \subseteq {c},
         \A o \in Callers \ {c} : call'[o] = call[o], ~Engaged(call'[c], d),
         \A o \in Ingests \ {i} : ingest'[o] = ingest[o],
         Taken(ingest'[i], d), IngestHeld(d, ingest[i])'
  PROVE  DocSound(d)'
<1>1. c \notin Ingests
  BY KnowledgeBaseAssumption
<1>2. Requests(d)' = {} /\ Ingesting(d)' = {i}
  BY <1>1, WorkersAre
<1>3. Workers(d)' = Ingesting(d)'
  BY <1>2, WorkersAre
<1> QED
  BY <1>2, <1>3 DEF DocSound
-----------------------------------------------------------------------------
(* One document: what a step does to it.                                   *)

LEMMA TakesUpDoc ==
  ASSUME TypeOK, NEW c \in Callers, NEW D \in SUBSET Docs, NEW r, TakesUp(c, D, r),
         NEW d \in Docs \ disturbed', DocSound(d),
         d \in D /\ Resting(d) => Held(d, r) /\ Engaged(r, d),
         d \notin D => ~Engaged(r, d)
  PROVE  DocSound(d)'
<1>1. /\ call' = [call EXCEPT ![c] = r] /\ call \in [Callers -> CallRecords]
      /\ ingest' = ingest /\ call[c].step = "none" /\ row' = row /\ store' = store
      /\ files' = files /\ left' = left /\ reworked' = reworked
      /\ d \in D => ~Worked(d)
  BY TypeParts DEF TakesUp, Takes
<1>2. SameDoc(d)
  BY <1>1 DEF SameDoc, left
<1>3. CASE d \notin D
  <2>1. ~Engaged(call[c], d)
    BY <1>1 DEF Engaged
  <2> QED
    BY <1>1, <1>2, <1>3, <2>1, DocKept
<1>4. CASE d \in D
  <2>1. Workers(d) = {} /\ Resting(d)
    BY <1>1, <1>4, WorkersAre DEF DocSound
  <2>2. call'[c] = r /\ Engaged(call'[c], d)
    BY <1>1, <1>4, <2>1
  <2>3. Held(d, call[c])'
    BY <1>2, <1>4, <2>1, <2>2, SameRequest
  <2> QED
    BY <1>1, <2>1, <2>2, <2>3, OneRequest
<1> QED
  BY <1>3, <1>4

LEMMA RequestDoc ==
  ASSUME TypeOK, NEW c \in Callers, Request(c), NEW d \in Docs \ disturbed', DocSound(d)
  PROVE  DocSound(d)'
<1>1. CASE TakesUp(c, Docs, Closes)
  <2>1. Resting(d) => Held(d, Closes) /\ Engaged(Closes, d)
    BY ClosesTyped DEF Held, Engaged
  <2> QED
    BY <1>1, <2>1, TakesUpDoc
<1>2. ASSUME NEW e \in Docs, NEW r, r \in CallRecords, r.step \notin {"none", "close", "closed"}, r.doc = e,
             TakesUp(c, {e}, r), d = e /\ Resting(d) => Held(d, r)
      PROVE  DocSound(d)'
  <2>1. Engaged(r, d) <=> d = e
    BY <1>2 DEF Engaged
  <2> QED
    BY <1>2, <2>1, TakesUpDoc
<1>3. ASSUME NEW e \in Docs, TakesUp(c, {e}, For(e, "upload")), row[e].status = "absent"
      PROVE  DocSound(d)'
  <2> DEFINE r == For(e, "upload")
  <2>1. r \in CallRecords /\ r.step = "upload" /\ r.doc = e
    BY ReadingTyped
  <2> HIDE DEF r
  <2>2. d = e /\ Resting(d) => Held(d, r)
    BY <1>3, <2>1 DEF Held
  <2> QED
    BY <1>2, <1>3, <2>1, <2>2 DEF r
<1>4. ASSUME NEW e \in Docs, TakesUp(c, {e}, Reading(e, "delete")), e \in Rows
      PROVE  DocSound(d)'
  <2> DEFINE r == Reading(e, "delete")
  <2>1. r \in CallRecords /\ r.step = "delete" /\ r.doc = e
    BY ReadingTyped
  <2> HIDE DEF r
  <2>2. d = e /\ Resting(d) => Held(d, r)
    BY <1>4, <2>1 DEF Held
  <2> QED
    BY <1>2, <1>4, <2>1, <2>2 DEF r
<1>5. ASSUME NEW e \in Docs, TakesUp(c, {e}, Reading(e, "retry")), row[e].status = "failed"
      PROVE  DocSound(d)'
  <2> DEFINE r == Reading(e, "retry")
  <2>1. r \in CallRecords /\ r.step = "retry" /\ r.doc = e
    BY ReadingTyped
  <2> HIDE DEF r
  <2>2. d = e /\ Resting(d) => Held(d, r)
    BY <1>5, <2>1 DEF Held
  <2> QED
    BY <1>2, <1>5, <2>1, <2>2 DEF r
\* a chunk can be touched of a ready document, or of what remains
<1>6. ASSUME NEW e \in Docs, NEW t \in Chunks, MayTouch(e, t), Resting(e)
      PROVE  row[e].status = "ready" \/ Remains(e)
  <2>1. store[e] # NoVectors
    BY <1>6 DEF MayTouch, NoVectors
  <2>2. row[e].status \in {"absent", "ready", "deleted"}
    BY <1>6 DEF MayTouch, TypeOK
  <2> QED
    BY <1>6, <2>1, <2>2 DEF Resting, Untouched, Gone, Remains
<1>7. ASSUME NEW e \in Docs, NEW t \in Chunks, MayTouch(e, t),
             TakesUp(c, {e}, Texted(For(e, "edit"), t))
      PROVE  DocSound(d)'
  <2> DEFINE r == Texted(For(e, "edit"), t)
  <2>1. r \in CallRecords /\ r.step = "edit" /\ r.doc = e
    BY ReadingTyped, TextedTyped
  <2> HIDE DEF r
  <2>2. d = e /\ Resting(d) => Held(d, r)
    BY <1>6, <1>7, <2>1 DEF Held
  <2> QED
    BY <1>2, <1>7, <2>1, <2>2 DEF r
<1>8. ASSUME NEW e \in Docs, NEW t \in Chunks, MayTouch(e, t),
             TakesUp(c, {e}, Texted(Reading(e, "drop"), t))
      PROVE  DocSound(d)'
  <2> DEFINE q == Reading(e, "drop")
             r == Texted(q, t)
  <2>1. /\ q \in CallRecords /\ q.step = "drop" /\ q.doc = e
        /\ q.count = row[e].count /\ q.loaded = {e} \cap Rows
    BY ReadingTyped
  <2>2. /\ r \in CallRecords /\ r.step = "drop" /\ r.doc = e
        /\ r.count = row[e].count /\ r.loaded = {e} \cap Rows
    <3> HIDE DEF q
    <3> QED BY <2>1, TextedTyped
  <2>3. TakesUp(c, {e}, r)
    BY <1>8
  <2> HIDE DEF q, r
  <2>4. d = e /\ Resting(d) => Held(d, r)
    BY <1>6, <1>8, <2>2 DEF Held
  <2> QED
    BY <1>2, <2>2, <2>3, <2>4
<1> QED
  BY <1>1, <1>3, <1>4, <1>5, <1>7, <1>8, RequestIs
\* What c has in hand next.
LEMMA CallIs ==
  ASSUME TypeOK, NEW c \in Callers
  PROVE  /\ Ends(c) => call'[c] = NoCall /\ \A o \in Callers \ {c} : call'[o] = call[o]
         /\ \A s \in {"deleted", "save", "cleaned", "dropped", "closed"} : Moves(c, s) =>
              /\ call'[c] = [call[c] EXCEPT !.step = s] /\ call'[c].step = s
              /\ call'[c].doc = call[c].doc /\ call'[c].count = call[c].count
              /\ call'[c].loaded = call[c].loaded
              /\ \A o \in Callers \ {c} : call'[o] = call[o]
<1>1. call \in [Callers -> CallRecords] /\ call[c] \in CallRecords
  BY TypeParts
<1>2. ASSUME NEW s \in {"deleted", "save", "cleaned", "dropped", "closed"}, Moves(c, s)
      PROVE  /\ call'[c] = [call[c] EXCEPT !.step = s]
             /\ \A o \in Callers \ {c} : call'[o] = call[o]
  BY <1>1, <1>2 DEF Moves
<1>3. ASSUME NEW s \in {"deleted", "save", "cleaned", "dropped", "closed"}, Moves(c, s)
      PROVE  /\ call'[c].step = s /\ call'[c].doc = call[c].doc
             /\ call'[c].count = call[c].count /\ call'[c].loaded = call[c].loaded
  <2> DEFINE r == call[c]
             q == [r EXCEPT !.step = s]
  <2>1. q.step = s /\ q.doc = r.doc /\ q.count = r.count /\ q.loaded = r.loaded
    BY <1>1, MovesTyped
  <2>2. call'[c] = q
    BY <1>2, <1>3
  <2> HIDE DEF q
  <2> QED
    BY <2>1, <2>2
<1>4. Ends(c) => call'[c] = NoCall /\ \A o \in Callers \ {c} : call'[o] = call[o]
  BY <1>1 DEF Ends
<1> QED
  BY <1>2, <1>3, <1>4

\* A document c has nothing to do with.
LEMMA OtherDoc ==
  ASSUME TypeOK, NEW c \in Callers, Continue(c), NEW d \in Docs, DocSound(d),
         call[c].doc # d, call[c].step \notin {"close", "closed"}
  PROVE  DocSound(d)'
<1>1. /\ row \in [Docs -> RowRecords] /\ store \in [Docs -> [Chunks -> Nat]]
      /\ call \in [Callers -> CallRecords] /\ ingest \in [Ingests -> IngestRecords]
      /\ call[c].doc \in Docs /\ call[c].step # "none"
  BY TypeParts
     DEF CallRecords, Continue, UploadLost, SaveFile, UploadOrphaned, DeleteVectors,
         DeleteRow, RetryCleans, RetryLost, EditVector, DropVector, ChunkLost, DropCounted,
         DropLost, CloseVectors, CloseRows, CloseBlocked, SaveRow, SaveUnread, CommitsRow,
         CommitFails, RetryStarts
<1>2. NoCall.step = "none" /\ ~Engaged(call[c], d) /\ ~Engaged(NoCall, d)
  BY <1>1, RecordsTyped DEF Engaged
<1>3. ASSUME NEW s \in {"deleted", "save", "cleaned", "dropped"}, Moves(c, s)
      PROVE  ~Engaged(call'[c], d) /\ \A o \in Callers \ {c} : call'[o] = call[o]
  BY <1>3, CallIs DEF Engaged
<1>4. ASSUME Ends(c)
      PROVE  ~Engaged(call'[c], d) /\ \A o \in Callers \ {c} : call'[o] = call[o]
  BY <1>2, <1>4, CallIs
<1>5. CASE \E i \in Ingests : SaveRow(c, i) \/ RetryStarts(c, i)
  <2>1. PICK i \in Ingests : SaveRow(c, i) \/ RetryStarts(c, i)
    BY <1>5
  <2>2. Ends(c) /\ Starts(i, call[c].doc) /\ SameDoc(d)
    BY <1>1, <2>1 DEF SaveRow, CommitsRow, RetryStarts, SameDoc, history, left
  <2>3. /\ \A o \in Ingests \ {i} : ingest'[o] = ingest[o]
        /\ ingest[i].step = "none"
        /\ ingest'[i] = [NoIngest EXCEPT !.step = "load", !.doc = call[c].doc]
    BY <1>1, <2>2 DEF Starts
  <2>4. ~Taken(ingest[i], d) /\ ~Taken(ingest'[i], d)
    BY <1>1, <2>3, RecordsTyped DEF Taken, IngestRecords
  <2> QED
    BY <1>2, <1>4, <2>2, <2>3, <2>4, DocKept
<1>6. CASE /\ SameDoc(d) /\ ingest' = ingest
           /\ Ends(c) \/ \E s \in {"deleted", "save", "cleaned", "dropped"} : Moves(c, s)
  BY <1>2, <1>3, <1>4, <1>6, DocKept
<1>7. CASE Refusal(c)
  <2>1. Refused(c)
    BY <1>7, RefusalIs
  <2> QED
    BY <1>6, <2>1 DEF Refused, SameDoc, shared, left
<1>8. CASE SaveFile(c) \/ SaveUnread(c)
  BY <1>1, <1>6, <1>8 DEF SaveFile, SaveUnread, CommitsRow, SameDoc, history, left
<1>9. CASE DeleteVectors(c)
  <2>1. store'[d] = store[d] /\ (d \in unswept' <=> d \in unswept) /\ (d \in misread' <=> d \in misread)
    BY <1>1, <1>9 DEF DeleteVectors, Sweeps
  <2>2. (d \in files' <=> d \in files) /\ (d \in kept' <=> d \in kept)
    BY <1>1, <1>9 DEF DeleteVectors, Unlinks
  <2> QED
    BY <1>6, <1>9, <2>1, <2>2 DEF DeleteVectors, SameDoc
<1>10. CASE DeleteRow(c)
  BY <1>1, <1>6, <1>10 DEF DeleteRow, SameDoc, history, left
<1>11. CASE RetryCleans(c)
  BY <1>1, <1>6, <1>11 DEF RetryCleans, Sweeps, SameDoc
<1>12. CASE EditVector(c)
  BY <1>1, <1>6, <1>12 DEF EditVector, SameDoc, left
<1>13. CASE DropVector(c)
  BY <1>1, <1>6, <1>13 DEF DropVector, SameDoc, left
<1>14. CASE DropCounted(c)
  BY <1>1, <1>6, <1>14 DEF DropCounted, SameDoc, history, left
<1>15. CASE CloseVectors(c) \/ CloseRows(c)
  BY <1>15 DEF CloseVectors, CloseRows
<1> QED
  BY <1>5, <1>7, <1>8, <1>9, <1>10, <1>11, <1>12, <1>13, <1>14, <1>15 DEF Continue, Refusal

\* A document whose deletion has not begun is as if nobody worked on it.
LEMMA RestsUnless ==
  ASSUME NEW d \in Docs, DocSound(d), \A c \in Callers : d \notin HalfDeleted(c)
  PROVE  Resting(d)
<1>1. CASE Workers(d) = {}
  BY <1>1 DEF DocSound
<1>2. CASE Ingesting(d) # {}
  BY <1>2 DEF DocSound, IngestHeld
<1>3. CASE Requests(d) # {}
  <2>1. PICK c \in Requests(d) : Held(d, call[c])
    BY <1>3 DEF DocSound
  <2>2. c \in Callers /\ Engaged(call[c], d)
    BY <2>1, WorkersAre
  <2>3. call[c].step \notin {"deleted", "closed"}
    BY <2>2 DEF HalfDeleted, Engaged
  <2> QED
    BY <2>1, <2>3 DEF Held
<1> QED
  BY <1>1, <1>2, <1>3 DEF Workers

\* The document c works on.
LEMMA OwnDoc ==
  ASSUME TypeOK, TypeOK', NEW c \in Callers, Continue(c), NEW d \in Docs \ disturbed',
         DocSound(d), d = call[c].doc, call[c].step \notin {"close", "closed"}
  PROVE  DocSound(d)'
<1> DEFINE r == call[c]
           q == call'[c]
<1>1. /\ row \in [Docs -> RowRecords] /\ store \in [Docs -> [Chunks -> Nat]]
      /\ call \in [Callers -> CallRecords] /\ ingest \in [Ingests -> IngestRecords]
      /\ r \in CallRecords /\ r.text \in Chunks /\ r.step # "none" /\ r.count \in Nat
  BY TypeParts
     DEF CallRecords, Continue, UploadLost, SaveFile, UploadOrphaned, DeleteVectors,
         DeleteRow, RetryCleans, RetryLost, EditVector, DropVector, ChunkLost, DropCounted,
         DropLost, CloseVectors, CloseRows, CloseBlocked, SaveRow, SaveUnread, CommitsRow,
         CommitFails, RetryStarts
<1>2. row' \in [Docs -> RowRecords] /\ store' \in [Docs -> [Chunks -> Nat]]
  <2>1. TypeOK' => row' \in [Docs -> RowRecords] /\ store' \in [Docs -> [Chunks -> Nat]]
    BY DEF TypeOK, RowRecords
  <2> QED
    BY <2>1
<1>3. Workers(d) \subseteq {c} /\ Held(d, r)
  <2>1. c \in Requests(d)
    BY <1>1, WorkersAre DEF Engaged
  <2> QED
    BY <2>1 DEF DocSound, Workers
<1>4. ASSUME Ends(c), ingest' = ingest, Resting(d)'
      PROVE  DocSound(d)'
  <2>1. ~Engaged(call'[c], d) /\ \A o \in Callers \ {c} : call'[o] = call[o]
    BY <1>4, CallIs, RecordsTyped DEF Engaged
  <2> QED
    BY <1>3, <1>4, <2>1, OneRequest
<1>5. ASSUME NEW s \in {"deleted", "save", "cleaned", "dropped"}, Moves(c, s), ingest' = ingest,
             Held(d, call[c])'
      PROVE  DocSound(d)'
  <2>1. Engaged(call'[c], d) /\ \A o \in Callers \ {c} : call'[o] = call[o]
    BY <1>5, CallIs DEF Engaged
  <2> QED
    BY <1>3, <1>5, <2>1, OneRequest
<1>6. ASSUME NEW i \in Ingests, Ends(c), Starts(i, d), row'[d].status = "processing",
             Resting(d)'
      PROVE  DocSound(d)'
  <2>1. ~Engaged(call'[c], d) /\ \A o \in Callers \ {c} : call'[o] = call[o]
    BY <1>6, CallIs, RecordsTyped DEF Engaged
  <2>2. /\ \A o \in Ingests \ {i} : ingest'[o] = ingest[o]
        /\ ingest'[i].step = "load" /\ ingest'[i].doc = d
    BY <1>1, <1>6, RecordsTyped DEF Starts, IngestRecords
  <2>3. Taken(ingest'[i], d) /\ IngestHeld(d, ingest[i])'
    <3>1. d \notin reworked'
      BY <1>6 DEF Resting
    <3> QED
      BY <1>6, <2>2, <3>1 DEF Taken, IngestHeld
  <2> QED
    BY <1>3, <2>1, <2>2, <2>3, HandedOver
<1>7. CASE Refusal(c)
  <2>1. Refused(c)
    BY <1>7, RefusalIs
  <2>2. r.step # "deleted"
    BY <2>1 DEF Refused, HalfDeleted
  <2>3. Resting(d)
    BY <1>3, <2>2 DEF Held
  <2>4. SameDoc(d)
    BY <2>1 DEF Refused, SameDoc, shared, left
  <2> QED
    BY <1>4, <2>1, <2>3, <2>4, SameDocHeld DEF Refused
<1>8. CASE SaveFile(c)
  <2>1. /\ Moves(c, "save") /\ ingest' = ingest /\ row' = row /\ store' = store
        /\ reworked' = reworked /\ row[d].status = "absent" /\ Resting(d)
    BY <1>3, <1>8 DEF SaveFile, history, Held
  <2>2. Resting(d)'
    BY <2>1 DEF Resting, Untouched
  <2>3. call'[c].step = "save"
    BY <2>1, CallIs
  <2>4. Held(d, call[c])'
    BY <2>1, <2>2, <2>3 DEF Held
  <2> QED
    BY <1>5, <2>1, <2>4
<1>9. CASE DeleteVectors(c)
  <2>1. Moves(c, "deleted") /\ ingest' = ingest /\ Sweeps(d) /\ Unlinks(d)
    BY <1>9 DEF DeleteVectors
  <2>2. NoFile(d)'
    BY <2>1 DEF Unlinks, NoFile
  <2>3. d \notin unswept' => store'[d] = NoVectors
    BY <1>1, <2>1 DEF Sweeps
  <2>4. Gone(d)'
    BY <2>2, <2>3 DEF Gone, NoVectors
  <2>5. call'[c].step = "deleted"
    BY <2>1, CallIs
  <2>6. Held(d, call[c])'
    BY <2>4, <2>5 DEF Held
  <2> QED
    BY <1>5, <2>1, <2>6
<1>10. CASE DeleteRow(c)
  <2>1. /\ Ends(c) /\ ingest' = ingest /\ row'[d].status = "deleted" /\ r.step = "deleted"
        /\ files' = files /\ store' = store /\ left' = left
    BY <1>1, <1>10 DEF DeleteRow, history
  <2>2. Gone(d)'
    BY <1>3, <2>1 DEF Held, Gone, NoFile, NoVectors, left
  <2>3. Resting(d)'
    BY <2>1, <2>2 DEF Resting
  <2> QED
    BY <1>4, <2>1, <2>3
<1>11. CASE RetryCleans(c)
  <2>1. /\ Moves(c, "cleaned") /\ ingest' = ingest /\ row'[d].status = "failed"
        /\ row[d].status = "failed" /\ Resting(d) /\ reworked' = reworked /\ Sweeps(d)
    BY <1>3, <1>11 DEF RetryCleans, Held
  <2>2. InPart(d) /\ d \notin reworked'
    BY <2>1 DEF Resting
  <2>3. InPart(d)'
    <3>1. CASE store' = store /\ misread' = misread
      BY <2>2, <3>1 DEF InPart, Single
    <3>2. CASE store'[d] = NoVectors
      BY <3>2 DEF InPart, Single, NoVectors
    <3> QED
      BY <1>1, <2>1, <3>1, <3>2 DEF Sweeps
  <2>4. call'[c].step = "cleaned"
    BY <2>1, CallIs
  <2>5. Resting(d)'
    BY <2>1, <2>2, <2>3 DEF Resting
  <2>6. Held(d, call[c])'
    BY <2>1, <2>4, <2>5 DEF Held
  <2> QED
    BY <1>5, <2>1, <2>6
<1>12. CASE EditVector(c)
  <2>1. /\ Ends(c) /\ ingest' = ingest /\ row' = row /\ files' = files /\ left' = left
        /\ d \in reworked' /\ Resting(d) /\ (row[d].status = "ready" \/ Remains(d))
    BY <1>3, <1>12 DEF EditVector, Held
  <2>2. Vectors(d)' = Vectors(d)
    BY <1>12, VectorEdited
  <2>3. CASE row[d].status = "ready"
    <3>1. Covered(d)'
      BY <2>1, <2>2, <2>3 DEF Resting, Full, Covered, left
    <3>2. Resting(d)'
      BY <2>1, <2>3, <3>1 DEF Resting, Full
    <3> QED
      BY <1>4, <2>1, <3>2
  <2>4. CASE Remains(d)
    <3>1. Resting(d)'
      BY <2>1, <2>4 DEF Resting, Remains, Gone, NoFile, left
    <3> QED
      BY <1>4, <2>1, <3>1
  <2> QED
    BY <2>1, <2>3, <2>4
<1>13. CASE DropVector(c)
  <2>1. /\ ingest' = ingest /\ row' = row /\ files' = files /\ left' = left
        /\ d \in reworked' /\ store' = [store EXCEPT ![d][r.text] = @ - 1]
        /\ r.count = row[d].count /\ (d \in r.loaded <=> d \in Rows)
        /\ Resting(d) /\ (row[d].status = "ready" \/ Remains(d))
        /\ Moves(c, "dropped") \/ Ends(c)
    BY <1>3, <1>13 DEF DropVector, Held
  <2>2. Vectors(d)' = Vectors(d) - 1 /\ Vectors(d) \in Nat /\ row[d].count \in Nat
    BY <1>1, <2>1, VectorDropped, VectorsTyped DEF RowRecords
  <2>3. /\ Resting(d)'
        /\ \/ /\ row'[d].status = "ready" /\ d \in reworked'
              /\ d \notin misread' => Vectors(d)' < row'[d].count
           \/ Remains(d)'
    <3>1. CASE row[d].status = "ready"
      <4>1. d \notin misread' => Vectors(d)' < row'[d].count
        BY <2>1, <2>2, <3>1 DEF Resting, Full, Covered, left
      <4>2. Full(d)'
        BY <2>1, <2>2, <4>1 DEF Full, Covered
      <4> QED
        BY <2>1, <3>1, <4>1, <4>2 DEF Resting
    <3>2. CASE Remains(d)
      <4>1. Remains(d)'
        BY <2>1, <3>2 DEF Remains, NoFile, left
      <4> QED
        BY <4>1 DEF Resting, Remains, Gone
    <3> QED
      BY <2>1, <3>1, <3>2
  <2>4. CASE Moves(c, "dropped")
    <3>1. /\ call'[c].step = "dropped" /\ call'[c].count = row'[d].count
          /\ (d \in call'[c].loaded <=> d \in Rows')
      BY <2>1, <2>4, CallIs DEF Rows
    <3>2. Held(d, call[c])'
      BY <2>3, <3>1 DEF Held
    <3> QED
      BY <1>5, <2>1, <2>4, <3>2
  <2> QED
    BY <1>4, <2>1, <2>3, <2>4
<1>14. CASE DropCounted(c)
  <2>1. /\ Ends(c) /\ ingest' = ingest /\ store' = store /\ files' = files
        /\ left' = left /\ reworked' = reworked /\ r.count = row[d].count
        /\ \/ /\ row[d].status = "ready" /\ d \in reworked
              /\ d \notin misread => Vectors(d) < row[d].count
           \/ Remains(d)
    BY <1>3, <1>14 DEF DropCounted, Held, history
  <2>2. row' = IF d \in Rows
               THEN [row EXCEPT ![d].count =
                       Written(@, r.count, AtLeastZero(r.count - 1))]
               ELSE row
    BY <1>14 DEF DropCounted
  <2>3. Vectors(d)' = Vectors(d) /\ Vectors(d) \in Nat
    BY <2>1, VectorsTyped DEF Vectors
  <2>4. CASE /\ row[d].status = "ready" /\ d \in reworked
             /\ d \notin misread => Vectors(d) < row[d].count
    <3>1. d \in Rows
      BY <2>4 DEF Rows
    <3>2. row'[d].status = "ready"
      BY <1>1, <2>2, <2>4, <3>1 DEF RowRecords
    <3>3. d \notin misread => row'[d].count = row[d].count - 1 /\ row[d].count \in Nat
      BY <1>1, <2>1, <2>2, <2>3, <2>4, <3>1 DEF Written, AtLeastZero, RowRecords
    <3>4. Covered(d)'
      BY <2>1, <2>3, <2>4, <3>3 DEF Covered, left
    <3>5. Resting(d)'
      BY <2>1, <2>4, <3>2, <3>4 DEF Resting, Full
    <3> QED
      BY <1>4, <2>1, <3>5
  <2>5. CASE Remains(d)
    <3>1. row' = row
      BY <2>2, <2>5 DEF Rows, Remains
    <3>2. Resting(d)'
      BY <2>1, <2>5, <3>1 DEF Resting, Remains, Gone, NoFile, left
    <3> QED
      BY <1>4, <2>1, <3>2
  <2> QED
    BY <2>1, <2>4, <2>5
<1>15. ASSUME CommitsRow(c)
       PROVE  Ends(c) /\ row'[d].status = "processing" /\ Resting(d)'
  <2>1. /\ Ends(c) /\ row'[d].status = "processing" /\ store' = store /\ reworked' = reworked
        /\ row[d].status = "absent" /\ Resting(d)
    BY <1>1, <1>3, <1>15 DEF CommitsRow, Held
  <2>2. store'[d] = NoVectors /\ d \notin reworked'
    BY <2>1 DEF Resting, Untouched
  <2>3. InPart(d)'
    BY <2>2 DEF InPart, Single, NoVectors
  <2> QED
    BY <2>1, <2>2, <2>3 DEF Resting
<1>16. CASE SaveUnread(c)
  BY <1>4, <1>15, <1>16 DEF SaveUnread
<1>17. ASSUME NEW i \in Ingests, SaveRow(c, i)
       PROVE  DocSound(d)'
  BY <1>6, <1>15, <1>17 DEF SaveRow
<1>18. ASSUME NEW i \in Ingests, RetryStarts(c, i)
       PROVE  DocSound(d)'
  <2>1. /\ Ends(c) /\ Starts(i, d) /\ row'[d].status = "processing"
        /\ store' = store /\ reworked' = reworked /\ left' = left
        /\ row[d].status = "failed" /\ Resting(d)
    BY <1>1, <1>3, <1>18 DEF RetryStarts, Held, history
  <2>2. InPart(d)' /\ d \notin reworked'
    BY <2>1 DEF Resting, InPart, Single, left
  <2>3. Resting(d)'
    BY <2>1, <2>2 DEF Resting
  <2> QED
    BY <1>6, <2>1, <2>3
<1>19. CASE CloseVectors(c) \/ CloseRows(c)
  BY <1>19 DEF CloseVectors, CloseRows
<1> QED
  BY <1>7, <1>8, <1>9, <1>10, <1>11, <1>12, <1>13, <1>14, <1>16, <1>17, <1>18, <1>19
     DEF Continue, Refusal

\* The knowledge base is deleted, or was about to be.
LEMMA ClosedDoc ==
  ASSUME TypeOK, NEW c \in Callers, NEW d \in Docs \ disturbed', DocSound(d),
         Continue(c), call[c].step \in {"close", "closed"}
  PROVE  DocSound(d)'
<1>1. Workers(d) \subseteq {c} /\ Held(d, call[c])
  <2>1. c \in Requests(d)
    BY WorkersAre DEF Engaged
  <2> QED
    BY <2>1 DEF DocSound, Workers
<1>2. CASE CloseVectors(c)
  <2>1. /\ Moves(c, "closed") /\ ingest' = ingest /\ row' = row
        /\ reworked' = reworked /\ Resting(d)
        /\ \/ store' = [e \in Docs |-> NoVectors]
           \/ unswept' = Docs /\ UNCHANGED store
    BY <1>1, <1>2 DEF CloseVectors, Held
  <2>2. Gone(d)'
    <3>1. NoFile(d)'
      BY <1>2 DEF CloseVectors, NoFile
    <3> QED
      BY <2>1, <3>1 DEF Gone, NoVectors
  <2>3. row'[d].status = "absent" => Untouched(d)'
    BY <2>1 DEF Resting, Untouched, NoVectors
  <2>4. /\ call'[c].step = "closed"
        /\ \A o \in Callers \ {c} : call'[o] = call[o]
    BY <2>1, CallIs
  <2>5. Held(d, call[c])' /\ Engaged(call'[c], d)
    BY <2>2, <2>3, <2>4 DEF Held, Engaged
  <2> QED
    BY <1>1, <2>1, <2>4, <2>5, OneRequest
<1>3. CASE CloseRows(c)
  <2>1. /\ Ends(c) /\ ingest' = ingest /\ store' = store /\ files' = files
        /\ reworked' = reworked /\ left' = left
        /\ row' = [e \in Docs |-> IF e \in Rows THEN [status |-> "deleted", count |-> 0]
                                  ELSE row[e]]
        /\ call[c].step = "closed"
    BY <1>3 DEF CloseRows, history
  <2>2. /\ Gone(d)'
        /\ row[d].status = "absent" => Untouched(d)'
    BY <1>1, <2>1 DEF Held, Gone, NoFile, Untouched, NoVectors, left
  <2>3. row'[d] = IF d \in Rows THEN [status |-> "deleted", count |-> 0] ELSE row[d]
    BY <2>1
  <2>4. /\ row'[d].status \in {"absent", "deleted"}
        /\ row'[d].status = "absent" => row[d].status = "absent"
    <3>1. CASE d \in Rows
      BY <2>3, <3>1
    <3>2. CASE d \notin Rows
      <4>1. row[d].status \in {"absent", "deleted"}
        BY <3>2, TypeParts DEF Rows, RowRecords
      <4> QED
        BY <2>3, <3>2, <4>1
    <3> QED
      BY <3>1, <3>2
  <2>5. Resting(d)'
    BY <2>2, <2>4 DEF Resting
  <2>6. ~Engaged(call'[c], d) /\ \A o \in Callers \ {c} : call'[o] = call[o]
    BY <2>1, CallIs, RecordsTyped DEF Engaged
  <2> QED
    BY <1>1, <2>1, <2>5, <2>6, OneRequest
<1>4. CASE Refusal(c)
  <2>1. d \in HalfDeleted(c)
    BY <1>4
       DEF Refusal, UploadLost, UploadOrphaned, RetryLost, ChunkLost, DropLost, CloseBlocked,
           CommitFails, HalfDeleted
  <2> QED
    BY <1>4, <2>1, RefusalIs DEF Refused
<1> QED
  BY <1>2, <1>3, <1>4
     DEF Continue, Refusal, SaveFile, DeleteVectors, DeleteRow, RetryCleans, EditVector,
         DropVector, DropCounted, SaveRow, SaveUnread, CommitsRow, RetryStarts

LEMMA ContinueDoc ==
  ASSUME TypeOK, TypeOK', NEW c \in Callers, Continue(c), NEW d \in Docs \ disturbed',
         DocSound(d)
  PROVE  DocSound(d)'
BY ClosedDoc, OtherDoc, OwnDoc
-----------------------------------------------------------------------------
(* One document: what its ingest does to it.                               *)

\* What i has in hand next.
LEMMA IngestIs ==
  ASSUME TypeOK, NEW i \in Ingests
  PROVE  /\ \A s \in {"store", "record", "count", "fail"} : Reaches(i, s) =>
              /\ ingest'[i].step = s /\ ingest'[i].doc = ingest[i].doc
              /\ \A o \in Ingests \ {i} : ingest'[o] = ingest[o]
         /\ ingest' = [ingest EXCEPT ![i] = NoIngest] =>
              /\ ingest'[i].step = "none"
              /\ \A o \in Ingests \ {i} : ingest'[o] = ingest[o]
<1>1. ingest \in [Ingests -> IngestRecords] /\ ingest[i] \in IngestRecords
  BY TypeParts
<1>2. ASSUME NEW s \in {"store", "record", "count", "fail"}, Reaches(i, s)
      PROVE  /\ ingest'[i].step = s /\ ingest'[i].doc = ingest[i].doc
             /\ \A o \in Ingests \ {i} : ingest'[o] = ingest[o]
  <2> DEFINE r == ingest[i]
             q == [r EXCEPT !.step = s]
  <2>1. q.step = s /\ q.doc = r.doc
    BY <1>1, ReachesTyped
  <2>2. ingest'[i] = q /\ \A o \in Ingests \ {i} : ingest'[o] = ingest[o]
    BY <1>1, <1>2 DEF Reaches
  <2> HIDE DEF q
  <2> QED
    BY <2>1, <2>2
<1>3. ingest' = [ingest EXCEPT ![i] = NoIngest] =>
        /\ ingest'[i].step = "none"
        /\ \A o \in Ingests \ {i} : ingest'[o] = ingest[o]
  BY <1>1, RecordsTyped
<1> QED
  BY <1>2, <1>3

\* A document i does not work on, or only counts.
LEMMA ProcessOther ==
  ASSUME TypeOK, NEW i \in Ingests, Process(i), NEW d \in Docs \ disturbed', DocSound(d),
         ~Taken(ingest[i], d)
  PROVE  DocSound(d)'
<1> DEFINE e == ingest[i].doc
<1>1. /\ row \in [Docs -> RowRecords] /\ store \in [Docs -> [Chunks -> Nat]]
      /\ ingest \in [Ingests -> IngestRecords] /\ e \in Docs
  BY TypeParts DEF IngestRecords
<1>2. CASE CountRows(i) \/ WriteCounters(i)
  <2>1. /\ call' = call /\ SameDoc(d) /\ \A o \in Ingests \ {i} : ingest'[o] = ingest[o]
        /\ ingest'[i].step \in {"none", "counted"}
    <3>1. CASE CountRows(i)
      <4>1. ingest'[i].step \in {"none", "counted"}
        BY <1>1, <3>1, RecordsTyped DEF CountRows, IngestRecords
      <4> QED
        BY <1>1, <3>1, <4>1 DEF CountRows, SameDoc, shared, history, left
    <3>2. CASE WriteCounters(i)
      BY <1>1, <3>2, RecordsTyped DEF WriteCounters, SameDoc, history, left
    <3> QED
      BY <1>2, <3>1, <3>2
  <2>2. ~Taken(ingest'[i], d)
    BY <2>1 DEF Taken
  <2> QED
    BY <2>1, <2>2, DocKept
<1>3. CASE CountFails(i)
  <2>1. /\ SameDoc(d) /\ call' = call /\ ingest[i].step \in {"count", "counted"}
        /\ ingest'[i].step = "fail" /\ ingest'[i].doc = e
        /\ \A o \in Ingests \ {i} : ingest'[o] = ingest[o]
        /\ disturbed' = IF Worked(e) \/ e \in reworked THEN disturbed \cup {e} ELSE disturbed
    BY <1>3, IngestIs DEF CountFails, SameDoc, shared, left
  <2>2. CASE d # e
    <3>1. ~Taken(ingest'[i], d)
      BY <2>1, <2>2 DEF Taken
    <3> QED
      BY <2>1, <3>1, DocKept
  <2>3. CASE d = e
    <3>1. Workers(d) = {} /\ d \notin reworked
      BY <2>1, <2>3, WorkersAre
    <3>2. Resting(d) /\ Resting(d)'
      BY <2>1, <3>1, SameDocHeld DEF DocSound
    <3>3. Taken(ingest'[i], d) /\ IngestHeld(d, ingest[i])'
      BY <2>1, <2>3, <3>1, <3>2 DEF Taken, IngestHeld, SameDoc
    <3> QED
      BY <2>1, <3>1, <3>3, OneIngest
  <2> QED
    BY <2>2, <2>3
<1>4. CASE ~(CountRows(i) \/ WriteCounters(i) \/ CountFails(i))
  <2>1. d # e
    BY <1>4 DEF Process, Taken, Load, ReadHashes, AddVectors, Record, FailIngest
  <2>2. ASSUME SameDoc(d), call' = call, NEW s \in {"store", "record", "count", "fail"},
               Reaches(i, s)
        PROVE  DocSound(d)'
    <3>1. ~Taken(ingest'[i], d) /\ \A o \in Ingests \ {i} : ingest'[o] = ingest[o]
      BY <2>1, <2>2, IngestIs DEF Taken
    <3> QED
      BY <2>2, <3>1, DocKept
  <2>3. CASE Load(i)
    <3>1. SameDoc(d) /\ call' = call
      BY <2>3 DEF Load, SameDoc, shared, history, left
    <3>2. Reaches(i, "record") \/ Reaches(i, "store") \/ Reaches(i, "fail")
      BY <2>3 DEF Load
    <3> QED
      BY <2>2, <3>1, <3>2
  <2>4. CASE ReadHashes(i)
    <3>1. SameDoc(d) /\ call' = call
      BY <2>1, <2>4 DEF ReadHashes, SameDoc, shared
    <3>2. ingest'[i].doc = e /\ \A o \in Ingests \ {i} : ingest'[o] = ingest[o]
      BY <1>1, <2>4 DEF ReadHashes, IngestRecords
    <3> QED
      BY <2>1, <3>1, <3>2, DocKept DEF Taken
  <2>5. CASE AddVectors(i)
    <3>1. SameDoc(d) /\ call' = call
      BY <1>1, <2>1, <2>5 DEF AddVectors, SameDoc, history, left
    <3>2. Reaches(i, "record") \/ Reaches(i, "fail")
      BY <2>5 DEF AddVectors
    <3> QED
      BY <2>2, <3>1, <3>2
  <2>6. CASE Record(i)
    <3>1. SameDoc(d) /\ call' = call
      BY <1>1, <2>1, <2>6 DEF Record, SameDoc, history, left
    <3>2. Reaches(i, "count") \/ Reaches(i, "fail")
      BY <2>6 DEF Record
    <3> QED
      BY <2>2, <3>1, <3>2
  <2>7. CASE FailIngest(i)
    <3>1. SameDoc(d) /\ call' = call
      BY <1>1, <2>1, <2>7 DEF FailIngest, SameDoc, left
    <3>2. ~Taken(ingest'[i], d) /\ \A o \in Ingests \ {i} : ingest'[o] = ingest[o]
      BY <2>7, IngestIs DEF FailIngest, Taken
    <3> QED
      BY <3>1, <3>2, DocKept
  <2> QED
    BY <1>4, <2>3, <2>4, <2>5, <2>6, <2>7 DEF Process
<1> QED
  BY <1>2, <1>3, <1>4

\* The document i works on.
LEMMA ProcessOwn ==
  ASSUME TypeOK, TypeOK', NEW i \in Ingests, Process(i), NEW d \in Docs, DocSound(d),
         Taken(ingest[i], d)
  PROVE  DocSound(d)'
<1>1. /\ row \in [Docs -> RowRecords] /\ store \in [Docs -> [Chunks -> Nat]]
      /\ ingest \in [Ingests -> IngestRecords] /\ ingest[i] \in IngestRecords
      /\ ingest[i].doc = d /\ ingest[i].step \notin {"none", "count", "counted"}
  BY TypeParts DEF Taken
<1>2. Workers(d) \subseteq {i} /\ IngestHeld(d, ingest[i])
  <2>1. i \in Ingesting(d)
    BY WorkersAre
  <2> QED
    BY <2>1 DEF DocSound, Workers
<1>3. /\ Resting(d)
      /\ ingest[i].step # "fail" =>
           row[d].status = "processing" /\ InPart(d) /\ d \notin reworked /\ d \in Rows
  BY <1>2 DEF IngestHeld, Resting, Rows
<1>4. Range(ChunksOf[d]) \subseteq Chunks
  BY KnowledgeBaseAssumption DEF Range, Chunks
<1>5. ASSUME call' = call, NEW s \in {"store", "record", "fail"}, Reaches(i, s),
             row'[d] = row[d], row[d].status = "processing", InPart(d)', d \notin reworked',
             s = "record" => Stores(d)'
      PROVE  DocSound(d)'
  <2>1. /\ ingest'[i].step = s /\ ingest'[i].doc = d
        /\ \A o \in Ingests \ {i} : ingest'[o] = ingest[o]
    BY <1>1, <1>5, IngestIs
  <2>2. Resting(d)'
    BY <1>5 DEF Resting
  <2>3. Taken(ingest'[i], d) /\ IngestHeld(d, ingest[i])'
    BY <1>5, <2>1, <2>2 DEF Taken, IngestHeld
  <2> QED
    BY <1>2, <1>5, <2>1, <2>3, OneIngest
<1>6. CASE Load(i)
  <2>1. SameDoc(d) /\ call' = call /\ ingest[i].step = "load"
    BY <1>6 DEF Load, SameDoc, shared, history, left
  <2>2. /\ row'[d] = row[d] /\ row[d].status = "processing" /\ d \notin reworked'
        /\ InPart(d)'
    BY <1>3, <2>1 DEF SameDoc, InPart, Single
  <2>3. CASE Reaches(i, "store") \/ Reaches(i, "fail")
    BY <1>5, <2>1, <2>2, <2>3
  <2>4. CASE Reaches(i, "record") /\ ChunksOf[d] = << >>
    <3>1. Range(ChunksOf[d]) = {}
      BY <2>4 DEF Range
    <3>2. Stores(d)'
      BY <2>2, <3>1 DEF InPart, Stores
    <3> QED
      BY <1>5, <2>1, <2>2, <2>4, <3>2
  <2> QED
    BY <1>1, <1>6, <2>3, <2>4 DEF Load
<1>7. CASE ReadHashes(i)
  <2>1. /\ row' = row /\ store' = store /\ reworked' = reworked /\ call' = call
        /\ ingest[i].step = "store"
    BY <1>7 DEF ReadHashes, shared
  <2>2. PICK seen \in SUBSET Chunks :
          /\ ingest' = [ingest EXCEPT ![i].step = "add", ![i].seen = seen]
          /\ \/ seen = {t \in Chunks : store[d][t] > 0} /\ misread' = misread
             \/ seen = {} /\ d \in misread'
    BY <1>1, <1>7 DEF ReadHashes
  <2>3. /\ ingest'[i].step = "add" /\ ingest'[i].doc = d /\ ingest'[i].seen = seen
        /\ \A o \in Ingests \ {i} : ingest'[o] = ingest[o]
    BY <1>1, <2>2 DEF IngestRecords
  <2>4. InPart(d)'
    BY <1>3, <2>1, <2>2 DEF InPart, Single
  <2>5. Resting(d)'
    BY <1>3, <2>1, <2>4 DEF Resting
  <2>6. Taken(ingest'[i], d) /\ IngestHeld(d, ingest[i])'
    BY <1>3, <2>1, <2>2, <2>3, <2>5 DEF Taken, IngestHeld
  <2> QED
    BY <1>2, <2>1, <2>3, <2>6, OneIngest
<1>8. CASE AddVectors(i)
  <2>1. /\ row' = row /\ reworked' = reworked /\ call' = call /\ misread' = misread
        /\ ingest[i].step = "add"
    BY <1>8 DEF AddVectors, history, left
  <2> DEFINE New == Range(ChunksOf[d]) \ ingest[i].seen
  <2>2. CASE Reaches(i, "fail") /\ store' = store
    <3>1. InPart(d)'
      BY <1>3, <2>1, <2>2 DEF InPart, Single
    <3> QED
      BY <1>3, <1>5, <2>1, <2>2, <3>1
  <2>3. CASE /\ Reaches(i, "record")
             /\ store' = [store EXCEPT ![d] = [t \in Chunks |-> IF t \in New THEN @[t] + 1 ELSE @[t]]]
    <3>1. store'[d] = [t \in Chunks |-> IF t \in New THEN store[d][t] + 1 ELSE store[d][t]]
      BY <1>1, <2>3
    <3>2. /\ ingest[i].seen \subseteq {t \in Chunks : store[d][t] > 0}
          /\ d \notin misread => ingest[i].seen = {t \in Chunks : store[d][t] > 0}
      BY <1>2, <2>1 DEF IngestHeld
    <3>3. ASSUME NEW t \in Chunks
          PROVE  /\ store'[d][t] > 0 <=> t \in Range(ChunksOf[d])
                 /\ d \notin misread => store'[d][t] <= 1
      <4>1. /\ store[d][t] \in Nat
            /\ store[d][t] > 0 => t \in Range(ChunksOf[d])
            /\ d \notin misread => store[d][t] <= 1
        BY <1>1, <1>3, <2>1 DEF InPart, Single
      <4>2. /\ t \in New => t \in Range(ChunksOf[d])
            /\ t \in Range(ChunksOf[d]) /\ store[d][t] = 0 => t \in New
            /\ d \notin misread /\ t \in New => store[d][t] = 0
        BY <3>2, <4>1
      <4>3. store'[d][t] = IF t \in New THEN store[d][t] + 1 ELSE store[d][t]
        BY <3>1
      <4> HIDE DEF New
      <4> QED
        BY <4>1, <4>2, <4>3
    <3>4. Stores(d)' /\ Single(d)'
      BY <2>1, <3>3 DEF Stores, Single
    <3>5. InPart(d)'
      BY <3>4 DEF Stores, InPart
    <3> QED
      BY <1>3, <1>5, <2>1, <2>3, <3>4, <3>5
  <2> QED
    BY <1>1, <1>8, <2>2, <2>3 DEF AddVectors
<1>9. CASE Record(i)
  <2>1. /\ call' = call /\ reworked' = reworked /\ store' = store /\ misread' = misread
        /\ ingest[i].step = "record"
    BY <1>9 DEF Record, history, left
  <2>2. Stores(d) /\ InPart(d) /\ d \notin reworked
    BY <1>2, <1>3, <2>1 DEF IngestHeld
  <2>3. CASE Reaches(i, "fail") /\ row' = row
    <3>1. InPart(d)'
      BY <2>1, <2>2 DEF InPart, Single
    <3> QED
      BY <1>3, <1>5, <2>1, <2>2, <2>3, <3>1
  <2>4. CASE /\ Reaches(i, "count")
             /\ row' = [row EXCEPT ![d] = [status |-> "ready", count |-> Len(ChunksOf[d])]]
    <3>1. row'[d].status = "ready" /\ row'[d].count = Len(ChunksOf[d])
      BY <1>1, <2>4
    <3>2. d \notin misread => Vectors(d) <= Len(ChunksOf[d])
      BY <2>2, StoredOnce DEF InPart
    <3>3. Full(d)'
      BY <2>1, <2>2, <3>1, <3>2 DEF Full, Covered, InPart, Single, Stores, Vectors
    <3>4. Resting(d)'
      BY <3>1, <3>3 DEF Resting
    <3>5. ~Taken(ingest'[i], d) /\ \A o \in Ingests \ {i} : ingest'[o] = ingest[o]
      BY <2>4, IngestIs DEF Taken
    <3> QED
      BY <1>2, <2>1, <3>4, <3>5, OneIngest
  <2> QED
    BY <1>1, <1>3, <1>9, <2>1, <2>3, <2>4 DEF Record
<1>10. CASE FailIngest(i)
  <2>1. /\ call' = call /\ reworked' = reworked /\ store' = store /\ left' = left
        /\ files' = files
        /\ row' = row \/ (d \in Rows /\ row' = [row EXCEPT ![d].status = "failed"])
        /\ ingest' = [ingest EXCEPT ![i] = NoIngest] /\ ingest[i].step = "fail"
    BY <1>1, <1>10 DEF FailIngest
  <2>2. CASE row' = row
    <3>1. SameDoc(d)
      BY <2>1, <2>2 DEF SameDoc, left
    <3> QED
      <4>1. Resting(d)'
        BY <1>3, <3>1, SameDocHeld
      <4>2. ~Taken(ingest'[i], d) /\ \A o \in Ingests \ {i} : ingest'[o] = ingest[o]
        BY <2>1, IngestIs DEF Taken
      <4> QED
        BY <1>2, <2>1, <4>1, <4>2, OneIngest
  <2>3. CASE d \in Rows /\ row' = [row EXCEPT ![d].status = "failed"]
    <3>1. row'[d].status = "failed"
      BY <1>1, <2>3 DEF RowRecords
    <3>2. row[d].status \in {"processing", "ready", "failed"}
      BY <2>3 DEF Rows
    <3>3. InPart(d) /\ d \notin reworked
      BY <1>2, <1>3, <3>2 DEF IngestHeld, Resting, Full, Stores, InPart
    <3>4. Resting(d)'
      BY <2>1, <3>1, <3>3 DEF Resting, InPart, Single, left
    <3>5. ~Taken(ingest'[i], d) /\ \A o \in Ingests \ {i} : ingest'[o] = ingest[o]
      BY <2>1, IngestIs DEF Taken
    <3> QED
      BY <1>2, <2>1, <3>4, <3>5, OneIngest
  <2> QED
    BY <2>1, <2>2, <2>3
<1>11. ~CountRows(i) /\ ~WriteCounters(i) /\ ~CountFails(i)
  BY <1>1, <1>2 DEF CountRows, WriteCounters, CountFails
<1> QED
  BY <1>6, <1>7, <1>8, <1>9, <1>10, <1>11 DEF Process

LEMMA CrashDoc ==
  ASSUME TypeOK, Crash, NEW d \in Docs \ disturbed', DocSound(d)
  PROVE  DocSound(d)'
<1>1. /\ SameDoc(d)
      /\ \A c \in Callers : d \notin HalfDeleted(c)
      /\ \A c \in Callers : call'[c].step = "none"
      /\ \A i \in Ingests : ingest'[i].step = "none"
  BY RecordsTyped DEF Crash, shared, left, SameDoc
<1>2. Resting(d)'
  BY <1>1, RestsUnless, SameDocHeld
<1>3. Requests(d)' = {} /\ Ingesting(d)' = {}
  BY <1>1, WorkersAre DEF Engaged, Taken
<1>4. Workers(d)' = {}
  BY <1>3, WorkersAre
<1> QED
  BY <1>2, <1>3, <1>4 DEF DocSound
-----------------------------------------------------------------------------
(* The invariant.                                                          *)

LEMMA DisturbedGrows ==
  ASSUME TypeOK, [Next]_vars
  PROVE  disturbed \subseteq disturbed'
<1>1. ASSUME NEW c \in Callers, Request(c) PROVE disturbed \subseteq disturbed'
  BY <1>1, RequestIs DEF TakesUp, Takes
<1>2. ASSUME NEW c \in Callers, Continue(c) PROVE disturbed \subseteq disturbed'
  BY <1>2
     DEF Continue, UploadLost, SaveFile, UploadOrphaned, SaveUnread, CommitsRow, CommitFails,
         DeleteVectors, DeleteRow, RetryCleans, RetryLost, EditVector, DropVector, ChunkLost,
         DropCounted, DropLost, CloseVectors, CloseRows, CloseBlocked, SaveRow, RetryStarts,
         Refused, history
<1>3. ASSUME NEW i \in Ingests, Process(i) PROVE disturbed \subseteq disturbed'
  BY <1>3 DEF Process, Load, ReadHashes, AddVectors, Record, CountRows, WriteCounters,
              CountFails, FailIngest, history
<1>4. CASE Crash
  BY <1>4 DEF Crash
<1> QED
  BY <1>1, <1>2, <1>3, <1>4 DEF Next, vars, history

LEMMA InvInit == Init => Inv
<1> SUFFICES ASSUME Init PROVE Inv
  OBVIOUS
<1>1. PICK Held0 \in SUBSET Docs : StartsWith(Held0)
  BY KnowledgeBaseAssumption DEF Init
<1>2. IsFiniteSet(Held0) /\ IsFiniteSet(Chunks)
  BY KnowledgeBaseAssumption, RecordsTyped, FS_Subset
<1>3. /\ \A c \in Callers : call[c] = NoCall /\ call[c].step = "none"
      /\ \A i \in Ingests : ingest[i] = NoIngest /\ ingest[i].step = "none"
      /\ NoCall \in CallRecords /\ NoIngest \in IngestRecords
      /\ NoVectors \in [Chunks -> Nat]
  BY RecordsTyped DEF Init
<1>4. \A d \in Docs : Len(ChunksOf[d]) \in Nat
  BY KnowledgeBaseAssumption
<1> DEFINE Lens == [d \in Docs |-> Len(ChunksOf[d])]
<1>5. Cardinality(Held0) \in Nat /\ SumOver(Lens, Held0) \in Nat
  <2>1. \A d \in Held0 : Lens[d] \in Nat
    BY <1>4
  <2> HIDE DEF Lens
  <2> QED
    BY <1>2, <2>1, FS_CardinalityType, SumOverNat
<1>6. /\ row = [d \in Docs |-> IF d \in Held0
                               THEN [status |-> "ready", count |-> Len(ChunksOf[d])]
                               ELSE [status |-> "absent", count |-> 0]]
      /\ kb = [exists |-> TRUE, docs |-> Cardinality(Held0), chunks |-> SumOver(Lens, Held0)]
      /\ folder = (Held0 # {}) /\ files = Held0
      /\ store = [d \in Docs |-> IF d \in Held0 THEN Share(d) ELSE NoVectors]
  BY <1>1 DEF StartsWith, Share
<1>7. row \in [Docs -> RowRecords] /\ store \in [Docs -> [Chunks -> Nat]] /\ kb \in KbRecords
  <2>1. \A d \in Docs : Share(d) \in [Chunks -> Nat]
    BY DEF Share
  <2>2. row \in [Docs -> RowRecords]
    BY <1>4, <1>6 DEF RowRecords
  <2>3. store \in [Docs -> [Chunks -> Nat]]
    BY <1>3, <1>6, <2>1
  <2>4. kb \in KbRecords
    BY <1>5, <1>6 DEF KbRecords
  <2> QED
    BY <2>2, <2>3, <2>4
<1>8. TypeOK
  <2>1. call \in [Callers -> CallRecords] /\ ingest \in [Ingests -> IngestRecords]
    BY <1>3 DEF Init
  <2>2. asked \in 0 .. MaxRequests
    BY KnowledgeBaseAssumption DEF Init
  <2> QED
    BY <1>6, <1>7, <2>1, <2>2, TypeParts DEF Init
<1> HIDE DEF Lens
<1>9. Rows = Held0
  BY <1>6 DEF Rows
<1>10. CountersSound
  <2>1. Total = SumOver(Lens, Held0)
    <3>1. \A d \in Held0 : Counts[d] = Lens[d]
      BY <1>6 DEF Counts, Lens
    <3> QED
      BY <1>2, <1>9, <3>1, SumOverSame DEF Total
  <2>2. Stored = AsCounted
    BY <1>6, <1>9, <2>1 DEF Stored, AsCounted
  <2>3. \A c \in Callers : LoadedSound(call[c]) /\ ReadSound(call[c], Stored, row[call[c].doc])
    BY <1>3 DEF LoadedSound, ReadSound
  <2> QED
    BY <1>3, <2>2, <2>3 DEF CountersSound
<1>11. ASSUME NEW d \in Docs PROVE DocSound(d)
  <2>1. Requests(d) = {} /\ Ingesting(d) = {}
    BY <1>3, WorkersAre DEF Engaged, Taken
  <2>2. Workers(d) = {}
    BY <2>1, WorkersAre
  <2>3. CASE d \in Held0
    <3>1. row[d].status = "ready" /\ row[d].count = Len(ChunksOf[d]) /\ store[d] = Share(d)
      BY <1>6, <2>3
    <3>2. Stores(d) /\ Single(d) /\ Covered(d)
      BY <3>1, ShareSum DEF Stores, Single, Covered, Vectors, Share
    <3>3. Resting(d)
      BY <3>1, <3>2 DEF Resting, Full
    <3> QED
      BY <2>1, <2>2, <3>3 DEF DocSound
  <2>4. CASE d \notin Held0
    <3>1. row[d].status = "absent" /\ store[d] = NoVectors /\ d \notin reworked
      BY <1>6, <2>4 DEF Init
    <3>2. Resting(d)
      BY <3>1 DEF Resting, Untouched
    <3> QED
      BY <2>1, <2>2, <3>2 DEF DocSound
  <2> QED
    BY <2>3, <2>4
<1> QED
  BY <1>8, <1>10, <1>11 DEF Inv

LEMMA InvNext == Inv /\ [Next]_vars => Inv'
<1> SUFFICES ASSUME TypeOK, CountersSound, \A d \in Docs \ disturbed : DocSound(d),
                    [Next]_vars
             PROVE  Inv'
  BY DEF Inv
<1>1. \A d \in Docs \ disturbed' : DocSound(d)
  BY DisturbedGrows
<1>2. ASSUME NEW c \in Callers, Request(c) PROVE Inv'
  BY <1>1, <1>2, RequestCounters, RequestDoc DEF Inv
<1>3. ASSUME NEW c \in Callers, Continue(c) PROVE Inv'
  <2>1. TypeOK' /\ CountersSound'
    BY <1>3, ContinueCounters
  <2> QED
    BY <1>1, <1>3, <2>1, ContinueDoc DEF Inv
<1>4. ASSUME NEW i \in Ingests, Process(i) PROVE Inv'
  <2>1. TypeOK' /\ CountersSound'
    BY <1>4, ProcessCounters
  <2>2. ASSUME NEW d \in Docs \ disturbed' PROVE DocSound(d)'
    <3>1. CASE Taken(ingest[i], d)
      BY <1>1, <1>4, <2>1, <3>1, ProcessOwn
    <3>2. CASE ~Taken(ingest[i], d)
      BY <1>1, <1>4, <3>2, ProcessOther
    <3> QED
      BY <3>1, <3>2
  <2> QED
    BY <2>1, <2>2 DEF Inv
<1>5. CASE Crash
  BY <1>1, <1>5, CrashCounters, CrashDoc DEF Inv
<1>6. CASE UNCHANGED vars
  <2>1. TypeOK'
    BY <1>6 DEF TypeOK, vars, shared, history, left, counting
  <2>2. CountersSound'
    BY <1>6 DEF CountersSound, vars, shared, history, counting, Stored, AsCounted, Total,
                Counts, Rows
  <2>3. ASSUME NEW d \in Docs \ disturbed' PROVE DocSound(d)'
    <3>1. DocSound(d) /\ SameDoc(d) /\ call' = call /\ ingest' = ingest
      BY <1>1, <1>6 DEF SameDoc, vars, shared, history, left
    <3> QED
      BY <3>1, DocKept
  <2> QED
    BY <2>1, <2>2, <2>3 DEF Inv
<1> QED
  BY <1>2, <1>3, <1>4, <1>5, <1>6 DEF Next

LEMMA Invariant == Spec => []Inv
BY InvInit, InvNext, PTL DEF Spec
-----------------------------------------------------------------------------
(* A document that is ready can be searched in full, however often its     *)
(* ingest failed and was retried and whatever a failed attempt or clean-up *)
(* left (_ingest_document, retry_document).                                *)
THEOREM ReadyIsStoredHolds == Spec => []ReadyIsStored
<1>1. ASSUME Inv PROVE ReadyIsStored
  <2>1. ASSUME NEW d \in Docs \ disturbed, row[d].status = "ready", Calling(d) = {},
               Closing = {}
        PROVE  Full(d)
    <3>1. DocSound(d)
      BY <1>1 DEF Inv
    <3>2. \A c \in Callers : d \notin HalfDeleted(c)
      BY <2>1 DEF HalfDeleted, Calling, Closing
    <3>3. Resting(d)
      BY <3>1, <3>2, RestsUnless
    <3> QED
      BY <2>1, <3>3 DEF Resting
  <2> QED
    BY <2>1 DEF ReadyIsStored, Full, Stores, Single, Covered
<1> QED
  BY <1>1, Invariant, PTL

(* A deleted document leaves nothing behind that a search could find, and  *)
(* no file, unless the store or the disk refused (delete_document,         *)
(* delete_kb).                                                             *)
THEOREM DeletedIsForgottenHolds == Spec => []DeletedIsForgotten
<1>1. ASSUME Inv PROVE DeletedIsForgotten
  <2>1. ASSUME NEW d \in Docs \ disturbed, row[d].status = "deleted"
        PROVE  Gone(d)
    <3>1. DocSound(d)
      BY <1>1 DEF Inv
    <3>2. CASE \A c \in Callers : d \notin HalfDeleted(c)
      BY <2>1, <3>1, <3>2, RestsUnless DEF Resting
    <3>3. ASSUME NEW c \in Callers, d \in HalfDeleted(c) PROVE Gone(d)
      <4>1. c \in Requests(d) /\ call[c].step \in {"deleted", "closed"}
        BY <3>3, WorkersAre DEF HalfDeleted, Engaged
      <4> QED
        BY <3>1, <4>1 DEF DocSound, Held
    <3> QED
      BY <3>2, <3>3
  <2> QED
    BY <2>1 DEF DeletedIsForgotten, Gone, NoFile
<1> QED
  BY <1>1, Invariant, PTL

(* document_count and total_chunks are what the rows add up to once every  *)
(* document was counted (_ingest_document, delete_document, delete_chunk). *)
THEOREM CountersRightHolds == Spec => []CountersRight
<1>1. ASSUME Inv PROVE CountersRight
  <2>1. ASSUME kb.exists, ~skewed, uncounted = {}
        PROVE  kb.docs = Cardinality(Rows) /\ kb.chunks = Total
    <3>1. Stored = AsCounted
      BY <1>1, <2>1 DEF Inv, CountersSound
    <3>2. Stored.docs = AsCounted.docs /\ Stored.chunks = AsCounted.chunks
      BY <3>1
    <3> QED
      BY <3>2 DEF Stored, AsCounted
  <2> QED
    BY <1>1, <2>1 DEF CountersRight, Inv, Total, Counts
<1> QED
  BY <1>1, Invariant, PTL

(* Rows, counters, files, vectors and what requests and ingests have in    *)
(* hand keep their types.                                                  *)
THEOREM TypeCorrect == Spec => []TypeOK
<1>1. Inv => TypeOK
  BY DEF Inv
<1> QED
  BY <1>1, Invariant, PTL
=============================================================================
