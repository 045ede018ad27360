---------------------------- MODULE IngestProofs ----------------------------
(* What holds of the ingest jobs for every set of documents, of versions   *)
(* and every number of batches.                                            *)
EXTENDS Ingest, TLAPS

(***************************************************************************)
(* Typing.                                                                 *)
(***************************************************************************)

LEMMA ContentFacts ==
  /\ NoFile \in Content
  /\ \A v \in Versions \cup {NoVersion} :
       /\ Whole(v) \in Content
       /\ Whole(v) # NoFile
       /\ Torn(v) \subseteq Content
       /\ NoFile \notin Torn(v)
  /\ NoRow \in Row
  /\ NoChunks \in Chunks
BY IngestAssumption
   DEF Content, NoFile, Whole, Torn, Forms, NoRow, Row, NoChunks, Chunks

LEMMA AsOfType ==
  ASSUME TypeOK, NEW c \in Content
  PROVE  AsOf(c) \subseteq Versions \cup {NoVersion}
BY IngestAssumption DEF TypeOK, Content, AsOf

LEMMA BatchesType ==
  ASSUME NEW c \in Content
  PROVE  BatchesOf(c) \in 0 .. NBatches
BY IngestAssumption DEF Content, BatchesOf

LEMMA EndRunType ==
  ASSUME EndRun
  PROVE  /\ pc' \in Steps /\ mode' \in {"none", "full", "refresh"}
         /\ cur' \in Docs /\ after' \in {"next", "download"}
         /\ todo' \subseteq Docs /\ scope' \subseteq Docs
         /\ fetched' \in [Docs -> Versions \cup {NoVersion}]
         /\ skipped' \subseteq Docs
BY DEF EndRun, Steps, Docs

LEMMA DumpCheckpointType ==
  ASSUME TypeOK, NEW sha \in Content, NEW text \in Content,
         DumpCheckpoint(sha, text)
  PROVE  /\ raw' \in [Docs -> Content]
         /\ extract' \in [Docs -> Content]
         /\ rows' \in [Docs -> Row]
         /\ lastRefresh' \in BOOLEAN
         /\ toAsOf' \in Versions \cup {NoVersion}
         /\ readable' \in BOOLEAN
         /\ chunks' \in [Docs -> Chunks]
         /\ notes' \in BOOLEAN
BY AsOfType DEF TypeOK, DumpCheckpoint, Row

LEMMA StartType ==
  ASSUME TypeOK, StartJob
  PROVE  TypeOK'
BY DEF TypeOK, StartJob, StartFull, StartRefresh, Start, dump, Steps, Docs

LEMMA RunStepType ==
  ASSUME TypeOK,
         \/ \E d \in Docs : Take(d)
         \/ MarkComplete \/ WriteNotes
         \/ AdoptOrphan \/ RepairIndex \/ LeaveAsIs \/ NeedsDownload
  PROVE  TypeOK'
<1> USE DEF dump, run, Goto, Steps
<1>1. ASSUME NEW d \in Docs, Take(d) PROVE TypeOK'
  BY <1>1 DEF TypeOK, Take
<1>2. CASE MarkComplete
  BY <1>2 DEF TypeOK, MarkComplete
<1>3. CASE WriteNotes
  BY <1>3, EndRunType DEF TypeOK, WriteNotes
<1>4. CASE AdoptOrphan
  <2>1. raw[cur] \in Content /\ extract[cur] \in Content
    BY DEF TypeOK
  <2> QED  BY <1>4, <2>1, DumpCheckpointType DEF TypeOK, AdoptOrphan
<1>5. CASE RepairIndex
  BY <1>5 DEF TypeOK, RepairIndex
<1>6. CASE LeaveAsIs
  BY <1>6 DEF TypeOK, LeaveAsIs
<1>7. CASE NeedsDownload
  BY <1>7 DEF TypeOK, NeedsDownload
<1> QED  BY <1>1, <1>2, <1>3, <1>4, <1>5, <1>6, <1>7

LEMMA FetchStepType ==
  ASSUME TypeOK,
         \/ FetchNonPdf \/ \E v \in Versions : FetchPdf(v)
         \/ WriteRaw \/ WriteExtract \/ Checkpoint
  PROVE  TypeOK'
<1> USE DEF dump, run, Goto, Steps
<1>1. Whole(fetched[cur]) \in Content
  BY ContentFacts DEF TypeOK
<1>2. CASE FetchNonPdf
  BY <1>2 DEF TypeOK, FetchNonPdf
<1>3. ASSUME NEW v \in Versions, FetchPdf(v) PROVE TypeOK'
  BY <1>3 DEF TypeOK, FetchPdf
<1>4. CASE WriteRaw
  BY <1>1, <1>4 DEF TypeOK, WriteRaw
<1>5. CASE WriteExtract
  BY <1>1, <1>5 DEF TypeOK, WriteExtract
<1>6. CASE Checkpoint
  BY <1>1, <1>6, DumpCheckpointType DEF TypeOK, Checkpoint
<1> QED  BY <1>2, <1>3, <1>4, <1>5, <1>6

LEMMA IndexStepType ==
  ASSUME TypeOK, DeleteDocument \/ UpsertBatch \/ FlagIndexed
  PROVE  TypeOK'
<1> USE DEF dump, run, Goto, Steps
<1>1. CASE DeleteDocument
  BY <1>1, ContentFacts DEF TypeOK, DeleteDocument
<1>2. CASE UpsertBatch
  <2>1. BatchesOf(extract[cur]) \in 0 .. NBatches
    BY BatchesType DEF TypeOK
  <2>2. [from |-> extract[cur], n |-> chunks[cur].n + 1] \in Chunks
    BY <1>2, <2>1, IngestAssumption DEF TypeOK, UpsertBatch, Chunks
  <2> QED  BY <1>2, <2>2 DEF TypeOK, UpsertBatch
<1>3. CASE FlagIndexed
  <2>1. [rows[cur] EXCEPT !.indexed = TRUE] \in Row
    BY DEF TypeOK, Row
  <2> QED  BY <1>3, <2>1 DEF TypeOK, FlagIndexed, Row
<1> QED  BY <1>1, <1>2, <1>3

LEMMA FaultType ==
  ASSUME TypeOK, Fault
  PROVE  TypeOK'
<1> USE DEF dump, run
<1>1. Torn(fetched[cur]) \subseteq Content
  BY ContentFacts DEF TypeOK
<1>2. CASE Abort
  BY <1>2, EndRunType DEF TypeOK, Abort
<1>3. CASE TearRaw
  BY <1>1, <1>3, EndRunType DEF TypeOK, TearRaw
<1>4. CASE TearExtract
  BY <1>1, <1>4, EndRunType DEF TypeOK, TearExtract
<1>5. CASE TearManifest
  BY <1>5, EndRunType DEF TypeOK, TearManifest
<1>6. CASE WipeIndex
  BY <1>6, ContentFacts DEF TypeOK, WipeIndex
<1> QED  BY <1>2, <1>3, <1>4, <1>5, <1>6 DEF Fault

LEMMA NextKeepsTypes ==
  ASSUME TypeOK, [Next]_vars
  PROVE  TypeOK'
<1>1. CASE StartJob
  BY <1>1, StartType
<1>2. CASE JobStep
  BY <1>2, RunStepType, FetchStepType, IndexStepType DEF JobStep
<1>3. CASE Fault
  BY <1>3, FaultType
<1>4. CASE UNCHANGED vars
  BY <1>4 DEF TypeOK, vars
<1> QED
  BY <1>1, <1>2, <1>3, <1>4 DEF Next

(* Every variable keeps its type, whatever crashes and torn writes occur.  *)
THEOREM Typing == Spec => []TypeOK
<1>1. Init => TypeOK
  BY ContentFacts DEF Init, TypeOK, Docs, Steps
<1>2. TypeOK /\ [Next]_vars => TypeOK'
  BY NextKeepsTypes
<1> QED  BY <1>1, <1>2, PTL DEF Spec

(***************************************************************************)
(* Why a row flagged indexed can be skipped.  IndexedMeansComplete alone   *)
(* is not inductive: a run that resumes an interrupted document trusts the *)
(* files it finds, so the files have to agree with each other (FilesAgree) *)
(* and with the row (RowsHaveFiles); a download must not touch a document  *)
(* whose row is still waiting for its index (DownloadInv); and the batches *)
(* of an index write must be those of the extract it will be flagged for   *)
(* (IndexInv).                                                             *)
(***************************************************************************)

FilesAgree ==
  \A d \in Docs :
    /\ rows[d].indexed => Recorded(d)
    /\ ~rows[d].indexed /\ extract[d] # NoFile =>
         raw[d] = extract[d] /\ extract[d] = Whole(extract[d].ver)

DownloadInv ==
  /\ pc \in {"download", "writeRaw", "writeExtract"} /\ ~rows[cur].indexed =>
       ~Recorded(cur) /\ extract[cur] = NoFile
  /\ pc = "writeExtract" => raw[cur] = Whole(fetched[cur])
  /\ pc = "checkpoint" => /\ raw[cur] = Whole(fetched[cur])
                          /\ extract[cur] = Whole(fetched[cur])

IndexInv ==
  /\ pc \in {"index", "upsert"} => Recorded(cur) /\ ~rows[cur].indexed
  /\ pc = "upsert" => chunks[cur].n = 0 \/ chunks[cur].from = extract[cur]

IInv ==
  /\ TypeOK
  /\ IndexedMeansComplete
  /\ RowsHaveFiles
  /\ FilesAgree
  /\ DownloadInv
  /\ IndexInv

Undamaged == "tornExtract" \notin Faults /\ "wipe" \notin Faults

LEMMA WholeFacts ==
  \A v, w : /\ Whole(v) # NoFile
            /\ Whole(v).ver = v
            /\ BatchesOf(Whole(v)) = NBatches
BY DEF Whole, NoFile, BatchesOf

LEMMA InitIInv == Init => IInv
<1> SUFFICES ASSUME Init PROVE IInv
  OBVIOUS
<1>1. TypeOK
  BY ContentFacts DEF Init, TypeOK, Docs, Steps
<1> QED
  BY <1>1 DEF Init, IInv, IndexedMeansComplete, RowsHaveFiles, FilesAgree,
              DownloadInv, IndexInv, NoRow, Recorded

(* Steps that move the run along and write nothing.                        *)
LEMMA ControlIInv ==
  ASSUME IInv, TypeOK',
         UNCHANGED <<raw, extract, rows, chunks>>,
         \/ pc' \in {"idle", "next", "consider", "notes"}
         \/ pc' = "index" /\ cur' = cur /\ Recorded(cur) /\ ~rows[cur].indexed
         \/ /\ pc' = "download" /\ cur' = cur
            /\ rows[cur].indexed \/ (~Recorded(cur) /\ extract[cur] = NoFile)
         \/ /\ pc = "download" /\ pc' = "writeRaw" /\ cur' = cur
  PROVE  IInv'
<1> USE DEF IInv, Recorded
<1>1. IndexedMeansComplete' /\ RowsHaveFiles' /\ FilesAgree'
  BY DEF IndexedMeansComplete, Complete, RowsHaveFiles, DumpMatches, FilesAgree
<1>2. DownloadInv'
  BY DEF DownloadInv
<1>3. IndexInv'
  BY DEF IndexInv
<1> QED  BY <1>1, <1>2, <1>3

LEMMA UnindexedFacts ==
  ASSUME IInv, NEW d \in Docs
  PROVE  /\ rows[d].indexed => HasDocument(d)
         /\ Recorded(d) /\ ~rows[d].indexed => DumpMatches(d)
         /\ ~Recorded(d) /\ ~Orphan(d) => extract[d] = NoFile
<1>1. rows[d].indexed => HasDocument(d)
  <2> SUFFICES ASSUME rows[d].indexed PROVE HasDocument(d)
    OBVIOUS
  <2>1. chunks[d] = [from |-> Whole(rows[d].sha.ver), n |-> NBatches]
    BY DEF IInv, IndexedMeansComplete, Complete
  <2>2. chunks[d].n = NBatches
    BY <2>1
  <2> QED  BY <2>2, IngestAssumption DEF HasDocument
<1>2. Recorded(d) /\ ~rows[d].indexed => DumpMatches(d)
  BY DEF IInv, RowsHaveFiles
<1>3. ~Recorded(d) /\ ~Orphan(d) => extract[d] = NoFile
  BY DEF IInv, FilesAgree, Orphan
<1> QED  BY <1>1, <1>2, <1>3

LEMMA RunStepIInv ==
  ASSUME IInv, TypeOK',
         \/ StartJob
         \/ \E d \in Docs : Take(d)
         \/ MarkComplete \/ WriteNotes
         \/ RepairIndex \/ LeaveAsIs \/ NeedsDownload
         \/ FetchNonPdf \/ \E v \in Versions : FetchPdf(v)
         \/ Abort \/ TearManifest
  PROVE  IInv'
<1> USE DEF dump, run, Goto
<1>0. cur \in Docs
  BY DEF IInv, TypeOK
<1>1. CASE StartJob
  BY <1>1, ControlIInv DEF StartJob, StartFull, StartRefresh, Start
<1>2. ASSUME NEW d \in Docs, Take(d) PROVE IInv'
  BY <1>2, ControlIInv DEF Take
<1>3. CASE MarkComplete
  BY <1>3, ControlIInv DEF MarkComplete
<1>4. CASE WriteNotes
  BY <1>4, ControlIInv DEF WriteNotes, EndRun
<1>5. CASE RepairIndex
  <2>1. Recorded(cur) /\ ~rows[cur].indexed
    BY <1>0, <1>5, UnindexedFacts DEF RepairIndex, NeedsIndex, DumpMatches
  <2> QED  BY <1>5, <2>1, ControlIInv DEF RepairIndex
<1>6. CASE LeaveAsIs
  BY <1>6, ControlIInv DEF LeaveAsIs
<1>7. CASE NeedsDownload
  <2>1. rows[cur].indexed \/ (~Recorded(cur) /\ extract[cur] = NoFile)
    BY <1>0, <1>7, UnindexedFacts DEF NeedsDownload, NeedsIndex
  <2> QED  BY <1>7, <2>1, ControlIInv DEF NeedsDownload
<1>8. CASE FetchNonPdf
  BY <1>8, ControlIInv DEF FetchNonPdf
<1>9. ASSUME NEW v \in Versions, FetchPdf(v) PROVE IInv'
  BY <1>9, ControlIInv DEF FetchPdf
<1>10. CASE Abort
  BY <1>10, ControlIInv DEF Abort, EndRun
<1>11. CASE TearManifest
  BY <1>11, ControlIInv DEF TearManifest, EndRun
<1> QED
  BY <1>1, <1>2, <1>3, <1>4, <1>5, <1>6, <1>7, <1>8, <1>9, <1>10, <1>11

LEMMA FileWriteIInv ==
  ASSUME IInv, TypeOK', WriteRaw \/ WriteExtract \/ TearRaw
  PROVE  IInv'
<1> USE DEF run, Goto, Recorded
<1>1. /\ cur \in Docs
      /\ raw \in [Docs -> Content]
      /\ extract \in [Docs -> Content]
  BY DEF IInv, TypeOK
<1>2. ~rows[cur].indexed => ~Recorded(cur) /\ extract[cur] = NoFile
  BY DEF IInv, DownloadInv, WriteRaw, WriteExtract, TearRaw
<1>3. rows' = rows /\ chunks' = chunks
  BY DEF WriteRaw, WriteExtract, TearRaw
<1>4. \A d \in Docs : d # cur => raw'[d] = raw[d] /\ extract'[d] = extract[d]
  BY <1>1 DEF WriteRaw, WriteExtract, TearRaw
<1>5. IndexedMeansComplete'
  BY <1>3 DEF IInv, IndexedMeansComplete, Complete
<1>6. IndexInv'
  BY DEF IndexInv, WriteRaw, WriteExtract, TearRaw, EndRun
<1>7. CASE WriteRaw
  <2>1. raw'[cur] = Whole(fetched[cur]) /\ extract' = extract
    BY <1>1, <1>7 DEF WriteRaw
  <2>2. RowsHaveFiles'
    BY <1>2, <1>3, <1>4, <2>1 DEF IInv, RowsHaveFiles, DumpMatches
  <2>3. FilesAgree'
    BY <1>2, <1>3, <1>4, <2>1 DEF IInv, FilesAgree
  <2>4. DownloadInv'
    BY <1>2, <1>3, <1>7, <2>1 DEF DownloadInv, WriteRaw
  <2> QED  BY <1>5, <1>6, <2>2, <2>3, <2>4 DEF IInv
<1>8. CASE WriteExtract
  <2>1. raw' = raw /\ raw[cur] = Whole(fetched[cur])
        /\ extract'[cur] = Whole(fetched[cur])
    BY <1>1, <1>8 DEF WriteExtract, IInv, DownloadInv
  <2>2. RowsHaveFiles'
    BY <1>2, <1>3, <1>4, <2>1, WholeFacts
    DEF IInv, RowsHaveFiles, DumpMatches
  <2>3. FilesAgree'
    BY <1>2, <1>3, <1>4, <2>1, WholeFacts DEF IInv, FilesAgree
  <2>4. DownloadInv'
    BY <1>8, <2>1 DEF DownloadInv, WriteExtract
  <2> QED  BY <1>5, <1>6, <2>2, <2>3, <2>4 DEF IInv
<1>9. CASE TearRaw
  <2>1. extract' = extract /\ pc' = "idle"
    BY <1>9 DEF TearRaw, EndRun
  <2>2. RowsHaveFiles'
    BY <1>2, <1>3, <1>4, <2>1 DEF IInv, RowsHaveFiles, DumpMatches
  <2>3. FilesAgree'
    BY <1>2, <1>3, <1>4, <2>1 DEF IInv, FilesAgree
  <2>4. DownloadInv'
    BY <2>1 DEF DownloadInv
  <2> QED  BY <1>5, <1>6, <2>2, <2>3, <2>4 DEF IInv
<1> QED  BY <1>7, <1>8, <1>9

(* Both writers of a dump row leave the row unindexed, with the checksum   *)
(* of files that agree.                                                    *)
LEMMA RowWriteIInv ==
  ASSUME IInv, TypeOK', AdoptOrphan \/ Checkpoint
  PROVE  IInv'
<1> USE DEF run, Recorded, DumpCheckpoint
<1>1. cur \in Docs /\ rows \in [Docs -> Row]
  BY DEF IInv, TypeOK
<1>2. raw' = raw /\ extract' = extract /\ chunks' = chunks /\ cur' = cur
  BY DEF AdoptOrphan, Checkpoint
<1>3. \A d \in Docs : d # cur => rows'[d] = rows[d]
  BY <1>1 DEF AdoptOrphan, Checkpoint
<1>4. /\ raw[cur] # NoFile
      /\ raw[cur] = extract[cur]
      /\ extract[cur] = Whole(extract[cur].ver)
  <2>1. CASE AdoptOrphan
    BY <1>1, <2>1 DEF AdoptOrphan, Orphan, IInv, FilesAgree
  <2>2. CASE Checkpoint
    BY <2>2, WholeFacts DEF Checkpoint, IInv, DownloadInv
  <2> QED  BY <2>1, <2>2
<1>5. rows'[cur] = [sha |-> raw[cur], indexed |-> FALSE]
  BY <1>1, <1>4 DEF AdoptOrphan, Checkpoint, IInv, DownloadInv
<1>6. pc' \in {"consider", "index"}
  BY DEF AdoptOrphan, Checkpoint
<1>7. IndexedMeansComplete'
  BY <1>2, <1>3, <1>5 DEF IInv, IndexedMeansComplete, Complete
<1>8. RowsHaveFiles'
  BY <1>2, <1>3, <1>4, <1>5 DEF IInv, RowsHaveFiles, DumpMatches
<1>9. FilesAgree'
  BY <1>2, <1>3, <1>4, <1>5 DEF IInv, FilesAgree
<1>10. DownloadInv' /\ IndexInv'
  BY <1>2, <1>4, <1>5, <1>6 DEF DownloadInv, IndexInv
<1> QED  BY <1>7, <1>8, <1>9, <1>10 DEF IInv

LEMMA IndexStepIInv ==
  ASSUME IInv, TypeOK', DeleteDocument \/ UpsertBatch \/ FlagIndexed
  PROVE  IInv'
<1> USE DEF run, dump, Goto, Recorded
<1>1. /\ cur \in Docs
      /\ rows \in [Docs -> Row]
      /\ chunks \in [Docs -> Chunks]
      /\ chunks[cur] \in Chunks
  BY DEF IInv, TypeOK
<1>2. Recorded(cur) /\ ~rows[cur].indexed
  BY DEF IInv, IndexInv, DeleteDocument, UpsertBatch, FlagIndexed
<1>3. DumpMatches(cur)
  BY <1>1, <1>2 DEF IInv, RowsHaveFiles
<1>4. extract[cur] = rows[cur].sha /\ extract[cur] = Whole(extract[cur].ver)
  BY <1>1, <1>2, <1>3 DEF IInv, RowsHaveFiles, FilesAgree, DumpMatches
<1>5. raw' = raw /\ extract' = extract /\ cur' = cur
  BY DEF DeleteDocument, UpsertBatch, FlagIndexed
<1>6. CASE DeleteDocument \/ UpsertBatch
  <2>1. rows' = rows /\ pc' = "upsert"
    BY <1>6 DEF DeleteDocument, UpsertBatch
  <2>2. \A d \in Docs : d # cur => chunks'[d] = chunks[d]
    BY <1>1, <1>6 DEF DeleteDocument, UpsertBatch
  <2>3. chunks'[cur].n = 0 \/ chunks'[cur].from = extract[cur]
    BY <1>1, <1>6 DEF DeleteDocument, UpsertBatch, NoChunks
  <2>4. IndexedMeansComplete'
    BY <1>2, <2>1, <2>2 DEF IInv, IndexedMeansComplete, Complete
  <2>5. RowsHaveFiles' /\ FilesAgree'
    BY <1>5, <2>1 DEF IInv, RowsHaveFiles, FilesAgree, DumpMatches
  <2>6. DownloadInv' /\ IndexInv'
    BY <1>2, <1>5, <2>1, <2>3 DEF DownloadInv, IndexInv
  <2> QED  BY <2>4, <2>5, <2>6 DEF IInv
<1>7. CASE FlagIndexed
  <2>1. chunks' = chunks /\ pc' = after /\ after \in {"next", "download"}
    BY <1>7 DEF FlagIndexed, IInv, TypeOK
  <2>2. /\ \A d \in Docs : d # cur => rows'[d] = rows[d]
        /\ rows'[cur] = [rows[cur] EXCEPT !.indexed = TRUE]
    BY <1>1, <1>7 DEF FlagIndexed
  <2>3. rows'[cur].sha = rows[cur].sha /\ rows'[cur].indexed
    BY <1>1, <2>2 DEF Row
  <2>4. chunks[cur].n = NBatches
    BY <1>4, <1>7, WholeFacts DEF FlagIndexed
  <2>5. chunks[cur].from = extract[cur]
    BY <1>7, <2>4, IngestAssumption DEF FlagIndexed, IInv, IndexInv
  <2>6. chunks[cur] = [from |-> Whole(rows[cur].sha.ver), n |-> NBatches]
    BY <1>1, <1>4, <2>4, <2>5 DEF Chunks
  <2>7. IndexedMeansComplete'
    BY <2>1, <2>2, <2>3, <2>6 DEF IInv, IndexedMeansComplete, Complete
  <2>8. RowsHaveFiles'
    BY <1>1, <1>2, <1>5, <2>2, <2>3 DEF IInv, RowsHaveFiles, DumpMatches
  <2>9. FilesAgree'
    BY <1>2, <1>5, <2>2, <2>3 DEF IInv, FilesAgree
  <2>10. DownloadInv' /\ IndexInv'
    BY <1>5, <2>1, <2>3 DEF DownloadInv, IndexInv
  <2> QED  BY <2>7, <2>8, <2>9, <2>10 DEF IInv
<1> QED  BY <1>6, <1>7

LEMMA InductiveIInv ==
  ASSUME Undamaged, IInv, [Next]_vars
  PROVE  IInv'
<1>1. TypeOK'
  BY NextKeepsTypes DEF IInv
<1>2. CASE StartJob
  BY <1>1, <1>2, RunStepIInv
<1>3. CASE JobStep
  BY <1>1, <1>3, RunStepIInv, FileWriteIInv, RowWriteIInv, IndexStepIInv
  DEF JobStep
<1>4. CASE Fault
  <2>1. ~TearExtract /\ ~WipeIndex
    BY DEF Undamaged, TearExtract, WipeIndex
  <2> QED  BY <1>1, <1>4, <2>1, RunStepIInv, FileWriteIInv DEF Fault
<1>5. CASE UNCHANGED vars
  BY <1>5 DEF vars, IInv, TypeOK, IndexedMeansComplete, Complete,
     RowsHaveFiles, Recorded, DumpMatches, FilesAgree, DownloadInv, IndexInv
<1> QED  BY <1>2, <1>3, <1>4, <1>5 DEF Next

(* As long as the index is not wiped and no extract is torn, a row flagged *)
(* indexed is served whole, in the version the row records, after any      *)
(* sequence of runs, crashes and replacements.                             *)
THEOREM IndexedComplete ==
  ASSUME Undamaged
  PROVE  Spec => []IndexedMeansComplete
<1>1. Init => IInv
  BY InitIInv
<1>2. IInv /\ [Next]_vars => IInv'
  BY InductiveIInv
<1>3. IInv => IndexedMeansComplete
  BY DEF IInv
<1> QED  BY <1>1, <1>2, <1>3, PTL DEF Spec

(***************************************************************************)
(* What holds of a run whatever goes wrong, torn extracts and a wiped      *)
(* index included.                                                         *)
(***************************************************************************)

LEMMA TornFacts ==
  /\ \A v : Whole(v) # NoFile /\ Whole(v).ver = v /\ Whole(v).form = "whole"
  /\ \A v : \A c \in Torn(v) : c # NoFile /\ c.ver = v /\ c.form # "absent"
BY DEF Whole, Torn, NoFile

(* Every file on disk, and every checksum, is of a published version, and  *)
(* a recorded document has an extract.                                     *)
FilesInv ==
  /\ \A d \in Docs : extract[d] # NoFile =>
       extract[d].form # "absent" /\ extract[d].ver \in Versions
  /\ \A d \in Docs : raw[d] # NoFile => raw[d].ver \in Versions
  /\ \A d \in Docs : Recorded(d) =>
       extract[d].form # "absent" /\ rows[d].sha.ver \in Versions
  /\ pc \in {"index", "upsert"} => Recorded(cur)
  /\ pc = "checkpoint" => extract[cur].form # "absent"
  /\ pc \in {"writeRaw", "writeExtract", "checkpoint"} => fetched[cur] \in Versions

LEMMA NextKeepsFilesInv ==
  ASSUME TypeOK, FilesInv, [Next]_vars
  PROVE  FilesInv'
<1> USE DEF dump, run, Goto, TypeOK, Recorded, FilesInv
<1>1. CASE StartJob
  BY <1>1 DEF StartJob, StartFull, StartRefresh, Start
<1>2. ASSUME NEW d \in Docs, Take(d) PROVE FilesInv'
  BY <1>2 DEF Take
<1>3. CASE MarkComplete \/ LeaveAsIs \/ NeedsDownload \/ FetchNonPdf
  BY <1>3 DEF MarkComplete, LeaveAsIs, NeedsDownload, FetchNonPdf
<1>4. CASE AdoptOrphan
  BY <1>4 DEF AdoptOrphan, Orphan, DumpCheckpoint
<1>5. CASE RepairIndex
  BY <1>5 DEF RepairIndex, DumpMatches
<1>6. ASSUME NEW v \in Versions, FetchPdf(v) PROVE FilesInv'
  BY <1>6 DEF FetchPdf
<1>7. CASE WriteRaw
  BY <1>7, TornFacts DEF WriteRaw
<1>8. CASE WriteExtract
  BY <1>8, TornFacts DEF WriteExtract
<1>9. CASE Checkpoint
  BY <1>9, TornFacts DEF Checkpoint, DumpCheckpoint
<1>10. CASE DeleteDocument \/ UpsertBatch
  BY <1>10 DEF DeleteDocument, UpsertBatch
<1>11. CASE FlagIndexed
  BY <1>11 DEF FlagIndexed
<1>12. CASE Abort \/ WriteNotes \/ TearManifest
  BY <1>12 DEF Abort, WriteNotes, TearManifest, EndRun
<1>13. CASE TearRaw
  BY <1>13, TornFacts DEF TearRaw, EndRun
<1>14. CASE TearExtract
  BY <1>14, TornFacts DEF TearExtract, EndRun
<1>15. CASE WipeIndex
  BY <1>15 DEF WipeIndex
<1>16. CASE UNCHANGED vars
  BY <1>16 DEF vars
<1> QED
  BY <1>1, <1>2, <1>3, <1>4, <1>5, <1>6, <1>7, <1>8, <1>9, <1>10, <1>11, <1>12,
     <1>13, <1>14, <1>15, <1>16 DEF Next, JobStep, Fault

(* The raw PDF of a recorded comunicación is the one recorded: a download  *)
(* is only ever of one that is not recorded and lacks a file, and only the *)
(* texto ordenado is downloaded after its index was repaired.              *)
StoredInv ==
  /\ \A c \in Comms : Recorded(c) => raw[c] = rows[c].sha
  /\ pc \in {"download", "writeRaw", "writeExtract", "checkpoint"} /\ cur \in Comms =>
       ~Recorded(cur)
  /\ pc = "download" /\ cur \in Comms => raw[cur] = NoFile \/ extract[cur] = NoFile
  /\ pc \in {"writeExtract", "checkpoint"} => raw[cur] = Whole(fetched[cur])
  /\ pc \in {"index", "upsert"} /\ after = "download" => cur = TO

LEMMA NextKeepsStoredInv ==
  ASSUME TypeOK, StoredInv, [Next]_vars
  PROVE  StoredInv'
<1> USE IngestAssumption DEF dump, run, Goto, TypeOK, Recorded, StoredInv, Docs
<1>1. CASE StartJob
  BY <1>1 DEF StartJob, StartFull, StartRefresh, Start
<1>2. ASSUME NEW d \in Docs, Take(d) PROVE StoredInv'
  BY <1>2 DEF Take
<1>3. CASE MarkComplete \/ LeaveAsIs \/ FetchNonPdf
  BY <1>3 DEF MarkComplete, LeaveAsIs, FetchNonPdf
<1>4. CASE AdoptOrphan
  BY <1>4 DEF AdoptOrphan, DumpCheckpoint
<1>5. CASE RepairIndex
  BY <1>5 DEF RepairIndex, Replace
<1>6. CASE NeedsDownload
  BY <1>6 DEF NeedsDownload, Replace, DumpMatches, Orphan
<1>7. ASSUME NEW v \in Versions, FetchPdf(v) PROVE StoredInv'
  BY <1>7 DEF FetchPdf
<1>8. CASE WriteRaw
  BY <1>8 DEF WriteRaw
<1>9. CASE WriteExtract
  BY <1>9 DEF WriteExtract
<1>10. CASE Checkpoint
  BY <1>10 DEF Checkpoint, DumpCheckpoint
<1>11. CASE DeleteDocument \/ UpsertBatch
  BY <1>11 DEF DeleteDocument, UpsertBatch
<1>12. CASE FlagIndexed
  BY <1>12 DEF FlagIndexed
<1>13. CASE Abort \/ WriteNotes \/ TearManifest
  BY <1>13 DEF Abort, WriteNotes, TearManifest, EndRun
<1>14. CASE TearRaw
  BY <1>14 DEF TearRaw, EndRun
<1>15. CASE TearExtract
  BY <1>15 DEF TearExtract, EndRun
<1>16. CASE WipeIndex
  BY <1>16 DEF WipeIndex
<1>17. CASE UNCHANGED vars
  BY <1>17 DEF vars
<1> QED
  BY <1>1, <1>2, <1>3, <1>4, <1>5, <1>6, <1>7, <1>8, <1>9, <1>10, <1>11, <1>12,
     <1>13, <1>14, <1>15, <1>16, <1>17 DEF Next, JobStep, Fault

(* A document of the run is still to do, was skipped, is the one at hand,  *)
(* or is served.                                                           *)
Busy == pc \notin {"idle", "next", "notes"}
ServedOrEmpty(d) == rows[d].indexed /\ (HasDocument(d) \/ extract[d].form = "empty")

CoverInv ==
  /\ \A d \in scope : d \in todo \/ d \in skipped \/ (d = cur /\ Busy) \/ ServedOrEmpty(d)
  /\ pc = "idle" => scope = {}

LEMMA NextKeepsCoverInv ==
  ASSUME TypeOK, FilesInv, CoverInv, [Next]_vars
  PROVE  CoverInv'
<1> USE DEF dump, run, Goto, TypeOK, CoverInv, Busy, ServedOrEmpty, HasDocument
<1>1. CASE StartJob
  BY <1>1 DEF StartJob, StartFull, StartRefresh, Start
<1>2. ASSUME NEW d \in Docs, Take(d) PROVE CoverInv'
  BY <1>2 DEF Take
<1>3. CASE MarkComplete \/ RepairIndex \/ NeedsDownload \/ FetchNonPdf
  BY <1>3 DEF MarkComplete, RepairIndex, NeedsDownload, FetchNonPdf
<1>4. CASE LeaveAsIs
  BY <1>4 DEF LeaveAsIs, NeedsIndex
<1>5. CASE AdoptOrphan
  BY <1>5 DEF AdoptOrphan, DumpCheckpoint
<1>6. ASSUME NEW v \in Versions, FetchPdf(v) PROVE CoverInv'
  BY <1>6 DEF FetchPdf, Unchanged
<1>7. CASE WriteRaw
  BY <1>7 DEF WriteRaw
<1>8. CASE WriteExtract
  BY <1>8 DEF WriteExtract
<1>9. CASE Checkpoint
  BY <1>9 DEF Checkpoint, DumpCheckpoint
<1>10. CASE DeleteDocument
  BY <1>10 DEF DeleteDocument
<1>11. CASE UpsertBatch
  BY <1>11 DEF UpsertBatch
<1>12. CASE FlagIndexed
  <2>1. /\ rows' = [rows EXCEPT ![cur].indexed = TRUE]
        /\ pc' \in {"next", "download"}
        /\ UNCHANGED <<cur, extract, chunks, todo, scope, skipped>>
    BY <1>12 DEF FlagIndexed
  <2>2. extract[cur].form # "absent"
    BY <1>12 DEF FlagIndexed, FilesInv
  <2>3. chunks[cur].n > 0 \/ extract[cur].form = "empty"
    BY <1>12, <2>2, IngestAssumption DEF FlagIndexed, BatchesOf, Content, Forms, Chunks
  <2>4. /\ rows'[cur].indexed
        /\ \A d \in Docs : d # cur => rows'[d] = rows[d]
    BY <2>1 DEF Row
  <2> QED
    BY <1>12, <2>1, <2>3, <2>4 DEF FlagIndexed
<1>13. CASE Abort \/ WriteNotes \/ TearManifest \/ TearRaw \/ TearExtract
  BY <1>13 DEF Abort, WriteNotes, TearManifest, TearRaw, TearExtract, EndRun
<1>14. CASE WipeIndex
  BY <1>14 DEF WipeIndex
<1>15. CASE UNCHANGED vars
  BY <1>15 DEF vars
<1> QED
  BY <1>1, <1>2, <1>3, <1>4, <1>5, <1>6, <1>7, <1>8, <1>9, <1>10, <1>11, <1>12,
     <1>13, <1>14, <1>15 DEF Next, JobStep, Fault

(* Once a run has downloaded the texto ordenado and is done with it, the   *)
(* manifest records that download, indexed; nothing but a download fetches *)
(* it, and only once.                                                      *)
Replacing == pc \in {"writeRaw", "writeExtract", "checkpoint", "index", "upsert"} /\ cur = TO

FetchInv ==
  /\ Busy => cur \notin todo
  /\ pc = "idle" => fetched[TO] = NoVersion
  /\ fetched[TO] # NoVersion => TO \notin todo
  /\ pc \in {"consider", "download"} /\ cur = TO => fetched[TO] = NoVersion
  /\ pc \in {"index", "upsert"} /\ cur = TO /\ fetched[TO] # NoVersion =>
       after = "next" /\ rows[TO].sha = Whole(fetched[TO])
  /\ fetched[TO] # NoVersion /\ ~Replacing =>
       rows[TO].sha = Whole(fetched[TO]) /\ rows[TO].indexed

LEMMA NextKeepsFetchInv ==
  ASSUME TypeOK, FetchInv, [Next]_vars
  PROVE  FetchInv'
<1> USE IngestAssumption DEF dump, run, Goto, TypeOK, FetchInv, Busy, Replacing, Docs
<1>1. CASE StartJob
  BY <1>1 DEF StartJob, StartFull, StartRefresh, Start
<1>2. ASSUME NEW d \in Docs, Take(d) PROVE FetchInv'
  BY <1>2 DEF Take
<1>3. CASE MarkComplete \/ RepairIndex \/ LeaveAsIs \/ NeedsDownload \/ FetchNonPdf
  BY <1>3 DEF MarkComplete, RepairIndex, LeaveAsIs, NeedsDownload, FetchNonPdf
<1>4. CASE AdoptOrphan
  BY <1>4 DEF AdoptOrphan, DumpCheckpoint
<1>5. ASSUME NEW v \in Versions, FetchPdf(v) PROVE FetchInv'
  BY <1>5 DEF FetchPdf, Unchanged
<1>6. CASE WriteRaw
  BY <1>6 DEF WriteRaw
<1>7. CASE WriteExtract
  BY <1>7 DEF WriteExtract
<1>8. CASE Checkpoint
  BY <1>8 DEF Checkpoint, DumpCheckpoint
<1>9. CASE DeleteDocument \/ UpsertBatch
  BY <1>9 DEF DeleteDocument, UpsertBatch
<1>10. CASE FlagIndexed
  BY <1>10 DEF FlagIndexed
<1>11. CASE Abort \/ WriteNotes \/ TearManifest \/ TearRaw \/ TearExtract
  BY <1>11 DEF Abort, WriteNotes, TearManifest, TearRaw, TearExtract, EndRun
<1>12. CASE WipeIndex
  BY <1>12 DEF WipeIndex
<1>13. CASE UNCHANGED vars
  BY <1>13 DEF vars
<1> QED
  BY <1>1, <1>2, <1>3, <1>4, <1>5, <1>6, <1>7, <1>8, <1>9, <1>10, <1>11, <1>12,
     <1>13 DEF Next, JobStep, Fault

RunInv == TypeOK /\ FilesInv /\ StoredInv /\ CoverInv /\ FetchInv

LEMMA InitRunInv == Init => RunInv
<1> SUFFICES ASSUME Init PROVE RunInv
  OBVIOUS
<1>1. TypeOK
  BY ContentFacts DEF Init, TypeOK, Docs, Steps
<1>2. /\ pc = "idle"
      /\ \A d \in Docs : raw[d] = NoFile /\ extract[d] = NoFile /\ ~Recorded(d)
  BY DEF Init, NoRow, Recorded
<1>3. FilesInv /\ StoredInv
  BY <1>2 DEF FilesInv, StoredInv, Docs
<1>4. CoverInv /\ FetchInv
  BY DEF Init, CoverInv, FetchInv, Busy, Docs
<1> QED
  BY <1>1, <1>3, <1>4 DEF RunInv

LEMMA AlwaysRunInv == Spec => []RunInv
<1>1. RunInv /\ [Next]_vars => RunInv'
  BY NextKeepsTypes, NextKeepsFilesInv, NextKeepsStoredInv, NextKeepsCoverInv,
     NextKeepsFetchInv DEF RunInv
<1> QED
  BY <1>1, InitRunInv, PTL DEF Spec

LEMMA AlwaysIInv ==
  ASSUME Undamaged
  PROVE  Spec => []IInv
<1>1. IInv /\ [Next]_vars => IInv'
  BY InductiveIInv
<1> QED
  BY <1>1, InitIInv, PTL DEF Spec

(* A run marks itself complete only when nothing is left to do.            *)
LEMMA FinishesWhenDone ==
  ASSUME [Next]_vars, Finishes
  PROVE  todo = {}
<1>1. ~StartJob
  BY DEF StartJob, StartFull, StartRefresh, Start, Finishes
<1>2. ~Fault
  BY DEF Fault, Abort, TearRaw, TearExtract, TearManifest, WipeIndex, EndRun, Finishes
<1>3. ~UNCHANGED vars
  BY DEF vars, Finishes
<1>4. ASSUME NEW d \in Docs PROVE ~Take(d)
  BY DEF Take, Finishes
<1>5. ASSUME NEW v \in Versions PROVE ~FetchPdf(v)
  BY DEF FetchPdf, Finishes
<1>6. JobStep => MarkComplete
  BY <1>4, <1>5 DEF JobStep, WriteNotes, AdoptOrphan, RepairIndex, LeaveAsIs,
     NeedsDownload, FetchNonPdf, WriteRaw, WriteExtract, Checkpoint, DeleteDocument,
     UpsertBatch, FlagIndexed, Finishes
<1> QED
  BY <1>1, <1>2, <1>3, <1>6 DEF Next, MarkComplete

(* What a run that marks itself complete has not skipped, it serves.       *)
LEMMA FinishedScope ==
  ASSUME RunInv, [Next]_vars, Finishes, NEW d \in scope \ skipped
  PROVE  d \in Docs /\ ServedOrEmpty(d)
BY FinishesWhenDone DEF RunInv, CoverInv, Busy, Finishes, TypeOK

(* Even with the index wiped between runs and extracts torn, a run marked  *)
(* complete serves its scope, but for what was skipped or has no text.     *)
THEOREM FinishedRunsServe == Spec => FinishedRunServesScope
<1>1. RunInv /\ [Next]_vars =>
        [Finishes => \A d \in scope \ skipped :
           rows[d].indexed /\ (HasDocument(d) \/ extract[d].form = "empty")]_vars
  BY FinishedScope DEF ServedOrEmpty
<1> QED
  BY <1>1, AlwaysRunInv, PTL DEF Spec, FinishedRunServesScope

(* With an index that is not wiped and extracts that are not torn, it      *)
(* serves its scope whole.                                                 *)
THEOREM FinishedRunsCover ==
  ASSUME Undamaged
  PROVE  Spec => FinishedRunCoversScope
<1>1. RunInv /\ IInv /\ [Next]_vars =>
        [Finishes => \A d \in scope \ skipped : rows[d].indexed /\ Complete(d)]_vars
  BY FinishedScope DEF ServedOrEmpty, IInv, IndexedMeansComplete
<1> QED
  BY <1>1, AlwaysRunInv, AlwaysIInv, PTL DEF Spec, FinishedRunCoversScope

(* A refresh that downloaded the texto ordenado and was marked complete    *)
(* answers from that download.                                             *)
THEOREM RefreshesServe ==
  ASSUME Undamaged
  PROVE  Spec => RefreshServesWhatItFetched
<1>1. RunInv /\ IInv /\ [Next]_vars =>
        [Finishes /\ mode = "refresh" /\ fetched[TO] # NoVersion =>
           chunks[TO] = [from |-> Whole(fetched[TO]), n |-> NBatches]]_vars
  <2> SUFFICES ASSUME RunInv, IInv, Finishes, fetched[TO] # NoVersion
               PROVE  chunks[TO] = [from |-> Whole(fetched[TO]), n |-> NBatches]
    OBVIOUS
  <2>1. rows[TO].sha = Whole(fetched[TO]) /\ rows[TO].indexed
    BY DEF RunInv, FetchInv, Replacing, Finishes
  <2>2. Complete(TO)
    BY <2>1 DEF IInv, IndexedMeansComplete, Docs
  <2> QED
    BY <2>1, <2>2, TornFacts DEF Complete
<1> QED
  BY <1>1, AlwaysRunInv, AlwaysIInv, PTL DEF Spec, RefreshServesWhatItFetched

(* A comunicación with both of its files on disk is never downloaded       *)
(* again, whatever crash, torn write or wiped index came before.           *)
THEOREM StoredCommsStay == Spec => StoredCommNeverFetched
<1>1. RunInv /\ [Next]_vars =>
        [\A c \in Comms : fetched'[c] # fetched[c] /\ fetched'[c] # NoVersion =>
           raw[c] = NoFile \/ extract[c] = NoFile]_vars
  <2> SUFFICES ASSUME RunInv, [Next]_vars, NEW c \in Comms,
                      fetched'[c] # fetched[c], fetched'[c] # NoVersion
               PROVE  raw[c] = NoFile \/ extract[c] = NoFile
    OBVIOUS
  <2>0. c \in Docs
    BY DEF Docs
  <2>1. ~StartJob /\ ~UNCHANGED vars
    BY DEF StartJob, StartFull, StartRefresh, Start, vars
  <2>2. ~Fault
    BY <2>0 DEF Fault, Abort, TearRaw, TearExtract, TearManifest, WipeIndex, EndRun, run
  <2>3. ASSUME NEW d \in Docs PROVE ~Take(d)
    BY DEF Take
  <2>4. ~WriteNotes
    BY <2>0 DEF WriteNotes, EndRun
  <2>5. JobStep => \E v \in Versions : FetchPdf(v)
    BY <2>3, <2>4 DEF JobStep, MarkComplete, AdoptOrphan, RepairIndex, LeaveAsIs,
       NeedsDownload, FetchNonPdf, WriteRaw, WriteExtract, Checkpoint,
       DeleteDocument, UpsertBatch, FlagIndexed, Goto, run
  <2>6. PICK v \in Versions : FetchPdf(v)
    BY <2>1, <2>2, <2>5 DEF Next
  <2>7. pc = "download" /\ cur = c
    BY <2>0, <2>6 DEF FetchPdf, RunInv, TypeOK
  <2> QED
    BY <2>7 DEF RunInv, StoredInv
<1> QED
  BY <1>1, AlwaysRunInv, PTL DEF Spec, StoredCommNeverFetched

(* The date of the texto ordenado moves with its row: the checkpoint and   *)
(* the adoption of an orphan write both, and read the date in the text the *)
(* row records.                                                            *)
LEMMA NextKeepsLabel ==
  ASSUME Undamaged, Dated = Versions, RunInv, IInv, FreezeLabelMatchesTO, [Next]_vars
  PROVE  FreezeLabelMatchesTO'
<1> USE DEF FreezeLabelMatchesTO
<1>0. cur \in Docs /\ TO \in Docs /\ rows \in [Docs -> Row]
  BY DEF IInv, TypeOK, Docs
<1>1. UNCHANGED <<rows, toAsOf>> => FreezeLabelMatchesTO'
  OBVIOUS
<1>2. ASSUME NEW v \in Versions, DumpCheckpoint(Whole(v), Whole(v))
      PROVE  FreezeLabelMatchesTO'
  <2>1. AsOf(Whole(v)) = {v} /\ Whole(v).ver = v
    BY DEF AsOf, Whole
  <2>2. CASE cur = TO
    BY <1>0, <1>2, <2>1, <2>2 DEF DumpCheckpoint
  <2>3. CASE cur # TO
    BY <1>0, <1>2, <2>3 DEF DumpCheckpoint
  <2> QED
    BY <2>2, <2>3
<1>3. CASE AdoptOrphan
  <2>1. /\ raw[cur] = extract[cur] /\ extract[cur] = Whole(extract[cur].ver)
        /\ extract[cur].ver \in Versions
    BY <1>0, <1>3 DEF AdoptOrphan, Orphan, IInv, FilesAgree, RunInv, FilesInv
  <2> QED
    BY <1>2, <1>3, <2>1 DEF AdoptOrphan
<1>4. CASE Checkpoint
  BY <1>2, <1>4 DEF Checkpoint, RunInv, FilesInv
<1>5. CASE FlagIndexed
  <2>1. rows' = [rows EXCEPT ![cur].indexed = TRUE] /\ UNCHANGED toAsOf
    BY <1>5 DEF FlagIndexed
  <2>2. rows'[TO].sha = rows[TO].sha
    BY <1>0, <2>1 DEF Row
  <2> QED
    BY <2>1, <2>2
<1>6. CASE StartJob
  BY <1>1, <1>6 DEF StartJob, StartFull, StartRefresh, Start, dump
<1>7. ASSUME NEW d \in Docs, Take(d) PROVE FreezeLabelMatchesTO'
  BY <1>1, <1>7 DEF Take, dump
<1>8. ASSUME NEW v \in Versions, FetchPdf(v) PROVE FreezeLabelMatchesTO'
  BY <1>1, <1>8 DEF FetchPdf, dump
<1>9. JobStep => \/ AdoptOrphan \/ Checkpoint \/ FlagIndexed \/ \E d \in Docs : Take(d)
                 \/ \E v \in Versions : FetchPdf(v)
                 \/ UNCHANGED <<rows, toAsOf>>
  BY DEF JobStep, MarkComplete, WriteNotes, RepairIndex, LeaveAsIs, NeedsDownload,
     FetchNonPdf, WriteRaw, WriteExtract, DeleteDocument, UpsertBatch, dump
<1>10. Fault \/ UNCHANGED vars => UNCHANGED <<rows, toAsOf>>
  BY DEF Fault, Abort, TearRaw, TearExtract, TearManifest, WipeIndex, dump, vars
<1> QED
  BY <1>1, <1>3, <1>4, <1>5, <1>6, <1>7, <1>8, <1>9, <1>10 DEF Next

(* When every published version says which comunicación it is updated to,  *)
(* and no extract is torn, the freeze label is the recorded version's.     *)
THEOREM FreezeLabelHolds ==
  ASSUME Undamaged, Dated = Versions
  PROVE  Spec => []FreezeLabelMatchesTO
<1>1. Init => FreezeLabelMatchesTO
  BY DEF Init, FreezeLabelMatchesTO, NoRow, NoFile, Docs
<1>2. RunInv /\ IInv /\ FreezeLabelMatchesTO /\ [Next]_vars => FreezeLabelMatchesTO'
  BY NextKeepsLabel
<1> QED
  BY <1>1, <1>2, AlwaysRunInv, AlwaysIInv, PTL DEF Spec

(***************************************************************************)
(* The jobs implement the corpus.  The two facts the mapping needs beyond  *)
(* IInv: a checksum is of a whole PDF, and a document that is written again *)
(* is one whose recorded version, already served, is another.              *)
(***************************************************************************)

ReplaceInv ==
  /\ \A d \in Docs : Recorded(d) => rows[d].sha = Whole(rows[d].sha.ver)
  /\ pc \in {"writeRaw", "writeExtract", "checkpoint"} => rows[cur].sha # Whole(fetched[cur])
  /\ pc = "checkpoint" /\ ~rows[cur].indexed => ~Recorded(cur)

LEMMA NextKeepsReplaceInv ==
  ASSUME Undamaged, RunInv, IInv, ReplaceInv, [Next]_vars
  PROVE  ReplaceInv'
<1> USE DEF dump, run, Goto, Recorded, ReplaceInv
<1>0. cur \in Docs /\ rows \in [Docs -> Row] /\ fetched \in [Docs -> Versions \cup {NoVersion}]
  BY DEF IInv, TypeOK
<1>1. CASE StartJob
  BY <1>1 DEF StartJob, StartFull, StartRefresh, Start
<1>2. ASSUME NEW d \in Docs, Take(d) PROVE ReplaceInv'
  BY <1>2 DEF Take
<1>3. CASE MarkComplete \/ RepairIndex \/ LeaveAsIs \/ NeedsDownload \/ FetchNonPdf
  BY <1>3 DEF MarkComplete, RepairIndex, LeaveAsIs, NeedsDownload, FetchNonPdf
<1>4. CASE AdoptOrphan
  <2>1. raw[cur] = extract[cur] /\ extract[cur] = Whole(extract[cur].ver)
    BY <1>0, <1>4 DEF AdoptOrphan, Orphan, IInv, FilesAgree
  <2> QED
    BY <1>0, <1>4, <2>1, TornFacts DEF AdoptOrphan, DumpCheckpoint
<1>5. ASSUME NEW v \in Versions, FetchPdf(v) PROVE ReplaceInv'
  <2>1. rows[cur].indexed => HasDocument(cur)
    BY <1>0, UnindexedFacts
  <2>2. ~rows[cur].indexed => ~Recorded(cur)
    BY <1>5 DEF FetchPdf, IInv, DownloadInv
  <2>3. ~Unchanged(v) => rows[cur].sha # Whole(v)
    BY <2>1, <2>2, TornFacts DEF Unchanged
  <2>4. fetched'[cur] = v
    BY <1>0, <1>5 DEF FetchPdf
  <2> QED
    BY <1>5, <2>3, <2>4 DEF FetchPdf
<1>6. CASE WriteRaw
  BY <1>6 DEF WriteRaw
<1>7. CASE WriteExtract
  BY <1>7 DEF WriteExtract, IInv, DownloadInv
<1>8. CASE Checkpoint
  BY <1>0, <1>8, TornFacts DEF Checkpoint, DumpCheckpoint
<1>9. CASE DeleteDocument \/ UpsertBatch
  BY <1>9 DEF DeleteDocument, UpsertBatch
<1>10. CASE FlagIndexed
  BY <1>0, <1>10 DEF FlagIndexed, IInv, TypeOK, Row
<1>11. CASE Abort \/ WriteNotes \/ TearManifest \/ TearRaw
  BY <1>11 DEF Abort, WriteNotes, TearManifest, TearRaw, EndRun
<1>12. ~TearExtract /\ ~WipeIndex
  BY DEF Undamaged, TearExtract, WipeIndex
<1>13. CASE UNCHANGED vars
  BY <1>13 DEF vars
<1> QED
  BY <1>1, <1>2, <1>3, <1>4, <1>5, <1>6, <1>7, <1>8, <1>9, <1>10, <1>11, <1>12,
     <1>13 DEF Next, JobStep, Fault

CorpusRows == [d \in Docs |-> CorpusRow(d)]
CorpusServed == [d \in Docs |-> ServedVersion(d)]

(* A write that concerns one document changes its row only, in the corpus  *)
(* too, and so a write to the index.                                       *)
LEMMA OneRowChanges ==
  ASSUME NEW c \in Docs, \A d \in Docs : d # c => rows'[d] = rows[d]
  PROVE  CorpusRows' = [CorpusRows EXCEPT ![c] = CorpusRow(c)']
<1>1. \A d \in Docs : d # c => CorpusRow(d)' = CorpusRow(d)
  BY DEF CorpusRow, Recorded
<1>2. \A d \in Docs : d = c => CorpusRow(d)' = CorpusRow(c)'
  BY DEF CorpusRow, Recorded
<1> QED
  BY <1>1, <1>2 DEF CorpusRows

LEMMA OneIndexChanges ==
  ASSUME NEW c \in Docs, \A d \in Docs : d # c => chunks'[d] = chunks[d]
  PROVE  CorpusServed' = [CorpusServed EXCEPT ![c] = ServedVersion(c)']
<1>1. \A d \in Docs : d # c => ServedVersion(d)' = ServedVersion(d)
  BY DEF ServedVersion
<1>2. \A d \in Docs : d = c => ServedVersion(d)' = ServedVersion(c)'
  BY DEF ServedVersion
<1> QED
  BY <1>1, <1>2 DEF CorpusServed

LEMMA CorpusDomain == Corp!CorpusDocs = Docs
BY DEF Corp!CorpusDocs, Docs

(* Recording: an orphan adopted, or a download checkpointed.               *)
LEMMA RecordStep ==
  ASSUME RunInv, IInv, ReplaceInv, AdoptOrphan \/ Checkpoint
  PROVE  \E d \in Docs : \E v \in Versions : Corp!Record(d, v)
<1> PICK c \in Docs : c = cur
  BY DEF IInv, TypeOK
<1>0. rows \in [Docs -> Row]
  BY DEF IInv, TypeOK
<1>1. PICK v \in Versions : /\ rows' = [rows EXCEPT ![c] = [sha |-> Whole(v), indexed |-> FALSE]]
                            /\ ~Recorded(c) \/ (c = TO /\ rows[c].indexed /\ rows[c].sha.ver # v)
  <2>1. CASE AdoptOrphan
    <3>1. /\ raw[c] = extract[c] /\ extract[c] = Whole(extract[c].ver)
          /\ extract[c].ver \in Versions /\ ~Recorded(c)
      BY <2>1 DEF AdoptOrphan, Orphan, IInv, FilesAgree, RunInv, FilesInv
    <3> QED
      BY <2>1, <3>1 DEF AdoptOrphan, DumpCheckpoint
  <2>2. CASE Checkpoint
    <3> DEFINE v == fetched[c]
    <3>1. v \in Versions /\ rows[c].sha # Whole(v)
      BY <2>2 DEF Checkpoint, RunInv, FilesInv, ReplaceInv
    <3>2. rows' = [rows EXCEPT ![c] = [sha |-> Whole(v), indexed |-> FALSE]]
      BY <2>2 DEF Checkpoint, DumpCheckpoint
    <3>3. ASSUME Recorded(c) PROVE c = TO /\ rows[c].indexed /\ rows[c].sha.ver # v
      <4>1. c = TO
        BY <2>2, <3>3 DEF Checkpoint, RunInv, StoredInv, Docs
      <4>2. rows[c].indexed
        BY <2>2, <3>3 DEF Checkpoint, ReplaceInv
      <4>3. rows[c].sha.ver # v
        BY <3>1, <3>3 DEF ReplaceInv
      <4> QED
        BY <4>1, <4>2, <4>3
    <3> QED
      BY <3>1, <3>2, <3>3
  <2> QED
    BY <2>1, <2>2
<1>2. UNCHANGED <<chunks, lastRefresh>>
  BY DEF AdoptOrphan, Checkpoint, DumpCheckpoint
<1>3. CorpusRow(c)' = [ver |-> v, state |-> "stored"]
  BY <1>0, <1>1, TornFacts DEF CorpusRow, Recorded
<1>4. CorpusRows' = [CorpusRows EXCEPT ![c] = [ver |-> v, state |-> "stored"]]
  BY <1>0, <1>1, <1>3, OneRowChanges
<1>5. \/ CorpusRows[c].state = "missing"
      \/ c = TO /\ CorpusRows[c].state = "served" /\ CorpusRows[c].ver # v
  BY <1>1 DEF CorpusRows, CorpusRow
<1>6. CorpusServed' = CorpusServed
  BY <1>2 DEF CorpusServed, ServedVersion
<1>7. Corp!Record(c, v)
  BY <1>2, <1>4, <1>5, <1>6 DEF Corp!Record, CorpusRows, CorpusServed
<1> QED
  BY <1>7

(* What an index write at hand is about.                                   *)
LEMMA IndexFacts ==
  ASSUME RunInv, IInv, DeleteDocument \/ UpsertBatch \/ FlagIndexed
  PROVE  /\ cur \in Docs
         /\ CorpusRow(cur) = [ver |-> rows[cur].sha.ver, state |-> "stored"]
         /\ extract[cur] = rows[cur].sha
         /\ extract[cur] = Whole(extract[cur].ver)
         /\ extract[cur].ver \in Versions
         /\ BatchesOf(extract[cur]) = NBatches
<1>1. cur \in Docs
  BY DEF IInv, TypeOK
<1>2. Recorded(cur) /\ ~rows[cur].indexed
  BY DEF IInv, IndexInv, DeleteDocument, UpsertBatch, FlagIndexed
<1>3. DumpMatches(cur) /\ extract[cur] # NoFile
  BY <1>1, <1>2 DEF IInv, RowsHaveFiles
<1>4. extract[cur] = rows[cur].sha /\ extract[cur] = Whole(extract[cur].ver)
  BY <1>1, <1>2, <1>3 DEF IInv, FilesAgree, DumpMatches
<1>5. extract[cur].ver \in Versions
  BY <1>1, <1>3 DEF RunInv, FilesInv
<1> QED
  BY <1>1, <1>2, <1>4, <1>5, WholeFacts DEF CorpusRow

LEMMA IndexWriteStep ==
  ASSUME RunInv, IInv, DeleteDocument \/ UpsertBatch
  PROVE  \/ UNCHANGED <<CorpusRows, CorpusServed, lastRefresh>>
         \/ \E d \in Docs : Corp!Retract(d) \/ Corp!Publish(d)
<1> PICK c \in Docs : c = cur
  BY DEF IInv, TypeOK
<1>0. chunks \in [Docs -> Chunks] /\ chunks[c] \in Chunks /\ NBatches \in Nat \ {0}
  BY IngestAssumption DEF IInv, TypeOK
<1>1. /\ CorpusRows[c] = [ver |-> rows[c].sha.ver, state |-> "stored"]
      /\ extract[c] = rows[c].sha /\ extract[c].form = "whole"
      /\ extract[c].ver \in Versions /\ BatchesOf(extract[c]) = NBatches
  BY IndexFacts, TornFacts DEF CorpusRows
<1>2. UNCHANGED <<rows, lastRefresh>>
  BY DEF DeleteDocument, UpsertBatch, dump
<1>3. CorpusRows' = CorpusRows
  BY <1>2 DEF CorpusRows, CorpusRow, Recorded
<1>4. CorpusServed[c] = ServedVersion(c)
  BY DEF CorpusServed
<1>5. CASE DeleteDocument
  <2>1. chunks' = [chunks EXCEPT ![c] = NoChunks]
    BY <1>5 DEF DeleteDocument
  <2>2. ServedVersion(c)' = NoVersion
    BY <1>0, <2>1 DEF ServedVersion, NoChunks, NoFile
  <2>3. CorpusServed' = [CorpusServed EXCEPT ![c] = NoVersion]
    BY <1>0, <2>1, <2>2, OneIndexChanges
  <2>4. CASE CorpusServed[c] = NoVersion
    BY <1>2, <1>3, <2>3, <2>4 DEF CorpusServed
  <2>5. CASE CorpusServed[c] # NoVersion
    <3>1. Corp!Retract(c)
      BY <1>1, <1>2, <1>3, <2>3, <2>5 DEF Corp!Retract, CorpusRows, CorpusServed
    <3> QED
      BY <3>1
  <2> QED
    BY <2>4, <2>5
<1>6. CASE UpsertBatch
  <2>1. /\ chunks' = [chunks EXCEPT ![c] = [from |-> extract[c], n |-> chunks[c].n + 1]]
        /\ chunks[c].n < NBatches
    BY <1>1, <1>6 DEF UpsertBatch
  <2>2. chunks[c].n \in Nat
    BY <1>0 DEF Chunks
  <2>3. CorpusServed[c] = NoVersion
    BY <1>0, <1>4, <2>1, <2>2 DEF ServedVersion
  <2>4. /\ chunks'[c].n = chunks[c].n + 1
        /\ chunks'[c].from = extract[c]
    BY <1>0, <2>1
  <2>5. CorpusServed' = [CorpusServed EXCEPT ![c] = ServedVersion(c)']
    BY <1>0, <2>1, OneIndexChanges
  <2>6. CASE chunks[c].n + 1 = NBatches
    <3>1. ServedVersion(c)' = CorpusRows[c].ver
      BY <1>1, <2>4, <2>6 DEF ServedVersion
    <3>2. Corp!Publish(c)
      BY <1>1, <1>2, <1>3, <2>3, <2>5, <3>1 DEF Corp!Publish, CorpusRows, CorpusServed
    <3> QED
      BY <3>2
  <2>7. CASE chunks[c].n + 1 # NBatches
    <3>1. ServedVersion(c)' = NoVersion
      BY <2>4, <2>7 DEF ServedVersion
    <3> QED
      BY <1>2, <1>3, <2>3, <2>5, <3>1 DEF CorpusServed
  <2> QED
    BY <2>6, <2>7
<1> QED
  BY <1>5, <1>6

LEMMA ConfirmStep ==
  ASSUME RunInv, IInv, FlagIndexed
  PROVE  \E d \in Docs : Corp!Confirm(d)
<1> PICK c \in Docs : c = cur
  BY DEF IInv, TypeOK
<1>0. rows \in [Docs -> Row] /\ chunks[c] \in Chunks
  BY DEF IInv, TypeOK
<1>1. /\ CorpusRows[c] = [ver |-> rows[c].sha.ver, state |-> "stored"]
      /\ extract[c] = rows[c].sha /\ extract[c].form = "whole"
      /\ BatchesOf(extract[c]) = NBatches
  BY IndexFacts, TornFacts DEF CorpusRows
<1>2. chunks[c].n = NBatches /\ chunks[c].from = extract[c]
  BY <1>1, IngestAssumption DEF FlagIndexed, IInv, IndexInv
<1>3. CorpusServed[c] = CorpusRows[c].ver
  BY <1>1, <1>2 DEF CorpusServed, ServedVersion
<1>4. /\ rows' = [rows EXCEPT ![c].indexed = TRUE]
      /\ UNCHANGED <<chunks, lastRefresh>>
  BY DEF FlagIndexed
<1>5. rows'[c].sha = rows[c].sha /\ rows'[c].indexed /\ Recorded(c)
  BY <1>0, <1>4 DEF Row, FlagIndexed, IInv, IndexInv
<1>6. CorpusRow(c)' = [ver |-> rows[c].sha.ver, state |-> "served"]
  BY <1>5 DEF CorpusRow, Recorded
<1>7. CorpusRows' = [CorpusRows EXCEPT ![c] = [ver |-> rows[c].sha.ver, state |-> "served"]]
  BY <1>0, <1>4, <1>6, OneRowChanges
<1>8. CorpusRows' = [CorpusRows EXCEPT ![c].state = "served"]
  <2>1. [CorpusRows[c] EXCEPT !.state = "served"] =
          [ver |-> rows[c].sha.ver, state |-> "served"]
    BY <1>1
  <2>2. CorpusRows' = [CorpusRows EXCEPT ![c] = [CorpusRows[c] EXCEPT !.state = "served"]]
    BY <1>7, <2>1
  <2> QED
    BY <2>2
<1>9. CorpusServed' = CorpusServed
  BY <1>4 DEF CorpusServed, ServedVersion
<1>10. Corp!Confirm(c)
  BY <1>1, <1>3, <1>4, <1>8, <1>9 DEF Corp!Confirm, CorpusRows, CorpusServed
<1> QED
  BY <1>10

(* Every step of the jobs is a step of the corpus, or none.                *)
LEMMA StepsImplement ==
  ASSUME Undamaged, RunInv, IInv, ReplaceInv, [Next]_vars
  PROVE  Corp!CorpusNext \/ UNCHANGED Corp!corpusVars
<1>1. UNCHANGED <<rows, chunks, lastRefresh>> => UNCHANGED Corp!corpusVars
  BY DEF Corp!corpusVars, CorpusRow, Recorded, ServedVersion
<1>2. CASE AdoptOrphan \/ Checkpoint
  BY <1>2, RecordStep, CorpusDomain DEF Corp!CorpusNext
<1>3. CASE DeleteDocument \/ UpsertBatch
  BY <1>3, IndexWriteStep, CorpusDomain
     DEF Corp!CorpusNext, Corp!corpusVars, CorpusRows, CorpusServed
<1>4. CASE FlagIndexed
  BY <1>4, ConfirmStep, CorpusDomain DEF Corp!CorpusNext
<1>5. CASE MarkComplete
  <2>1. lastRefresh' = TRUE /\ UNCHANGED <<rows, chunks>>
    BY <1>5 DEF MarkComplete
  <2>2. Corp!Finish
    BY <2>1 DEF Corp!Finish, CorpusRow, Recorded, ServedVersion
  <2> QED
    BY <2>2 DEF Corp!CorpusNext
<1>6. CASE StartJob
  BY <1>1, <1>6 DEF StartJob, StartFull, StartRefresh, Start, dump
<1>7. ASSUME NEW d \in Docs, Take(d) PROVE UNCHANGED Corp!corpusVars
  BY <1>1, <1>7 DEF Take, dump
<1>8. ASSUME NEW v \in Versions, FetchPdf(v) PROVE UNCHANGED Corp!corpusVars
  BY <1>1, <1>8 DEF FetchPdf, dump
<1>9. CASE \/ WriteNotes \/ RepairIndex \/ LeaveAsIs \/ NeedsDownload
           \/ FetchNonPdf \/ WriteRaw \/ WriteExtract
  BY <1>1, <1>9 DEF WriteNotes, RepairIndex, LeaveAsIs, NeedsDownload, FetchNonPdf,
     WriteRaw, WriteExtract, dump
<1>10. CASE Fault \/ UNCHANGED vars
  BY <1>1, <1>10 DEF Fault, Undamaged, Abort, TearRaw, TearExtract, TearManifest,
     WipeIndex, dump, vars
<1> QED
  BY <1>2, <1>3, <1>4, <1>5, <1>6, <1>7, <1>8, <1>9, <1>10 DEF Next, JobStep

(* The jobs implement the corpus, crashes, torn PDFs and torn manifests    *)
(* included: the chat sees a comunicación recorded once, the texto         *)
(* ordenado replaced only after its version was served, and a version      *)
(* called served only while the index holds all of it.                     *)
THEOREM JobsImplementCorpus ==
  ASSUME Undamaged
  PROVE  Spec => ImplementsCorpus
<1>1. Init => Corp!CorpusInit
  <2> SUFFICES ASSUME Init PROVE Corp!CorpusInit
    OBVIOUS
  <2>1. \A d \in Docs : /\ CorpusRow(d) = [ver |-> NoVersion, state |-> "missing"]
                        /\ ServedVersion(d) = NoVersion
    BY IngestAssumption
       DEF Init, CorpusRow, Recorded, NoRow, ServedVersion, NoChunks, NoFile
  <2>2. lastRefresh = FALSE
    BY DEF Init
  <2> QED
    BY <2>1, <2>2, CorpusDomain DEF Corp!CorpusInit
<1>2. Init => ReplaceInv
  BY DEF Init, ReplaceInv, NoRow, Recorded
<1>3. RunInv /\ IInv /\ ReplaceInv /\ [Next]_vars => ReplaceInv'
  BY NextKeepsReplaceInv
<1>4. RunInv /\ IInv /\ ReplaceInv /\ [Next]_vars =>
        [Corp!CorpusNext]_(Corp!corpusVars)
  BY StepsImplement
<1> QED
  BY <1>1, <1>2, <1>3, <1>4, AlwaysRunInv, AlwaysIInv, PTL
     DEF Spec, ImplementsCorpus, Corp!Spec
=============================================================================
