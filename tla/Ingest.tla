------------------------------- MODULE Ingest -------------------------------
(***************************************************************************)
(* The ingest and refresh jobs (use_cases/ingest_corpus.py) over the dump  *)
(* on disk (raw PDFs, extracts, manifest.json) and the Chroma serving      *)
(* index, with a process that may die between any two writes, or in the    *)
(* middle of one.                                                          *)
(*                                                                         *)
(* A file is its version (which PDF the site published) and its form:      *)
(* absent, whole, cut short, or truncated to nothing, the last two being   *)
(* what open(..., "w") followed by a crash leaves.  A checksum is the      *)
(* content it was computed from.  One job runs at a time (the deploy       *)
(* wrappers hold a lock); the chat service only reads what is here.        *)
(***************************************************************************)
EXTENDS Naturals, FiniteSets

CONSTANTS
  Comms,       \* comunicaciones "A" the site's catalog may list
  TO,          \* the texto ordenado, TO_DOC_ID
  Versions,    \* versions of a PDF the site may publish
  Dated,       \* those in which parse_to_as_of finds the comunicación
  NoVersion,   \* stands for None
  NBatches,    \* upsert batches of a whole document
  Faults       \* which writes may be torn, and whether the index is wiped

FaultKinds == {"tornRaw", "tornExtract", "tornManifest", "wipe"}

ASSUME IngestAssumption ==
  /\ TO \notin Comms
  /\ NoVersion \notin Versions
  /\ Dated \subseteq Versions
  /\ NBatches \in Nat \ {0}
  /\ Faults \subseteq FaultKinds

Docs == Comms \cup {TO}
Forms == {"absent", "empty", "cut", "whole"}
Content == [ver : Versions \cup {NoVersion}, form : Forms]
NoFile == [ver |-> NoVersion, form |-> "absent"]
Whole(v) == [ver |-> v, form |-> "whole"]
Torn(v) == {[ver |-> v, form |-> f] : f \in {"empty", "cut"}}

Row == [sha : Content, indexed : BOOLEAN]
NoRow == [sha |-> NoFile, indexed |-> FALSE]
Chunks == [from : Content, n : 0 .. NBatches]
NoChunks == [from |-> NoFile, n |-> 0]

Steps == {"idle", "next", "consider", "index", "upsert", "download",
          "writeRaw", "writeExtract", "checkpoint", "notes"}

VARIABLES
  raw,          \* raw_dir/<id>.pdf
  extract,      \* extract_dir/<id>.txt
  rows,         \* manifest.documents: checksum and indexed flag of each id
  lastRefresh,  \* manifest.last_refresh is set
  toAsOf,       \* manifest.to_as_of
  readable,     \* manifest.json parses
  chunks,       \* what the serving index holds of each id
  notes,        \* the notes file is written
  pc, mode, cur,
  after,        \* where _index_from_extract returns to
  todo,         \* documents the run has still to consider
  scope,        \* documents of the run (history)
  fetched,      \* version the run downloaded of each document
  skipped       \* documents the run left out on a NonPdfError (history)

dump == <<raw, extract, rows, lastRefresh, toAsOf, readable, notes>>
run == <<mode, todo, scope, fetched, skipped>>
vars == <<raw, extract, rows, lastRefresh, toAsOf, readable, chunks, notes,
          pc, mode, cur, after, todo, scope, fetched, skipped>>

TypeOK ==
  /\ raw \in [Docs -> Content]
  /\ extract \in [Docs -> Content]
  /\ rows \in [Docs -> Row]
  /\ lastRefresh \in BOOLEAN
  /\ toAsOf \in Versions \cup {NoVersion}
  /\ readable \in BOOLEAN
  /\ chunks \in [Docs -> Chunks]
  /\ notes \in BOOLEAN
  /\ pc \in Steps
  /\ mode \in {"none", "full", "refresh"}
  /\ cur \in Docs
  /\ after \in {"next", "download"}
  /\ todo \subseteq Docs
  /\ scope \subseteq Docs
  /\ fetched \in [Docs -> Versions \cup {NoVersion}]
  /\ skipped \subseteq Docs

Init ==
  /\ raw = [d \in Docs |-> NoFile]
  /\ extract = [d \in Docs |-> NoFile]
  /\ rows = [d \in Docs |-> NoRow]
  /\ lastRefresh = FALSE
  /\ toAsOf = NoVersion
  /\ readable = TRUE
  /\ chunks = [d \in Docs |-> NoChunks]
  /\ notes = FALSE
  /\ pc = "idle"
  /\ mode = "none"
  /\ cur = TO
  /\ after = "next"
  /\ todo = {}
  /\ scope = {}
  /\ fetched = [d \in Docs |-> NoVersion]
  /\ skipped = {}

-----------------------------------------------------------------------------
(* What the code asks of the dump and of the index.                        *)

Recorded(d) == rows[d].sha # NoFile
HasCheckpoint == \E d \in Docs : Recorded(d)
DumpMatches(d) == Recorded(d) /\ raw[d] # NoFile /\ raw[d] = rows[d].sha
(* Seeded faults, named Bad...: the definition after one of them as a      *)
(* plausible slip would have left it.                                      *)
BadOrphanNever(d) == FALSE
Orphan(d) == ~Recorded(d) /\ raw[d] # NoFile /\ extract[d] # NoFile
HasDocument(d) == chunks[d].n > 0
BadNeedsIndexNoLookup(d) == ~rows[d].indexed
BadNeedsIndexNoFlag(d) == ~HasDocument(d)
(* Every row is written with its flag, so that the row without one, which   *)
(* is_indexed counts as indexed, does not come up.                          *)
NeedsIndex(d) == ~rows[d].indexed \/ ~HasDocument(d)
BadReplaceAll(d) == mode = "refresh"
Replace(d) == d = TO /\ mode = "refresh"

(* Batches filled by the chunks of an extract, whichever chunker cuts it:   *)
(* an empty text has no chunk, one cut short fills fewer than the whole.    *)
BatchesOf(c) ==
  CASE c.form = "whole" -> NBatches
    [] c.form = "cut" -> 1
    [] OTHER -> 0

(* parse_to_as_of looks at the head of the text only.                      *)
AsOf(c) ==
  CASE c.form = "whole" /\ c.ver \in Dated -> {c.ver}
    [] c.form = "cut" /\ c.ver \in Dated -> {c.ver, toAsOf}
    [] OTHER -> {toAsOf}

-----------------------------------------------------------------------------
(* A run: list the catalog, consider the texto ordenado, then each listed  *)
(* document, then mark the run complete.  A page of the catalog that is    *)
(* not JSON ends the listing early, so any part of it may be listed.       *)

Start(m, docs) ==
  /\ pc = "idle"
  /\ readable
  /\ pc' = "next"
  /\ mode' = m
  /\ todo' = docs \cup {TO}
  /\ scope' = docs \cup {TO}
  /\ UNCHANGED <<dump, chunks, cur, after, fetched, skipped>>

StartFull(listed) ==
  Start("full", IF lastRefresh THEN {d \in listed : Recorded(d)} ELSE listed)

StartRefresh(listed) ==
  /\ HasCheckpoint /\ lastRefresh
  /\ Start("refresh", listed)

Take(d) ==
  /\ pc = "next"
  /\ d \in todo
  /\ TO \in todo => d = TO
  /\ cur' = d
  /\ todo' = todo \ {d}
  /\ pc' = "consider"
  /\ UNCHANGED <<dump, chunks, mode, after, scope, fetched, skipped>>

EndRun ==
  /\ pc' = "idle"
  /\ mode' = "none"
  /\ cur' = TO
  /\ after' = "next"
  /\ todo' = {}
  /\ scope' = {}
  /\ fetched' = [d \in Docs |-> NoVersion]
  /\ skipped' = {}

BadMarkComplete ==
  /\ pc = "next"
  /\ todo = {} /\ skipped = {}
  /\ lastRefresh' = TRUE
  /\ pc' = "notes"
  /\ UNCHANGED <<raw, extract, rows, toAsOf, readable, notes, chunks, cur,
                 after, run>>

MarkComplete ==
  /\ pc = "next"
  /\ todo = {}
  /\ lastRefresh' = TRUE
  /\ pc' = "notes"
  /\ UNCHANGED <<raw, extract, rows, toAsOf, readable, notes, chunks, cur,
                 after, run>>

WriteNotes ==
  /\ pc = "notes"
  /\ notes' = TRUE
  /\ EndRun
  /\ UNCHANGED <<raw, extract, rows, lastRefresh, toAsOf, readable, chunks>>

-----------------------------------------------------------------------------
(* _ingest_stored, one action per write it makes.                          *)

Goto(step) == pc' = step /\ UNCHANGED <<cur, after, run>>

BadCheckpointKeepsFlag(sha, text) ==
  /\ rows' = [rows EXCEPT ![cur].sha = sha]
  /\ IF cur = TO THEN toAsOf' \in AsOf(text) ELSE UNCHANGED toAsOf
  /\ UNCHANGED <<raw, extract, lastRefresh, readable, notes, chunks>>

BadCheckpointNoDate(sha, text) ==
  /\ rows' = [rows EXCEPT ![cur] = [sha |-> sha, indexed |-> FALSE]]
  /\ UNCHANGED <<raw, extract, lastRefresh, toAsOf, readable, notes, chunks>>

(* A checkpoint of a dump row that is not indexed yet, with the texto      *)
(* ordenado's date, which the same save writes.                            *)
DumpCheckpoint(sha, text) ==
  /\ rows' = [rows EXCEPT ![cur] = [sha |-> sha, indexed |-> FALSE]]
  /\ IF cur = TO THEN toAsOf' \in AsOf(text) ELSE UNCHANGED toAsOf
  /\ UNCHANGED <<raw, extract, lastRefresh, readable, notes, chunks>>

AdoptOrphan ==
  /\ pc = "consider"
  /\ Orphan(cur)
  /\ DumpCheckpoint(raw[cur], extract[cur])
  /\ UNCHANGED <<pc, cur, after, run>>

RepairIndex ==
  /\ pc = "consider"
  /\ ~Orphan(cur)
  /\ NeedsIndex(cur)
  /\ DumpMatches(cur) \/ (Recorded(cur) /\ rows[cur].indexed /\ ~Replace(cur))
  /\ pc' = "index"
  /\ after' = IF Replace(cur) THEN "download" ELSE "next"
  /\ UNCHANGED <<dump, chunks, cur, run>>

LeaveAsIs ==
  /\ pc = "consider"
  /\ ~Orphan(cur)
  /\ ~NeedsIndex(cur)
  /\ Recorded(cur)
  /\ ~Replace(cur)
  /\ Goto("next")
  /\ UNCHANGED <<dump, chunks>>

NeedsDownload ==
  /\ pc = "consider"
  /\ ~Orphan(cur)
  /\ \/ Replace(cur) /\ ~(DumpMatches(cur) /\ NeedsIndex(cur))
     \/ ~Replace(cur) /\ ~DumpMatches(cur) /\ ~rows[cur].indexed
  /\ Goto("download")
  /\ UNCHANGED <<dump, chunks>>

FetchNonPdf ==
  /\ pc = "download"
  /\ pc' = "next"
  /\ skipped' = skipped \cup {cur}
  /\ UNCHANGED <<dump, chunks, mode, cur, after, todo, scope, fetched>>

Unchanged(v) ==
  rows[cur].sha = Whole(v) /\ rows[cur].indexed /\ HasDocument(cur)

FetchPdf(v) ==
  /\ pc = "download"
  /\ fetched' = [fetched EXCEPT ![cur] = v]
  /\ pc' = IF Unchanged(v) THEN "next" ELSE "writeRaw"
  /\ UNCHANGED <<dump, chunks, mode, cur, after, todo, scope, skipped>>

WriteRaw ==
  /\ pc = "writeRaw"
  /\ raw' = [raw EXCEPT ![cur] = Whole(fetched[cur])]
  /\ Goto("writeExtract")
  /\ UNCHANGED <<extract, rows, lastRefresh, toAsOf, readable, notes, chunks>>

WriteExtract ==
  /\ pc = "writeExtract"
  /\ extract' = [extract EXCEPT ![cur] = Whole(fetched[cur])]
  /\ Goto("checkpoint")
  /\ UNCHANGED <<raw, rows, lastRefresh, toAsOf, readable, notes, chunks>>

Checkpoint ==
  /\ pc = "checkpoint"
  /\ DumpCheckpoint(Whole(fetched[cur]), Whole(fetched[cur]))
  /\ pc' = "index"
  /\ after' = "next"
  /\ UNCHANGED <<cur, run>>

-----------------------------------------------------------------------------
(* _index_from_extract: delete, upsert in batches, then set the flag.      *)

BadDeleteNothing ==
  /\ pc = "index"
  /\ Goto("upsert")
  /\ UNCHANGED <<dump, chunks>>

DeleteDocument ==
  /\ pc = "index"
  /\ chunks' = [chunks EXCEPT ![cur] = NoChunks]
  /\ Goto("upsert")
  /\ UNCHANGED dump

BadUpsertOneMore ==
  /\ pc = "upsert"
  /\ chunks[cur].n <= BatchesOf(extract[cur])
  /\ chunks' = [chunks EXCEPT ![cur] =
                  [from |-> extract[cur], n |-> @.n + 1]]
  /\ UNCHANGED <<dump, pc, cur, after, run>>

UpsertBatch ==
  /\ pc = "upsert"
  /\ chunks[cur].n < BatchesOf(extract[cur])
  /\ chunks' = [chunks EXCEPT ![cur] =
                  [from |-> extract[cur], n |-> @.n + 1]]
  /\ UNCHANGED <<dump, pc, cur, after, run>>

FlagIndexed ==
  /\ pc = "upsert"
  /\ chunks[cur].n = BatchesOf(extract[cur])
  /\ rows' = [rows EXCEPT ![cur].indexed = TRUE]
  /\ Goto(after)
  /\ UNCHANGED <<raw, extract, lastRefresh, toAsOf, readable, notes, chunks>>

-----------------------------------------------------------------------------
(* What goes wrong.  Any step may raise or be killed: nothing of the run   *)
(* survives but what it wrote.  A plain write killed half-way leaves the   *)
(* file empty or cut; the index is wiped by hand, between two runs.        *)

Abort ==
  /\ pc # "idle"
  /\ EndRun
  /\ UNCHANGED <<dump, chunks>>

TearRaw ==
  /\ "tornRaw" \in Faults
  /\ pc = "writeRaw"
  /\ \E c \in Torn(fetched[cur]) : raw' = [raw EXCEPT ![cur] = c]
  /\ EndRun
  /\ UNCHANGED <<extract, rows, lastRefresh, toAsOf, readable, notes, chunks>>

TearExtract ==
  /\ "tornExtract" \in Faults
  /\ pc = "writeExtract"
  /\ \E c \in Torn(fetched[cur]) : extract' = [extract EXCEPT ![cur] = c]
  /\ EndRun
  /\ UNCHANGED <<raw, rows, lastRefresh, toAsOf, readable, notes, chunks>>

Saving ==
  \/ pc = "consider" /\ Orphan(cur)
  \/ pc = "checkpoint"
  \/ pc = "upsert" /\ chunks[cur].n = BatchesOf(extract[cur])
  \/ pc = "next" /\ todo = {}

TearManifest ==
  /\ "tornManifest" \in Faults
  /\ Saving
  /\ readable' = FALSE
  /\ EndRun
  /\ UNCHANGED <<raw, extract, rows, lastRefresh, toAsOf, notes, chunks>>

WipeIndex ==
  /\ "wipe" \in Faults
  /\ pc = "idle"
  /\ chunks' = [d \in Docs |-> NoChunks]
  /\ UNCHANGED <<dump, pc, cur, after, run>>

-----------------------------------------------------------------------------

JobStep ==
  \/ \E d \in Docs : Take(d)
  \/ MarkComplete \/ WriteNotes
  \/ AdoptOrphan \/ RepairIndex \/ LeaveAsIs \/ NeedsDownload
  \/ FetchNonPdf
  \/ \E v \in Versions : FetchPdf(v)
  \/ WriteRaw \/ WriteExtract \/ Checkpoint
  \/ DeleteDocument \/ UpsertBatch \/ FlagIndexed

StartJob == \E listed \in SUBSET Comms : StartFull(listed) \/ StartRefresh(listed)

Fault == Abort \/ TearRaw \/ TearExtract \/ TearManifest \/ WipeIndex

Next == StartJob \/ JobStep \/ Fault

Spec == Init /\ [][Next]_vars

(* The operator and the daily cron start jobs again and again, and a       *)
(* running job takes its next step.                                        *)
FairSpec == Spec /\ WF_vars(StartJob) /\ WF_vars(JobStep)
-----------------------------------------------------------------------------
(* Properties.                                                             *)

Complete(d) ==
  chunks[d] = [from |-> Whole(rows[d].sha.ver), n |-> NBatches]

(* A row flagged indexed is served whole: every batch of that document, of *)
(* the version whose checksum the row holds, is in the index -- across     *)
(* crashes between and inside the writes, replacement of the texto         *)
(* ordenado and adoption of orphans.  It is what lets _ingest_stored skip  *)
(* the document.  Needs: no wiped index, no torn extract.                  *)
IndexedMeansComplete == \A d \in Docs : rows[d].indexed => Complete(d)

(* A recorded document always has its extract on disk, so                  *)
(* _index_from_extract never takes its "no extract" return, and a row not  *)
(* yet indexed still matches its files, so a resumed run indexes it        *)
(* without a download.                                                     *)
RowsHaveFiles ==
  \A d \in Docs : Recorded(d) =>
    /\ extract[d] # NoFile
    /\ rows[d].indexed \/ DumpMatches(d)

(* The freeze label names the comunicación of the texto ordenado the       *)
(* manifest records, never that of an earlier or a later one.  Needs:      *)
(* parse_to_as_of recognises every version, no torn extract.               *)
FreezeLabelMatchesTO == toAsOf = rows[TO].sha.ver

(* A comunicación whose PDF and extract are both on disk is never          *)
(* downloaded again, recorded or orphaned, whatever crash left it there.   *)
StoredCommNeverFetched ==
  [][\A c \in Comms : fetched'[c] # fetched[c] /\ fetched'[c] # NoVersion =>
       raw[c] = NoFile \/ extract[c] = NoFile]_vars

Finishes == pc = "next" /\ pc' = "notes"

(* A run that marks itself complete has each document of its scope served  *)
(* whole, but for those whose answer was not a PDF.  Needs: no wiped       *)
(* index, no torn extract.                                                 *)
FinishedRunCoversScope ==
  [][Finishes => \A d \in scope \ skipped : rows[d].indexed /\ Complete(d)]_vars

(* Even with the index wiped between runs and extracts torn, each document *)
(* of the scope is at least found in the index when the run is marked      *)
(* complete, unless the extract it was adopted with is empty.              *)
FinishedRunServesScope ==
  [][Finishes => \A d \in scope \ skipped :
       rows[d].indexed /\ (HasDocument(d) \/ extract[d].form = "empty")]_vars

(* A refresh that downloaded the texto ordenado and was marked complete    *)
(* leaves the index answering from that download, even when an earlier     *)
(* refresh died half-way through another version.  Needs: no wiped index,  *)
(* no torn extract.                                                        *)
RefreshServesWhatItFetched ==
  [][Finishes /\ mode = "refresh" /\ fetched[TO] # NoVersion =>
       chunks[TO] = [from |-> Whole(fetched[TO]), n |-> NBatches]]_vars

(* Once runs stop being interrupted, a run is marked complete: no earlier  *)
(* crash leaves the dump in a state ingest cannot resume from.             *)
FirstIngestFinishes == <>[][~Fault]_vars => <>lastRefresh

(* The dump and the index, seen as the corpus the chat answers from.       *)
CorpusRow(d) ==
  IF ~Recorded(d) THEN [ver |-> NoVersion, state |-> "missing"]
  ELSE [ver |-> rows[d].sha.ver,
        state |-> IF rows[d].indexed THEN "served" ELSE "stored"]

ServedVersion(d) ==
  IF chunks[d].from.form = "whole" /\ chunks[d].n = NBatches
  THEN chunks[d].from.ver ELSE NoVersion

Corp == INSTANCE Corpus WITH
          row <- [d \in Docs |-> CorpusRow(d)],
          served <- [d \in Docs |-> ServedVersion(d)],
          finished <- lastRefresh

(* The jobs implement the corpus: a comunicación is recorded once and      *)
(* never replaced, the texto ordenado only after its previous version was  *)
(* served, and a row reads "served" only while that version is.            *)
ImplementsCorpus == Corp!Spec
=============================================================================
