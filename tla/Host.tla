-------------------------------- MODULE Host --------------------------------
(***************************************************************************)
(* The host: the service that answers, the jobs that need it to stand      *)
(* aside (deploy/ingest.sh, refresh.sh, l1.sh), and what operators do from *)
(* outside (scripts/deploy.sh, scripts/publish-data.sh).  They share the   *)
(* manifest, the index and the file of the offline evaluation.  Ingest     *)
(* holds what a job writes in full; here a document is checkpointed,       *)
(* taken out, put in and flagged, so that a turn can fall in between.      *)
(*                                                                         *)
(* Fields and variables marked history are read by properties only.        *)
(***************************************************************************)
EXTENDS Router, FiniteSets

CONSTANTS
  Writers,          \* the ingest and refresh units
  Scorers,          \* l1.sh runs
  Passages(_, _),   \* the passages of a document in a version
  Listings,         \* what the regulator may list: versions of documents
  Asked,            \* the questions
  Options,          \* how the evaluation may be asked for
  Floors,           \* the metrics of gate.toml
  MaxWords,         \* bound: passages that share a word with a question
  MaxRuns           \* bound: jobs started

Jobs == Writers \cup Scorers

ASSUME HostAssumption ==
  /\ Writers \cap Scorers = {} /\ None \notin Jobs
  /\ MaxWords \in Nat /\ MaxRuns \in Nat

(* A document's passages are of it and differ in their place; the texto    *)
(* ordenado has some, and they bear its version.                           *)
ASSUME DumpAssumption ==
  \A listing \in Listings :
    /\ DOMAIN listing \subseteq Nat /\ IsFiniteSet(DOMAIN listing)
    /\ TO \in DOMAIN listing /\ Passages(TO, listing[TO]) # {}
    /\ \A d \in DOMAIN listing :
         LET parts == Passages(d, listing[d])
         IN  /\ IsFiniteSet(parts) /\ parts \subseteq Chunks
             /\ \A c \in parts : c.doc = d /\ c.n > 0 /\ (d = TO => c.v = listing[TO])
             /\ \A b, c \in parts : b.n = c.n => b = c

RetrievalMetrics == {"hit_at_5"}   \* of each suite, one that code scores,
GenerationMetrics == {"citation_id_exact", "faithfulness"}
Judged == {"faithfulness"}         \* and one that needs a judge

Blocks == {"retrieval", "generation"}
MetricsOf(block) == IF block = "retrieval" THEN RetrievalMetrics ELSE GenerationMetrics
OwnerOf(metric) == IF metric \in RetrievalMetrics THEN "retrieval" ELSE "generation"

VARIABLES
  manifest,   \* documents, those flagged indexed, and to_as_of
  index,      \* the passages stored
  l1,         \* evals/l1.json, or None
  whole,      \* whether the last job that wrote the dump finished (history)
  lock,       \* who holds bcra-rag-job.lock
  job,        \* where each helper script is
  work,       \* what the Python program it runs has come to
  runs,
  svc,        \* "up", "stopped", or "failed" and to be restarted
  lexicon,    \* of the lexical search: passages and the key they were read under
  page,       \* the evaluation as read when the page was built
  turn,       \* the turn being answered
  cut,        \* a deployment started this service under a job (history)
  published   \* the files were replaced under this service (history)

disk == <<manifest, index, l1, whole>>
helpers == <<lock, job, work, runs>>
service == <<svc, lexicon, page, turn, cut, published>>
vars == <<disk, helpers, service>>

Stages == {"idle", "waiting", "locked", "stopped", "working", "ending", "leaving"}

TypeOK ==
  /\ lock \in Jobs \cup {None}
  /\ job \in [Jobs -> Stages]
  /\ svc \in {"up", "stopped", "failed"}
  /\ runs \in 0 .. MaxRuns
  /\ cut \in BOOLEAN /\ published \in BOOLEAN /\ whole \in BOOLEAN

Dump(listing) == UNION {Passages(d, listing[d]) : d \in DOMAIN listing}

ManifestOf(listing) ==
  [documents |-> DOMAIN listing, indexed |-> DOMAIN listing, to |-> listing[TO]]

Init ==
  /\ \E listing \in Listings : manifest = ManifestOf(listing) /\ index = Dump(listing)
  /\ l1 = None /\ whole = TRUE
  /\ lock = None /\ job = [j \in Jobs |-> "idle"] /\ work = None /\ runs = 0
  /\ svc = "up" /\ lexicon = None /\ page = None /\ turn = None
  /\ cut = FALSE /\ published = FALSE

-----------------------------------------------------------------------------
(* The service.  It reads the evaluation when it starts and nothing else.  *)
(* Definitions named Bad... are seeded faults: the one after as a          *)
(* plausible slip would have left it.                                      *)

Gone == turn' = None /\ lexicon' = None

Started(under) ==
  /\ svc' = "up" /\ page' = l1' /\ Gone
  /\ cut' = under /\ published' = FALSE

(* systemctl stop waits for the turns, or ends them.                       *)
Stopped == svc' = "stopped" /\ Gone /\ UNCHANGED <<page, cut, published>>

Crash ==
  /\ svc = "up"
  /\ svc' = "failed" /\ Gone
  /\ UNCHANGED <<disk, helpers, page, cut, published>>

(* Restart=always.                                                         *)
Restart ==
  /\ svc = "failed"
  /\ UNCHANGED <<disk, helpers>>
  /\ Started(cut)

(* dump_health, kept by the manifest's time and size, dates the answer and *)
(* says if there is an index; that may have changed under a job since.     *)
Begin(q) ==
  /\ svc = "up" /\ turn = None
  /\ Written(index, TO) \/ cut
  /\ turn' = [q |-> q, at |-> "asked", date |-> manifest.to, apart |-> published \/ (cut /\ lock # None),
              result |-> None]
  /\ UNCHANGED <<disk, helpers, svc, lexicon, page, cut, published>>

BadLexiconNow ==
  IF lexicon # None /\ lexicon.count = Cardinality(index) THEN lexicon
  ELSE [count |-> Cardinality(index), sameManifest |-> TRUE, rows |-> index]

(* The lexicon is kept for a count of passages and a time of the manifest. *)
LexiconNow ==
  IF lexicon # None /\ lexicon.count = Cardinality(index) /\ lexicon.sameManifest THEN lexicon
  ELSE [count |-> Cardinality(index), sameManifest |-> TRUE, rows |-> index]

Orders(chunks) == SetToSeqs(chunks)

Find ==
  /\ turn # None /\ turn.at = "asked"
  /\ \E dense \in Orders(index), words \in SUBSET LexiconNow.rows :
       /\ Cardinality(words) <= MaxWords
       /\ \E lexical \in Orders(words) :
            turn' = [turn EXCEPT !.at = "found",
                       !.result = Route(turn.q, [dense |-> dense, lexical |-> lexical],
                                        manifest.documents, manifest.to, index)]
  /\ lexicon' = LexiconNow
  /\ UNCHANGED <<disk, helpers, svc, page, cut, published>>

Reply ==
  /\ turn # None /\ turn.at = "found"
  /\ turn' = None
  /\ UNCHANGED <<disk, helpers, svc, lexicon, page, cut, published>>

-----------------------------------------------------------------------------
(* The helper script: lock, trap, stop, run; the trap starts the service   *)
(* and the lock goes with the process.                                     *)

Goto(j, place) == job' = [job EXCEPT ![j] = place]

Call(j) ==
  /\ job[j] = "idle"
  /\ runs < MaxRuns /\ runs' = runs + 1
  /\ Goto(j, "waiting")
  /\ UNCHANGED <<disk, lock, work, service>>

BadAcquire(j) ==
  /\ job[j] = "waiting"
  /\ lock' = j
  /\ Goto(j, "locked")
  /\ UNCHANGED <<disk, work, runs, service>>

Acquire(j) ==
  /\ job[j] = "waiting" /\ lock = None
  /\ lock' = j
  /\ Goto(j, "locked")
  /\ UNCHANGED <<disk, work, runs, service>>

StopService(j) ==
  /\ job[j] = "locked"
  /\ Stopped
  /\ Goto(j, "stopped")
  /\ UNCHANGED <<disk, lock, work, runs>>

BadFail(j) ==
  /\ job[j] \in {"stopped", "working"}
  /\ whole' = IF job[j] = "working" /\ j \in Writers THEN FALSE ELSE whole
  /\ Goto(j, "leaving") /\ work' = None
  /\ UNCHANGED <<manifest, index, l1, lock, runs, service>>

(* set -e: the directory is not there, as while a deployment has put the   *)
(* scripts in place and not yet filled them in, or the program fails.      *)
Fail(j) ==
  /\ job[j] \in {"stopped", "working"}
  /\ whole' = IF job[j] = "working" /\ j \in Writers THEN FALSE ELSE whole
  /\ Goto(j, "ending") /\ work' = None
  /\ UNCHANGED <<manifest, index, l1, lock, runs, service>>

(* systemctl start leaves a service that runs as it is.                    *)
StartService(j) ==
  /\ job[j] = "ending"
  /\ UNCHANGED <<disk, lock, work, runs>>
  /\ IF svc = "up" THEN UNCHANGED service ELSE Started(FALSE)
  /\ Goto(j, "leaving")

Release(j) ==
  /\ job[j] = "leaving"
  /\ lock' = None
  /\ Goto(j, "idle")
  /\ UNCHANGED <<disk, work, runs, service>>

-----------------------------------------------------------------------------
(* The program of a writer.                                                *)

(* What a listing leaves to do: documents to be replaced or put in, the    *)
(* texto ordenado first.                                                   *)
Todo(listing) ==
  {d \in DOMAIN listing : d \notin manifest.indexed \/ (d = TO /\ listing[TO] # manifest.to)}

Due == Min(work.todo)

BeginWrite(j) ==
  /\ j \in Writers /\ job[j] = "stopped"
  /\ \E listing \in Listings :
       /\ listing[TO] >= manifest.to /\ manifest.documents \subseteq DOMAIN listing
       /\ work' = [listing |-> listing, todo |-> Todo(listing), step |-> "checkpoint"]
  /\ Goto(j, "working")
  /\ UNCHANGED <<disk, lock, runs, service>>

Writing(j, step) ==
  /\ j \in Writers /\ job[j] = "working" /\ work.step = step
  /\ work.todo # {}
  /\ UNCHANGED <<l1, whole, lock, job, runs, svc, page, turn, cut, published>>

(* A save moves the manifest's time.                                       *)
Saved == lexicon' = IF lexicon = None THEN None ELSE [lexicon EXCEPT !.sameManifest = FALSE]

Checkpoint(j) ==
  /\ Writing(j, "checkpoint")
  /\ manifest' = [documents |-> manifest.documents \cup {Due},
                  indexed |-> manifest.indexed \ {Due},
                  to |-> IF Due = TO THEN work.listing[TO] ELSE manifest.to]
  /\ Saved
  /\ work' = [work EXCEPT !.step = "delete"]
  /\ UNCHANGED index

Delete(j) ==
  /\ Writing(j, "delete")
  /\ index' = {c \in index : c.doc # Due}
  /\ work' = [work EXCEPT !.step = "upsert"]
  /\ UNCHANGED <<manifest, lexicon>>

Upsert(j) ==
  /\ Writing(j, "upsert")
  /\ LET new == Passages(Due, work.listing[Due])
     IN  index' = {c \in index : \A e \in new : Id(c) # Id(e)} \cup new
  /\ work' = [work EXCEPT !.step = "flag"]
  /\ UNCHANGED <<manifest, lexicon>>

Flag(j) ==
  /\ Writing(j, "flag")
  /\ manifest' = [manifest EXCEPT !.indexed = @ \cup {Due}]
  /\ Saved
  /\ work' = [work EXCEPT !.todo = @ \ {Due}, !.step = "checkpoint"]
  /\ UNCHANGED index

(* mark_complete.                                                          *)
EndWrite(j) ==
  /\ j \in Writers /\ job[j] = "working" /\ work.todo = {}
  /\ Saved /\ whole' = TRUE
  /\ Goto(j, "ending") /\ work' = None
  /\ UNCHANGED <<manifest, index, l1, lock, runs, svc, page, turn, cut, published>>

-----------------------------------------------------------------------------
(* The program of an evaluation.  A suite is a block: skipped, or scored   *)
(* over the dump it found (or the demonstration data: None), with the      *)
(* metrics that have a score and those of them under their floor.          *)

Skipped == [skipped |-> TRUE, scored |-> {}, low |-> {}, of |-> None]

(* A judged metric has no score without a judge, nor if no row calls for it. *)
Ran(block, judge) ==
  {[skipped |-> FALSE, scored |-> p[1], low |-> p[2], of |-> IF work.ready THEN manifest.to ELSE None] :
     p \in {q \in (SUBSET MetricsOf(block)) \X (SUBSET MetricsOf(block)) :
             /\ MetricsOf(block) \ Judged \subseteq q[1] /\ q[2] \subseteq q[1]
             /\ ~judge => q[1] \cap Judged = {}}}

BeginScore(j) ==
  /\ j \in Scorers /\ job[j] = "stopped"
  /\ \E o \in Options :
       work' = [o |-> o, ready |-> Written(index, TO), step |-> "retrieval",
                retrieval |-> Skipped, generation |-> Skipped]
  /\ Goto(j, "working")
  /\ UNCHANGED <<disk, lock, runs, service>>

Scoring(j, step) ==
  /\ j \in Scorers /\ job[j] = "working" /\ work.step = step
  /\ UNCHANGED <<manifest, index, whole, lock, runs, service>>

Retrieval(j) ==
  /\ Scoring(j, "retrieval")
  /\ \E b \in IF work.o.suites \in {"both", "retrieval"} THEN Ran("retrieval", work.o.judge)
              ELSE {Skipped} :
       work' = [work EXCEPT !.retrieval = b, !.step = "generation"]
  /\ UNCHANGED <<job, l1>>

(* Generation needs a model, and passages that were searched, if it is to  *)
(* be given those.                                                         *)
Generates(o) ==
  /\ o.suites \in {"both", "generation"} /\ o.llm
  /\ o.context = "retrieved" => o.suites = "both"

Generation(j) ==
  /\ Scoring(j, "generation")
  /\ \E b \in IF Generates(work.o) THEN Ran("generation", work.o.judge) ELSE {Skipped} :
       work' = [work EXCEPT !.generation = b, !.step = "publish"]
  /\ UNCHANGED <<job, l1>>

(* What the file says; the scores the gate reads back are still in work.   *)
Payload == [sample |-> ~work.ready,
            of |-> {work[b].of : b \in {c \in Blocks : ~work[c].skipped}}]

WriteL1(j) ==
  /\ Scoring(j, "publish")
  /\ l1' = Payload
  /\ work' = [work EXCEPT !.step = "gate"]
  /\ UNCHANGED job

BadFailures(lenient) ==
  {m \in Floors : LET b == work[OwnerOf(m)]
                  IN  IF b.skipped THEN ~lenient ELSE m \in b.low}

(* evaluate_gate.                                                          *)
Failures(lenient) ==
  {m \in Floors : LET b == work[OwnerOf(m)]
                  IN  IF b.skipped THEN ~lenient ELSE m \notin b.scored \/ m \in b.low}

Gate(j) ==
  /\ Scoring(j, "gate")
  /\ work' = [work EXCEPT !.step =
                IF work.o.gate = "none" \/ Failures(work.o.gate = "lenient") = {}
                THEN "passed" ELSE "failed"]
  /\ UNCHANGED <<job, l1>>

EndScore(j) ==
  /\ Scoring(j, "passed") \/ Scoring(j, "failed")
  /\ Goto(j, "ending") /\ work' = None
  /\ UNCHANGED l1

-----------------------------------------------------------------------------
(* From outside, without the lock.                                         *)

(* Results that came from elsewhere: what they say is left out.            *)
Brought == [sample |-> FALSE, of |-> {}]

(* deploy.sh brings the results it has where there are none, and restarts  *)
(* the service whatever runs.                                              *)
Deploy ==
  /\ l1' = IF l1 = None THEN Brought ELSE l1
  /\ UNCHANGED <<manifest, index, whole, helpers>>
  /\ Started(\E j \in Jobs : job[j] \in {"stopped", "working", "ending"})

(* publish-data.sh copies a dump and the results of an evaluation over     *)
(* those in use and restarts nothing.                                      *)
Publish ==
  /\ lock = None   \* bound: no operator publishes while a job runs
  /\ \E listing \in Listings :
       manifest' = ManifestOf(listing) /\ index' = Dump(listing)
  /\ l1' = Brought
  /\ Saved /\ whole' = TRUE /\ published' = (svc = "up")
  /\ turn' = IF turn = None THEN None ELSE [turn EXCEPT !.apart = TRUE]
  /\ UNCHANGED <<helpers, svc, page, cut>>

(* The host comes back with its service, and no job.                       *)
Reboot ==
  /\ job' = [j \in Jobs |-> "idle"] /\ lock' = None /\ work' = None
  /\ whole' = IF \E j \in Writers : job[j] = "working" THEN FALSE ELSE whole
  /\ UNCHANGED <<manifest, index, l1, runs>>
  /\ Started(FALSE)

-----------------------------------------------------------------------------
HelperStep(j) ==
  \/ Acquire(j) \/ StopService(j) \/ Fail(j) \/ StartService(j) \/ Release(j)
  \/ BeginWrite(j) \/ Checkpoint(j) \/ Delete(j) \/ Upsert(j) \/ Flag(j) \/ EndWrite(j)
  \/ BeginScore(j) \/ Retrieval(j) \/ Generation(j) \/ WriteL1(j) \/ Gate(j) \/ EndScore(j)

Next ==
  \/ \E q \in Asked : Begin(q)
  \/ Find \/ Reply \/ Crash \/ Restart
  \/ \E j \in Jobs : Call(j) \/ HelperStep(j)
  \/ Deploy \/ Publish \/ Reboot

Spec == Init /\ [][Next]_vars

(* Programs end, and systemd restarts what failed.                         *)
FairSpec == Spec /\ WF_vars(Restart) /\ \A j \in Jobs : WF_vars(HelperStep(j))
-----------------------------------------------------------------------------
(* Properties.                                                             *)

(* While a job works nothing else does: it holds the lock, no other helper *)
(* is past it, and the service is down.  Only a deployment, which takes no *)
(* lock, can have started it again: that is all that breaks DownForTheRun. *)
WorkAlone ==
  \A j \in Jobs : job[j] = "working" =>
    /\ lock = j
    /\ \A i \in Jobs \ {j} : job[i] \in {"idle", "waiting"}
    /\ svc = "stopped" \/ cut

(* While an evaluation works the service is down, for the duration of the  *)
(* run, as the platform's specification has it.  The restart at the end of *)
(* a deployment breaks it.                                                 *)
DownForTheRun == \A j \in Scorers : job[j] = "working" => svc = "stopped"

(* The service shows what is on disk, although it keeps the manifest, the  *)
(* lexicon and the results of the evaluation in memory.  After a job that  *)
(* finished, an answer is dated by the version of the texto ordenado that  *)
(* it quotes, and quotes what the index holds; the results are those of    *)
(* the last evaluation.  Left out are a turn or a page under which a       *)
(* deployment let a job write or an operator replaced the files: a service *)
(* that DownForTheRun finds up is not started after the run, and its page  *)
(* keeps the results it began with.                                        *)
ServesWhatIsThere ==
  /\ turn # None /\ turn.at = "found" /\ ~turn.apart /\ whole =>
       \A i \in DOMAIN turn.result.hits : LET c == turn.result.hits[i] IN
         /\ c.doc = TO => c.v = turn.date
         /\ c \in index \/ c = Section(index, c.doc)
  /\ svc = "up" /\ ~cut /\ ~published => page = l1

(* A question that names a comunicación is answered from it; one about the *)
(* rule in force from the texto ordenado first and then from what came     *)
(* after it, with a place for either when both have something to say and   *)
(* the candidates hold every comunicación; no passage comes twice, nor a   *)
(* document beside its own section; and no more than K come, but for the   *)
(* one that was referred to.                                               *)
Routed(out, q, stored, asOf, full) ==
  LET hits == out.hits
      followed == hits # <<>> /\ Last(hits).n = 0 /\ (Len(hits) > 1 \/ out.kind # "named")
      found == IF followed THEN Front(hits) ELSE hits
      drawn(docs) == \E i \in DOMAIN found : found[i].doc \in docs
      later == {d \in Comms : d > asOf}
  IN  /\ Len(found) <= K
      /\ \A i, j \in DOMAIN hits : i # j => Id(hits[i]) # Id(hits[j])
      /\ followed => \A i \in DOMAIN found : found[i].doc # Last(hits).doc
      /\ ExclusiveNamedId(q) # None => \A i \in DOMAIN found : found[i].doc = q.ids[1]
      /\ out.kind = "vigente" =>
           /\ \A i, j \in DOMAIN found : i < j /\ found[j].doc = TO => found[i].doc = TO
           /\ \A i \in DOMAIN found : found[i].doc \in {TO} \cup later
           /\ full /\ K > 1 /\ (q.back \/ \A c \in stored : ~c.back)
                /\ (\E c \in stored : c.doc \in later)
                /\ Cardinality({c \in stored : c.doc # TO}) <= Candidates
              => drawn({TO}) /\ drawn(later)

(* What a turn found, unless it fell silent, is routed as it was asked.    *)
RoutedAsAsked ==
  turn # None /\ turn.at = "found" /\ ~turn.apart /\ ~turn.result.silencio =>
    Routed(turn.result, turn.q, index, turn.date, whole)

(* Results that passed the gate were measured: every metric of gate.toml   *)
(* has a score at its floor, or is of a suite that the operator let be     *)
(* skipped.  Results not marked a sample are of one dump, that in use: no  *)
(* refresh came between the suites.                                        *)
ResultsStand ==
  \A j \in Scorers : job[j] = "working" /\ work.step \in {"passed", "failed"} =>
    /\ work.step = "passed" /\ work.o.gate # "none" =>
         \A m \in Floors : LET b == work[OwnerOf(m)] IN
           IF b.skipped THEN work.o.gate = "lenient" ELSE m \in b.scored \ b.low
    /\ l1.of \subseteq {IF l1.sample THEN None ELSE manifest.to}

(* Whatever took the service down, it comes back: after a job, also one    *)
(* that failed, after a crash and after jobs that waited for one another.  *)
ServiceReturns == svc # "up" ~> svc = "up"
=============================================================================
