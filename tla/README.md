# A TLA+ model of mini-rag-service

mini-rag-service answers questions about the BCRA's exchange regulations (the
*texto ordenado* "Exterior y Cambios" and the comunicaciones "A") from a dump of
PDFs that a batch job downloads and indexes. People sign in with a mailed code
or link, ask, and get an answer that quotes the passages it was drawn from, or a
*silencio*.

The models follow the parts of the service whose correctness depends on what
happens between two steps or on the order of many small ones: the jobs that
write the dump and may be killed at any write; the sign-in, where codes, links,
clients and five limits meet; the turns that run at once behind the caps and
over one conversation store; the stages a draft passes before it is published;
the browser tab, whose generator, task and clear handler paint over each other,
with the stream and the trace of a turn; and the host, where jobs, an
evaluation, deployments and the service share a lock, a dump and a results file.

## Inventory

`P/` stands for `src/src/bcra_rag/`.

| part | state | operations | talks to | what makes it correct |
|---|---|---|---|---|
| ingest and refresh jobs, `P/use_cases/ingest_corpus.py` | the run in progress | list, adopt an orphan, download, extract, checkpoint, index, mark complete | catalog, fetcher, manifest, index | a row flagged indexed is served whole; a finished run covers its scope; a stored comunicación is fetched once; some run finishes |
| manifest, `P/domain/manifest.py` | `manifest.json`: checksum and indexed flag per document, `last_refresh`, `to_as_of` | load, checkpoint, mark complete; cached by the chat | written by jobs, read by turns | it agrees with the files and with the index; its date is that of the texto ordenado it records |
| catalog, `P/adapters/catalog_bcra.py` | none | list the comunicaciones, page by page | HTTP | what it lists is listed by the site |
| serving index, `P/adapters/index_chroma.py` | Chroma collection; cached lexicon | delete, upsert in batches, search, section | written by jobs, read by turns | no part of a document is taken for the whole |
| mail sign-in, `P/auth/service.py`, `P/auth/routes.py` | secrets, link index, send and verify limits, lockouts; cookies in the browsers | request, verify, wash and consume a link | SMTP | one session a secret; a mailed secret works; few tries; the limits hold |
| cookies and addresses, `P/auth/cookies.py`, `P/auth/origin.py`, `P/auth/ip.py` | none (signed cookies) | sign, read | sign-in, chat gate | a cookie is what the service signed, and is not expired |
| chat gate, `P/api/handle.py`, `P/api/turn_caps.py`, `P/api/rate_limit.py`, `P/api/chat_stream.py` | rate limiter, turn caps | authenticate, count, refund, run, stream, cancel | sign-in, turn | no cap is exceeded, and none refuses what is due |
| conversation store, `P/adapters/session_memory.py` | messages of each session | get, append, clear, expire, evict | turn | whole exchanges; nothing cleared is read; the oldest goes first |
| chat turn, `P/use_cases/answer_query.py` | none of its own | input rails, route, retrieve, generate, verify, remember | manifest, index, model, rails, store | what is published is cited, labelled and dated |
| guardrails, `P/domain/guardrails/` | none | pipelines of input, retrieve and output rails, each enforced or in shadow | turn | rails that rewrite one answer in turn do not undo each other |
| model client, `P/adapters/llm_openai.py` | a stream being assembled | complete, with thinking split from text | HTTP | text is the same however the stream is cut |
| router and search, `P/domain/router.py`, `P/domain/bm25.py` | none | named, vigente and similar routes over two fused rankings, one hop to a cross reference | index, manifest | at most k passages, those of a named document when one is named, the texto ordenado first and what came after it next when asked what is in force |
| web UI, `P/ui/gradio_app.py`, `P/ui/config.py` | per tab: rows, panel, phase, session, layout | ask, stream phases and thoughts, clear, sign in and out, choose a layout | chat gate, turn | the page shows what was asked and answered, the panel is of a row on it, every turn ends |
| telemetry and turn evaluation, `P/adapters/otel.py`, `P/adapters/turn_eval.py` | open spans, background judges, a trace file | open, hand off, judge, close, write | turn | one record a turn, with its answer |
| evaluation harness, `P/evals/`, `src/evals/run_l1.py` | `evals/l1.json` | retrieve, generate, judge, write, gate | index, model | what passed the gate was measured, over the dump in use |
| settings and composition, `P/settings.py`, `P/composition.py` | none | build the parts | all | |
| deployment, `src/deploy/`, `src/scripts/` | lock file, unit, data directory | deploy, run a job under the lock, publish data | systemd, cron | no two jobs at once, nor one beside the service; the service comes back |

What is hard here:

- *Crashes.* The jobs write a PDF, an extract, a manifest and an index without a
  transaction. Every prefix of those writes, and the middle of each, is a state
  the next run starts from.
- *Interleaving.* Turns share one event loop and one store, and give way at
  their awaits; a GET of the login link takes the service's lock three times;
  the outputs of a page's handlers replace whatever is there; a deployment
  restarts the service outside the lock that jobs take.
- *Staleness.* The service keeps the manifest, the lexicon and the results of
  the evaluation in memory while other processes replace them.
- *Time.* Rolling windows and UTC days limit the same actions; secrets,
  conversations and lockouts expire; a model call and its retry share a limit.
- *Partial failure.* A mail that is not sent after it was counted, a client that
  leaves, a batch that is not written, a retry that fails.
- *Order.* Salvage, filters, seven output rails, demotion, conclusion and footer
  rewrite one answer one after the other, and each rail can be in shadow mode.

`PROJECT.json` lists every hazard at its line with the properties that cover it.

## Modules

| module | models | composed of |
|---|---|---|
| `Corpus` | what ingest promises the chat (abstract) | |
| `Ingest`, `MCIngest` | the jobs over files, manifest and index | refines `Corpus` |
| `IngestProofs` | its theorems | `Ingest` |
| `AuthOtp`, `MCAuthOtp` | the mail sign-in and its routes | `Lists` |
| `AuthProofs` | its theorems | `AuthOtp`, `ListProofs` |
| `Lists` | list comprehensions | |
| `ListProofs` | lemmas on lists of any length | `Lists` |
| `SessionStore` | the conversation store, as operators on its value | |
| `TurnCaps` | windows and daily caps, as operators | `Lists` |
| `Chat`, `MCChat` | overlapping turns: gate, store and stream | `SessionStore`, `TurnCaps` |
| `ChatProofs` | its theorems | `Chat`, `ListProofs` |
| `Answer`, `MCAnswer` | one turn from passages to answer | `Lists` |
| `AnswerProofs` | its theorems | `Answer`, `ListProofs` |
| `Stream` | the assembler of the model's stream, as operators | |
| `Spans` | the trace of a turn and its background judge | |
| `Tab`, `MCTab` | one browser tab and the turns asked in it | `Stream`, `Spans` |
| `TabProofs` | its theorems | `Tab`, `ListProofs` |
| `Router` | one search and the three routes, as operators | `Lists` |
| `RouterProofs` | lemmas on what a search and a route return | `Router`, `ListProofs` |
| `Host`, `MCHost` | service, jobs, evaluation, deployments | `Router` |
| `HostProofs` | its theorems | `Host`, `RouterProofs` |

In each component a definition named `Bad...` is the one after it as a plausible
slip would have left it; it is used by no specification. `PROJECT.json` says
which property tells the two apart.

### Ingest

A file is the version of the PDF it came from and its form: absent, empty, cut
or whole, the middle two being what a crash inside `open(..., "w")` leaves. A
checksum is the content it was computed from. One action is one write
(`WriteRaw`, `WriteExtract`, `DumpCheckpoint`, `UpsertBatch`, ...) or one choice
between them; `pc` is the line the run stands at. `Fault` is a kill at any
point, with the write in progress left torn where `Faults` allows it, or the
index wiped between runs. `lastRefresh` and `toAsOf` are the manifest's fields,
`chunks` the index per document: from which content, and how many batches.

`Corpus` is the view of the chat: each document is missing, stored or served,
and a replaced texto ordenado passes through being served before the next
replacement. `ImplementsCorpus` maps the files, rows and batches to it.

### AuthOtp

Each method of `AuthService` runs under one lock and is one action, also while
it mails; `InspectLink`, `MatchIntent` and `ConsumeGet` are the three the GET of
a link makes. A secret is the pair of a mailbox and the number of its issue,
which stands for code, token and intent nonce at once: guessing is presenting
another number. Time is a number of ticks, and a send may hold the lock for
`MaxMails` of them. Send limits, verify limits, the gap between verifies and the
lockout are the code's lists.

### SessionStore, TurnCaps, Chat

The store and the caps are dictionaries, so `SessionStore` and `TurnCaps` give
their methods as functions of a value: `Expire`, `MessagesOf`, `Append1`,
`Evict`, `Clear`; `Recent`, `AtCap`, `UtcDay`. `Chat` runs turns over them. All
of it is on one event loop, so an action is the code between two awaits: a turn
is admitted (limiter, caps and charge), reads its history after its first
await, and ends after its second. Each ending has its own action, because each
treats the store and the caps differently: `BlockedFirst` and `BlockedLater` are
refunded, `Answered` is remembered, `Unanswered` is not, `Dropped` (the client
left or the turn raised) does neither.

### Answer

One turn from what the search returned to what is published. A text is the facts
that the stages tell apart. A quote is in the passages word for word, nearly, or
not; it may hold markup; it may speak of a duty, in the run that is found in the
passage or only in the rest. An answer is a set of marks: it names the dump
(possibly inside markup), claims to be in force today, gives advice, holds a
secret, and so on. `Screened` is the retrieve rails, `Start` what the output
rails are given (citations, salvage of the named document, filters), `Railed`
the seven output rails in the order of `guardrails/policy.yaml`, and `Verified`
the whole of `generate_from_context` after the model answered. `TimedOut`,
`BadJson` and `Error` are the other outcomes of `_complete_with_retry`, whose
second call runs in what is left of the first one's time.

Duties and prohibitions are one label, definitions and permissions another: the
code treats the members of each alike, except for which label a demotion
chooses, and no property depends on that.

### Stream

`ThinkAssembler` over tokens: a tag is two of them, so that a piece can end
inside it, and "json" is the object some models repeat while they think.
`FeedDelta` is `feed_chunk` on a piece of a stream (reasoning in a field of its
own, or tags in the text), `FeedWhole` the answer of a server that does not
stream, `Hold` what is kept back because it may begin a tag, `Unwrap` and
`StripJson` what is shown of thinking. `ReadStream` is the reference: it reads
the whole text token by token (`Reading`), with no pieces and nothing held back.

### Spans

A span is opened when a turn is admitted (`EnterSpan`), gets the answer, and is
closed with the turn or, if a judge is configured and the model drafted, by the
background task (`RespondSpan`, `Judge`, `Score`). `written` is what the trace
file holds of a turn. `CloseAll` is what the end of the event loop does: a task
that runs is cancelled and closes its span, one that never ran does not.

### Tab

`iter_observatory_turn` is two processes: the task that runs the turn
(`Produce`: gate, retrieval, stream, answer, with `box` its outcome) and the
generator that paints (`Consume`: `Resume` after a frame, `Wake` by the event).
A step is the code between two awaits. A handler gets the page as it was when
it was asked for, which is why `queued` and `clearing` carry copies. `Shown` is
the last frame for each outcome; `PriorInspector`, `CollapsePriorThoughts`,
`AppendPending` and `AppendMessages` are the functions of the page by those
names. What the turn retrieves and drafts is left to its outcome.

### Router and Host

`Router` gives one search as a function of two rankings, one by meaning and one
by words: `Fused` is `rrf` with its exact fractions, which sends each passage to
the place given by the number of those before it, and `Search` adds the cut to
the candidates before the filters the store does not know. `Route` is
`Router.route` with its routes, the removal of back matter and the hop to a
reference. The rankings are inputs: `Host` tries every order of the passages
stored and of the words' matches.

In `Host` a helper script is at a place (`job`): it waits for the lock, holds
it, has stopped the service, works, ends (the trap starts the service) and
leaves (the lock goes with the process). A writer checkpoints, deletes, upserts
and flags one document after the other; an evaluation runs two suites, writes
`l1.json` and lets the gate judge it. `Deploy`, `Publish`, `Reboot` and `Crash`
come at any moment the code and the bounds below let them. A turn reads the
date (`Begin`), searches (`Find`, with `LexiconNow`, the cache and its key) and
replies. `Ingest` has the writes of a job in full, with their crashes; `Host`
has them coarser, next to those who read.

## What is checked

| run | distinct states | question |
|---|---|---|
| `IngestCrash` | 708,000 | With kills between and inside the writes of PDFs and manifest: is what is flagged indexed served whole, does the date match the texto ordenado, does a finished run cover its scope, does a refresh serve what it fetched, and is all of it the abstract corpus? |
| `IngestDamage` | 1,156,000 | With torn extracts, undated versions and a wiped index too: what still holds, and does some run finish? |
| `SignIn` | 640,000 | Mail asked for by two clients for four mailboxes, one of them not invited, over two UTC days: are all daily limits kept at once? Codes, links, resends, failed sends and expiry, with two clients at one mailbox: one session a secret, few tries, a mailed secret works, a GET needs the intent cookie, verifies keep their distance. One client around its lockout: are the failures of an hour bounded? |
| `ChatTurns` | 322,000 | Three overlapping turns of two mailboxes over four sessions and two days: conversations whole, caps kept, refunds right, the oldest evicted. |
| `AnswerTurn` | 216,000 | Every draft over four searches and thirteen policies: is what is published cited, labelled and dated? |
| `TabTurns` | 284,000 | Two calls of one tab, turns and clears, over streams cut inside their tags, with cookies that expire, reloads and stops: does the page show what was asked, is the panel of a row on it, is the last thought shown, does a stream read the same however it is cut, does each turn leave one record, and does it end? |
| `HostJobs` | 107,000 | A refresh and an evaluation that want the lock at once, and a service that answers, crashes, is deployed and rebooted: does a job work alone, does the service show what is on disk, does a question get its passages, what do results that passed the gate stand for, and does the service come back? |
| `IngestPartial`, `ChatClear`, `ChatMidnight`, `AnswerRetry`, `HostDeploy` | | The five findings below; each run ends in its counterexample. |

### Bounds, and why they are enough

- *Ingest.* Two comunicaciones and the texto ordenado in two versions: one
  document in every state while another is worked on, and a replacement that
  dies before the next. Two batches make "part" differ from "whole". The number
  of runs and of crashes is not bounded. `IngestDamage` has one comunicación,
  because liveness is checked without symmetry.
- *Sign-in.* A behaviour of `MCAuthOtp` is of one of three parts, which bound
  who does what; every step is one of `AuthOtp`. In the first, two clients ask
  for mail and nobody signs in. The limits of `SignIn.cfg` (two mails to a
  mailbox, three by a client, two mailboxes of a client, four in all) each bind
  where the others do not: `DailyMailBounded` fails if any one of the four is
  dropped from `SendAllowed`. Mail is asked for at the instants 1, 3 and 5 of one
  UTC day and at 7, in the next, when the rolling day has forgotten the first
  instant; by then what was mailed last has expired. The three allowed mailboxes
  are alike and are first asked for in order; the one that is not invited is
  asked for before them. In the second, two clients race at one mailbox; two
  issues are an old and a new secret. Nobody is locked out there, and the limits
  on mail are not reached. In the third, one client has four instants for its
  tries, with a cooldown shorter than the hour. `MaxIssued`, `MaxNoted` and
  `MaxTime` bound the history, `RaceTime`, `RaceIssued`, `TryTime` and `TryIssued`
  that of the second and the third part.
- *Chat.* Three turns are two that overlap and one that evicts, refunds, clears
  or is composed after them. A cap of three sessions holds two, since the code
  evicts after it entered the new one. Four instants cover the limiter's window,
  the time to live and one midnight.
- *Answer.* The searches are the ones on which the rails differ: one document;
  markup and role marks; a passage that is dropped and a list over the budget;
  everything dropped. A draft has up to two citations of two documents, whose
  quotes are found, found with markup, nearly found, not found or empty; or up
  to two marks that meet in a stage. Every rail is in shadow mode in some
  policy, and all of them in one. The time is 3 with a floor of 1, so that a
  retry may come early, late or not at all.
- *Tab.* `MaxCalls` is 2: a turn and another, or a clear, that waits for it or
  runs beside it. The streams of `MCTab` end inside a tag, hold one that is cut,
  repeat the answer while they think, or come whole. An empty page is not
  cleared; the cookie and the layout are changed by hand only when no call is
  out, since a call keeps those it was sent with, and expire at any time.
- *Host.* One writer and one evaluation are two helpers that meet at the lock;
  `MaxRuns` 2 lets each run, or one run twice. The dump is a texto ordenado of
  two passages in two versions and a comunicación that refers to it. With `K`
  and `Candidates` 2, each side of an answer on the rule in force has a place
  and the cut is reached; `MaxWords` 2 passages share a word with a question.
  The place that `RoutedAsAsked` promises to what came after the texto ordenado
  needs the candidates to hold every comunicación: the later date is asked of
  the nearest candidates only. Nobody publishes while a job runs, and a
  publication is one step.

Deadlock is checked where a system may not stop (`IngestDamage`, whose jobs are
started again and again, and `HostJobs`, whose service answers and is
deployed). The other models end: their clock is bounded, their turns are, or a
torn manifest stops every later job.

### Fairness

`Ingest`: weak fairness on `StartJob` (the cron entry and the operator start
jobs again and again) and on `JobStep` (a running process takes its next step).
Nothing is assumed of the site, of the catalog's answers or of crashes:
`FirstIngestFinishes` speaks of behaviours in which the crashes end.

`Tab`: weak fairness on `Begin`, `Produce`, `Consume` and `Judging`. The event
loop runs what is ready, the page takes the frame it is sent, and a call of the
model ends, by its time limit if not otherwise. Nothing is assumed of the user.

`Host`: weak fairness on `Restart` (`Restart=always` in the unit) and on the
steps of each helper (programs end, and a lock that is free is taken by one who
waits; with `MaxRuns` runs, nobody is overtaken for ever). Nothing is assumed
of deployments, crashes or turns.

Safety of the other components needs no fairness.

### Findings

1. `IngestPartial`: the repair of a wiped index that dies between two batches
   leaves part of a document, which `has_document` takes for the whole in every
   later run.
2. `ChatClear`: a turn in flight during `/clear` is remembered after it, and the
   next question is composed with it, though the specification says prior turns
   are not used.
3. `ChatMidnight`: a turn charged before midnight and blocked after it is
   refunded to the new day, which then lets one turn more than its cap through.
4. `AnswerRetry`: an error of the model's retry is raised inside the handler of
   the first failure, and the turn returns no answer; the specification promises
   a silencio with `llm_unavailable`.

5. `HostDeploy`: the restart at the end of a deployment takes no lock and brings
   the service up while an evaluation works, though the specification and the
   README have it down for the duration of the run. The start at the end of the
   evaluation then changes nothing, and the page keeps the results it read at
   that restart; the specification has it show the new ones. `WorkAlone` and
   `JobsWorkAlone` say that nothing but a deployment does this, and
   `ServesWhatIsThere` leaves a service so started out.

Two more disagreements were met and have no run. Both are about clearing the
conversation of the page (`src/openspec/specs/assistant-ui/spec.md`).

- A clear that is refused empties the citation panel (`gradio_app.py:597`). The
  specification says that the interface "SHALL NOT produce a CAMEX answer,
  silencio clause, thinking trace, or citation inspector update from Enviar,
  Enter, Clear, or a canned prompt while the client is not authenticated"
  (line 256). `ClearRefused` does what the code does; `TabShowsWhatWasAsked` does
  not compare the panel after it, until the next answer or failure.
- The specification has the page "treat typed `/clear` as the same action" as
  Limpiar (line 274). The code asks it as a turn: the store of the service is
  cleared (`answer_query.py:245`), but the page keeps its rows and gets one more,
  with the acknowledgement. In `Tab` this is an `Abstain` of a turn that was
  admitted, in `Chat` it is `ClearSession`.

Two things the models show in passing, which no document of the repository
speaks of: `save` overwrites `manifest.json` in place, and a kill in the middle
leaves a file no later job can load, so `FirstIngestFinishes` is checked without
that fault; and a deployment during a refresh or an ingest starts the service
over a half-written dump, which `WorkAlone` and `ServesWhatIsThere` except as
they do for an evaluation.

## What is proved

The theorems hold for every value of the constants: any number of documents,
versions, batches, mailboxes, clients, turns, passages and drafts, and any
limits that meet the named assumption of the module. What those assume, beyond
the types: the window of a UTC day is positive; a stored conversation may keep
an even, positive number of messages (the code keeps six, and an exchange is
two; with an odd number the code would cut exchanges in half); turns of a tab
are numbered in the order they are asked for, and None and Pending are no turns;
every listing has the texto ordenado, with some text and passages that bear its
version, and the passages of a document have places of their own
(`DumpAssumption`: `_chunk` numbers them, and a list of passages is empty only
for an empty text).

`Undamaged` is an assumption of some theorems about ingest: no torn extract and
no wiped index. A cut extract, or an index that lost what its rows say it holds,
breaks what they say; `IngestDamage` checks what holds then.

**`ListProofs`** is what the others need of lists of any length. The code
filters lists everywhere (it prunes windows, drops passages and citations), and
the models say so with `Kept`. What a recursive function computes is shown
without an induction rule: the numbers up to which it is right hold 0 and every
successor (`Reaches`), and a set of numbers has a least one. `Kept` keeps order
and what it should (`KeptSome`, `KeptPlaces`), and `Count`, its length, adds up.

**`IngestProofs`.** `Typing` is type correctness with every fault.
`IndexedComplete` is `IndexedMeansComplete`, under `Undamaged`. The
property is not inductive: a resumed run trusts the files it finds. `IInv` adds
that files agree with each other (`FilesAgree`) and with their row
(`RowsHaveFiles`), that a download does not touch a document whose row waits for
its index (`DownloadInv`), and that batches being written are of the extract
they will be flagged for (`IndexInv`). What a finished run did needs its past:
`RunInv` adds that a document of its scope is to do, at hand, skipped or served
(`CoverInv`), that a stored comunicación is not at a download (`StoredInv`), and
that the texto ordenado once downloaded is what the manifest records
(`FetchInv`). `FinishedRunsServe` and `StoredCommsStay` follow for every fault;
with `IInv` also `FinishedRunsCover` and `RefreshesServe`. `FreezeLabelHolds`
assumes besides that every version is dated, which `IngestDamage` shows to be
needed. `JobsImplementCorpus` is the refinement, step by step: a checkpoint is
`Record` of the abstract corpus, the deletion of old batches is `Retract`, the
batch that makes a document whole is `Publish`, its flag is `Confirm`, the mark
of a complete run is `Finish`, and all else leaves the view as it is. For that `ReplaceInv` adds that
what is written over is another version, which was served before.

**`AuthProofs`.** `OneSession`, `FewTries` and `MailedSecretWorks` rest on
`SecretInv`: a code not yet issued has no history (`UnissuedInv`); the record a
mailbox holds is of a mailed, unused secret with room for a try, and its counter
is the number of guesses (`LiveInv`); and a secret that is still good is that
record (`GoodInv`), which is why a second request must not replace it.
`FreshGrants` is an action property from the same invariant. `GetNeedsIntent`
needs `CookieInv`: a visit is matched only with the intent of the secret it
opens, across the three times the lock is taken.

The limits are counted in lists that are pruned as they are read. Each argument is of every window still to come, because a bound on the
current one says nothing of the next. `FailuresOfAnHour`: of every hour that
ends now or later, the failures answered are among those noted and no more than
the limit (`FailInv`). `MailOfADay`: the mail of this day and of later ones is
in the send log, which no pruning has cut (`Logged`), and so are its mailboxes
(`Named`); no day has more than its limits, past ones included (`Capped`). A
send that ends after midnight was logged and is dated when it began, and one
that fails is only logged, which is why the counts are compared by inclusion.
`TriesAreSpaced` needs that the last try recorded of a mailbox is the last one
made (`GapInv`). `AuthTyping` is the type invariant.

**`ChatProofs`.** `ExchangesStayWhole` rests on `StoreInv`, which says which
turns a conversation is made of, and on `TurnInv`, which says that a turn once
answered stays so. Truncation keeps whole exchanges since the maximum is even.
`EvictionsOldestFirst` is an action property: expiry and `Clear` take their own,
and the loop of `Evict` takes the least recent of those that are left. The caps
need `CapInv`: on a day with refunds of its own only, the counters are no lower
than the turns that count; on the present day, whatever was refunded, they are
no higher. Neither half holds on every day (that is the finding of
`ChatMidnight`), and each theorem takes its half: `CapsOfADay` the first,
`RefusalsAtCap` the second. `ChatTyping` is the type invariant.

**`AnswerProofs`.** `DumpNamed`, `SilencioHides` and `NoUnquotedDuty` follow an
answer through the stages of `Verified`. `ToPublish` is what every stage leaves
to the next: the answer has its fields, and a draft that cite-or-abstain blocked
is gone. `RailedToPublish` carries it through the seven rails whatever policy is
set; `DemotedToPublish` makes the label right for the quotes as they are then,
and `ConcludedSound` and `FootedSound` add the rest. `ResponseInvariant` lifts
the result to every way a turn can end. `AnswersAreCited` and `NamedAreCited`
follow the citations: `Supported` is what cite-or-abstain establishes (each of a
passage that was given, once, with a quote found), `Follows` what a later stage
keeps of it, and `CitesInv` the invariant of the turn. `AnswerTyping` is in it.

**`TabProofs`.** `TurnsLeaveOneRecord` needs to know which span belongs to which
place of the running turn (`Runs`), that one who waits has none (`Waits`), and
that only handed-off spans are open when the service has stopped (`Stopped`).
`PanelsOfWhatIsShown` needs `PageInv`: every copy of the page that waits in a
queue has itself a panel of a row on it, and `AppendMessages` keeps the answers
of earlier turns. `PagesAsAsked` compares the page with one that is unfolded
from the outcomes since the last clear; `HistInv` says where the two agree while
a call is under way, as long as none overlapped. `LastThoughtsAreShown` is an
action property: what is held back by the half-second rule is what the last
frame paints (`ThinkInv`), whatever `Stream` assembles.

`CutsAreUnseen` is `CutDoesNotMatter`, for streams of any length. The reference
reads the text token by token; the assembler takes it piece by piece, passes
tags and keeps the end back. What relates the two is a place in the text up to
which both have read the same: what the assembler holds begins there (`Upto`), no
tag can stand across it (`Sound`), and no tag that would change the mode is left
in what is held. `ReadingStays` says that text which comes later does not change what
was read up to a sound place, `PassTagReads` and `EmitHoldReads` that passing a
tag and letting text go move to another sound place, and `FeedFollows` that a
piece keeps the relation. From the first piece with reasoning of its own, texts
are added as they are (`FeedPlainly`); `Heard` joins the two halves, and
`HearInv` holds it through the turn. That no tag is left after a pass needs a
bound on the rounds: each takes tokens away (`PassTagsReads`).

`WaitersAreWoken` says that no wake-up between task and generator is lost: one
who waits for a task that has ended has its event set. Every end sets it
(`ProduceWakes`), and the generator clears it before it looks whether the task
is done (`ConsumeWakes`).

**`HostProofs`.** `JobsWorkAlone` is `WorkAlone` for any number of units and
evaluations. The property speaks of a job at work and is not inductive; `IInv`
adds that whoever is past the lock holds it (`Held`) and that the service is
down, or was started by a deployment, from the helper's stop to the end of its
program (`Down`). `SomeoneStartsIt` says that a stopped service has a helper that
holds the lock and is still to run its trap, since nothing but a trap, a
deployment or a reboot starts it again. `GatedResultsStand` adds `Results`: whatever the evaluation at
work has scored so far is of the dump in use, or is the sample; it rests on
`IInv`, since only an evaluation that is alone keeps its dump. `Typing` is type
correctness, which no run repeats.

`TurnsServeWhatIsThere` and `TurnsAreRouted` follow a turn over the dump that
jobs rewrite. `DInv` is the invariant of the dump: passages differ in their
place; the texto ordenado, when it is flagged, is there in the version the
manifest names (`Dated`), and after a job that finished it is flagged
(`Complete`); while a job writes, it is flagged or still due, and what was
written of it is of the right version (`Midway`); a lexicon kept under the
manifest of now is of the passages of now (`Lexical`). `Turned` says why a turn
is not overtaken: unless a deployment or a publication set it apart, no job is
where it could write, so that the date it read is still that of the manifest.
`Paged` is the part on the page. None of these is inductive without `IInv`.

**`RouterProofs`** is what they need of `Router`, for rankings of any length. A
search returns no more than `K` passages, of those ranked and wanted, no two at
one place (`SearchList`); for that the fusion must be a permutation, and is,
since the order by exact fractions and first sight is total (`Ordered`), so that
each place from the first has one passage with so many before it (`Ranked`,
`FusedList`). It returns something when its candidates hold something wanted
(`SearchFinds`); the merge leaves a place for either side (`MergeList`);
dropping back matter keeps order. `RouteShape` puts the routes together: what
comes out is silence, or what a route found (`Basis`), or that and the section
it refers to (`Followed`).

**Only model-checked** is liveness: `FirstIngestFinishes`, `TurnsEnd` and
`ServiceReturns`, since the provers here have no rules for fairness. Two facts
they rest on are proved, `WaitersAreWoken` and `SomeoneStartsIt`; that fair steps
then lead there is TLC's. Every invariant and every action property of the
passing runs, and the refinement, is a theorem.

## What is not modelled

- *Numbers and text:* vector similarity and lexical scores (their orders are
  inputs), the score floor of the search (off by default), the averages of the
  evaluation, the longest common run itself, regular expressions of the rails
  and of the questions, chunking by headings, PDF extraction, the JSON of a
  draft. The models take their outcomes.
- *The signatures* of cookies and scoped session ids: taken to be unforgeable.
  The models take the origin's verdict and the client's address as inputs.
- *The page beyond its turns:* the choice among several citation cards, the
  status line of the sign-in form, styles, and how Gradio itself schedules.
- *The spans of the rails*, what Phoenix is sent, a trace file that cannot be
  written (the code swallows the error), and `/clear`'s own span.
- *How a follow-up is composed* from the conversation: `Chat` says which
  history is read, not what is made of it.
- *HTTP and SMTP themselves:* a call returns, fails or takes time. The lock of
  the sign-in is held while the SMTP server is talked to, and its limits are
  forgotten by a restart: the first has no bound to state, the second breaks no
  promise, since the limits are per process.
- *`mint`* of the store: the gate always passes a session id.
- *Rows of the manifest without an indexed flag*, which `is_indexed` counts as
  indexed: this code writes the flag with every row.
- *First installation*, the developer console `devtui.py` and the smoke checks:
  they keep no state of the system.

## Plan

Done: the jobs, the sign-in, the gate and store, the draft's stages, the stream,
the tab with its trace, the router, and the host. Left:

1. The beginning of a turn: what the input rails read (this utterance or the
   composed question) and how a follow-up is composed from the history.
2. Cookies and client addresses of the sign-in, joined to `AuthOtp` where they
   expire.
