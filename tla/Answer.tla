------------------------------- MODULE Answer -------------------------------
(***************************************************************************)
(* From the passages a search returned to the answer of the turn: the      *)
(* retrieve rails, the call to the model with its one retry, the citations *)
(* read from the draft, the output rails and what is left to publish       *)
(* (use_cases/answer_query.py, domain/guardrails).                         *)
(*                                                                         *)
(* A text is the few facts the stages tell apart.  A passage has a size, a *)
(* document and, in its opening, a quote; a quote stands in the passages   *)
(* of its document word for word ("exact"), with a long enough run of them *)
(* ("near") or not ("none", "empty"), may hold markup, and may speak of a  *)
(* duty, in the run that is found or in the rest of it.                    *)
(***************************************************************************)
EXTENDS Lists, FiniteSets, SequencesExt

CONSTANTS
  Docs, None,
  Searches,      \* the lists of passages a search may return
  Drafts,        \* the drafts the model may return
  Filters,       \* what citations may be filtered by: tipo or number, date
  Policies,      \* the rails that are enabled and those that are enforced
  Budget,        \* max_context_chars
  Timeout,       \* llm_timeout_s
  Floor          \* what must be left of it for a retry

RetrieveRails == {"chunk-injection", "chunk-hygiene", "context-budget"}
OutputRails == {"cite-or-abstain", "freeze-honesty", "no-advice-output",
                "secrets-output", "prompt-leak", "unsafe-output",
                "markdown-sanitize"}
Rails == RetrieveRails \cup OutputRails

Quotes == [anchor : {"exact", "near", "none", "empty", "stripped"},
           markup : BOOLEAN,
           duty : {"no", "in run", "in rest"}]

(* A request without filters differs from one with an empty set of them.   *)
Unfiltered == {"no filters"}

(* The opening of a passage stands in it word for word.                    *)
Openings == {q \in Quotes : q.anchor = "exact"}

Passages == [doc : Docs, text : {"plain", "marked", "marks", "jailbreak"},
             size : Nat, opening : Openings, fits : SUBSET Filters]

(* fits: the request's filters that the fields of a citation meet.         *)
Citations == [id : Docs, quote : Quotes, fits : SUBSET Filters]

(* obligacion stands for prohibicion too, and definicion for what it may   *)
(* be demoted to and for permiso.                                          *)
Findings == {"obligacion", "definicion", "silencio"}

Marks == {"freeze", "freeze in tag", "vigente", "advice", "secret", "fence",
          "tool", "markup", "fuente", "no clause", "named id"}
Answers == [text : {"draft", "no clause", "refusal", "failure"}, has : SUBSET Marks]

ASSUME AnswerAssumption ==
  /\ None \notin Docs \cup Rails
  /\ Filters \subseteq {"kind", "date"}
  /\ Searches \subseteq Seq(Passages) \ {<<>>}
  /\ Drafts \subseteq [finding : Findings, answer : SUBSET Marks, citations : Seq(Citations)]
  /\ Policies \subseteq [enabled : SUBSET Rails, enforced : SUBSET Rails]
  /\ {Budget, Timeout, Floor} \subseteq Nat

VARIABLES
  policy,     \* GuardrailPipeline
  named,      \* the document the question was routed to by name, if any
  filters,    \* the filters of the request, if any
  hits,       \* RailContext.hits
  stage,      \* "found", "generating", "retrying", "answered" or "raised"
  spent,      \* seconds of the model's time
  draft,      \* the model's draft
  response    \* what the turn returns

request == <<policy, named, filters>>
vars == <<request, hits, stage, spent, draft, response>>

-----------------------------------------------------------------------------
(* run_named: a rail that is off is not run, and one that is not enforced  *)
(* changes nothing.  Definitions named Bad... are seeded faults: the one   *)
(* after as a plausible slip would have left it.                           *)

On(p, rail) == rail \in p.enabled \cap p.enforced

Clean(passage) == IF passage.text = "marked" THEN [passage EXCEPT !.text = "plain"] ELSE passage

Hygiene(passages) ==
  LET left == Kept(passages, {x \in Passages : x.text # "marks"})
  IN  [i \in DOMAIN left |-> Clean(left[i])]

Size(passages) == FoldLeft(LAMBDA sum, x : sum + x.size, 0, passages)

(* The first passage is kept whatever its size.                            *)
Fit(passages) ==
  LET fit[n \in 0 .. Len(passages)] ==
        IF n = 0 THEN <<>>
        ELSE IF fit[n - 1] # <<>> /\ Size(fit[n - 1]) + passages[n].size > Budget
        THEN fit[n - 1]
        ELSE Append(fit[n - 1], passages[n])
  IN  fit[Len(passages)]

Screened(p, passages) ==
  LET safe == IF ~On(p, "chunk-injection") THEN passages
              ELSE Kept(passages, {x \in Passages : x.text # "jailbreak"})
      clean == IF On(p, "chunk-hygiene") THEN Hygiene(safe) ELSE safe
  IN  IF On(p, "context-budget") THEN Fit(clean) ELSE clean

TurnIds(passages) == {passages[i].doc : i \in DOMAIN passages}

FirstOf(doc, passages) ==
  passages[CHOOSE i \in DOMAIN passages :
             /\ passages[i].doc = doc
             /\ \A j \in 1 .. i - 1 : passages[j].doc # doc]

-----------------------------------------------------------------------------
(* The citations of a draft.                                               *)

Anchors(quote) == quote.anchor \in {"exact", "near"}

(* anchor_span: a near quote is replaced by the run that was found.        *)
Adjusted(quote) ==
  IF quote.anchor # "near" THEN quote
  ELSE [quote EXCEPT !.anchor = "exact",
                     !.duty = IF @ = "in rest" THEN "no" ELSE @]

(* An empty quote becomes the opening of the document's first passage.     *)
Filled(c, passages) ==
  IF c.quote.anchor # "empty" THEN c
  ELSE [c EXCEPT !.quote = FirstOf(c.id, passages).opening]

(* _citations_from_model: the first citation of each document of the turn. *)
CitationsFromModel(cited, passages) ==
  LET first == Kept([i \in DOMAIN cited |-> i],
                    {i \in DOMAIN cited :
                       /\ cited[i].id \in TurnIds(passages)
                       /\ \A j \in 1 .. i - 1 : cited[j].id # cited[i].id})
  IN  [k \in DOMAIN first |-> Filled(cited[first[k]], passages)]

BadSalvaged(doc, d, citations, passages) == citations

(* _salvage_named, on the named route: its document is cited by the        *)
(* opening of its passage when the draft cites it with a quote that does   *)
(* not anchor, or cites nothing and names it.  The citation attached so    *)
(* has no date.                                                            *)
Salvaged(doc, d, citations, passages) ==
  IF doc \notin TurnIds(passages) \/ d.finding = "silencio" THEN citations
  ELSE LET passage == FirstOf(doc, passages)
       IN  IF citations = <<>> /\ "named id" \in d.answer
           THEN <<[id |-> doc, quote |-> passage.opening, fits |-> passage.fits \ {"date"}]>>
           ELSE [i \in DOMAIN citations |->
                   IF citations[i].id = doc /\ ~Anchors(citations[i].quote)
                   THEN [citations[i] EXCEPT !.quote = passage.opening]
                   ELSE citations[i]]

(* What the output rails start from: the filters of the request may leave  *)
(* no citation, and then there is no answer.                               *)
Start(d, doc, wanted, passages) ==
  LET cited == Salvaged(doc, d, CitationsFromModel(d.citations, passages), passages)
      kept == IF wanted = Unfiltered THEN cited
              ELSE Kept(cited, {c \in Citations : wanted \subseteq c.fits})
  IN  [finding |-> IF wanted # Unfiltered /\ kept = <<>> THEN "silencio" ELSE d.finding,
       answer |-> [text |-> "draft", has |-> d.answer],
       citations |-> kept, blocked |-> None]

-----------------------------------------------------------------------------
(* The output rails, in the order of guardrails/policy.yaml.  A rail maps  *)
(* what there is to publish to its own version of it.                      *)

NoClause == [text |-> "no clause", has |-> {"no clause"}]
Refusal == [text |-> "refusal", has |-> {"no clause"}]
Failure == [text |-> "failure", has |-> {}]

NamesFreeze(answer) == answer.has \cap {"freeze", "freeze in tag"} # {}

WithMarks(c, more, fewer) == [c EXCEPT !.answer.has = (@ \cup more) \ fewer]

BadUsable(citations, ids) == Kept(citations, {c \in Citations : c.id \in ids})

Usable(citations, ids) ==
  LET found == Kept(citations, {c \in Citations : c.id \in ids /\ Anchors(c.quote)})
  IN  [i \in DOMAIN found |-> [found[i] EXCEPT !.quote = Adjusted(@)]]

Uncited(c, ids) == c.finding # "silencio" /\ Usable(c.citations, ids) = <<>>

CiteOrAbstain(c, ids) ==
  IF Uncited(c, ids)
  THEN [c EXCEPT !.finding = "silencio", !.citations = <<>>, !.answer = NoClause]
  ELSE [c EXCEPT !.citations = IF c.finding = "silencio" THEN <<>> ELSE Usable(@, ids)]

FreezeHonesty(c) ==
  IF "vigente" \in c.answer.has /\ ~NamesFreeze(c.answer)
  THEN WithMarks(c, {"freeze"}, {}) ELSE c

Stripped(quote) ==
  IF quote.markup THEN [quote EXCEPT !.anchor = "stripped", !.markup = FALSE] ELSE quote

MarkdownSanitize(c) ==
  [WithMarks(c, {}, {"markup", "freeze in tag"}) EXCEPT
     !.citations = [i \in DOMAIN c.citations |->
                      [c.citations[i] EXCEPT !.quote = Stripped(@)]]]

(* What a rail makes of c is kept when the rail is on, and the first block *)
(* is remembered.                                                          *)
Run(p, rail, c, patched, blocks) ==
  IF ~On(p, rail) THEN c
  ELSE [patched EXCEPT !.blocked = IF @ = None /\ blocks THEN rail ELSE @]

(* The rails that block leave the answer as it is, cite-or-abstain apart,  *)
(* and none stops the ones after it.                                       *)
Railed(p, c, ids) ==
  LET c1 == Run(p, "cite-or-abstain", c, CiteOrAbstain(c, ids), Uncited(c, ids))
      c2 == Run(p, "freeze-honesty", c1, FreezeHonesty(c1), FALSE)
      c3 == Run(p, "no-advice-output", c2, c2, "advice" \in c2.answer.has)
      c4 == Run(p, "secrets-output", c3, c3, "secret" \in c3.answer.has)
      c5 == Run(p, "prompt-leak", c4, c4, "fence" \in c4.answer.has)
      c6 == Run(p, "unsafe-output", c5, WithMarks(c5, {}, {"tool"}), FALSE)
  IN  Run(p, "markdown-sanitize", c6, MarkdownSanitize(c6), FALSE)

SpeaksOfDuty(citations) == \E i \in DOMAIN citations : citations[i].quote.duty # "no"

(* demote_finding, with the quotes as the rails left them.                 *)
Demoted(c) ==
  IF c.finding = "obligacion" /\ ~SpeaksOfDuty(c.citations)
  THEN [c EXCEPT !.finding = "definicion"] ELSE c

BadConcluded(c) ==
  IF c.blocked # None
  THEN [c EXCEPT !.finding = "silencio", !.citations = <<>>,
                 !.answer = IF c.blocked = "cite-or-abstain" THEN @ ELSE Refusal]
  ELSE IF c.finding = "silencio"
  THEN [c EXCEPT !.answer = IF "no clause" \in @.has THEN @ ELSE NoClause]
  ELSE IF c.citations # <<>> THEN WithMarks(c, {"fuente"}, {})
  ELSE c

(* A block, or silencio, hides the draft; a silencio draft that says it    *)
(* has no clause keeps its wording.                                        *)
Concluded(c) ==
  IF c.blocked # None
  THEN [c EXCEPT !.finding = "silencio", !.citations = <<>>,
                 !.answer = IF c.blocked = "cite-or-abstain" THEN @ ELSE Refusal]
  ELSE IF c.finding = "silencio"
  THEN [c EXCEPT !.citations = <<>>,
                 !.answer = IF "no clause" \in @.has THEN @ ELSE NoClause]
  ELSE IF c.citations # <<>> THEN WithMarks(c, {"fuente"}, {})
  ELSE c

Footed(c) == IF NamesFreeze(c.answer) THEN c ELSE WithMarks(c, {"freeze"}, {})

BadVerified(p, d, doc, wanted, passages) ==
  Concluded(Demoted(Railed(p, Footed(Start(d, doc, wanted, passages)), TurnIds(passages))))

EarlyVerified(p, d, doc, wanted, passages) ==
  Footed(Concluded(Railed(p, Demoted(Start(d, doc, wanted, passages)), TurnIds(passages))))

Verified(p, d, doc, wanted, passages) ==
  Footed(Concluded(Demoted(Railed(p, Start(d, doc, wanted, passages), TurnIds(passages)))))

-----------------------------------------------------------------------------
TypeOK ==
  /\ policy \in Policies
  /\ named \in Docs \cup {None}
  /\ filters \in SUBSET Filters \cup {Unfiltered}
  /\ hits \in Seq(Passages)
  /\ stage \in {"found", "generating", "retrying", "answered", "raised"}
  /\ spent \in 0 .. Timeout
  /\ response.finding \in Findings
  /\ response.answer \in Answers
  /\ response.citations \in Seq(Citations)
  /\ response.blocked \in OutputRails \cup {None}

NoDraft == [finding |-> "silencio", answer |-> {}, citations |-> <<>>]
Nothing == [finding |-> "silencio", answer |-> NoClause, citations |-> <<>>,
            blocked |-> None, reason |-> "none", remembered |-> FALSE]

Init ==
  /\ policy \in Policies
  /\ hits \in Searches
  /\ named \in TurnIds(hits) \cup {None}
  /\ filters \in SUBSET Filters \cup {Unfiltered}
  /\ stage = "found"
  /\ spent = 0
  /\ draft = NoDraft
  /\ response = Nothing

(* _finalize, of a turn whose text is a fixed copy: the dump is named and  *)
(* the output rails find nothing to change.                                *)
Finalized(copy, reason, remembered) ==
  [finding |-> "silencio", answer |-> [copy EXCEPT !.has = @ \cup {"freeze"}],
   citations |-> <<>>, blocked |-> None, reason |-> reason, remembered |-> remembered]

Screen ==
  /\ stage = "found"
  /\ hits' = Screened(policy, hits)
  /\ IF hits' = <<>>
     THEN /\ stage' = "answered"
          /\ response' = Finalized(NoClause, "retrieve_empty", TRUE)
     ELSE stage' = "generating" /\ UNCHANGED response
  /\ UNCHANGED <<request, spent, draft>>

-----------------------------------------------------------------------------
(* The model, called with what is left of its time.                        *)

Calling == stage \in {"generating", "retrying"}

BadTakes(n) ==
  /\ Calling
  /\ n <= Timeout
  /\ spent' = spent + n

(* The call returns or raises after n seconds.                             *)
Takes(n) ==
  /\ Calling
  /\ n <= Timeout - spent
  /\ spent' = spent + n

Fail(reason) ==
  /\ stage' = "answered"
  /\ response' = Finalized(Failure, reason, FALSE)
  /\ UNCHANGED <<request, hits, draft>>

Reason(c) == IF c.blocked # None THEN c.blocked ELSE "none"

Draft(n, d) ==
  /\ Takes(n)
  /\ LET c == Verified(policy, d, named, filters, hits)
     IN  response' = [finding |-> c.finding, answer |-> c.answer,
                      citations |-> c.citations, blocked |-> c.blocked,
                      reason |-> Reason(c), remembered |-> TRUE]
  /\ draft' = d
  /\ stage' = "answered"
  /\ UNCHANGED <<request, hits>>

TimedOut ==
  /\ Calling
  /\ spent' = Timeout
  /\ Fail("llm_timeout")

(* An answer that cannot be read is asked for once more, if there is time. *)
BadJson(n) ==
  /\ Takes(n)
  /\ IF stage = "generating" /\ Timeout - (spent + n) > Floor
     THEN stage' = "retrying" /\ UNCHANGED <<request, hits, draft, response>>
     ELSE Fail("llm_bad_json")

(* Any other error of the first call is a failure of the turn; one of the  *)
(* retry is raised out of the handler of the first, and out of the turn.   *)
Error(n) ==
  /\ Takes(n)
  /\ IF stage = "generating" THEN Fail("llm_unavailable")
     ELSE stage' = "raised" /\ UNCHANGED <<request, hits, draft, response>>

Next ==
  \/ Screen
  \/ TimedOut
  \/ \E n \in 0 .. Timeout : BadJson(n) \/ Error(n) \/ \E d \in Drafts : Draft(n, d)

Spec == Init /\ [][Next]_vars
-----------------------------------------------------------------------------
(* Properties.  They are about what the turn publishes, when it has ended. *)

Answered == stage = "answered"
Published == response.citations

(* An answer that is no silencio names its source and carries at least one *)
(* citation, each of a different document of the passages the model was    *)
(* given, and each with a quote that was found in them word for word,      *)
(* whatever the draft cited, the salvage replaced and the filters dropped; *)
(* only the clean-up of markup, which runs last, may leave it otherwise.   *)
AnsweredIsCited ==
  Answered /\ response.finding # "silencio" /\ On(policy, "cite-or-abstain") =>
    /\ Published # <<>>
    /\ "fuente" \in response.answer.has
    /\ \A i \in DOMAIN Published :
         /\ Published[i].id \in TurnIds(hits)
         /\ Published[i].quote.anchor \in {"exact", "stripped"}
         /\ \A j \in 1 .. i - 1 : Published[j].id # Published[i].id

(* A silencio shows no citation, and nothing of a draft that did not say   *)
(* itself that it has no clause, with every rail on or in shadow mode.     *)
SilencioIsBare ==
  Answered /\ response.finding = "silencio" =>
    /\ Published = <<>>
    /\ response.answer.text = "draft" =>
         response.blocked = None /\ "no clause" \in response.answer.has

(* obligacion and prohibicion are only published over a quote that, as it  *)
(* is published, speaks of a duty.                                         *)
DutyIsQuoted ==
  Answered /\ response.finding = "obligacion" => SpeaksOfDuty(Published)

(* Every answer names the dump it was taken from, whatever the rails took  *)
(* out of the draft and whatever took the draft's place.                   *)
FreezeNamed == Answered => NamesFreeze(response.answer)

(* A question routed to one document is answered with a citation of it     *)
(* when the draft cites it, with any quote, or names it and cites nothing, *)
(* unless another rail blocks, the draft is a silencio or the request      *)
(* filters citations.                                                      *)
NamedIsCited ==
  LET cites == \E i \in DOMAIN draft.citations : draft.citations[i].id = named
      names == draft.citations = <<>> /\ "named id" \in draft.answer
  IN  /\ Answered /\ named \in TurnIds(hits) /\ filters = Unfiltered
      /\ draft.finding # "silencio" /\ response.blocked \in {None, "cite-or-abstain"}
      /\ cites \/ names
      => \E i \in DOMAIN Published : Published[i].id = named

(* The specification's promise that a call which fails otherwise than by   *)
(* time or by an unreadable answer ends the turn in a silencio that says   *)
(* so.  It fails on the retry, whose error leaves the turn unanswered.     *)
FailedCallIsSilencio ==
  [][\A n \in 0 .. Timeout :
       Error(n) => stage' = "answered" /\ response'.finding = "silencio"
                     /\ response'.reason = "llm_unavailable"]_vars
=============================================================================
