---------------------------- MODULE AnswerProofs ----------------------------
(***************************************************************************)
(* What holds of every answer a turn publishes, for every list of passages *)
(* and every draft: no bound on the citations, the sizes or the time.      *)
(*                                                                         *)
(* The argument follows an answer through the stages of Verified.  For     *)
(* what it says, a rail needs of the ones before it ToPublish: the answer  *)
(* still has its fields, and a draft that cite-or-abstain blocked is no    *)
(* longer there.  For what it cites, Supported is what cite-or-abstain     *)
(* establishes, and Follows what every later stage keeps of it.            *)
(***************************************************************************)
EXTENDS Answer, ListProofs

Answerlike(a) == \E t, h : a = [text |-> t, has |-> h]

Shape(c) ==
  \E f, a, ci, b : /\ c = [finding |-> f, answer |-> a, citations |-> ci, blocked |-> b]
                   /\ Answerlike(a)

ToPublish(c) ==
  /\ Shape(c)
  /\ c.blocked = "cite-or-abstain" => c.answer.text # "draft"

(* WithMarks changes nothing but what the answer says.                     *)
LEMMA Marked ==
  ASSUME NEW c, Shape(c), NEW more, NEW fewer
  PROVE  /\ Shape(WithMarks(c, more, fewer))
         /\ WithMarks(c, more, fewer).finding = c.finding
         /\ WithMarks(c, more, fewer).citations = c.citations
         /\ WithMarks(c, more, fewer).blocked = c.blocked
         /\ WithMarks(c, more, fewer).answer.text = c.answer.text
         /\ WithMarks(c, more, fewer).answer.has = (c.answer.has \cup more) \ fewer
<1>1. PICK f, a, ci, b : /\ c = [finding |-> f, answer |-> a, citations |-> ci, blocked |-> b]
                         /\ Answerlike(a)
  BY DEF Shape
<1>2. PICK t, h : a = [text |-> t, has |-> h]
  BY <1>1 DEF Answerlike
<1> DEFINE h2 == (h \cup more) \ fewer
           a2 == [text |-> t, has |-> h2]
<1>3. WithMarks(c, more, fewer) = [finding |-> f, answer |-> a2, citations |-> ci, blocked |-> b]
  BY <1>1, <1>2 DEF WithMarks
<1>4. Answerlike(a2)
  BY DEF Answerlike
<1>5. Shape(WithMarks(c, more, fewer))
  BY <1>3, <1>4 DEF Shape
<1> QED
  BY <1>1, <1>2, <1>3, <1>5

(* What the output rails are given.                                        *)
LEMMA DraftToPublish ==
  ASSUME NEW d, NEW doc, NEW wanted, NEW passages
  PROVE  ToPublish(Start(d, doc, wanted, passages))
<1> DEFINE c == Start(d, doc, wanted, passages)
<1>1. PICK f, ci : c = [finding |-> f, answer |-> [text |-> "draft", has |-> d.answer],
                        citations |-> ci, blocked |-> None]
  BY DEF Start
<1>2. Shape(c)
  BY <1>1 DEF Shape, Answerlike
<1>3. c.blocked = None
  BY <1>1
<1>4. None # "cite-or-abstain"
  BY AnswerAssumption DEF Rails, OutputRails
<1> QED
  BY <1>2, <1>3, <1>4 DEF ToPublish

(* A record built from another one's fields has their shape.               *)
LEMMA Built ==
  ASSUME NEW f, NEW a, Answerlike(a), NEW ci, NEW b
  PROVE  Shape([finding |-> f, answer |-> a, citations |-> ci, blocked |-> b])
BY DEF Shape

(* cite-or-abstain leaves an answer to publish, and hides the draft when   *)
(* it blocks.                                                              *)
LEMMA CitesOrHides ==
  ASSUME NEW c, Shape(c), NEW ids
  PROVE  /\ Shape(CiteOrAbstain(c, ids))
         /\ CiteOrAbstain(c, ids).blocked = c.blocked
         /\ Uncited(c, ids) => CiteOrAbstain(c, ids).answer.text # "draft"
         /\ c.answer.text # "draft" => CiteOrAbstain(c, ids).answer.text # "draft"
<1> DEFINE r == CiteOrAbstain(c, ids)
           u == IF c.finding = "silencio" THEN <<>> ELSE Usable(c.citations, ids)
<1>1. PICK f, a, ci, b : /\ c = [finding |-> f, answer |-> a, citations |-> ci, blocked |-> b]
                         /\ Answerlike(a)
  BY DEF Shape
<1>2. Answerlike(NoClause) /\ NoClause.text # "draft"
  BY DEF Answerlike, NoClause
<1>3. CASE Uncited(c, ids)
  <2>1. r = [finding |-> "silencio", answer |-> NoClause, citations |-> <<>>, blocked |-> b]
    BY <1>1, <1>3 DEF CiteOrAbstain
  <2> QED
    BY <1>1, <1>2, <2>1, Built
<1>4. CASE ~Uncited(c, ids)
  <2>1. r = [finding |-> f, answer |-> a, citations |-> u, blocked |-> b]
    BY <1>1, <1>4 DEF CiteOrAbstain
  <2> QED
    BY <1>1, <1>4, <2>1, Built
<1> QED
  BY <1>3, <1>4

(* The rails after it keep the text: a hidden draft stays hidden.          *)
LEMMA FreezeKeepsText ==
  ASSUME NEW c, Shape(c)
  PROVE  /\ Shape(FreezeHonesty(c))
         /\ FreezeHonesty(c).blocked = c.blocked
         /\ FreezeHonesty(c).answer.text = c.answer.text
<1>1. CASE FreezeHonesty(c) = WithMarks(c, {"freeze"}, {})
  BY <1>1, Marked
<1>2. CASE FreezeHonesty(c) = c
  BY <1>2
<1> QED
  BY <1>1, <1>2 DEF FreezeHonesty

(* Cleaning the markup leaves the text and what was blocked.               *)
LEMMA SanitizeKeepsText ==
  ASSUME NEW c, Shape(c)
  PROVE  /\ Shape(MarkdownSanitize(c))
         /\ MarkdownSanitize(c).blocked = c.blocked
         /\ MarkdownSanitize(c).answer.text = c.answer.text
<1> DEFINE r == MarkdownSanitize(c)
           m == {"markup", "freeze in tag"}
           w == WithMarks(c, {}, m)
           s == [i \in DOMAIN c.citations |-> [c.citations[i] EXCEPT !.quote = Stripped(@)]]
<1>1. r = [w EXCEPT !.citations = s]
  BY DEF MarkdownSanitize
<1> HIDE DEF m
<1>2. /\ Shape(w)
      /\ w.blocked = c.blocked
      /\ w.answer.text = c.answer.text
  BY Marked
<1> HIDE DEF w, s, r
<1>3. PICK f, a, ci, b : /\ w = [finding |-> f, answer |-> a, citations |-> ci, blocked |-> b]
                         /\ Answerlike(a)
  BY <1>2 DEF Shape
<1>4. r = [finding |-> f, answer |-> a, citations |-> s, blocked |-> b]
  BY <1>1, <1>3
<1>5. Shape(r) /\ r.blocked = c.blocked /\ r.answer.text = c.answer.text
  BY <1>2, <1>3, <1>4, Built
<1> QED
  BY <1>5 DEF r

(* One rail: what it made of c is kept or dropped as a whole.              *)
LEMMA RunToPublish ==
  ASSUME NEW p, NEW rail, NEW c, ToPublish(c), NEW patched, NEW blocks,
         Shape(patched),
         patched.blocked = c.blocked,
         c.answer.text # "draft" => patched.answer.text # "draft",
         rail = "cite-or-abstain" /\ blocks => patched.answer.text # "draft"
  PROVE  ToPublish(Run(p, rail, c, patched, blocks))
<1> DEFINE r == Run(p, rail, c, patched, blocks)
           b1 == IF c.blocked = None /\ blocks THEN rail ELSE c.blocked
<1>1. CASE ~On(p, rail)
  BY <1>1 DEF Run
<1>2. CASE On(p, rail)
  <2>1. PICK f, a, ci, b : /\ patched = [finding |-> f, answer |-> a,
                                         citations |-> ci, blocked |-> b]
                           /\ Answerlike(a)
    BY DEF Shape
  <2>2. r = [patched EXCEPT !.blocked = IF @ = None /\ blocks THEN rail ELSE @]
    BY <1>2 DEF Run
  <2>3. b = c.blocked
    BY <2>1
  <2>4. r = [finding |-> f, answer |-> a, citations |-> ci, blocked |-> b1]
    BY <2>1, <2>2, <2>3
  <2>5. Shape(r)
    BY <2>1, <2>4, Built
  <2>6. r.blocked = b1 /\ r.answer = patched.answer
    BY <2>1, <2>4
  <2>7. b1 = "cite-or-abstain" => patched.answer.text # "draft"
    BY DEF ToPublish
  <2> QED
    BY <2>5, <2>6, <2>7 DEF ToPublish
<1> QED
  BY <1>1, <1>2

(* A rail that never blocks.                                               *)
LEMMA PatchToPublish ==
  ASSUME NEW p, NEW rail, NEW c, ToPublish(c), NEW patched,
         Shape(patched),
         patched.blocked = c.blocked,
         patched.answer.text = c.answer.text
  PROVE  ToPublish(Run(p, rail, c, patched, FALSE))
<1> DEFINE no == FALSE
<1>1. ~no
  OBVIOUS
<1> HIDE DEF no
<1>2. ToPublish(Run(p, rail, c, patched, no))
  BY <1>1, RunToPublish
<1> QED
  BY <1>2 DEF no

(* The seven rails, whichever are enforced.                                *)
LEMMA RailedToPublish ==
  ASSUME NEW p, NEW c, ToPublish(c), NEW ids
  PROVE  ToPublish(Railed(p, c, ids))
<1> DEFINE c1 == Run(p, "cite-or-abstain", c, CiteOrAbstain(c, ids), Uncited(c, ids))
           c2 == Run(p, "freeze-honesty", c1, FreezeHonesty(c1), FALSE)
           c3 == Run(p, "no-advice-output", c2, c2, "advice" \in c2.answer.has)
           c4 == Run(p, "secrets-output", c3, c3, "secret" \in c3.answer.has)
           c5 == Run(p, "prompt-leak", c4, c4, "fence" \in c4.answer.has)
           c6 == Run(p, "unsafe-output", c5, WithMarks(c5, {}, {"tool"}), FALSE)
           c7 == Run(p, "markdown-sanitize", c6, MarkdownSanitize(c6), FALSE)
<1> HIDE DEF c1, c2, c3, c4, c5, c6, c7
<1>1. ToPublish(c1)
  BY RunToPublish, CitesOrHides DEF c1, ToPublish
<1>2. ToPublish(c2)
  <2>1. /\ Shape(FreezeHonesty(c1))
        /\ FreezeHonesty(c1).blocked = c1.blocked
        /\ FreezeHonesty(c1).answer.text = c1.answer.text
    BY <1>1, FreezeKeepsText DEF ToPublish
  <2> QED
    BY <1>1, <2>1, PatchToPublish DEF c2
<1>3. ToPublish(c3)
  BY <1>2, RunToPublish DEF c3, ToPublish
<1>4. ToPublish(c4)
  BY <1>3, RunToPublish DEF c4, ToPublish
<1>5. ToPublish(c5)
  BY <1>4, RunToPublish DEF c5, ToPublish
<1>6. ToPublish(c6)
  <2> DEFINE w == WithMarks(c5, {}, {"tool"})
  <2>1. Shape(w) /\ w.blocked = c5.blocked /\ w.answer.text = c5.answer.text
    BY <1>5, Marked DEF ToPublish
  <2> QED
    BY <1>5, <2>1, PatchToPublish DEF c6
<1>7. ToPublish(c7)
  <2>1. /\ Shape(MarkdownSanitize(c6))
        /\ MarkdownSanitize(c6).blocked = c6.blocked
        /\ MarkdownSanitize(c6).answer.text = c6.answer.text
    BY <1>6, SanitizeKeepsText DEF ToPublish
  <2> QED
    BY <1>6, <2>1, PatchToPublish DEF c7
<1>8. Railed(p, c, ids) = c7
  BY DEF Railed, c1, c2, c3, c4, c5, c6, c7
<1> QED
  BY <1>7, <1>8

-----------------------------------------------------------------------------
(* What is left to publish after the rails.                                *)

(* The label agrees with the quotes that are left.                         *)
LEMMA DemotedToPublish ==
  ASSUME NEW c, ToPublish(c)
  PROVE  /\ ToPublish(Demoted(c))
         /\ Demoted(c).finding = "obligacion" => SpeaksOfDuty(Demoted(c).citations)
<1>1. CASE c.finding = "obligacion" /\ ~SpeaksOfDuty(c.citations)
  <2>1. PICK f, a, ci, b : /\ c = [finding |-> f, answer |-> a, citations |-> ci, blocked |-> b]
                           /\ Answerlike(a)
    BY DEF ToPublish, Shape
  <2>2. Demoted(c) = [finding |-> "definicion", answer |-> a, citations |-> ci, blocked |-> b]
    BY <1>1, <2>1 DEF Demoted
  <2> QED
    BY <2>1, <2>2, Built DEF ToPublish
<1>2. CASE ~(c.finding = "obligacion" /\ ~SpeaksOfDuty(c.citations))
  BY <1>2 DEF Demoted
<1> QED
  BY <1>1, <1>2

(* What Concluded establishes of the answer it returns.                    *)
Honest(c) ==
  /\ c.finding = "obligacion" => SpeaksOfDuty(c.citations)
  /\ c.finding = "silencio" =>
       /\ c.citations = <<>>
       /\ c.answer.text = "draft" => c.blocked = None /\ "no clause" \in c.answer.has

Sound(c) == Shape(c) /\ Honest(c)

(* The conclusion, the texto ordenado's hedge and the footer.              *)
LEMMA ConcludedSound ==
  ASSUME NEW c, ToPublish(c),
         c.finding = "obligacion" => SpeaksOfDuty(c.citations)
  PROVE  Sound(Concluded(c))
<1> DEFINE r == Concluded(c)
<1>1. PICK f, a, ci, b : /\ c = [finding |-> f, answer |-> a, citations |-> ci, blocked |-> b]
                         /\ Answerlike(a)
  BY DEF ToPublish, Shape
<1>2. /\ Answerlike(NoClause) /\ Answerlike(Refusal)
      /\ NoClause.text # "draft" /\ Refusal.text # "draft"
  BY DEF Answerlike, NoClause, Refusal
<1>3. CASE b # None
  <2> DEFINE a2 == IF b = "cite-or-abstain" THEN a ELSE Refusal
  <2>1. r = [finding |-> "silencio", answer |-> a2, citations |-> <<>>, blocked |-> b]
    BY <1>1, <1>3 DEF Concluded
  <2>2. Answerlike(a2) /\ a2.text # "draft"
    BY <1>1, <1>2 DEF ToPublish
  <2> HIDE DEF a2
  <2>3. Shape(r)
    BY <2>1, <2>2, Built
  <2>4. /\ r.finding = "silencio" /\ r.citations = <<>>
        /\ r.answer = a2 /\ r.blocked = b
    BY <2>1
  <2>5. r.finding # "obligacion"
    BY <2>4
  <2> QED
    BY <2>2, <2>3, <2>4, <2>5 DEF Sound, Honest
<1>4. CASE b = None /\ f = "silencio"
  <2> DEFINE a2 == IF "no clause" \in a.has THEN a ELSE NoClause
  <2>1. r = [finding |-> f, answer |-> a2, citations |-> <<>>, blocked |-> b]
    BY <1>1, <1>4 DEF Concluded
  <2>2. Answerlike(a2) /\ (a2.text = "draft" => "no clause" \in a2.has)
    BY <1>1, <1>2
  <2> HIDE DEF a2
  <2>3. Shape(r)
    BY <2>1, <2>2, Built
  <2>4. /\ r.finding = "silencio" /\ r.citations = <<>>
        /\ r.answer = a2 /\ r.blocked = None
    BY <1>4, <2>1
  <2>5. r.finding # "obligacion"
    BY <2>4
  <2> QED
    BY <2>2, <2>3, <2>4, <2>5 DEF Sound, Honest
<1>5. CASE b = None /\ f # "silencio"
  <2>1. /\ Shape(r)
        /\ r.finding = c.finding
        /\ r.citations = c.citations
    <3>1. CASE ci # <<>>
      <4>1. r = WithMarks(c, {"fuente"}, {})
        BY <1>1, <1>5, <3>1 DEF Concluded
      <4> QED
        BY <4>1, Marked DEF ToPublish
    <3>2. CASE ci = <<>>
      <4>1. r = c
        BY <1>1, <1>5, <3>2 DEF Concluded
      <4> QED
        BY <4>1 DEF ToPublish
    <3> QED
      BY <3>1, <3>2
  <2> QED
    BY <1>1, <1>5, <2>1 DEF Sound, Honest
<1> QED
  BY <1>3, <1>4, <1>5

(* The footer names the dump.                                              *)
LEMMA FootedSound ==
  ASSUME NEW c, Sound(c)
  PROVE  Sound(Footed(c)) /\ NamesFreeze(Footed(c).answer)
<1>1. CASE NamesFreeze(c.answer)
  BY <1>1 DEF Footed
<1>2. CASE ~NamesFreeze(c.answer)
  <2>1. Footed(c) = WithMarks(c, {"freeze"}, {})
    BY <1>2 DEF Footed
  <2>2. Shape(c)
    BY DEF Sound, Honest
  <2> DEFINE m == {"freeze"}
             e == {}
             w == WithMarks(c, m, e)
  <2> HIDE DEF m, e
  <2>3. /\ Shape(w)
        /\ w.finding = c.finding
        /\ w.citations = c.citations
        /\ w.blocked = c.blocked
        /\ w.answer.text = c.answer.text
        /\ w.answer.has = (c.answer.has \cup m) \ e
    BY <2>2, Marked
  <2>4. /\ Shape(Footed(c))
        /\ Footed(c).finding = c.finding
        /\ Footed(c).citations = c.citations
        /\ Footed(c).blocked = c.blocked
        /\ Footed(c).answer.text = c.answer.text
        /\ Footed(c).answer.has = c.answer.has \cup {"freeze"}
    BY <2>1, <2>3 DEF m, e
  <2>5. NamesFreeze(Footed(c).answer)
    BY <2>4 DEF NamesFreeze
  <2>6. Sound(Footed(c))
    BY <2>4 DEF Sound, Honest
  <2> QED
    BY <2>5, <2>6
<1> QED
  BY <1>1, <1>2

(* All the stages of an answered turn.                                     *)
LEMMA VerifiedSound ==
  ASSUME NEW p, NEW d, NEW doc, NEW wanted, NEW passages
  PROVE  /\ Sound(Verified(p, d, doc, wanted, passages))
         /\ NamesFreeze(Verified(p, d, doc, wanted, passages).answer)
<1> DEFINE c1 == Start(d, doc, wanted, passages)
           c2 == Railed(p, c1, TurnIds(passages))
           c3 == Demoted(c2)
           c4 == Concluded(c3)
<1> HIDE DEF c1, c2, c3, c4
<1>1. ToPublish(c1)
  BY DraftToPublish DEF c1
<1>2. ToPublish(c2)
  BY <1>1, RailedToPublish DEF c2
<1>3. ToPublish(c3) /\ (c3.finding = "obligacion" => SpeaksOfDuty(c3.citations))
  BY <1>2, DemotedToPublish DEF c3
<1>4. Sound(c4)
  BY <1>3, ConcludedSound DEF c4
<1>5. Verified(p, d, doc, wanted, passages) = Footed(c4)
  BY DEF Verified, c4, c3, c2, c1
<1> QED
  BY <1>4, <1>5, FootedSound

-----------------------------------------------------------------------------
(* Every response of an ended turn is honest and names the dump; the ones  *)
(* of a turn that has not ended are not looked at.                         *)
ResponseSound == Answered => Honest(response) /\ NamesFreeze(response.answer)

(* The fixed copies of a turn that is not answered.                        *)
LEMMA FinalizedSound ==
  ASSUME NEW copy \in {NoClause, Failure}, NEW reason, NEW remembered,
         response' = Finalized(copy, reason, remembered)
  PROVE  ResponseSound'
<1> DEFINE a == [text |-> copy.text, has |-> copy.has \cup {"freeze"}]
<1>1. /\ [copy EXCEPT !.has = @ \cup {"freeze"}] = a
      /\ a.text # "draft" /\ "freeze" \in a.has
  <2>1. PICK t, h : copy = [text |-> t, has |-> h] /\ t # "draft"
    <3>1. CASE copy = NoClause
      <4>1. /\ copy = [text |-> "no clause", has |-> {"no clause"}]
            /\ "no clause" # "draft"
        BY <3>1 DEF NoClause
      <4> QED
        BY <4>1, Zenon
    <3>2. CASE copy = Failure
      <4>1. copy = [text |-> "failure", has |-> {}] /\ "failure" # "draft"
        BY <3>2 DEF Failure
      <4> QED
        BY <4>1, Zenon
    <3> QED
      BY <3>1, <3>2
  <2>2. [copy EXCEPT !.has = @ \cup {"freeze"}] = a
    BY <2>1
  <2>3. a.text # "draft" /\ "freeze" \in a.has
    BY <2>1
  <2> QED
    BY <2>2, <2>3
<1>2. /\ response'.finding = "silencio" /\ response'.citations = <<>>
      /\ response'.answer = a
  BY <1>1 DEF Finalized
<1> HIDE DEF a
<1>3. NamesFreeze(a)
  BY <1>1 DEF NamesFreeze
<1>4. response'.finding # "obligacion"
  BY <1>2
<1> QED
  BY <1>1, <1>2, <1>3, <1>4 DEF ResponseSound, Honest

LEMMA ResponseInvariant == Spec => []ResponseSound
<1>1. Init => ResponseSound
  BY DEF Init, ResponseSound, Answered
<1>2. ResponseSound /\ [Next]_vars => ResponseSound'
  <2> SUFFICES ASSUME ResponseSound, [Next]_vars PROVE ResponseSound'
    OBVIOUS
  <2>1. CASE Screen
    <3>1. CASE hits' = <<>>
      BY <2>1, <3>1, FinalizedSound DEF Screen
    <3>2. CASE hits' # <<>>
      BY <2>1, <3>2 DEF Screen, ResponseSound, Answered
    <3> QED
      BY <3>1, <3>2
  <2>2. ASSUME NEW reason, Fail(reason) PROVE ResponseSound'
    BY <2>2, FinalizedSound DEF Fail
  <2>3. CASE TimedOut
    BY <2>3, <2>2 DEF TimedOut
  <2>4. ASSUME NEW n \in 0 .. Timeout, BadJson(n) PROVE ResponseSound'
    <3>1. CASE stage' = "retrying"
      BY <3>1 DEF ResponseSound, Answered
    <3>2. CASE stage' # "retrying"
      BY <2>2, <2>4, <3>2 DEF BadJson
    <3> QED
      BY <3>1, <3>2
  <2>5. ASSUME NEW n \in 0 .. Timeout, Error(n) PROVE ResponseSound'
    <3>1. CASE stage' = "raised"
      BY <3>1 DEF ResponseSound, Answered
    <3>2. CASE stage' # "raised"
      BY <2>2, <2>5, <3>2 DEF Error
    <3> QED
      BY <3>1, <3>2
  <2>6. ASSUME NEW n \in 0 .. Timeout, NEW d \in Drafts, Draft(n, d) PROVE ResponseSound'
    <3> DEFINE c == Verified(policy, d, named, filters, hits)
    <3>1. Honest(c) /\ NamesFreeze(c.answer)
      BY VerifiedSound DEF Sound
    <3> HIDE DEF c
    <3>2. response' = [finding |-> c.finding, answer |-> c.answer,
                       citations |-> c.citations, blocked |-> c.blocked,
                       reason |-> Reason(c), remembered |-> TRUE]
      BY <2>6 DEF Draft, c
    <3>3. /\ response'.finding = c.finding /\ response'.answer = c.answer
          /\ response'.citations = c.citations /\ response'.blocked = c.blocked
      BY <3>2
    <3> QED
      BY <3>1, <3>3 DEF ResponseSound, Honest
  <2>7. CASE UNCHANGED vars
    BY <2>7 DEF vars, ResponseSound, Answered
  <2> QED
    BY <2>1, <2>3, <2>4, <2>5, <2>6, <2>7 DEF Next
<1> QED
  BY <1>1, <1>2, PTL DEF Spec

(* Every answer names the dump it was taken from.                          *)
THEOREM DumpNamed == Spec => []FreezeNamed
<1>1. ResponseSound => FreezeNamed
  BY DEF ResponseSound, FreezeNamed
<1> QED
  BY <1>1, ResponseInvariant, PTL

(* A silencio shows no citation and nothing of a draft that did not say it *)
(* has no clause, whatever the rails, their modes and the passages.        *)
THEOREM SilencioHides == Spec => []SilencioIsBare
<1>1. ResponseSound => SilencioIsBare
  BY DEF ResponseSound, Honest, SilencioIsBare, Published
<1> QED
  BY <1>1, ResponseInvariant, PTL

(* A duty or a prohibition is only published over a quote that speaks of   *)
(* one, as it is published.                                                *)
THEOREM NoUnquotedDuty == Spec => []DutyIsQuoted
<1>1. ResponseSound => DutyIsQuoted
  BY DEF ResponseSound, Honest, DutyIsQuoted, Published
<1> QED
  BY <1>1, ResponseInvariant, PTL

-----------------------------------------------------------------------------
(* The types.  Every stage takes a candidate to a candidate.               *)

Candidates == [finding : Findings, answer : Answers, citations : Seq(Citations),
               blocked : OutputRails \cup {None}]

(* The list that Fit is the last value of.                                 *)
Fits(f, s, n) ==
  f = [i \in 0 .. n |-> IF i = 0 THEN <<>>
                        ELSE IF f[i - 1] # <<>> /\ Size(f[i - 1]) + s[i].size > Budget
                        THEN f[i - 1]
                        ELSE Append(f[i - 1], s[i])]

(* The function that Fit is the last value of exists.                      *)
LEMMA FittingExists ==
  ASSUME NEW s, NEW n \in Nat
  PROVE  \E f : Fits(f, s, n)
<1> DEFINE Good == {m \in Nat : \E f : Fits(f, s, m)}
<1>1. 0 \in Good
  <2>1. Fits([i \in 0 .. 0 |-> <<>>], s, 0)
    BY DEF Fits
  <2> QED
    BY <2>1
<1>2. ASSUME NEW m \in Nat, m \in Good
      PROVE  m + 1 \in Good
  <2>1. PICK f : Fits(f, s, m)
    BY <1>2
  <2> DEFINE last == IF f[m] # <<>> /\ Size(f[m]) + s[m + 1].size > Budget
                     THEN f[m] ELSE Append(f[m], s[m + 1])
             g == [i \in 0 .. m + 1 |-> IF i = m + 1 THEN last ELSE f[i]]
             h == [i \in 0 .. m + 1 |-> IF i = 0 THEN <<>>
                        ELSE IF g[i - 1] # <<>> /\ Size(g[i - 1]) + s[i].size > Budget
                        THEN g[i - 1]
                        ELSE Append(g[i - 1], s[i])]
  <2>2. ASSUME NEW i \in 0 .. m + 1
        PROVE  g[i] = h[i]
    <3>1. CASE i = m + 1
      BY <3>1
    <3>2. CASE i # m + 1
      <4>1. i \in 0 .. m /\ g[i] = f[i]
        BY <3>2
      <4>2. i # 0 => g[i - 1] = f[i - 1]
        BY <3>2
      <4>3. f[i] = IF i = 0 THEN <<>>
                   ELSE IF f[i - 1] # <<>> /\ Size(f[i - 1]) + s[i].size > Budget
                   THEN f[i - 1]
                   ELSE Append(f[i - 1], s[i])
        BY <2>1, <4>1 DEF Fits
      <4> QED
        BY <4>1, <4>2, <4>3
    <3> QED
      BY <3>1, <3>2
  <2>3. g = h
    <3> HIDE DEF last
    <3> QED BY <2>2
  <2>4. Fits(g, s, m + 1)
    BY <2>3 DEF Fits
  <2> QED
    BY <2>4
<1>3. Nat \subseteq Good
  <2> HIDE DEF Good
  <2> QED  BY <1>1, <1>2, Reaches
<1> QED
  BY <1>3

(* What fits the budget is some of the passages.                           *)
LEMMA FitTyped ==
  ASSUME NEW s \in Seq(Passages)
  PROVE  Fit(s) \in Seq(Passages)
<1> DEFINE f == CHOOSE f : Fits(f, s, Len(s))
<1>1. Len(s) \in Nat
  OBVIOUS
<1>2. Fits(f, s, Len(s))
  BY <1>1, FittingExists
<1>3. Fit(s) = f[Len(s)]
  BY DEF Fit, Fits
<1> HIDE DEF f
<1>4. \A i \in 0 .. Len(s) :
        f[i] = IF i = 0 THEN <<>>
               ELSE IF f[i - 1] # <<>> /\ Size(f[i - 1]) + s[i].size > Budget
               THEN f[i - 1]
               ELSE Append(f[i - 1], s[i])
  BY <1>1, <1>2 DEF Fits
<1> DEFINE Good == {n \in Nat : n <= Len(s) => f[n] \in Seq(Passages)}
<1>5. 0 \in Good
  <2>1. 0 \in 0 .. Len(s)
    BY <1>1
  <2>2. f[0] = <<>>
    BY <1>4, <2>1
  <2> QED
    BY <2>2, EmptySeq
<1>6. ASSUME NEW n \in Nat, n \in Good
      PROVE  n + 1 \in Good
  <2> SUFFICES ASSUME n + 1 <= Len(s)
               PROVE  f[n + 1] \in Seq(Passages)
    OBVIOUS
  <2>1. f[n] \in Seq(Passages) /\ s[n + 1] \in Passages
    BY <1>1, <1>6
  <2> DEFINE k == n + 1
  <2>2. k \in 0 .. Len(s) /\ k # 0 /\ k - 1 = n
    BY <1>1
  <2> HIDE DEF k
  <2>3. f[k] = f[n] \/ f[k] = Append(f[n], s[k])
    <3>1. f[k] = IF f[n] # <<>> /\ Size(f[n]) + s[k].size > Budget
                 THEN f[n] ELSE Append(f[n], s[k])
      BY <1>4, <2>2
    <3> QED
      BY <3>1
  <2>4. f[n + 1] = f[n] \/ f[n + 1] = Append(f[n], s[n + 1])
    BY <2>3 DEF k
  <2> QED
    BY ZenonT(60), <2>1, <2>4, AppendProperties
<1>7. Nat \subseteq Good
  <2> HIDE DEF Good
  <2> QED  BY <1>5, <1>6, Reaches
<1> QED
  BY <1>1, <1>3, <1>7

(* What the retrieve rails leave is a list of passages.                    *)
LEMMA ScreenedTyped ==
  ASSUME NEW p, NEW s \in Seq(Passages)
  PROVE  Screened(p, s) \in Seq(Passages)
<1>1. ASSUME NEW r \in Seq(Passages)
      PROVE  Hygiene(r) \in Seq(Passages)
  <2> DEFINE left == Kept(r, {x \in Passages : x.text # "marks"})
  <2>1. left \in Seq(Passages)
    BY KeptEnumerates
  <2> HIDE DEF left
  <2>2. ASSUME NEW x \in Passages
        PROVE  Clean(x) \in Passages
    BY DEF Clean, Passages
  <2>3. [i \in DOMAIN left |-> Clean(left[i])] \in Seq(Passages)
    <3>1. \A i \in DOMAIN left : Clean(left[i]) \in Passages
      BY <2>1, <2>2
    <3> QED
      BY <2>1, <3>1
  <2> QED
    BY <2>3 DEF Hygiene, left
<1>2. Kept(s, {x \in Passages : x.text # "jailbreak"}) \in Seq(Passages)
  BY KeptEnumerates
<1> QED
  BY <1>1, <1>2, FitTyped DEF Screened

(* The first passage of a document of the list is one of the list.         *)
LEMMA FirstIsThere ==
  ASSUME NEW s \in Seq(Passages), NEW doc \in TurnIds(s)
  PROVE  FirstOf(doc, s) \in Passages /\ FirstOf(doc, s).doc = doc
<1> DEFINE T == {i \in DOMAIN s : s[i].doc = doc}
           First(i) == s[i].doc = doc /\ \A j \in 1 .. i - 1 : s[j].doc # doc
<1>1. Len(s) \in Nat /\ DOMAIN s = 1 .. Len(s)
  OBVIOUS
<1>2. T \subseteq Nat /\ T # {}
  BY <1>1 DEF TurnIds
<1>3. PICK i \in T : \A j \in T : i <= j
  BY <1>2, Least
<1>4. i \in DOMAIN s /\ First(i)
  BY <1>1, <1>3
<1> DEFINE k == CHOOSE k \in DOMAIN s : First(k)
<1>5. k \in DOMAIN s /\ First(k)
  BY <1>4
<1>6. FirstOf(doc, s) = s[k]
  BY DEF FirstOf
<1> QED
  BY <1>1, <1>5, <1>6

-----------------------------------------------------------------------------
(* The citations: of documents of the turn, each once, and the quotes they *)
(* carry.                                                                  *)

Of(citations, ids) == \A i \in DOMAIN citations : citations[i].id \in ids
Distinct(citations) ==
  \A i, j \in DOMAIN citations : i < j => citations[i].id # citations[j].id
Quoted(citations) ==
  \A i \in DOMAIN citations : citations[i].quote.anchor \in {"exact", "stripped"}
Cites(citations, doc) == \E i \in DOMAIN citations : citations[i].id = doc
Anchored(citations, doc) ==
  \E i \in DOMAIN citations : citations[i].id = doc /\ Anchors(citations[i].quote)

(* What is kept of a list of citations cites each document once, if the    *)
(* list did.                                                               *)
LEMMA KeptDistinct ==
  ASSUME NEW cs \in Seq(Citations), Distinct(cs), NEW T
  PROVE  Kept(cs, T) \in Seq(Citations) /\ Distinct(Kept(cs, T))
<1> DEFINE r == Kept(cs, T)
<1>1. PICK g : r \in Seq(Citations) /\ Enumerates(g, r, cs, T, Len(cs))
  BY KeptEnumerates
<1> HIDE DEF r
<1>2. Len(cs) \in Nat /\ Len(r) \in Nat /\ DOMAIN r = 1 .. Len(r) /\ DOMAIN cs = 1 .. Len(cs)
  BY <1>1
<1>3. \A k \in 1 .. Len(r) : g[k] \in 1 .. Len(cs) /\ r[k] = cs[g[k]]
  BY <1>1 DEF Enumerates
<1>4. \A i, j \in 1 .. Len(r) : i < j => g[i] < g[j]
  BY <1>1 DEF Enumerates
<1>5. ASSUME NEW i \in 1 .. Len(r), NEW j \in 1 .. Len(r), i < j
      PROVE  r[i].id # r[j].id
  <2>1. g[i] < g[j]
    BY <1>4, <1>5
  <2>2. cs[g[i]].id # cs[g[j]].id
    BY <1>2, <1>3, <2>1 DEF Distinct
  <2> QED
    BY <1>3, <2>2
<1> QED
  BY <1>1, <1>2, <1>5 DEF r, Distinct

(* ... and of documents the list cited.                                    *)
LEMMA KeptOf ==
  ASSUME NEW cs \in Seq(Citations), NEW ids, Of(cs, ids), NEW T
  PROVE  Of(Kept(cs, T), ids)
<1> DEFINE r == Kept(cs, T)
<1>1. PICK g : r \in Seq(Citations) /\ Enumerates(g, r, cs, T, Len(cs))
  BY KeptEnumerates
<1> HIDE DEF r
<1>2. \A k \in DOMAIN r : g[k] \in DOMAIN cs /\ r[k] = cs[g[k]]
  BY <1>1 DEF Enumerates
<1>3. \A k \in DOMAIN r : r[k].id \in ids
  BY <1>2 DEF Of
<1> QED
  BY <1>3 DEF r, Of

(* An empty quote is filled without touching the document cited.           *)
LEMMA FilledTyped ==
  ASSUME NEW c \in Citations, NEW s \in Seq(Passages), c.id \in TurnIds(s)
  PROVE  Filled(c, s) \in Citations /\ Filled(c, s).id = c.id
<1>1. FirstOf(c.id, s) \in Passages
  BY FirstIsThere
<1>2. FirstOf(c.id, s).opening \in Quotes
  BY <1>1 DEF Passages, Openings
<1> QED
  BY <1>2 DEF Filled, Citations

(* The citations of a draft: of the turn's documents, each once, and every *)
(* one of them the draft cites.                                            *)
LEMMA FromModel ==
  ASSUME NEW cited \in Seq(Citations), NEW s \in Seq(Passages)
  PROVE  /\ CitationsFromModel(cited, s) \in Seq(Citations)
         /\ Of(CitationsFromModel(cited, s), TurnIds(s))
         /\ Distinct(CitationsFromModel(cited, s))
         /\ \A i \in DOMAIN cited : cited[i].id \in TurnIds(s) =>
              Cites(CitationsFromModel(cited, s), cited[i].id)
         /\ cited = <<>> => CitationsFromModel(cited, s) = <<>>
<1> DEFINE all == [i \in DOMAIN cited |-> i]
           T == {i \in DOMAIN cited : /\ cited[i].id \in TurnIds(s)
                                      /\ \A j \in 1 .. i - 1 : cited[j].id # cited[i].id}
           first == Kept(all, T)
           r == [k \in DOMAIN first |-> Filled(cited[first[k]], s)]
<1>1. /\ Len(cited) \in Nat /\ DOMAIN cited = 1 .. Len(cited)
      /\ all \in Seq(Nat) /\ Len(all) = Len(cited) /\ \A i \in 1 .. Len(cited) : all[i] = i
  OBVIOUS
<1>2. CitationsFromModel(cited, s) = r
  BY DEF CitationsFromModel
<1> HIDE DEF all
<1>3. PICK g : first \in Seq(Nat) /\ Enumerates(g, first, all, T, Len(all))
  BY <1>1, KeptEnumerates
<1>4. \A i \in 1 .. Len(cited) : i \in T => \E k \in 1 .. Len(first) : first[k] = i
  <2> HIDE DEF T, first
  <2> QED BY <1>1, <1>3 DEF Enumerates
<1>5. /\ \A k \in 1 .. Len(first) : first[k] \in T
      /\ \A i, j \in 1 .. Len(first) : i < j => first[i] < first[j]
  <2> HIDE DEF T, first
  <2>1. \A k \in 1 .. Len(first) : g[k] \in 1 .. Len(cited) /\ first[k] = g[k] /\ g[k] \in T
    BY <1>1, <1>3 DEF Enumerates
  <2>2. \A i, j \in 1 .. Len(first) : i < j => g[i] < g[j]
    BY <1>3 DEF Enumerates
  <2> QED
    BY <2>1, <2>2
<1> HIDE DEF first
<1>6. Len(first) \in Nat /\ DOMAIN first = 1 .. Len(first)
  BY <1>3
<1>7. ASSUME NEW k \in 1 .. Len(first)
      PROVE  r[k] \in Citations /\ r[k].id = cited[first[k]].id /\ r[k].id \in TurnIds(s)
  <2>1. first[k] \in 1 .. Len(cited) /\ cited[first[k]].id \in TurnIds(s)
    BY <1>1, <1>5
  <2>2. cited[first[k]] \in Citations
    BY <1>1, <2>1
  <2>3. r[k] = Filled(cited[first[k]], s)
    BY <1>6
  <2> HIDE DEF r, T
  <2> QED
    BY <2>1, <2>2, <2>3, FilledTyped
<1>8. r \in Seq(Citations) /\ DOMAIN r = 1 .. Len(first)
  BY <1>6, <1>7
<1>9. Of(r, TurnIds(s))
  <2> HIDE DEF r, T
  <2> QED BY <1>7, <1>8 DEF Of
<1>10. Distinct(r)
  <2>1. ASSUME NEW i \in 1 .. Len(first), NEW j \in 1 .. Len(first), i < j
        PROVE  r[i].id # r[j].id
    <3>1. /\ first[i] \in 1 .. Len(cited) /\ first[j] \in 1 .. Len(cited)
          /\ first[i] < first[j] /\ first[j] \in T
      BY <1>1, <1>5, <2>1
    <3>3. \A k \in 1 .. first[j] - 1 : cited[k].id # cited[first[j]].id
      BY <3>1
    <3>4. first[i] \in 1 .. first[j] - 1
      BY <1>1, <3>1
    <3>2. cited[first[i]].id # cited[first[j]].id
      BY <3>3, <3>4
    <3> HIDE DEF r, T
    <3> QED
      BY <1>7, <3>2
  <2> HIDE DEF r, T
  <2> QED
    BY <1>8, <2>1 DEF Distinct
<1>11. ASSUME NEW i \in DOMAIN cited, cited[i].id \in TurnIds(s)
       PROVE  Cites(r, cited[i].id)
  <2> DEFINE Same == {j \in DOMAIN cited : cited[j].id = cited[i].id}
  <2>1. Same \subseteq Nat /\ Same # {}
    BY <1>1
  <2>2. PICK j \in Same : \A k \in Same : j <= k
    BY <2>1, Least
  <2>3. j \in 1 .. Len(cited) /\ j \in T /\ cited[j].id = cited[i].id
    <3>1. j \in DOMAIN cited /\ cited[j].id = cited[i].id
      BY <2>2
    <3>2. ASSUME NEW k \in 1 .. j - 1
          PROVE  cited[k].id # cited[j].id
      <4>1. k \in DOMAIN cited /\ ~(j <= k)
        BY <1>1, <3>1
      <4>2. k \notin Same
        BY <2>2, <4>1
      <4> QED
        BY <3>1, <4>1, <4>2
    <3> QED
      BY <1>1, <1>11, <3>1, <3>2
  <2>4. PICK k \in 1 .. Len(first) : first[k] = j
    BY <1>4, <2>3
  <2> HIDE DEF r, T
  <2> QED
    BY <1>7, <1>8, <2>3, <2>4 DEF Cites
<1>12. ASSUME cited = <<>>
       PROVE  r = <<>>
  <2>1. Len(first) = 0
    BY <1>1, <1>5, <1>6, <1>12
  <2> HIDE DEF r, T
  <2> QED
    BY <1>8, <2>1
<1> QED
  BY <1>2, <1>8, <1>9, <1>10, <1>11, <1>12

(* The salvage keeps that, and anchors the citation of the document the    *)
(* question was routed to.                                                 *)
LEMMA SalvagedCites ==
  ASSUME NEW doc, NEW d, NEW cs \in Seq(Citations), NEW s \in Seq(Passages),
         Of(cs, TurnIds(s)), Distinct(cs)
  PROVE  /\ Salvaged(doc, d, cs, s) \in Seq(Citations)
         /\ Of(Salvaged(doc, d, cs, s), TurnIds(s))
         /\ Distinct(Salvaged(doc, d, cs, s))
         /\ doc \in TurnIds(s) /\ d.finding # "silencio" =>
              (Cites(cs, doc) \/ (cs = <<>> /\ "named id" \in d.answer) =>
                 Anchored(Salvaged(doc, d, cs, s), doc))
<1> DEFINE x == FirstOf(doc, s)
           r == Salvaged(doc, d, cs, s)
<1>1. CASE doc \notin TurnIds(s) \/ d.finding = "silencio"
  <2>1. r = cs
    BY <1>1 DEF Salvaged
  <2> QED
    BY <1>1, <2>1
<1>2. CASE doc \in TurnIds(s) /\ d.finding # "silencio"
  <2>1. x \in Passages /\ x.doc = doc
    BY <1>2, FirstIsThere
  <2>2. /\ doc \in Docs /\ x.opening \in Quotes /\ Anchors(x.opening)
        /\ x.fits \ {"date"} \in SUBSET Filters
    BY <2>1 DEF Passages, Openings, Anchors
  <2> HIDE DEF x
  <2>3. CASE cs = <<>> /\ "named id" \in d.answer
    <3> DEFINE c == [id |-> doc, quote |-> x.opening, fits |-> x.fits \ {"date"}]
    <3>1. r = <<c>>
      BY <1>2, <2>3 DEF Salvaged, x
    <3>2. c \in Citations /\ c.id = doc /\ c.quote = x.opening
      BY <2>2 DEF Citations
    <3> HIDE DEF c
    <3>3. r \in Seq(Citations) /\ DOMAIN r = {1} /\ r[1] = c
      BY <3>1, <3>2
    <3> HIDE DEF r
    <3>4. Of(r, TurnIds(s))
      BY <1>2, <3>2, <3>3 DEF Of
    <3>5. Distinct(r)
      BY <3>3 DEF Distinct
    <3>6. Anchored(r, doc)
      BY <2>2, <3>2, <3>3 DEF Anchored
    <3> QED
      BY <3>3, <3>4, <3>5, <3>6 DEF r
  <2>4. CASE ~(cs = <<>> /\ "named id" \in d.answer)
    <3>1. r = [i \in DOMAIN cs |->
                 IF cs[i].id = doc /\ ~Anchors(cs[i].quote)
                 THEN [cs[i] EXCEPT !.quote = x.opening]
                 ELSE cs[i]]
      BY <1>2, <2>4 DEF Salvaged, x
    <3>2. Len(cs) \in Nat /\ DOMAIN cs = 1 .. Len(cs)
      OBVIOUS
    <3>3. ASSUME NEW i \in DOMAIN cs
          PROVE  /\ r[i] \in Citations /\ r[i].id = cs[i].id
                 /\ cs[i].id = doc => Anchors(r[i].quote)
      <4>1. cs[i] \in Citations
        OBVIOUS
      <4>2. r[i] = IF cs[i].id = doc /\ ~Anchors(cs[i].quote)
                   THEN [cs[i] EXCEPT !.quote = x.opening]
                   ELSE cs[i]
        BY <3>1
      <4> HIDE DEF r
      <4>3. CASE cs[i].id = doc /\ ~Anchors(cs[i].quote)
        <5>1. r[i] = [cs[i] EXCEPT !.quote = x.opening]
          BY <4>2, <4>3
        <5>2. r[i] \in Citations /\ r[i].id = cs[i].id /\ r[i].quote = x.opening
          BY <2>2, <4>1, <5>1 DEF Citations
        <5> QED
          BY <2>2, <5>2
      <4>4. CASE ~(cs[i].id = doc /\ ~Anchors(cs[i].quote))
        BY <4>1, <4>2, <4>4
      <4> QED
        BY <4>3, <4>4
    <3>4. DOMAIN r = DOMAIN cs
      BY <3>1
    <3>5. r \in Seq(Citations)
      <4>1. r = [i \in 1 .. Len(cs) |-> r[i]]
        BY <3>1, <3>2
      <4> HIDE DEF r
      <4> QED
        BY <3>2, <3>3, <4>1
    <3> HIDE DEF r
    <3>6. Of(r, TurnIds(s)) /\ Distinct(r)
      BY <3>3, <3>4 DEF Of, Distinct
    <3>7. Cites(cs, doc) => Anchored(r, doc)
      BY <3>3, <3>4 DEF Cites, Anchored
    <3> QED
      BY <2>4, <3>5, <3>6, <3>7 DEF r
  <2> QED
    BY <2>3, <2>4
<1> QED
  BY <1>1, <1>2

DraftLike == [finding : Findings, answer : SUBSET Marks, citations : Seq(Citations)]

(* What the output rails start from.                                       *)
LEMMA StartCites ==
  ASSUME NEW d \in DraftLike, NEW doc, NEW wanted, NEW s \in Seq(Passages)
  PROVE  /\ Start(d, doc, wanted, s) \in Candidates
         /\ Start(d, doc, wanted, s).blocked = None
         /\ Of(Start(d, doc, wanted, s).citations, TurnIds(s))
         /\ Distinct(Start(d, doc, wanted, s).citations)
         /\ doc \in TurnIds(s) /\ d.finding # "silencio" /\ wanted = Unfiltered =>
              (Cites(d.citations, doc) \/ (d.citations = <<>> /\ "named id" \in d.answer) =>
                 /\ Start(d, doc, wanted, s).finding # "silencio"
                 /\ Anchored(Start(d, doc, wanted, s).citations, doc))
<1> DEFINE from == CitationsFromModel(d.citations, s)
           cited == Salvaged(doc, d, from, s)
           kept == IF wanted = Unfiltered THEN cited
                   ELSE Kept(cited, {c \in Citations : wanted \subseteq c.fits})
           f == IF wanted # Unfiltered /\ kept = <<>> THEN "silencio" ELSE d.finding
           r == Start(d, doc, wanted, s)
<1>1. d.finding \in Findings /\ d.answer \in SUBSET Marks /\ d.citations \in Seq(Citations)
  BY DEF DraftLike
<1>2. /\ from \in Seq(Citations) /\ Of(from, TurnIds(s)) /\ Distinct(from)
      /\ \A i \in DOMAIN d.citations : d.citations[i].id \in TurnIds(s) =>
           Cites(from, d.citations[i].id)
      /\ d.citations = <<>> => from = <<>>
  BY <1>1, FromModel
<1> HIDE DEF from
<1>3. /\ cited \in Seq(Citations) /\ Of(cited, TurnIds(s)) /\ Distinct(cited)
      /\ doc \in TurnIds(s) /\ d.finding # "silencio" =>
           (Cites(from, doc) \/ (from = <<>> /\ "named id" \in d.answer) =>
              Anchored(cited, doc))
  BY <1>2, SalvagedCites
<1> HIDE DEF cited
<1>4. ASSUME NEW T
      PROVE  /\ Kept(cited, T) \in Seq(Citations) /\ Distinct(Kept(cited, T))
             /\ Of(Kept(cited, T), TurnIds(s))
  BY <1>3, KeptDistinct, KeptOf
<1>5. /\ kept \in Seq(Citations) /\ Of(kept, TurnIds(s)) /\ Distinct(kept)
      /\ wanted = Unfiltered => kept = cited
  BY <1>3, <1>4
<1> HIDE DEF kept
<1>6. r = [finding |-> f, answer |-> [text |-> "draft", has |-> d.answer],
           citations |-> kept, blocked |-> None]
  BY DEF Start, kept, cited, from
<1>7. f \in Findings /\ (wanted = Unfiltered => f = d.finding)
  BY <1>1 DEF Findings
<1> HIDE DEF f
<1>8. r \in Candidates
  BY <1>1, <1>5, <1>6, <1>7 DEF Candidates, Answers
<1>9. r.finding = f /\ r.citations = kept /\ r.blocked = None
  BY <1>6
<1> HIDE DEF r
<1>10. ASSUME doc \in TurnIds(s), d.finding # "silencio", wanted = Unfiltered,
              Cites(d.citations, doc) \/ (d.citations = <<>> /\ "named id" \in d.answer)
       PROVE  f # "silencio" /\ Anchored(kept, doc)
  <2>1. Cites(d.citations, doc) => Cites(from, doc)
    BY <1>2, <1>10 DEF Cites
  <2> QED
    BY <1>2, <1>3, <1>5, <1>7, <1>10, <2>1
<1> QED
  BY <1>5, <1>8, <1>9, <1>10 DEF r

-----------------------------------------------------------------------------
(* cite-or-abstain: what it leaves is anchored.                            *)

(* A quote that was adjusted to its anchor is found word for word.         *)
LEMMA AdjustedTyped ==
  ASSUME NEW q \in Quotes, Anchors(q)
  PROVE  Adjusted(q) \in Quotes /\ Adjusted(q).anchor = "exact"
<1>1. CASE q.anchor # "near"
  BY <1>1 DEF Adjusted, Anchors
<1>2. CASE q.anchor = "near"
  <2> DEFINE y == IF q.duty = "in rest" THEN "no" ELSE q.duty
  <2>1. q.markup \in BOOLEAN /\ y \in {"no", "in run", "in rest"}
    BY DEF Quotes
  <2>2. Adjusted(q) = [anchor |-> "exact", markup |-> q.markup, duty |-> y]
    BY <1>2 DEF Adjusted, Quotes
  <2> HIDE DEF y
  <2>3. [anchor |-> "exact", markup |-> q.markup, duty |-> y] \in Quotes
    <3> DEFINE m == q.markup
    <3>1. m \in BOOLEAN
      BY <2>1
    <3> HIDE DEF m
    <3>2. [anchor |-> "exact", markup |-> m, duty |-> y] \in Quotes
      BY <2>1, <3>1, Zenon DEF Quotes
    <3> QED
      BY <3>2 DEF m
  <2>4. Adjusted(q).anchor = "exact"
    BY <2>2
  <2> QED
    BY <2>2, <2>3, <2>4
<1> QED
  BY <1>1, <1>2

(* What can be cited: of these documents, found, and still each once.      *)
LEMMA UsableCites ==
  ASSUME NEW cs \in Seq(Citations), NEW ids
  PROVE  /\ Usable(cs, ids) \in Seq(Citations)
         /\ Of(Usable(cs, ids), ids)
         /\ Quoted(Usable(cs, ids))
         /\ Distinct(cs) => Distinct(Usable(cs, ids))
         /\ \A doc \in ids : Anchored(cs, doc) => Cites(Usable(cs, ids), doc)
<1> DEFINE T == {c \in Citations : c.id \in ids /\ Anchors(c.quote)}
           found == Kept(cs, T)
           r == Usable(cs, ids)
<1>1. /\ found \in Seq(Citations)
      /\ \A i \in 1 .. Len(found) : found[i] \in T
  <2>1. found \in Seq(Citations)
    BY KeptEnumerates
  <2>2. ASSUME NEW i \in 1 .. Len(found)
        PROVE  found[i] \in T
    <3> HIDE DEF T
    <3>1. PICK j \in 1 .. Len(cs) : cs[j] \in T /\ found[i] = cs[j]
      BY KeptFrom
    <3> QED
      BY <3>1
  <2> QED
    BY <2>1, <2>2
<1>2. \A j \in DOMAIN cs : cs[j] \in T => \E i \in DOMAIN found : found[i] = cs[j]
  <2> HIDE DEF T
  <2> SUFFICES ASSUME NEW j \in 1 .. Len(cs), cs[j] \in T
               PROVE  \E i \in 1 .. Len(found) : found[i] = cs[j]
    BY <1>1
  <2> QED
    BY KeptHas
<1>3. Distinct(cs) => Distinct(found)
  BY KeptDistinct
<1>4. r = [i \in DOMAIN found |-> [found[i] EXCEPT !.quote = Adjusted(@)]]
  BY DEF Usable
<1> HIDE DEF found, r
<1>5. Len(found) \in Nat /\ DOMAIN found = 1 .. Len(found)
  BY <1>1
<1>6. ASSUME NEW i \in DOMAIN found
      PROVE  /\ r[i] \in Citations /\ r[i].id = found[i].id /\ r[i].id \in ids
             /\ r[i].quote.anchor = "exact"
  <2>1. found[i] \in Citations /\ found[i].id \in ids /\ Anchors(found[i].quote)
    BY <1>1, <1>5
  <2>2. found[i].quote \in Quotes
    BY <2>1 DEF Citations
  <2>3. Adjusted(found[i].quote) \in Quotes /\ Adjusted(found[i].quote).anchor = "exact"
    BY <2>1, <2>2, AdjustedTyped
  <2>4. r[i] = [found[i] EXCEPT !.quote = Adjusted(found[i].quote)]
    BY <1>4
  <2>5. /\ r[i] \in Citations /\ r[i].id = found[i].id
        /\ r[i].quote = Adjusted(found[i].quote)
    BY <2>1, <2>3, <2>4 DEF Citations
  <2> QED
    BY <2>1, <2>3, <2>5
<1>7. DOMAIN r = DOMAIN found
  BY <1>4
<1>8. r \in Seq(Citations)
  <2>1. r = [i \in 1 .. Len(found) |-> r[i]]
    BY <1>4, <1>5
  <2> QED
    BY <1>5, <1>6, <2>1
<1>9. Of(r, ids) /\ Quoted(r)
  BY <1>6, <1>7 DEF Of, Quoted
<1>10. Distinct(cs) => Distinct(r)
  BY <1>3, <1>6, <1>7 DEF Distinct
<1>11. ASSUME NEW doc \in ids, Anchored(cs, doc)
       PROVE  Cites(r, doc)
  <2>1. PICK j \in DOMAIN cs : cs[j].id = doc /\ Anchors(cs[j].quote)
    BY <1>11 DEF Anchored
  <2>2. cs[j] \in T
    BY <2>1
  <2>3. PICK i \in DOMAIN found : found[i] = cs[j]
    BY <1>2, <2>2
  <2> QED
    BY <1>6, <1>7, <2>1, <2>3 DEF Cites
<1> QED
  BY <1>8, <1>9, <1>10, <1>11 DEF r

(* What the citations of an answer owe: they are there when it is no       *)
(* silencio, of the turn's documents, each once, and quoted.               *)
Supported(c, ids) ==
  c.finding # "silencio" =>
    /\ c.citations # <<>> /\ Of(c.citations, ids)
    /\ Quoted(c.citations) /\ Distinct(c.citations)

(* Past cite-or-abstain an answer is supported, and one that cites a       *)
(* document by a quote that anchors is not blocked and still cites it.     *)
LEMMA CiteOrAbstainCites ==
  ASSUME NEW c \in Candidates, NEW ids, Distinct(c.citations)
  PROVE  /\ CiteOrAbstain(c, ids) \in Candidates
         /\ CiteOrAbstain(c, ids).blocked = c.blocked
         /\ Supported(CiteOrAbstain(c, ids), ids)
         /\ \A doc \in ids :
              Anchored(c.citations, doc) /\ c.finding # "silencio" =>
                /\ ~Uncited(c, ids)
                /\ CiteOrAbstain(c, ids).finding # "silencio"
                /\ Cites(CiteOrAbstain(c, ids).citations, doc)
<1> DEFINE u == Usable(c.citations, ids)
           v == IF c.finding = "silencio" THEN <<>> ELSE u
           r == CiteOrAbstain(c, ids)
<1>1. /\ c.finding \in Findings /\ c.answer \in Answers /\ c.citations \in Seq(Citations)
      /\ c = [finding |-> c.finding, answer |-> c.answer,
              citations |-> c.citations, blocked |-> c.blocked]
      /\ c.blocked \in OutputRails \cup {None}
  BY DEF Candidates
<1>2. /\ u \in Seq(Citations) /\ Of(u, ids) /\ Quoted(u) /\ Distinct(u)
      /\ \A doc \in ids : Anchored(c.citations, doc) => Cites(u, doc)
  BY <1>1, UsableCites
<1>3. \A doc \in ids : Anchored(c.citations, doc) => u # <<>>
  BY <1>2 DEF Cites
<1>4. CASE Uncited(c, ids)
  <2>1. r = [finding |-> "silencio", answer |-> NoClause, citations |-> <<>>,
             blocked |-> c.blocked]
    BY <1>1, <1>4 DEF CiteOrAbstain
  <2>2. NoClause \in Answers /\ "silencio" \in Findings /\ <<>> \in Seq(Citations)
    BY DEF NoClause, Answers, Marks, Findings
  <2>3. r \in Candidates /\ r.blocked = c.blocked /\ r.finding = "silencio"
    BY <1>1, <2>1, <2>2 DEF Candidates
  <2>4. u = <<>>
    BY <1>4 DEF Uncited
  <2> QED
    BY <1>3, <2>3, <2>4 DEF Supported
<1>5. CASE ~Uncited(c, ids)
  <2>1. r = [finding |-> c.finding, answer |-> c.answer, citations |-> v,
             blocked |-> c.blocked]
    BY <1>1, <1>5 DEF CiteOrAbstain
  <2>2. v \in Seq(Citations) /\ (c.finding # "silencio" => v = u /\ u # <<>>)
    BY <1>2, <1>5, EmptySeq DEF Uncited
  <2> HIDE DEF v, u
  <2>3. /\ r \in Candidates /\ r.blocked = c.blocked
        /\ r.finding = c.finding /\ r.citations = v
    BY <1>1, <2>1, <2>2 DEF Candidates
  <2> QED
    BY <1>2, <1>5, <2>2, <2>3 DEF Supported
<1> QED
  BY <1>4, <1>5

-----------------------------------------------------------------------------
(* The stages after it: the citations stay those documents', and a quote   *)
(* that was found stays so but for its markup.                             *)

Follows(r, c) ==
  /\ r \in Candidates
  /\ r.finding = "silencio" <=> c.finding = "silencio"
  /\ DOMAIN r.citations = DOMAIN c.citations
  /\ \A i \in DOMAIN c.citations :
       /\ r.citations[i].id = c.citations[i].id
       /\ c.citations[i].quote.anchor \in {"exact", "stripped"} =>
            r.citations[i].quote.anchor \in {"exact", "stripped"}
  /\ r.blocked = "cite-or-abstain" => c.blocked = "cite-or-abstain"

(* Follows is kept over stages in a row, and by one that changes nothing.  *)
LEMMA FollowsTwice ==
  ASSUME NEW a, NEW b, NEW c, Follows(b, a), Follows(c, b)
  PROVE  Follows(c, a)
BY DEF Follows

(* A stage that does nothing.                                              *)
LEMMA FollowsItself ==
  ASSUME NEW c \in Candidates
  PROVE  Follows(c, c)
BY DEF Follows

(* What follows a supported answer is supported, and cites what it cited.  *)
LEMMA FollowsSupported ==
  ASSUME NEW c \in Candidates, NEW r, Follows(r, c), NEW ids
  PROVE  /\ Supported(c, ids) => Supported(r, ids)
         /\ \A doc : Cites(c.citations, doc) => Cites(r.citations, doc)
<1>1. r.citations \in Seq(Citations) /\ c.citations \in Seq(Citations)
  BY DEF Follows, Candidates
<1>2. c.citations # <<>> => r.citations # <<>>
  BY <1>1 DEF Follows
<1>3. Of(c.citations, ids) => Of(r.citations, ids)
  BY DEF Follows, Of
<1>4. Quoted(c.citations) => Quoted(r.citations)
  BY DEF Follows, Quoted
<1>5. Distinct(c.citations) => Distinct(r.citations)
  BY DEF Follows, Distinct
<1>6. \A doc : Cites(c.citations, doc) => Cites(r.citations, doc)
  BY DEF Follows, Cites
<1> QED
  BY <1>2, <1>3, <1>4, <1>5, <1>6 DEF Supported, Follows

(* The marks of an answer are all that WithMarks changes.                  *)
MarkSet(s) == s \subseteq Marks

(* A stage that only changes marks.                                        *)
LEMMA MarkedTyped ==
  ASSUME NEW c \in Candidates, NEW more, MarkSet(more), NEW fewer
  PROVE  /\ WithMarks(c, more, fewer) \in Candidates
         /\ Follows(WithMarks(c, more, fewer), c)
         /\ WithMarks(c, more, fewer).finding = c.finding
         /\ WithMarks(c, more, fewer).citations = c.citations
         /\ WithMarks(c, more, fewer).blocked = c.blocked
         /\ WithMarks(c, more, fewer).answer.has = (c.answer.has \cup more) \ fewer
<1> DEFINE w == WithMarks(c, more, fewer)
<1>1. /\ c.finding \in Findings /\ c.answer \in Answers /\ c.citations \in Seq(Citations)
      /\ c = [finding |-> c.finding, answer |-> c.answer,
              citations |-> c.citations, blocked |-> c.blocked]
      /\ c.blocked \in OutputRails \cup {None}
  BY DEF Candidates
<1>2. c.answer = [text |-> c.answer.text, has |-> c.answer.has]
  BY <1>1 DEF Answers
<1>3. Shape(c)
  BY <1>1, <1>2 DEF Shape, Answerlike
<1>4. /\ Shape(w) /\ w.finding = c.finding /\ w.citations = c.citations
      /\ w.blocked = c.blocked /\ w.answer.text = c.answer.text
      /\ w.answer.has = (c.answer.has \cup more) \ fewer
  BY <1>3, Marked
<1> HIDE DEF w
<1>5. PICK f, a, ci, b : /\ w = [finding |-> f, answer |-> a, citations |-> ci, blocked |-> b]
                         /\ Answerlike(a)
  BY <1>4 DEF Shape
<1>6. w.answer \in Answers
  <2>1. PICK t, h : a = [text |-> t, has |-> h]
    BY <1>5 DEF Answerlike
  <2>2. w.answer = [text |-> t, has |-> h] /\ t = c.answer.text
        /\ h = (c.answer.has \cup more) \ fewer
    BY <1>4, <1>5, <2>1
  <2>3. t \in {"draft", "no clause", "refusal", "failure"} /\ h \in SUBSET Marks
    BY <1>1, <2>2 DEF Answers, MarkSet
  <2>4. [text |-> t, has |-> h] \in Answers
    BY <2>3 DEF Answers
  <2> QED
    BY <2>2, <2>4
<1>7. w = [finding |-> w.finding, answer |-> w.answer,
           citations |-> w.citations, blocked |-> w.blocked]
  BY <1>5
<1>8. w \in Candidates
  BY <1>1, <1>4, <1>6, <1>7 DEF Candidates
<1> QED
  BY <1>4, <1>8 DEF Follows, w

(* The clean-up of a quote's markup leaves it found, or stripped.          *)
LEMMA StrippedTyped ==
  ASSUME NEW q \in Quotes
  PROVE  /\ Stripped(q) \in Quotes
         /\ q.anchor \in {"exact", "stripped"} => Stripped(q).anchor \in {"exact", "stripped"}
<1>1. CASE ~q.markup
  BY <1>1 DEF Stripped
<1>2. CASE q.markup
  <2>1. Stripped(q) = [anchor |-> "stripped", markup |-> FALSE, duty |-> q.duty]
    BY <1>2 DEF Stripped, Quotes
  <2>2. q.duty \in {"no", "in run", "in rest"}
    BY DEF Quotes
  <2>3. [anchor |-> "stripped", markup |-> FALSE, duty |-> q.duty] \in Quotes
    BY <2>2 DEF Quotes
  <2>4. Stripped(q).anchor = "stripped"
    BY <2>1
  <2> QED
    BY <2>1, <2>3, <2>4
<1> QED
  BY <1>1, <1>2

(* The rails that rewrite an answer keep its citations.                    *)
LEMMA SanitizeFollows ==
  ASSUME NEW c \in Candidates
  PROVE  Follows(MarkdownSanitize(c), c) /\ MarkdownSanitize(c).blocked = c.blocked
<1> DEFINE m == {"markup", "freeze in tag"}
           w == WithMarks(c, {}, m)
           cs == [i \in DOMAIN c.citations |-> [c.citations[i] EXCEPT !.quote = Stripped(@)]]
           r == MarkdownSanitize(c)
<1>1. r = [w EXCEPT !.citations = cs]
  BY DEF MarkdownSanitize
<1>2. /\ w \in Candidates /\ w.finding = c.finding
      /\ w.citations = c.citations /\ w.blocked = c.blocked
  <2> DEFINE e == {}
  <2>1. MarkSet(e)
    BY DEF MarkSet
  <2> HIDE DEF m, e
  <2> QED
    BY <2>1, MarkedTyped DEF e
<1>3. c.citations \in Seq(Citations)
  BY DEF Candidates
<1>4. ASSUME NEW i \in DOMAIN c.citations
      PROVE  /\ cs[i] \in Citations /\ cs[i].id = c.citations[i].id
             /\ c.citations[i].quote.anchor \in {"exact", "stripped"} =>
                  cs[i].quote.anchor \in {"exact", "stripped"}
  <2> DEFINE x == c.citations[i]
  <2>1. x \in Citations /\ x.quote \in Quotes
    <3>1. x \in Citations
      BY <1>3
    <3> QED
      BY <3>1 DEF Citations
  <2>2. cs[i] = [x EXCEPT !.quote = Stripped(x.quote)]
    OBVIOUS
  <2> HIDE DEF x, cs
  <2>3. /\ Stripped(x.quote) \in Quotes
        /\ x.quote.anchor \in {"exact", "stripped"} =>
             Stripped(x.quote).anchor \in {"exact", "stripped"}
    BY <2>1, StrippedTyped
  <2>4. cs[i] \in Citations /\ cs[i].id = x.id /\ cs[i].quote = Stripped(x.quote)
    BY <2>1, <2>2, <2>3 DEF Citations
  <2> QED
    BY <2>3, <2>4 DEF x
<1>5. cs \in Seq(Citations) /\ DOMAIN cs = DOMAIN c.citations
  <2>1. cs = [i \in 1 .. Len(c.citations) |-> cs[i]]
    BY <1>3
  <2>2. DOMAIN c.citations = 1 .. Len(c.citations) /\ Len(c.citations) \in Nat
    BY <1>3
  <2>3. DOMAIN cs = DOMAIN c.citations
    OBVIOUS
  <2> HIDE DEF cs
  <2> QED
    BY <1>4, <2>1, <2>2, <2>3
<1> HIDE DEF w, cs, r
<1>6. /\ r \in Candidates /\ r.finding = c.finding
      /\ r.citations = cs /\ r.blocked = c.blocked
  BY <1>1, <1>2, <1>5 DEF Candidates
<1> QED
  BY <1>4, <1>5, <1>6 DEF Follows, r

(* The rail on the freeze changes marks only.                              *)
LEMMA FreezeFollows ==
  ASSUME NEW c \in Candidates
  PROVE  Follows(FreezeHonesty(c), c) /\ FreezeHonesty(c).blocked = c.blocked
<1> DEFINE m == {"freeze"}
           e == {}
<1>1. MarkSet(m)
  BY DEF MarkSet, Marks
<1>2. FreezeHonesty(c) = WithMarks(c, m, e) \/ FreezeHonesty(c) = c
  BY DEF FreezeHonesty
<1> HIDE DEF m, e
<1> QED
  BY <1>1, <1>2, MarkedTyped, FollowsItself

(* One rail after cite-or-abstain.                                         *)
LEMMA RunFollows ==
  ASSUME NEW p, NEW rail \in OutputRails \ {"cite-or-abstain"}, NEW c \in Candidates,
         NEW patched, Follows(patched, c), patched.blocked = c.blocked, NEW blocks
  PROVE  Follows(Run(p, rail, c, patched, blocks), c)
<1> DEFINE r == Run(p, rail, c, patched, blocks)
           b == IF patched.blocked = None /\ blocks THEN rail ELSE patched.blocked
<1>1. CASE ~On(p, rail)
  BY <1>1, FollowsItself DEF Run
<1>2. CASE On(p, rail)
  <2>1. patched \in Candidates
    BY DEF Follows
  <2>2. r = [patched EXCEPT !.blocked = b]
    BY <1>2 DEF Run
  <2>3. b \in OutputRails \cup {None} /\ (b = "cite-or-abstain" => c.blocked = "cite-or-abstain")
    BY <2>1 DEF Candidates
  <2> HIDE DEF b, r
  <2>4. /\ r \in Candidates /\ r.finding = patched.finding
        /\ r.citations = patched.citations /\ r.blocked = b
    BY <2>1, <2>2, <2>3 DEF Candidates
  <2> QED
    BY <2>3, <2>4 DEF Follows, r
<1> QED
  BY <1>1, <1>2

(* All the rails after cite-or-abstain, in their order.                    *)
LEMMA RailsFollow ==
  ASSUME NEW p, NEW c \in Candidates, NEW ids,
         Run(p, "cite-or-abstain", c, CiteOrAbstain(c, ids), Uncited(c, ids)) \in Candidates
  PROVE  Follows(Railed(p, c, ids),
                 Run(p, "cite-or-abstain", c, CiteOrAbstain(c, ids), Uncited(c, ids)))
<1> DEFINE c1 == Run(p, "cite-or-abstain", c, CiteOrAbstain(c, ids), Uncited(c, ids))
           c2 == Run(p, "freeze-honesty", c1, FreezeHonesty(c1), FALSE)
           c3 == Run(p, "no-advice-output", c2, c2, "advice" \in c2.answer.has)
           c4 == Run(p, "secrets-output", c3, c3, "secret" \in c3.answer.has)
           c5 == Run(p, "prompt-leak", c4, c4, "fence" \in c4.answer.has)
           m  == {"tool"}
           e  == {}
           c6 == Run(p, "unsafe-output", c5, WithMarks(c5, e, m), FALSE)
           c7 == Run(p, "markdown-sanitize", c6, MarkdownSanitize(c6), FALSE)
<1>1. c1 \in Candidates
  OBVIOUS
<1>r. {"freeze-honesty", "no-advice-output", "secrets-output", "prompt-leak",
       "unsafe-output", "markdown-sanitize"} \subseteq OutputRails \ {"cite-or-abstain"}
  BY DEF OutputRails
<1>e. MarkSet(e)
  BY DEF MarkSet
<1>8. Railed(p, c, ids) = c7
  BY DEF Railed
<1> HIDE DEF c1, c2, c3, c4, c5, c6, c7, m, e
<1>2. Follows(c2, c1) /\ c2 \in Candidates
  <2>1. Follows(c2, c1)
    BY <1>1, <1>r, FreezeFollows, RunFollows DEF c2
  <2> QED
    BY <2>1 DEF Follows
<1>3. Follows(c3, c2) /\ c3 \in Candidates
  <2>1. Follows(c3, c2)
    BY <1>2, <1>r, FollowsItself, RunFollows DEF c3
  <2> QED
    BY <2>1 DEF Follows
<1>4. Follows(c4, c3) /\ c4 \in Candidates
  <2>1. Follows(c4, c3)
    BY <1>3, <1>r, FollowsItself, RunFollows DEF c4
  <2> QED
    BY <2>1 DEF Follows
<1>5. Follows(c5, c4) /\ c5 \in Candidates
  <2>1. Follows(c5, c4)
    BY <1>4, <1>r, FollowsItself, RunFollows DEF c5
  <2> QED
    BY <2>1 DEF Follows
<1>6. Follows(c6, c5) /\ c6 \in Candidates
  <2> DEFINE w == WithMarks(c5, e, m)
  <2>2. Follows(w, c5) /\ w.blocked = c5.blocked
    BY <1>5, <1>e, MarkedTyped
  <2> HIDE DEF w
  <2>3. "unsafe-output" \in OutputRails \ {"cite-or-abstain"}
    BY <1>r
  <2>4. Follows(Run(p, "unsafe-output", c5, w, FALSE), c5)
    BY <1>5, <2>2, <2>3, RunFollows
  <2>1. Follows(c6, c5)
    BY <2>4 DEF c6, w
  <2> QED
    BY <2>1 DEF Follows
<1>7. Follows(c7, c6)
  BY <1>6, <1>r, SanitizeFollows, RunFollows DEF c7
<1>9. Follows(c4, c1)
  BY <1>2, <1>3, <1>4, FollowsTwice
<1>10. Follows(c7, c4)
  BY <1>5, <1>6, <1>7, FollowsTwice
<1>11. Follows(c7, c1)
  BY <1>9, <1>10, FollowsTwice
<1> QED
  BY <1>8, <1>11 DEF c1

(* A demoted finding is still no silencio.                                 *)
LEMMA DemotedFollows ==
  ASSUME NEW c \in Candidates
  PROVE  Follows(Demoted(c), c)
<1>1. CASE Demoted(c) = c
  BY <1>1, FollowsItself
<1>2. CASE /\ c.finding = "obligacion"
           /\ Demoted(c) = [c EXCEPT !.finding = "definicion"]
  <2> DEFINE r == [c EXCEPT !.finding = "definicion"]
  <2>1. /\ r \in Candidates /\ r.finding = "definicion"
        /\ r.citations = c.citations /\ r.blocked = c.blocked
    BY DEF Candidates, Findings
  <2> HIDE DEF r
  <2>2. Follows(r, c)
    BY <1>2, <2>1 DEF Follows
  <2> QED
    BY <1>2, <2>2 DEF r
<1> QED
  BY <1>1, <1>2 DEF Demoted

(* An answer that is no silencio is only published unblocked, under the    *)
(* heading of its sources.                                                 *)
LEMMA ConcludedFollows ==
  ASSUME NEW c \in Candidates
  PROVE  /\ Concluded(c) \in Candidates
         /\ Concluded(c).blocked = c.blocked
         /\ Concluded(c).finding # "silencio" =>
              /\ Follows(Concluded(c), c)
              /\ c.citations # <<>> => "fuente" \in Concluded(c).answer.has
         /\ c.blocked = None /\ c.finding # "silencio" => Concluded(c).finding # "silencio"
<1> DEFINE r == Concluded(c)
<1>1. /\ c.finding \in Findings /\ c.answer \in Answers /\ c.citations \in Seq(Citations)
      /\ c = [finding |-> c.finding, answer |-> c.answer,
              citations |-> c.citations, blocked |-> c.blocked]
      /\ c.blocked \in OutputRails \cup {None}
  BY DEF Candidates
<1>2. NoClause \in Answers /\ Refusal \in Answers /\ "silencio" \in Findings /\ <<>> \in Seq(Citations)
  BY DEF NoClause, Refusal, Answers, Marks, Findings
<1>3. CASE c.blocked # None
  <2> DEFINE a == IF c.blocked = "cite-or-abstain" THEN c.answer ELSE Refusal
  <2>1. r = [finding |-> "silencio", answer |-> a, citations |-> <<>>, blocked |-> c.blocked]
    BY <1>1, <1>3 DEF Concluded
  <2>2. a \in Answers
    BY <1>1, <1>2
  <2> HIDE DEF a
  <2>3. r \in Candidates /\ r.blocked = c.blocked /\ r.finding = "silencio"
    BY <1>1, <1>2, <2>1, <2>2 DEF Candidates
  <2> QED
    BY <1>3, <2>3
<1>4. CASE c.blocked = None /\ c.finding = "silencio"
  <2> DEFINE a == IF "no clause" \in c.answer.has THEN c.answer ELSE NoClause
  <2>1. r = [finding |-> "silencio", answer |-> a, citations |-> <<>>, blocked |-> c.blocked]
    BY <1>1, <1>4 DEF Concluded
  <2>2. a \in Answers
    BY <1>1, <1>2
  <2> HIDE DEF a
  <2>3. r \in Candidates /\ r.blocked = c.blocked /\ r.finding = "silencio"
    BY <1>1, <1>2, <2>1, <2>2 DEF Candidates
  <2> QED
    BY <1>4, <2>3
<1>5. CASE c.blocked = None /\ c.finding # "silencio"
  <2> DEFINE m == {"fuente"}
             e == {}
             w == WithMarks(c, m, e)
  <2>1. r = IF c.citations # <<>> THEN w ELSE c
    BY <1>5 DEF Concluded
  <2>2. MarkSet(m)
    BY DEF MarkSet, Marks
  <2> HIDE DEF m, e, r
  <2>3. /\ w \in Candidates /\ Follows(w, c) /\ w.finding = c.finding
        /\ w.blocked = c.blocked /\ w.answer.has = (c.answer.has \cup m) \ e
    BY <2>2, MarkedTyped
  <2>4. "fuente" \in w.answer.has
    BY <2>3 DEF m, e
  <2> HIDE DEF w
  <2>5. Follows(c, c)
    BY FollowsItself
  <2>6. /\ r \in Candidates /\ r.blocked = c.blocked /\ Follows(r, c)
        /\ r.finding = c.finding /\ (c.citations # <<>> => "fuente" \in r.answer.has)
    BY <2>1, <2>3, <2>4, <2>5
  <2> QED
    BY <1>5, <2>6 DEF r
<1> QED
  BY <1>3, <1>4, <1>5

(* The name of the dump is added to what the answer says, no more.         *)
LEMMA FootedFollows ==
  ASSUME NEW c \in Candidates
  PROVE  /\ Follows(Footed(c), c)
         /\ Footed(c).blocked = c.blocked
         /\ "fuente" \in c.answer.has => "fuente" \in Footed(c).answer.has
<1> DEFINE m == {"freeze"}
           e == {}
           w == WithMarks(c, m, e)
<1>1. MarkSet(m)
  BY DEF MarkSet, Marks
<1>2. Footed(c) = w \/ Footed(c) = c
  BY DEF Footed
<1> HIDE DEF m, e
<1>3. /\ Follows(w, c) /\ w.blocked = c.blocked
      /\ w.answer.has = (c.answer.has \cup m) \ e
  BY <1>1, MarkedTyped
<1>4. "fuente" \in c.answer.has => "fuente" \in w.answer.has
  BY <1>3 DEF e
<1> HIDE DEF w
<1> QED
  BY <1>2, <1>3, <1>4, FollowsItself

(* From the draft to what is left to publish.                              *)
LEMMA VerifiedCites ==
  ASSUME NEW p, NEW d \in DraftLike, NEW doc, NEW wanted, NEW s \in Seq(Passages)
  PROVE  LET c == Verified(p, d, doc, wanted, s)
         IN  /\ c \in Candidates
             /\ On(p, "cite-or-abstain") =>
                  /\ Supported(c, TurnIds(s))
                  /\ c.finding # "silencio" => "fuente" \in c.answer.has
             /\ /\ doc \in TurnIds(s) /\ d.finding # "silencio" /\ wanted = Unfiltered
                /\ c.blocked \in {None, "cite-or-abstain"}
                /\ Cites(d.citations, doc) \/ (d.citations = <<>> /\ "named id" \in d.answer)
                => Cites(c.citations, doc)
<1> DEFINE ids == TurnIds(s)
           c0 == Start(d, doc, wanted, s)
           u  == Uncited(c0, ids)
           x  == CiteOrAbstain(c0, ids)
           c1 == Run(p, "cite-or-abstain", c0, x, u)
           c2 == Railed(p, c0, ids)
           c3 == Demoted(c2)
           c4 == Concluded(c3)
           c5 == Footed(c4)
           Meant == /\ doc \in ids /\ d.finding # "silencio" /\ wanted = Unfiltered
                    /\ Cites(d.citations, doc) \/ (d.citations = <<>> /\ "named id" \in d.answer)
<1>0. c5 = Verified(p, d, doc, wanted, s)
  BY DEF Verified
<1> HIDE DEF c0, u, x, c1, c2, c3, c4, c5
<1>1. /\ c0 \in Candidates /\ c0.blocked = None /\ Of(c0.citations, ids) /\ Distinct(c0.citations)
      /\ Meant => c0.finding # "silencio" /\ Anchored(c0.citations, doc)
  BY StartCites DEF c0
<1> HIDE DEF ids
<1>2. /\ x \in Candidates /\ x.blocked = c0.blocked /\ Supported(x, ids)
      /\ Meant => ~u /\ x.finding # "silencio" /\ Cites(x.citations, doc)
  BY <1>1, CiteOrAbstainCites DEF x, u
<1> HIDE DEF Meant
<1>3. /\ c1 \in Candidates
      /\ On(p, "cite-or-abstain") => Supported(c1, ids)
  <2>1. CASE ~On(p, "cite-or-abstain")
    BY <1>1, <2>1 DEF Run, c1
  <2>2. CASE On(p, "cite-or-abstain")
    <3> DEFINE b == IF x.blocked = None /\ u THEN "cite-or-abstain" ELSE x.blocked
    <3>1. c1 = [x EXCEPT !.blocked = b]
      BY <2>2 DEF Run, c1
    <3>2. b \in OutputRails \cup {None}
      BY <1>2 DEF Candidates, OutputRails
    <3> HIDE DEF b
    <3>3. c1 \in Candidates /\ c1.finding = x.finding /\ c1.citations = x.citations
      BY <1>2, <3>1, <3>2 DEF Candidates
    <3> QED
      BY <1>2, <3>3 DEF Supported
  <2> QED
    BY <2>1, <2>2
<1>4. ASSUME Meant
      PROVE  c1.finding # "silencio" /\ Cites(c1.citations, doc) /\ c1.blocked = None
  <2>1. CASE ~On(p, "cite-or-abstain")
    <3>1. c1 = c0
      BY <2>1 DEF Run, c1
    <3> QED
      BY <1>1, <1>4, <3>1 DEF Anchored, Cites
  <2>2. CASE On(p, "cite-or-abstain")
    <3>1. c1 = [x EXCEPT !.blocked = x.blocked]
      BY <1>2, <1>4, <2>2 DEF Run, c1
    <3>2. c1.finding = x.finding /\ c1.citations = x.citations /\ c1.blocked = x.blocked
      BY <1>2, <3>1 DEF Candidates
    <3> QED
      BY <1>1, <1>2, <1>4, <3>2
  <2> QED
    BY <2>1, <2>2
<1>5. Follows(c2, c1)
  BY <1>1, <1>3, RailsFollow DEF c1, c2, x, u
<1>6. c2 \in Candidates
  BY <1>5 DEF Follows
<1>7. Follows(c3, c2) /\ c3 \in Candidates /\ c3.blocked = c2.blocked
  <2>1. Follows(c3, c2)
    BY <1>6, DemotedFollows DEF c3
  <2>2. Demoted(c2) = c2 \/ Demoted(c2) = [c2 EXCEPT !.finding = "definicion"]
    BY DEF Demoted
  <2>3. c3.blocked = c2.blocked
    BY <1>6, <2>2 DEF Candidates, c3
  <2> QED
    BY <2>1, <2>3 DEF Follows
<1>8. Follows(c3, c1)
  BY <1>5, <1>7, FollowsTwice
<1>9. /\ c4 \in Candidates /\ c4.blocked = c3.blocked
      /\ c4.finding # "silencio" =>
           Follows(c4, c3) /\ (c3.citations # <<>> => "fuente" \in c4.answer.has)
      /\ c3.blocked = None /\ c3.finding # "silencio" => c4.finding # "silencio"
  BY <1>7, ConcludedFollows DEF c4
<1>10. /\ Follows(c5, c4) /\ c5.blocked = c4.blocked
       /\ "fuente" \in c4.answer.has => "fuente" \in c5.answer.has
  BY <1>9, FootedFollows DEF c5
<1>11. c5 \in Candidates /\ (c5.finding = "silencio" <=> c4.finding = "silencio")
  BY <1>10 DEF Follows
<1>12. c5.finding # "silencio" => Follows(c5, c1)
  BY <1>8, <1>9, <1>10, <1>11, FollowsTwice
<1>13. ASSUME On(p, "cite-or-abstain")
       PROVE  Supported(c5, ids) /\ (c5.finding # "silencio" => "fuente" \in c5.answer.has)
  <2>1. CASE c5.finding = "silencio"
    BY <2>1 DEF Supported
  <2>2. CASE c5.finding # "silencio"
    <3>1. Supported(c5, ids)
      BY <1>3, <1>12, <1>13, <2>2, FollowsSupported
    <3>2. Supported(c3, ids)
      BY <1>3, <1>8, <1>13, FollowsSupported
    <3>3. Follows(c4, c3) /\ c3.finding # "silencio"
      BY <1>9, <1>11, <2>2 DEF Follows
    <3> QED
      BY <1>9, <1>10, <1>11, <2>2, <3>1, <3>2, <3>3 DEF Supported
  <2> QED
    BY <2>1, <2>2
<1>14. ASSUME Meant, c5.blocked \in {None, "cite-or-abstain"}
       PROVE  Cites(c5.citations, doc)
  <2>1. None # "cite-or-abstain"
    BY AnswerAssumption DEF Rails, OutputRails
  <2>2. c3.blocked # "cite-or-abstain" /\ c3.finding # "silencio"
    BY <1>4, <1>8, <1>14, <2>1 DEF Follows
  <2>3. c5.finding # "silencio"
    BY <1>9, <1>10, <1>11, <1>14, <2>2
  <2> QED
    BY <1>3, <1>4, <1>12, <1>14, <2>3, FollowsSupported
<1> QED
  BY <1>0, <1>11, <1>13, <1>14 DEF ids, Meant

-----------------------------------------------------------------------------
(* What holds of the turn: the types, a draft that is there only once it   *)
(* was answered with, and the citations of the response.                   *)

CitesInv ==
  /\ TypeOK
  /\ draft = NoDraft \/ Answered
  /\ Answered /\ On(policy, "cite-or-abstain") =>
       /\ Supported(response, TurnIds(hits))
       /\ response.finding # "silencio" => "fuente" \in response.answer.has
  /\ NamedIsCited

ResponseTyped ==
  /\ response.finding \in Findings
  /\ response.answer \in Answers
  /\ response.citations \in Seq(Citations)
  /\ response.blocked \in OutputRails \cup {None}

(* A fixed copy is a silencio of its own.                                  *)
LEMMA FinalizedCites ==
  ASSUME NEW copy \in {NoClause, Failure}, NEW reason, NEW remembered,
         response' = Finalized(copy, reason, remembered)
  PROVE  ResponseTyped' /\ response'.finding = "silencio"
<1> DEFINE a == [copy EXCEPT !.has = @ \cup {"freeze"}]
<1>1. copy \in Answers /\ "freeze" \in Marks
  <2>1. NoClause \in Answers /\ Failure \in Answers
    BY DEF NoClause, Failure, Answers, Marks
  <2>2. "freeze" \in Marks
    BY DEF Marks
  <2> QED
    BY <2>1, <2>2
<1>2. a \in Answers
  <2>1. copy.has \cup {"freeze"} \in SUBSET Marks
    BY <1>1 DEF Answers
  <2>2. a = [copy EXCEPT !.has = copy.has \cup {"freeze"}]
    OBVIOUS
  <2> QED
    BY <1>1, <2>1, <2>2 DEF Answers
<1>3. /\ response'.finding = "silencio" /\ response'.answer = a
      /\ response'.citations = <<>> /\ response'.blocked = None
  BY DEF Finalized
<1> HIDE DEF a
<1>4. "silencio" \in Findings /\ <<>> \in Seq(Citations)
  BY DEF Findings
<1> QED
  BY <1>2, <1>3, <1>4 DEF ResponseTyped

(* CitesInv holds of a turn that has just begun, and every step keeps it.  *)
LEMMA InitCitesInv == Init => CitesInv
<1> SUFFICES ASSUME Init PROVE CitesInv
  OBVIOUS
<1>1. hits \in Seq(Passages) /\ policy \in Policies /\ spent \in 0 .. Timeout
  BY AnswerAssumption DEF Init
<1>2. TurnIds(hits) \subseteq Docs
  <2>1. ASSUME NEW i \in DOMAIN hits PROVE hits[i].doc \in Docs
    <3>1. hits[i] \in Passages
      BY <1>1
    <3> QED
      BY <3>1 DEF Passages
  <2> QED
    BY <2>1 DEF TurnIds
<1>3. NoClause \in Answers /\ "silencio" \in Findings
  BY DEF NoClause, Answers, Marks, Findings
<1>4. /\ response.finding = "silencio" /\ response.answer = NoClause
      /\ response.citations = <<>> /\ response.blocked = None
  BY DEF Init, Nothing
<1>5. TypeOK
  BY <1>1, <1>2, <1>3, <1>4 DEF Init, TypeOK
<1>6. stage # "answered" /\ draft = NoDraft
  BY DEF Init
<1> QED
  BY <1>5, <1>6 DEF CitesInv, Answered, NamedIsCited

(* A turn that ends in a fixed copy says so in a silencio.                 *)
LEMMA FixedCopyKeeps ==
  ASSUME CitesInv, ~Answered, UNCHANGED <<request, draft>>,
         hits' \in Seq(Passages), spent' \in 0 .. Timeout, stage' = "answered",
         NEW copy \in {NoClause, Failure}, NEW reason, NEW remembered,
         response' = Finalized(copy, reason, remembered)
  PROVE  CitesInv'
<1>1. ResponseTyped' /\ response'.finding = "silencio"
  BY FinalizedCites
<1>2. TypeOK'
  BY <1>1 DEF CitesInv, TypeOK, ResponseTyped, request
<1>3. draft' = NoDraft
  BY DEF CitesInv
<1>4. draft'.finding = "silencio"
  BY <1>3 DEF NoDraft
<1>5. NamedIsCited'
  BY <1>4 DEF NamedIsCited
<1>6. Supported(response, TurnIds(hits))'
  BY <1>1 DEF Supported
<1> QED
  BY <1>1, <1>2, <1>3, <1>5, <1>6 DEF CitesInv

(* A step that does not end the turn.                                      *)
LEMMA GoingOnKeeps ==
  ASSUME CitesInv, ~Answered, UNCHANGED <<request, draft, response>>,
         hits' \in Seq(Passages), spent' \in 0 .. Timeout,
         stage' \in {"generating", "retrying", "raised"}
  PROVE  CitesInv'
<1>1. TypeOK'
  BY DEF CitesInv, TypeOK, request
<1>2. draft' = NoDraft /\ ~Answered'
  BY DEF CitesInv, Answered
<1> QED
  BY <1>1, <1>2 DEF CitesInv, NamedIsCited

LEMMA NextKeepsCitesInv == CitesInv /\ [Next]_vars => CitesInv'
<1> SUFFICES ASSUME CitesInv, [Next]_vars PROVE CitesInv'
  OBVIOUS
<1>1. TypeOK /\ hits \in Seq(Passages) /\ spent \in 0 .. Timeout /\ Timeout \in Nat
  BY AnswerAssumption DEF CitesInv, TypeOK
<1>2. CASE Screen
  <2>1. /\ ~Answered /\ UNCHANGED <<request, draft>> /\ spent' \in 0 .. Timeout
        /\ hits' \in Seq(Passages)
    BY <1>1, <1>2, ScreenedTyped DEF Screen, Answered
  <2>2. CASE hits' = <<>>
    <3>1. stage' = "answered" /\ response' = Finalized(NoClause, "retrieve_empty", TRUE)
      BY <1>2, <2>2 DEF Screen
    <3> QED
      BY <2>1, <3>1, FixedCopyKeeps
  <2>3. CASE hits' # <<>>
    <3>1. stage' = "generating" /\ response' = response
      BY <1>2, <2>3 DEF Screen
    <3> QED
      BY <2>1, <3>1, GoingOnKeeps
  <2> QED
    BY <2>2, <2>3
<1>3. ASSUME NEW reason, Fail(reason), Calling, spent' \in 0 .. Timeout
      PROVE  CitesInv'
  <2>1. /\ ~Answered /\ UNCHANGED <<request, draft>> /\ hits' \in Seq(Passages)
        /\ stage' = "answered" /\ response' = Finalized(Failure, reason, FALSE)
    BY <1>1, <1>3 DEF Fail, Calling, Answered
  <2> QED
    BY <1>3, <2>1, FixedCopyKeeps
<1>4. CASE TimedOut
  BY <1>1, <1>3, <1>4 DEF TimedOut
<1>5. ASSUME NEW n \in 0 .. Timeout, Takes(n)
      PROVE  Calling /\ spent' \in 0 .. Timeout
  BY <1>1, <1>5 DEF Takes
<1>6. ASSUME NEW n \in 0 .. Timeout, BadJson(n) PROVE CitesInv'
  <2>1. Calling /\ spent' \in 0 .. Timeout
    BY <1>5, <1>6 DEF BadJson
  <2>2. CASE Fail("llm_bad_json")
    BY <1>3, <2>1, <2>2
  <2>3. CASE stage' = "retrying" /\ UNCHANGED <<request, hits, draft, response>>
    BY <1>1, <2>1, <2>3, GoingOnKeeps DEF Calling, Answered
  <2> QED
    BY <1>6, <2>2, <2>3 DEF BadJson
<1>7. ASSUME NEW n \in 0 .. Timeout, Error(n) PROVE CitesInv'
  <2>1. Calling /\ spent' \in 0 .. Timeout
    BY <1>5, <1>7 DEF Error
  <2>2. CASE Fail("llm_unavailable")
    BY <1>3, <2>1, <2>2
  <2>3. CASE stage' = "raised" /\ UNCHANGED <<request, hits, draft, response>>
    BY <1>1, <2>1, <2>3, GoingOnKeeps DEF Calling, Answered
  <2> QED
    BY <1>7, <2>2, <2>3 DEF Error
<1>8. ASSUME NEW n \in 0 .. Timeout, NEW d \in Drafts, Draft(n, d) PROVE CitesInv'
  <2> DEFINE c == Verified(policy, d, named, filters, hits)
  <2>1. d \in DraftLike
    BY AnswerAssumption DEF DraftLike
  <2>2. /\ c \in Candidates
        /\ On(policy, "cite-or-abstain") =>
             /\ Supported(c, TurnIds(hits))
             /\ c.finding # "silencio" => "fuente" \in c.answer.has
        /\ /\ named \in TurnIds(hits) /\ d.finding # "silencio" /\ filters = Unfiltered
           /\ c.blocked \in {None, "cite-or-abstain"}
           /\ Cites(d.citations, named) \/ (d.citations = <<>> /\ "named id" \in d.answer)
           => Cites(c.citations, named)
    BY <1>1, <2>1, VerifiedCites
  <2> HIDE DEF c
  <2>3. /\ response' = [finding |-> c.finding, answer |-> c.answer,
                        citations |-> c.citations, blocked |-> c.blocked,
                        reason |-> Reason(c), remembered |-> TRUE]
        /\ draft' = d /\ stage' = "answered" /\ UNCHANGED <<request, hits>> /\ Takes(n)
    BY <1>8 DEF Draft, c
  <2>4. /\ response'.finding = c.finding /\ response'.answer = c.answer
        /\ response'.citations = c.citations /\ response'.blocked = c.blocked
    BY <2>3
  <2>5. spent' \in 0 .. Timeout
    BY <1>5, <2>3
  <2>6. TypeOK'
    BY <1>1, <2>2, <2>3, <2>4, <2>5 DEF TypeOK, Candidates, request
  <2>7. /\ On(policy', "cite-or-abstain") =>
             /\ Supported(response', TurnIds(hits'))
             /\ response'.finding # "silencio" => "fuente" \in response'.answer.has
    BY <2>2, <2>3, <2>4 DEF Supported, request
  <2>8. NamedIsCited'
    BY <2>2, <2>3, <2>4 DEF NamedIsCited, Cites, Published, request
  <2> QED
    BY <2>3, <2>6, <2>7, <2>8 DEF CitesInv, Answered
<1>9. CASE UNCHANGED vars
  BY <1>9 DEF CitesInv, TypeOK, NamedIsCited, Answered, Published, vars, request
<1> QED
  BY <1>2, <1>4, <1>6, <1>7, <1>8, <1>9 DEF Next

LEMMA CitesInvariant == Spec => []CitesInv
BY InitCitesInv, NextKeepsCitesInv, PTL DEF Spec

(* The types of the turn, for every list of passages and every draft.      *)
THEOREM AnswerTyping == Spec => []TypeOK
<1>1. CitesInv => TypeOK
  BY DEF CitesInv
<1> QED
  BY <1>1, CitesInvariant, PTL

(* An answer that is no silencio names its source and cites documents of   *)
(* the passages the model was given, each once and by a quote that was     *)
(* found in them, whatever the model drafted and the filters dropped.      *)
THEOREM AnswersAreCited == Spec => []AnsweredIsCited
<1>1. CitesInv => AnsweredIsCited
  <2> SUFFICES ASSUME CitesInv, Answered, response.finding # "silencio",
                      On(policy, "cite-or-abstain")
               PROVE  /\ Published # <<>>
                      /\ "fuente" \in response.answer.has
                      /\ \A i \in DOMAIN Published :
                           /\ Published[i].id \in TurnIds(hits)
                           /\ Published[i].quote.anchor \in {"exact", "stripped"}
                           /\ \A j \in 1 .. i - 1 : Published[j].id # Published[i].id
    BY DEF AnsweredIsCited
  <2>1. /\ Published # <<>> /\ "fuente" \in response.answer.has
        /\ Of(Published, TurnIds(hits)) /\ Quoted(Published) /\ Distinct(Published)
    BY DEF CitesInv, Supported, Published
  <2>2. Published \in Seq(Citations)
    BY DEF CitesInv, TypeOK, Published
  <2>3. ASSUME NEW i \in DOMAIN Published
        PROVE  /\ Published[i].id \in TurnIds(hits)
               /\ Published[i].quote.anchor \in {"exact", "stripped"}
               /\ \A j \in 1 .. i - 1 : Published[j].id # Published[i].id
    <3>1. i \in 1 .. Len(Published) /\ Len(Published) \in Nat
      BY <2>2
    <3>2. \A j \in 1 .. i - 1 : j \in DOMAIN Published /\ j < i
      BY <2>2, <3>1
    <3> QED
      BY <2>1, <3>2 DEF Of, Quoted, Distinct
  <2> QED
    BY <2>1, <2>3
<1> QED
  BY <1>1, CitesInvariant, PTL

(* A question routed to one document is answered with a citation of it     *)
(* when the draft cites it or names it, unless another rail blocks.        *)
THEOREM NamedAreCited == Spec => []NamedIsCited
<1>1. CitesInv => NamedIsCited
  BY DEF CitesInv
<1> QED
  BY <1>1, CitesInvariant, PTL
=============================================================================
