------------------------------- MODULE Stream -------------------------------
(***************************************************************************)
(* The answer of the chat model as it arrives (adapters/llm_openai.py):    *)
(* the assembler that parts what the model thinks from what it answers,    *)
(* when the two come in fields of their own and when thinking stands       *)
(* between tags in the text, which the stream may cut anywhere.            *)
(*                                                                         *)
(* A text is a sequence of tokens.  A tag is two of them, so that a piece  *)
(* can end inside it; "json" is an object with an answer, which some       *)
(* models repeat while they think, and "value" is that answer.             *)
(***************************************************************************)
EXTENDS Naturals, SequencesExt

Opens == <<"<", "think>">>
Closes == <<"<", "/think>">>
Tokens == {"<", "think>", "/think>", "word", "json", "value"}

(* A chunk of the stream, or, when the server does not stream, all of it.  *)
Pieces == [reasoning : Seq(Tokens), content : Seq(Tokens), whole : BOOLEAN]

(* The modes: inside a tag; thinking came in a field of its own (extras).  *)
NewAssembler ==
  [thinking |-> <<>>, body |-> <<>>, buf |-> <<>>, inThink |-> FALSE, extras |-> FALSE]

-----------------------------------------------------------------------------
(* Where tags are looked for in the text.  Definitions named Bad... are    *)
(* seeded faults: the one after as a plausible slip would have left it.    *)

Emit(a, text) ==
  IF a.inThink THEN [a EXCEPT !.thinking = @ \o text] ELSE [a EXCEPT !.body = @ \o text]

Flush(a) == [Emit(a, a.buf) EXCEPT !.buf = <<>>]

TagsOf(buf, tag) == {i \in 1 .. Len(buf) - 1 : SubSeq(buf, i, i + 1) = tag}

(* One round of _drain_tags: up to the first tag that changes the mode.    *)
PassTag(a) ==
  LET tags == TagsOf(a.buf, IF a.inThink THEN Closes ELSE Opens)
      i == Min(tags)
  IN  IF tags = {} THEN a
      ELSE [Emit(a, SubSeq(a.buf, 1, i - 1)) EXCEPT
              !.buf = SubSeq(a.buf, i + 2, Len(a.buf)), !.inThink = ~a.inThink]

PassTags(a) ==
  LET passed[n \in 0 .. Len(a.buf)] == IF n = 0 THEN a ELSE PassTag(passed[n - 1])
  IN  passed[Len(a.buf)]

(* _incomplete_tag_hold: the end of the text that may be part of a tag.    *)
BadHold(buf) == 0
Hold(buf) ==
  IF \E tag \in {Opens, Closes} : IsSuffix(tag, buf) THEN 2
  ELSE IF IsSuffix(<<"<">>, buf) THEN 1 ELSE 0

EmitHold(a) ==
  LET n == Len(a.buf) - Hold(a.buf)
  IN  [Emit(a, SubSeq(a.buf, 1, n)) EXCEPT !.buf = SubSeq(a.buf, n + 1, Len(a.buf))]

FeedTagged(a, text) == EmitHold(PassTags([a EXCEPT !.buf = @ \o text]))

(* A chunk may carry reasoning, content or both.  From the first reasoning  *)
(* on, tags in the content are text like any other.                        *)
FeedDelta(a, piece) ==
  LET b == IF piece.reasoning = <<>> THEN a
           ELSE [Flush(a) EXCEPT !.thinking = @ \o piece.reasoning, !.extras = TRUE]
  IN  IF piece.content = <<>> THEN b
      ELSE IF b.extras THEN [Flush(b) EXCEPT !.body = @ \o piece.content]
      ELSE FeedTagged(b, piece.content)

(* A message that comes whole: only tags that are closed are thinking.     *)
FeedWhole(a, piece) ==
  LET read == PassTags([NewAssembler EXCEPT !.buf = piece.content])
      rest == IF read.inThink THEN Opens \o read.buf ELSE read.buf
      thinking == IF piece.reasoning # <<>> THEN piece.reasoning ELSE read.thinking
      body == IF piece.reasoning # <<>> THEN piece.content ELSE read.body \o rest
  IN  [a EXCEPT !.thinking = @ \o thinking, !.body = @ \o body,
                !.extras = @ \/ thinking # <<>>]

Feed(a, piece) == IF piece.whole THEN FeedWhole(a, piece) ELSE FeedDelta(a, piece)

-----------------------------------------------------------------------------
(* What of the thinking is shown: not the object the model answers with.   *)

(* unwrap_thinking_text: an object at the end becomes its answer; of a     *)
(* text that begins with one and goes on, only its answer is left.         *)
Unwrap(text) ==
  IF text = <<>> THEN text
  ELSE IF IsSuffix(<<"json">>, text) THEN Append(Front(text), "value")
  ELSE IF Head(text) = "json" THEN <<"value">>
  ELSE text

(* str.replace(payload, "").                                               *)
Without(text, payload) ==
  LET next(acc, x) ==
        LET run == Append(acc.run, x)
        IN  IF IsSuffix(payload, run)
            THEN [out |-> acc.out \o SubSeq(run, 1, Len(run) - Len(payload)), run |-> <<>>]
            ELSE [acc EXCEPT !.run = run]
      end == FoldLeft(next, [out |-> <<>>, run |-> <<>>], text)
  IN  end.out \o end.run

StripJson(thinking, raw) ==
  LET text == Unwrap(thinking)
  IN  IF raw # <<>> /\ Without(text, raw) # text THEN Unwrap(Without(text, raw)) ELSE text

Visible(a) == StripJson(a.thinking, a.body)

Finish(a) == [thinking |-> Visible(Flush(a)), raw |-> Flush(a).body]

-----------------------------------------------------------------------------
(* The reference: the whole text is at hand and is read token by token.  A *)
(* tag that changes the mode is dropped, any other token is thought or     *)
(* said.                                                                   *)

TagAt(text, i, inThink) ==
  i \in 1 .. Len(text) - 1 /\ <<text[i], text[i + 1]>> = (IF inThink THEN Closes ELSE Opens)

(* What is read of the first n tokens, for each n.                         *)
Reading(text) ==
  LET read[n \in 0 .. Len(text)] ==
        IF n = 0 THEN [thinking |-> <<>>, body |-> <<>>, inThink |-> FALSE]
        ELSE IF TagAt(text, n, read[n - 1].inThink) THEN read[n - 1]
        ELSE IF TagAt(text, n - 1, read[n - 1].inThink)
             THEN [read[n - 1] EXCEPT !.inThink = ~@]
        ELSE IF read[n - 1].inThink
             THEN [read[n - 1] EXCEPT !.thinking = Append(@, text[n])]
             ELSE [read[n - 1] EXCEPT !.body = Append(@, text[n])]
  IN  read

(* The texts of a list from one on, as one, up to each of them.            *)
Joined(texts, from) ==
  LET text[i \in from - 1 .. Len(texts)] == IF i < from THEN <<>> ELSE text[i - 1] \o texts[i]
  IN  text

(* The first piece that carries reasoning, if one does.                    *)
FirstReasoning(wire) ==
  LET reasons == {i \in DOMAIN wire : wire[i].reasoning # <<>>}
  IN  IF reasons = {} THEN Len(wire) + 1 ELSE Min(reasons)

(* All the text of a stream, whatever pieces it came in.                   *)
ReadStream(wire) ==
  LET first == FirstReasoning(wire)
      contents == [i \in DOMAIN wire |-> wire[i].content]
      reasonings == [i \in DOMAIN wire |-> wire[i].reasoning]
      tagged == Joined(contents, 1)[first - 1]
      read == Reading(tagged)[Len(tagged)]
      raw == read.body \o Joined(contents, first)[Len(wire)]
      thinking == read.thinking \o Joined(reasonings, first)[Len(wire)]
  IN  [thinking |-> StripJson(thinking, raw), raw |-> raw]
=============================================================================
