-------------------------------- MODULE Spans --------------------------------
(***************************************************************************)
(* The trace of a turn: AnswerQuery.run opens a span around it and closes  *)
(* it when the turn ends, or hands it to a background task that asks a     *)
(* judge about the answer first (use_cases/answer_query.py); closing it    *)
(* writes a record (adapters/otel.py, adapters/turn_eval.py).  Each action *)
(* is what one module does in a step of the event loop; the module that    *)
(* composes it with the turns says when.                                   *)
(***************************************************************************)
EXTENDS Naturals, Sequences

CONSTANTS
  Turns,
  Evaluated   \* whether a judge is configured

ASSUME SpanAssumption == Evaluated \in BOOLEAN

VARIABLES
  span,      \* of each turn: "none", "open" or "closed"
  attrs,     \* what was put on it: "question", "response" (the answer with its
             \* verdicts) and "scores" (the judge's)
  task,      \* _BACKGROUND: "none", "created", "judging" or "done"
  written    \* the records of the trace file, per turn

spanVars == <<span, attrs, task, written>>

SpanInit ==
  /\ span = [t \in Turns |-> "none"]
  /\ attrs = [t \in Turns |-> {}]
  /\ task = [t \in Turns |-> "none"]
  /\ written = [t \in Turns |-> <<>>]

(* The collector gets all of a span, the file no scores.  A write that     *)
(* fails is swallowed, as is an error of the collector.                    *)
Compact(facts) == facts \ {"scores"}
Written(t, facts) == written' = [written EXCEPT ![t] = Append(@, Compact(facts))]

EnterSpan(t) ==
  /\ span' = [span EXCEPT ![t] = "open"]
  /\ attrs' = [attrs EXCEPT ![t] = {"question"}]
  /\ UNCHANGED <<task, written>>

(* run's finally, when the turn raised or was cancelled.                   *)
ExitSpan(t) ==
  /\ span' = [span EXCEPT ![t] = "closed"]
  /\ Written(t, attrs[t])
  /\ UNCHANGED <<attrs, task>>

(* Definitions named Bad... are seeded faults: the one after as a plausible *)
(* slip would have left it; here the span that is handed off is closed too. *)
BadRespondSpan(t, drafted) ==
  LET facts == attrs[t] \cup {"response"}
  IN  /\ attrs' = [attrs EXCEPT ![t] = facts]
      /\ task' = IF Evaluated /\ drafted THEN [task EXCEPT ![t] = "created"] ELSE task
      /\ span' = [span EXCEPT ![t] = "closed"] /\ Written(t, facts)

(* The answer is put on the span; a draft of the model is judged.          *)
RespondSpan(t, drafted) ==
  LET facts == attrs[t] \cup {"response"}
  IN  /\ attrs' = [attrs EXCEPT ![t] = facts]
      /\ IF Evaluated /\ drafted
         THEN task' = [task EXCEPT ![t] = "created"] /\ UNCHANGED <<span, written>>
         ELSE /\ span' = [span EXCEPT ![t] = "closed"] /\ Written(t, facts)
              /\ UNCHANGED task

Judge(t) ==
  /\ task[t] = "created"
  /\ task' = [task EXCEPT ![t] = "judging"]
  /\ UNCHANGED <<span, attrs, written>>

(* _score_and_close: a judge that fails once gives no score at all.        *)
Score(t, scored) ==
  LET facts == IF scored THEN attrs[t] \cup {"scores"} ELSE attrs[t]
  IN  /\ task[t] = "judging"
      /\ task' = [task EXCEPT ![t] = "done"]
      /\ attrs' = [attrs EXCEPT ![t] = facts]
      /\ span' = [span EXCEPT ![t] = "closed"]
      /\ Written(t, facts)

Background == \E t \in Turns : Judge(t) \/ \E scored \in BOOLEAN : Score(t, scored)

(* The loop ends: a task that is judging is cancelled and closes its span, *)
(* one that never ran does not, and the open span of a turn is closed by   *)
(* its own cancellation.                                                   *)
CloseAll ==
  LET closing == {t \in Turns : span[t] = "open" /\ task[t] # "created"}
  IN  /\ span' = [t \in Turns |-> IF t \in closing THEN "closed" ELSE span[t]]
      /\ written' = [t \in Turns |-> IF t \in closing THEN Append(written[t], Compact(attrs[t]))
                                     ELSE written[t]]
      /\ task' = [t \in Turns |-> IF task[t] = "judging" THEN "done" ELSE task[t]]
      /\ UNCHANGED attrs
=============================================================================
