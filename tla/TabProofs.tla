------------------------------ MODULE TabProofs ------------------------------
(***************************************************************************)
(* What holds of a tab, its turns and their records, for any number of     *)
(* turns and any streams the model may send.                               *)
(***************************************************************************)
EXTENDS Tab, ListProofs

-----------------------------------------------------------------------------
(* The turn that runs: a record of its task and its generator.             *)

Fields ==
  {"n", "before", "prior", "session", "staff", "cons", "at", "box", "asm", "wire", "got", "held",
   "latest", "timed", "phase", "event", "seenTrace", "seenPhase", "thinking"}

Shaped(w) == w = [f \in Fields |-> w[f]]

(* v is a later state of the same turn: what it was asked with stays.      *)
Same(v, w) ==
  /\ Shaped(v)
  /\ v.n = w.n /\ v.before = w.before /\ v.prior = w.prior /\ v.session = w.session
  /\ v.staff = w.staff

(* The task moved to a place, or ended; the generator did not move.        *)
Moved(v, w, at) == Same(v, w) /\ v.cons = w.cons /\ v.at = at

(* The stream is read: what is left of it goes.                            *)
LEMMA UnreadSame ==
  ASSUME NEW w, Shaped(w)
  PROVE  Moved(Unread(w), w, w.at) /\ Unread(w).box = w.box
BY DEF Shaped, Fields, Moved, Same, Unread

(* The task ended.                                                         *)
LEMMA EndedSame ==
  ASSUME NEW w, Shaped(w), NEW box
  PROVE  Moved(Ended(w, box), w, "done") /\ Ended(w, box).box = box
<1>1. Moved(Unread(w), w, w.at)
  BY UnreadSame
<1> DEFINE u == Unread(w)
<1> HIDE DEF u
<1> QED
  BY <1>1 DEF Shaped, Fields, Moved, Same, Ended

(* It entered a phase.                                                     *)
LEMMA EnteredSame ==
  ASSUME NEW w, Shaped(w), NEW place
  PROVE  Moved(Entered(w, place), w, place)
BY DEF Shaped, Fields, Moved, Same, Entered

(* It heard a thought.                                                     *)
LEMMA ThoughtSame ==
  ASSUME NEW w, Shaped(w), NEW text, NEW ready
  PROVE  Moved(Thought(w, text, ready), w, w.at)
BY DEF Shaped, Fields, Moved, Same, Thought

Running == {"admitted", "retrieve", "generate", "verify"}
Stages == {"none", "created", "done"} \cup Running

(* What the task does to the turn and to its span, whatever it was at.     *)
TaskSteps ==
  /\ turn # NoTurn /\ Shaped(turn')
  /\ \/ /\ turn.at = "created" /\ Moved(turn', turn, "done") /\ turn'.box = "refused"
        /\ UNCHANGED spanVars
     \/ turn.at = "created" /\ Moved(turn', turn, "admitted") /\ EnterSpan(turn.n)
     \/ /\ turn.at \in Running /\ Moved(turn', turn, "done") /\ turn'.box \in {"answer", "silencio"}
        /\ \E drafted \in BOOLEAN : RespondSpan(turn.n, drafted)
     \/ /\ turn.at \in Running /\ Moved(turn', turn, "done") /\ turn'.box = "raised"
        /\ ExitSpan(turn.n)
     \/ /\ turn.at \in Running /\ \E at \in Running : Moved(turn', turn, at)
        /\ UNCHANGED spanVars
  /\ UNCHANGED <<page, around, calls, history>>

(* The ways a turn ends with an answer or a silencio.                      *)
LEMMA RespondSteps ==
  ASSUME NEW kind \in {"answer", "silencio"}, NEW thinking, NEW drafted \in BOOLEAN,
         turn # NoTurn, Shaped(turn), turn.at \in Running, Respond(kind, thinking, drafted)
  PROVE  TaskSteps
<1> DEFINE w == [turn EXCEPT !.thinking = thinking]
<1>1. Moved(w, turn, turn.at)
  BY DEF Shaped, Fields, Moved, Same
<1>2. turn' = Ended(w, kind) /\ RespondSpan(turn.n, drafted) /\ Elsewhere
  BY DEF Respond
<1> HIDE DEF w
<1>3. Moved(Ended(w, kind), w, "done") /\ Ended(w, kind).box = kind
  BY <1>1, EndedSame DEF Moved, Same
<1>4. Moved(turn', turn, "done") /\ turn'.box = kind
  BY <1>1, <1>2, <1>3 DEF Moved, Same
<1> QED
  BY <1>2, <1>4 DEF TaskSteps, Elsewhere, Moved, Same

(* Every step of the task is one of these.                                 *)
LEMMA ProduceSteps ==
  ASSUME Produce, turn # NoTurn => Shaped(turn)
  PROVE  TaskSteps
<1>1. CASE Refuse
  <2>1. turn # NoTurn /\ turn.at = "created" /\ turn' = Ended(turn, "refused")
        /\ UNCHANGED <<page, around, calls, history, spanVars>>
    BY <1>1 DEF Refuse, At, Elsewhere
  <2> QED
    BY <2>1, EndedSame DEF TaskSteps, Moved, Same
<1>2. CASE Admit
  <2>1. turn # NoTurn /\ turn.at = "created" /\ turn' = [turn EXCEPT !.at = "admitted"]
        /\ EnterSpan(turn.n) /\ UNCHANGED <<page, around, calls, history>>
    BY <1>2 DEF Admit, At, Elsewhere
  <2>2. Moved(turn', turn, "admitted")
    BY <2>1 DEF Shaped, Fields, Moved, Same
  <2> QED
    BY <2>1, <2>2 DEF TaskSteps, Moved, Same
<1>3. CASE Abstain
  BY <1>3, RespondSteps DEF Abstain, At, Running
<1>4. CASE Raise
  <2>1. turn # NoTurn /\ turn.at \in Running /\ turn' = Ended(turn, "raised")
        /\ ExitSpan(turn.n) /\ UNCHANGED <<page, around, calls, history>>
    BY <1>4 DEF Raise, At, Elsewhere, Running
  <2> QED
    BY <2>1, EndedSame DEF TaskSteps, Moved, Same
<1>5. CASE Retrieve
  <2>1. turn # NoTurn /\ turn.at \in Running /\ turn' = Entered(turn, "retrieve")
        /\ UNCHANGED <<page, around, calls, history, spanVars>>
    BY <1>5 DEF Retrieve, At, Elsewhere, Running
  <2>2. Moved(turn', turn, "retrieve") /\ "retrieve" \in Running
    BY <2>1, EnteredSame DEF Running
  <2> QED
    BY <2>1, <2>2 DEF TaskSteps, Moved, Same
<1>6. CASE Generate
  <2>1. PICK wire : turn' = [Entered(turn, "generate") EXCEPT !.wire = wire]
    BY <1>6 DEF Generate
  <2>2. turn # NoTurn /\ turn.at \in Running /\ UNCHANGED <<page, around, calls, history, spanVars>>
    BY <1>6 DEF Generate, At, Elsewhere, Running
  <2>3. Moved(Entered(turn, "generate"), turn, "generate")
    BY <2>2, EnteredSame
  <2>4. Moved(turn', turn, "generate")
    BY <2>1, <2>3 DEF Shaped, Fields, Moved, Same
  <2>5. "generate" \in Running
    BY DEF Running
  <2> QED
    BY <2>2, <2>4, <2>5 DEF TaskSteps, Moved, Same
<1>7. CASE Receive
  <2> DEFINE asm == Feed(turn.asm, turn.wire[turn.got + 1])
             next == [turn EXCEPT !.asm = asm, !.got = @ + 1]
  <2>1. turn # NoTurn /\ turn.at = "generate" /\ UNCHANGED <<page, around, calls, history, spanVars>>
    BY <1>7 DEF Receive, At, Elsewhere
  <2>2. Moved(next, turn, turn.at)
    BY <2>1 DEF Shaped, Fields, Moved, Same
  <2>3. turn' = next \/ \E text, ready : turn' = Thought(next, text, ready)
    BY <1>7 DEF Receive
  <2> HIDE DEF asm, next
  <2>4. Moved(turn', turn, "generate")
    BY <2>1, <2>2, <2>3, ThoughtSame DEF Moved, Same
  <2>5. "generate" \in Running
    BY DEF Running
  <2> QED
    BY <2>1, <2>4, <2>5 DEF TaskSteps, Moved, Same
<1>8. CASE Verify
  <2>1. PICK thinking : turn' = [Entered(Unread(turn), "verify") EXCEPT !.thinking = thinking]
    BY <1>8 DEF Verify
  <2>2. turn # NoTurn /\ turn.at = "generate" /\ UNCHANGED <<page, around, calls, history, spanVars>>
    BY <1>8 DEF Verify, At, Elsewhere
  <2>3. Moved(Unread(turn), turn, "generate")
    BY <2>2, UnreadSame
  <2>4. Moved(Entered(Unread(turn), "verify"), turn, "verify")
    BY <2>3, EnteredSame DEF Moved, Same
  <2>5. Moved(turn', turn, "verify")
    BY <2>1, <2>4 DEF Shaped, Fields, Moved, Same
  <2>6. "verify" \in Running /\ "generate" \in Running
    BY DEF Running
  <2> QED
    BY <2>2, <2>5, <2>6 DEF TaskSteps, Moved, Same
<1>9. CASE Answer
  BY <1>9, RespondSteps DEF Answer, At, Running
<1> QED
  BY <1>1, <1>2, <1>3, <1>4, <1>5, <1>6, <1>7, <1>8, <1>9 DEF Produce

(* What the generator does: it begins to wait, or paints what is pending,  *)
(* or concludes a task that is done.  Only a last frame follows that.      *)
Shows ==
  \/ UNCHANGED page
  \/ /\ \E trace : rows' = AppendPending(turn.before, turn.n, trace)
     /\ UNCHANGED <<panel, session>>

PageSteps ==
  /\ turn # NoTurn
  /\ \/ turn.cons = "first" /\ Same(turn', turn) /\ turn'.cons = "waits" /\ turn'.at = "created"
        /\ UNCHANGED <<page, asked>>
     \/ /\ turn.cons # "first" /\ Same(turn', turn) /\ turn'.at = turn.at /\ turn'.box = turn.box
        /\ turn'.cons \in {"waits", "painted", "last"} /\ (turn'.cons = "last" => turn'.at = "done")
        /\ Shows /\ UNCHANGED asked
     \/ /\ turn.cons # "first" /\ (turn.at = "done" \/ turn.cons = "last")
        /\ \E was : Same(was, turn) /\ was.box = turn.box /\ Conclude(was)
  /\ UNCHANGED <<around, calls, mixed, spanVars>>

(* The generator finds the task done, or waits.                            *)
LEMMA CheckSteps ==
  ASSUME NEW was, turn # NoTurn, Shaped(turn), Same(was, turn), was.at = turn.at, was.box = turn.box,
         turn.cons # "first", Check(was), UNCHANGED <<around, calls, mixed, spanVars>>
  PROVE  PageSteps
<1>1. CASE was.at # "done"
  <2>1. turn' = [was EXCEPT !.cons = "waits"] /\ UNCHANGED <<page, asked>>
    BY <1>1 DEF Check
  <2>2. Same(turn', turn) /\ turn'.at = turn.at /\ turn'.box = turn.box /\ turn'.cons = "waits"
    BY <2>1 DEF Shaped, Fields, Same
  <2> QED
    BY <2>1, <2>2 DEF PageSteps, Shows
<1>2. CASE was.at = "done" /\ Paint(was, Trace(was), "last")
  <2>1. turn' = [was EXCEPT !.cons = "last", !.seenTrace = Trace(was), !.seenPhase = was.phase]
    BY <1>2 DEF Paint
  <2>2. Same(turn', turn) /\ turn'.at = turn.at /\ turn'.box = turn.box /\ turn'.cons = "last"
    BY <2>1 DEF Shaped, Fields, Same
  <2>3. Shows /\ UNCHANGED asked
    BY <1>2 DEF Paint, Shows, Same
  <2> QED
    BY <1>2, <2>2, <2>3 DEF PageSteps
<1>3. CASE was.at = "done" /\ Conclude(was)
  BY <1>3 DEF PageSteps
<1> QED
  BY <1>1, <1>2, <1>3 DEF Check

(* Every step of the generator is one of these.                            *)
LEMMA ConsumeSteps ==
  ASSUME Consume, turn # NoTurn => Shaped(turn) /\ (turn.cons = "last" => turn.at = "done")
  PROVE  PageSteps
<1> turn # NoTurn /\ UNCHANGED <<around, calls, mixed, spanVars>>
  BY DEF Consume, Wake, Resume
<1>1. CASE Wake
  <2> DEFINE was == [turn EXCEPT !.event = FALSE]
  <2>1. Same(was, turn) /\ was.at = turn.at /\ was.box = turn.box
    BY DEF Shaped, Fields, Same
  <2>2. turn.cons # "first"
    BY <1>1 DEF Wake
  <2>3. Paint(was, Trace(was), "painted") \/ Check(was)
    BY <1>1 DEF Wake
  <2> HIDE DEF was
  <2>4. CASE Paint(was, Trace(was), "painted")
    <3>1. turn' = [was EXCEPT !.cons = "painted", !.seenTrace = Trace(was), !.seenPhase = was.phase]
      BY <2>4 DEF Paint
    <3>2. Same(turn', turn) /\ turn'.at = turn.at /\ turn'.box = turn.box /\ turn'.cons = "painted"
      BY <2>1, <3>1 DEF Shaped, Fields, Same
    <3>3. Shows /\ UNCHANGED asked
      BY <2>1, <2>4 DEF Paint, Shows, Same
    <3> QED
      BY <2>2, <3>2, <3>3 DEF PageSteps
  <2> QED
    BY <2>1, <2>2, <2>3, <2>4, CheckSteps
<1>2. CASE Resume
  <2>1. CASE turn.cons = "first" /\ turn' = [turn EXCEPT !.cons = "waits", !.at = "created"]
             /\ UNCHANGED <<page, asked>>
    <3>1. Same(turn', turn) /\ turn'.at = "created" /\ turn'.cons = "waits"
      BY <2>1 DEF Shaped, Fields, Same
    <3> QED
      BY <2>1, <3>1 DEF PageSteps
  <2>2. CASE turn.cons = "painted" /\ Check(turn)
    BY <2>2, CheckSteps DEF Same
  <2>3. CASE turn.cons = "last" /\ Conclude(turn)
    BY <2>3 DEF PageSteps, Same
  <2> QED
    BY <1>2, <2>1, <2>2, <2>3 DEF Resume
<1> QED
  BY <1>1, <1>2 DEF Consume

-----------------------------------------------------------------------------
(* The records.                                                            *)

RecordOf(t) ==
  \/ span[t] = "none" /\ written[t] = <<>> /\ task[t] = "none"
  \/ /\ span[t] = "open" /\ written[t] = <<>>
     /\ task[t] = "none" \/ (task[t] \in {"created", "judging"} /\ "response" \in attrs[t])
  \/ span[t] = "closed" /\ written[t] = <<Compact(attrs[t])>> /\ task[t] \in {"none", "done"}

(* The turns that were not asked, and the one that waits, have no span;    *)
(* the one that runs has the span its place asks for.                      *)
Records ==
  /\ count \in Nat
  /\ DOMAIN span = Turns /\ DOMAIN attrs = Turns /\ DOMAIN task = Turns /\ DOMAIN written = Turns
  /\ \A t \in Turns : RecordOf(t) /\ (t > count => span[t] = "none")

Waits == queued # <<>> => queued[1].n = count /\ count \in Turns /\ span[count] = "none"

Runs ==
  turn # NoTurn =>
    /\ Shaped(turn) /\ turn.n \in Turns /\ turn.n <= count /\ (queued # <<>> => turn.n # count)
    /\ turn.at \in Stages
    /\ turn.cons = "first" => turn.at = "none"
    /\ turn.cons = "last" => turn.at = "done"
    /\ turn.at \in {"none", "created"} => span[turn.n] = "none"
    /\ turn.at \in Running => span[turn.n] = "open" /\ task[turn.n] = "none"

Stopped ==
  ~up => turn = NoTurn /\ queued = <<>> /\ \A t \in Turns : span[t] = "open" => task[t] = "created"

RecInv == Records /\ Waits /\ Runs /\ Stopped

(* What the span of turn n does leaves those of other turns alone.         *)
Alone(n) ==
  \A t \in Turns \ {n} :
    span'[t] = span[t] /\ task'[t] = task[t] /\ attrs'[t] = attrs[t] /\ written'[t] = written[t]

(* A step of the span of one turn.                                         *)
LEMMA RecordsKept ==
  ASSUME Records, count' = count, NEW n \in Turns, Alone(n),
         DOMAIN span' = Turns, DOMAIN attrs' = Turns, DOMAIN task' = Turns, DOMAIN written' = Turns,
         n <= count, RecordOf(n)'
  PROVE  Records'
<1>1. ASSUME NEW t \in Turns
      PROVE  RecordOf(t)' /\ (t > count' => span'[t] = "none")
  <2>1. CASE t = n
    BY <2>1, TabAssumption DEF Records
  <2>2. CASE t # n
    BY <2>2 DEF Records, RecordOf, Alone
  <2> QED
    BY <2>1, <2>2
<1> QED
  BY <1>1 DEF Records

(* A turn enters its span.                                                 *)
LEMMA Entering ==
  ASSUME Records, count' = count, NEW n \in Turns, n <= count, span[n] = "none", EnterSpan(n)
  PROVE  Records' /\ Alone(n) /\ span'[n] = "open" /\ task'[n] = "none"
<1>1. Alone(n) /\ DOMAIN span' = Turns /\ DOMAIN attrs' = Turns /\ UNCHANGED <<task, written>>
      /\ span'[n] = "open"
  BY DEF EnterSpan, Alone, Records
<1>2. written[n] = <<>> /\ task[n] = "none"
  BY DEF Records, RecordOf
<1>3. RecordOf(n)'
  BY <1>1, <1>2 DEF RecordOf
<1> QED
  BY <1>1, <1>2, <1>3, RecordsKept DEF Records

(* A span is closed with its turn.                                         *)
LEMMA Exiting ==
  ASSUME Records, count' = count, NEW n \in Turns, n <= count, span[n] = "open", task[n] = "none",
         ExitSpan(n)
  PROVE  Records' /\ Alone(n) /\ span'[n] = "closed"
<1>1. Alone(n) /\ DOMAIN span' = Turns /\ DOMAIN written' = Turns /\ UNCHANGED <<task, attrs>>
      /\ span'[n] = "closed"
  BY DEF ExitSpan, Alone, Records, Written
<1>2. written[n] = <<>>
  BY DEF Records, RecordOf
<1>3. written'[n] = <<Compact(attrs[n])>>
  BY <1>2 DEF ExitSpan, Written, Records
<1>4. RecordOf(n)'
  BY <1>1, <1>3 DEF RecordOf
<1> QED
  BY <1>1, <1>4, RecordsKept DEF Records

(* A span gets its answer, and is closed or handed to a judge.             *)
LEMMA Responding ==
  ASSUME Records, count' = count, NEW n \in Turns, n <= count, span[n] = "open", task[n] = "none",
         NEW drafted \in BOOLEAN, RespondSpan(n, drafted)
  PROVE  Records' /\ Alone(n)
<1> DEFINE facts == attrs[n] \cup {"response"}
<1>1. written[n] = <<>>
  BY DEF Records, RecordOf
<1>2. DOMAIN attrs' = Turns /\ attrs'[n] = facts /\ \A t \in Turns \ {n} : attrs'[t] = attrs[t]
  BY DEF RespondSpan, Records
<1>3. "response" \in facts
  OBVIOUS
<1> HIDE DEF facts
<1>4. CASE Evaluated /\ drafted
  <2>1. task' = [task EXCEPT ![n] = "created"] /\ UNCHANGED <<span, written>>
    BY <1>4 DEF RespondSpan
  <2>2. Alone(n) /\ DOMAIN task' = Turns /\ task'[n] = "created"
    BY <1>2, <2>1 DEF Alone, Records
  <2>3. RecordOf(n)'
    BY <1>1, <1>2, <1>3, <2>1, <2>2 DEF RecordOf
  <2> QED
    BY <1>2, <2>1, <2>2, <2>3, RecordsKept DEF Records
<1>5. CASE ~(Evaluated /\ drafted)
  <2>1. span' = [span EXCEPT ![n] = "closed"] /\ Written(n, facts) /\ UNCHANGED task
    BY <1>5 DEF RespondSpan, facts
  <2>2. Alone(n) /\ DOMAIN span' = Turns /\ DOMAIN written' = Turns /\ span'[n] = "closed"
    BY <1>2, <2>1 DEF Alone, Records, Written
  <2>3. written'[n] = <<Compact(facts)>>
    BY <1>1, <2>1 DEF Written, Records
  <2>4. RecordOf(n)'
    BY <1>2, <2>1, <2>2, <2>3 DEF RecordOf
  <2> QED
    BY <1>2, <2>1, <2>2, <2>4, RecordsKept DEF Records
<1> QED
  BY <1>4, <1>5

(* The judge works on a span that its turn has left.                       *)
LEMMA JudgingAside ==
  ASSUME Records, count' = count, Background
  PROVE  Records' /\ \E n \in Turns : Alone(n) /\ span[n] = "open" /\ task[n] # "none"
<1>0. \A t \in Turns : span[t] = "none" \/ t <= count
  BY TabAssumption DEF Records
<1>1. PICK n \in Turns : Judge(n) \/ \E scored \in BOOLEAN : Score(n, scored)
  BY DEF Background
<1>2. CASE Judge(n)
  <2>1. Alone(n) /\ DOMAIN task' = Turns /\ UNCHANGED <<span, attrs, written>>
        /\ task'[n] = "judging" /\ task[n] = "created"
    BY <1>2 DEF Judge, Alone, Records
  <2>2. RecordOf(n)
    BY DEF Records
  <2>3. span[n] = "open" /\ RecordOf(n)'
    BY <2>1, <2>2 DEF RecordOf
  <2> QED
    BY <1>0, <2>1, <2>3, RecordsKept DEF Records
<1>3. ASSUME NEW scored \in BOOLEAN, Score(n, scored)
      PROVE  Records' /\ Alone(n) /\ span[n] = "open" /\ task[n] # "none"
  <2> DEFINE facts == IF scored THEN attrs[n] \cup {"scores"} ELSE attrs[n]
  <2>1. /\ task[n] = "judging" /\ task' = [task EXCEPT ![n] = "done"]
        /\ attrs' = [attrs EXCEPT ![n] = facts] /\ span' = [span EXCEPT ![n] = "closed"]
        /\ Written(n, facts)
    BY <1>3 DEF Score
  <2> HIDE DEF facts
  <2>2. /\ Alone(n) /\ DOMAIN task' = Turns /\ DOMAIN attrs' = Turns /\ DOMAIN span' = Turns
        /\ DOMAIN written' = Turns
        /\ attrs'[n] = facts /\ span'[n] = "closed" /\ task'[n] = "done"
    BY <2>1 DEF Alone, Records, Written
  <2>3. RecordOf(n)
    BY DEF Records
  <2>4. span[n] = "open" /\ written[n] = <<>>
    BY <2>1, <2>3 DEF RecordOf
  <2>5. written'[n] = <<Compact(facts)>>
    BY <2>1, <2>4 DEF Written, Records
  <2>6. RecordOf(n)'
    BY <2>2, <2>5 DEF RecordOf
  <2> QED
    BY <1>0, <2>1, <2>2, <2>4, <2>6, RecordsKept DEF Records
<1> QED
  BY <1>1, <1>2, <1>3

(* The event loop ends.                                                    *)
LEMMA Closing ==
  ASSUME Records, count' = count, CloseAll
  PROVE  Records' /\ \A t \in Turns : span'[t] = "open" => task'[t] = "created"
<1> DEFINE closing == {t \in Turns : span[t] = "open" /\ task[t] # "created"}
<1>1. /\ span' = [t \in Turns |-> IF t \in closing THEN "closed" ELSE span[t]]
      /\ written' = [t \in Turns |-> IF t \in closing THEN Append(written[t], Compact(attrs[t]))
                                     ELSE written[t]]
      /\ task' = [t \in Turns |-> IF task[t] = "judging" THEN "done" ELSE task[t]]
      /\ UNCHANGED attrs
  BY DEF CloseAll
<1>2. ASSUME NEW t \in Turns
      PROVE  RecordOf(t)' /\ (span'[t] = "none" <=> span[t] = "none")
             /\ (span'[t] = "open" => task'[t] = "created")
  <2>1. RecordOf(t)
    BY DEF Records
  <2>2. CASE t \in closing
    <3>1. span'[t] = "closed" /\ written[t] = <<>> /\ task[t] \in {"none", "judging"}
      BY <1>1, <2>1, <2>2 DEF RecordOf
    <3>2. written'[t] = Append(written[t], Compact(attrs[t])) /\ attrs'[t] = attrs[t]
      BY <1>1, <2>2
    <3>3. written'[t] = <<Compact(attrs[t])>>
      BY <3>1, <3>2
    <3>4. task'[t] = IF task[t] = "judging" THEN "done" ELSE task[t]
      BY <1>1
    <3> QED
      BY <1>1, <3>1, <3>2, <3>3, <3>4 DEF RecordOf
  <2>3. CASE t \notin closing
    <3>1. span'[t] = span[t] /\ written'[t] = written[t] /\ attrs'[t] = attrs[t]
      BY <1>1, <2>3
    <3>2. task[t] # "judging"
      BY <2>1, <2>3 DEF RecordOf
    <3>3. task'[t] = task[t]
      BY <1>1, <3>2
    <3> QED
      BY <2>1, <2>3, <3>1, <3>3 DEF RecordOf
  <2> QED
    BY <2>2, <2>3
<1> QED
  BY <1>1, <1>2 DEF Records

LEMMA RecInit == Init => RecInv
<1> SUFFICES ASSUME Init PROVE RecInv
  OBVIOUS
<1>1. Records /\ \A t \in Turns : span[t] = "none"
  BY DEF Init, SpanInit, Records, RecordOf
<1> QED
  BY <1>1 DEF Init, RecInv, Waits, Runs, Stopped

(* A turn that goes on, and its place if that is still before its span.    *)
LEMMA RunsOn ==
  ASSUME RecInv, turn # NoTurn, Same(turn', turn), UNCHANGED <<count, queued>>,
         turn'.at \in Stages, turn'.cons = "first" => turn'.at = "none",
         turn'.cons = "last" => turn'.at = "done",
         turn'.at \in {"none", "created"} => span'[turn.n] = "none",
         turn'.at \in Running => span'[turn.n] = "open" /\ task'[turn.n] = "none"
  PROVE  Runs'
BY DEF RecInv, Runs, Same

(* The steps of the task.                                                  *)
LEMMA RecTask ==
  ASSUME RecInv, TaskSteps
  PROVE  RecInv'
<1> DEFINE n == turn.n
<1>1. /\ turn # NoTurn /\ Shaped(turn') /\ UNCHANGED <<count, queued, up>>
      /\ n \in Turns /\ n <= count /\ up
      /\ turn.cons = "first" => turn.at = "none"
      /\ turn.cons = "last" => turn.at = "done"
      /\ turn.at \in {"none", "created"} => span[n] = "none"
      /\ turn.at \in Running => span[n] = "open" /\ task[n] = "none"
      /\ queued # <<>> => count \in Turns \ {n}
  BY DEF TaskSteps, RecInv, Runs, Waits, Stopped, calls, around
<1>2. Stopped'
  BY <1>1 DEF Stopped
<1>3. ASSUME Alone(n) PROVE Waits'
  BY <1>1, <1>3 DEF Waits, RecInv, Alone
<1>4. ASSUME NEW at, Moved(turn', turn, at), turn.at \in Running \cup {"created"}
      PROVE  Same(turn', turn) /\ turn'.at = at /\ turn'.cons \notin {"first", "last"}
  BY <1>1, <1>4 DEF Moved, Running
<1>5. CASE /\ turn.at = "created" /\ Moved(turn', turn, "done")
           /\ UNCHANGED spanVars
  <2>1. Records' /\ Alone(n)
    BY <1>1, <1>5 DEF RecInv, Records, RecordOf, spanVars, Alone
  <2>2. Runs'
    BY <1>1, <1>4, <1>5, RunsOn DEF Stages, Running
  <2> QED
    BY <1>2, <1>3, <2>1, <2>2 DEF RecInv
<1>6. CASE turn.at = "created" /\ Moved(turn', turn, "admitted") /\ EnterSpan(n)
  <2>1. Records' /\ Alone(n) /\ span'[n] = "open" /\ task'[n] = "none"
    BY <1>1, <1>6, Entering DEF RecInv
  <2>2. Runs'
    BY <1>1, <1>4, <1>6, <2>1, RunsOn DEF Stages, Running
  <2> QED
    BY <1>2, <1>3, <2>1, <2>2 DEF RecInv
<1>7. CASE /\ turn.at \in Running /\ Moved(turn', turn, "done")
           /\ \E drafted \in BOOLEAN : RespondSpan(n, drafted)
  <2>1. Records' /\ Alone(n)
    BY <1>1, <1>7, Responding DEF RecInv
  <2>2. Runs'
    BY <1>1, <1>4, <1>7, RunsOn DEF Stages, Running
  <2> QED
    BY <1>2, <1>3, <2>1, <2>2 DEF RecInv
<1>8. CASE turn.at \in Running /\ Moved(turn', turn, "done") /\ ExitSpan(n)
  <2>1. Records' /\ Alone(n)
    BY <1>1, <1>8, Exiting DEF RecInv
  <2>2. Runs'
    BY <1>1, <1>4, <1>8, RunsOn DEF Stages, Running
  <2> QED
    BY <1>2, <1>3, <2>1, <2>2 DEF RecInv
<1>9. CASE /\ turn.at \in Running /\ \E at \in Running : Moved(turn', turn, at)
           /\ UNCHANGED spanVars
  <2>1. Records' /\ Alone(n)
    BY <1>1, <1>9 DEF RecInv, Records, RecordOf, spanVars, Alone
  <2>2. PICK at \in Running : Moved(turn', turn, at)
    BY <1>9
  <2>3. Runs'
    BY <1>1, <1>4, <1>9, <2>2, RunsOn DEF Stages, Running, spanVars
  <2> QED
    BY <1>2, <1>3, <2>1, <2>3 DEF RecInv
<1> QED
  BY <1>5, <1>6, <1>7, <1>8, <1>9 DEF TaskSteps

(* The steps of the generator.                                             *)
LEMMA RecPage ==
  ASSUME RecInv, PageSteps
  PROVE  RecInv'
<1>1. /\ turn # NoTurn /\ Shaped(turn) /\ UNCHANGED <<count, queued, up, spanVars>>
      /\ turn.at \in Stages
      /\ turn.cons = "first" => turn.at = "none"
      /\ turn.at \in {"none", "created"} => span[turn.n] = "none"
      /\ turn.at \in Running => span[turn.n] = "open" /\ task[turn.n] = "none"
  BY DEF PageSteps, RecInv, Runs, calls, around
<1>2. Records' /\ Waits'
  BY <1>1 DEF RecInv, Records, RecordOf, Waits, spanVars
<1>3. Stopped'
  BY <1>1 DEF Stopped, RecInv
<1>4. CASE turn.cons = "first" /\ Same(turn', turn) /\ turn'.cons = "waits" /\ turn'.at = "created"
  <2>1. Runs'
    BY <1>1, <1>4, RunsOn DEF Stages, Running, spanVars
  <2> QED
    BY <1>2, <1>3, <2>1 DEF RecInv
<1>5. CASE /\ Same(turn', turn) /\ turn'.at = turn.at
           /\ turn'.cons \in {"waits", "painted", "last"} /\ (turn'.cons = "last" => turn'.at = "done")
  <2>1. Runs'
    BY <1>1, <1>5, RunsOn DEF spanVars
  <2> QED
    BY <1>2, <1>3, <2>1 DEF RecInv
<1>6. CASE turn' = NoTurn
  BY <1>1, <1>2, <1>3, <1>6 DEF RecInv, Runs
<1> QED
  BY <1>4, <1>5, <1>6 DEF PageSteps, Conclude

LEMMA RecNext == RecInv /\ [Next]_vars => RecInv'
<1> SUFFICES ASSUME RecInv, [Next]_vars PROVE RecInv'
  OBVIOUS
<1>0. turn # NoTurn => Shaped(turn) /\ (turn.cons = "last" => turn.at = "done")
  BY DEF RecInv, Runs
<1>a. ASSUME UNCHANGED <<turn, queued, up, count>>, Records',
             \A t \in Turns : span[t] # "none" \/ span'[t] = "none",
             turn # NoTurn /\ turn.at \in Running => span'[turn.n] = "open" /\ task'[turn.n] = "none",
             up \/ UNCHANGED spanVars
      PROVE  RecInv'
  <2>1. Waits'
    BY <1>a DEF RecInv, Waits
  <2>2. Runs'
    BY <1>a DEF RecInv, Runs
  <2>3. Stopped'
    BY <1>a DEF RecInv, Stopped, spanVars
  <2> QED
    BY <1>a, <2>1, <2>2, <2>3 DEF RecInv
<1>b. ASSUME UNCHANGED <<turn, queued, up, count, spanVars>>
      PROVE  RecInv'
  <2>1. Records'
    BY <1>b DEF RecInv, Records, RecordOf, spanVars
  <2> QED
    BY <1>a, <1>b, <2>1 DEF RecInv, Runs, spanVars
<1>1. CASE Submit
  <2>1. /\ up /\ count + 1 \in Turns /\ queued = <<>> /\ count' = count + 1
        /\ queued' = <<[n |-> count + 1, before |-> rows, prior |-> panel]>>
        /\ UNCHANGED <<turn, up, span, attrs, task, written>>
    BY <1>1 DEF Submit, around, spanVars
  <2>2. count \in Nat /\ Turns \subseteq Nat
    BY TabAssumption DEF RecInv, Records
  <2>3. Records'
    BY <2>1, <2>2 DEF RecInv, Records, RecordOf
  <2>4. Waits'
    BY <2>1, <2>2 DEF RecInv, Records, Waits
  <2>5. Runs'
    <3>1. UNCHANGED <<turn, span, task>> /\ count' = count + 1
      BY <2>1
    <3>2. turn # NoTurn => turn.n \in Nat /\ turn.n <= count' /\ turn.n # count'
      <4> DEFINE n == turn.n
      <4>1. turn # NoTurn => n \in Nat /\ n <= count
        BY <2>2 DEF RecInv, Runs
      <4> HIDE DEF n
      <4>2. turn # NoTurn => n \in Nat /\ n <= count' /\ n # count'
        BY <2>2, <3>1, <4>1
      <4> QED
        BY <4>2 DEF n
    <3> QED
      BY <3>1, <3>2 DEF RecInv, Runs
  <2>6. Stopped'
    BY <2>1 DEF Stopped
  <2> QED
    BY <2>3, <2>4, <2>5, <2>6 DEF RecInv
<1>2. CASE Begin
  <2> DEFINE q == queued[1]
  <2>1. /\ turn = NoTurn /\ queued # <<>> /\ queued' = <<>>
        /\ turn' = [n |-> q.n, before |-> q.before, prior |-> q.prior, session |-> session,
                    staff |-> cookie = "live" /\ layout = "staff",
                    cons |-> "first", at |-> "none", box |-> None, asm |-> NewAssembler,
                    wire |-> <<>>, got |-> 0, held |-> <<>>, latest |-> <<>>, timed |-> FALSE,
                    phase |-> "", event |-> FALSE, seenTrace |-> <<>>, seenPhase |-> "",
                    thinking |-> <<>>]
        /\ UNCHANGED <<count, up, span, attrs, task, written>>
    BY <1>2 DEF Begin, around, spanVars
  <2>2. Shaped(turn') /\ turn'.n = q.n /\ turn'.at = "none" /\ turn'.cons = "first"
    BY <2>1 DEF Shaped, Fields
  <2>3. q.n = count /\ count \in Turns /\ span[count] = "none" /\ count \in Nat /\ up
    BY <2>1 DEF RecInv, Waits, Records, Stopped
  <2>4. Runs'
    <3>1. UNCHANGED <<count, span, task>> /\ queued' = <<>>
      BY <2>1
    <3>2. turn'.n = count /\ count <= count
      BY <2>2, <2>3
    <3> QED
      BY <2>2, <2>3, <3>1, <3>2 DEF Runs, Stages, Running
  <2>5. Records' /\ Waits' /\ Stopped'
    BY <2>1, <2>3 DEF RecInv, Records, RecordOf, Waits, Stopped
  <2> QED
    BY <2>4, <2>5 DEF RecInv
<1>3. CASE Produce
  BY <1>0, <1>3, ProduceSteps, RecTask
<1>4. CASE Consume
  BY <1>0, <1>4, ConsumeSteps, RecPage
<1>5. CASE ClearAsked \/ Cleared \/ ClearRefused \/ Browse \/ Expire
  BY <1>b, <1>5 DEF ClearAsked, Cleared, ClearRefused, Browse, Expire, calls, around
<1>6. CASE Reload
  <2>1. /\ turn # NoTurn /\ turn' = NoTurn /\ queued' = <<>> /\ UNCHANGED <<count, up>>
        /\ IF span[turn.n] = "open" /\ turn.at # "done" THEN ExitSpan(turn.n) ELSE UNCHANGED spanVars
    BY <1>6 DEF Reload, Forgotten
  <2>2. Records'
    <3>1. CASE span[turn.n] = "open" /\ turn.at # "done"
      <4>1. task[turn.n] = "none" /\ turn.n \in Turns /\ turn.n <= count
        BY <2>1, <3>1 DEF RecInv, Runs, Stages
      <4> QED
        BY <2>1, <3>1, <4>1, Exiting DEF RecInv
    <3>2. CASE UNCHANGED spanVars
      BY <2>1, <3>2 DEF RecInv, Records, RecordOf, spanVars
    <3> QED
      BY <2>1, <3>1, <3>2
  <2>3. up
    BY <2>1 DEF RecInv, Stopped
  <2> QED
    BY <2>1, <2>2, <2>3 DEF RecInv, Waits, Runs, Stopped
<1>7. CASE Stop
  <2>1. turn' = NoTurn /\ queued' = <<>> /\ UNCHANGED count /\ CloseAll
    BY <1>7 DEF Stop, Forgotten
  <2> QED
    BY <2>1, Closing DEF RecInv, Waits, Runs, Stopped
<1>8. CASE Judging
  <2>1. up /\ Background /\ UNCHANGED <<turn, queued, up, count>>
    BY <1>8 DEF Judging, around, calls
  <2>2. PICK n \in Turns : Alone(n) /\ span[n] = "open" /\ task[n] # "none"
    BY <2>1, JudgingAside DEF RecInv
  <2>3. turn # NoTurn /\ turn.at \in Running => span'[turn.n] = "open" /\ task'[turn.n] = "none"
    BY <2>2 DEF RecInv, Runs, Alone
  <2>4. \A t \in Turns : span[t] # "none" \/ span'[t] = "none"
    BY <2>2 DEF Alone
  <2>5. Records'
    BY <2>1, JudgingAside DEF RecInv
  <2> QED
    BY <1>a, <2>1, <2>3, <2>4, <2>5
<1>9. CASE UNCHANGED vars
  BY <1>b, <1>9 DEF vars, calls, around
<1> QED
  BY <1>1, <1>2, <1>3, <1>4, <1>5, <1>6, <1>7, <1>8, <1>9 DEF Next

(* A turn that got past the gate leaves one record, with its answer if it  *)
(* has one (AnswerQuery.run and its background judge), however the tab,    *)
(* the turn and the judge end, for any number of turns.                    *)
THEOREM TurnsLeaveOneRecord == Spec => []RecordsComplete
<1>1. RecInv => RecordsComplete
  <2> SUFFICES ASSUME RecInv, NEW t \in Turns
               PROVE  /\ Len(written[t]) = IF span[t] = "closed" THEN 1 ELSE 0
                      /\ span[t] = "closed" => written[t][1] = Compact(attrs[t])
                      /\ ~up /\ span[t] = "open" => task[t] = "created" /\ "response" \in attrs[t]
    BY DEF RecordsComplete
  <2>1. RecordOf(t)
    BY DEF RecInv, Records
  <2>2. ~up /\ span[t] = "open" => task[t] = "created"
    BY DEF RecInv, Stopped
  <2> DEFINE facts == Compact(attrs[t])
  <2> HIDE DEF facts
  <2>3. CASE span[t] = "closed" /\ written[t] = <<facts>>
    BY <2>3 DEF facts
  <2>4. CASE span[t] # "closed" /\ written[t] = <<>>
    BY <2>1, <2>2, <2>4 DEF RecordOf
  <2> QED
    BY <2>1, <2>3, <2>4 DEF RecordOf, facts
<1> QED
  BY <1>1, RecInit, RecNext, PTL DEF Spec

-----------------------------------------------------------------------------
(* Lists of rows, and the answers among them.                              *)

Listed(s) == \E S : s \in Seq(S)

(* Two lists, one after the other.                                         *)
LEMMA JoinedLists ==
  ASSUME NEW s, NEW t, Listed(s), Listed(t)
  PROVE  /\ Listed(s \o t)
         /\ Len(s) \in Nat /\ Len(t) \in Nat /\ Len(s \o t) = Len(s) + Len(t)
         /\ \A i \in 1 .. Len(s) : (s \o t)[i] = s[i]
         /\ \A i \in 1 .. Len(t) : (s \o t)[Len(s) + i] = t[i]
<1>1. PICK S, T : s \in Seq(S) /\ t \in Seq(T)
  BY DEF Listed
<1>2. s \in Seq(S \cup T) /\ t \in Seq(S \cup T) /\ Len(s) \in Nat /\ Len(t) \in Nat
  BY <1>1
<1>3. /\ s \o t \in Seq(S \cup T)
      /\ Len(s \o t) = Len(s) + Len(t)
      /\ \A i \in 1 .. Len(s) + Len(t) : (s \o t)[i] = IF i <= Len(s) THEN s[i] ELSE t[i - Len(s)]
  BY <1>2, ConcatProperties
<1>4. ASSUME NEW i \in 1 .. Len(s) PROVE (s \o t)[i] = s[i]
  BY <1>2, <1>3
<1>5. ASSUME NEW i \in 1 .. Len(t) PROVE (s \o t)[Len(s) + i] = t[i]
  <2>1. Len(s) + i \in 1 .. Len(s) + Len(t) /\ ~(Len(s) + i <= Len(s)) /\ (Len(s) + i) - Len(s) = i
    BY <1>2
  <2> QED
    BY <1>3, <2>1
<1> QED
  BY <1>2, <1>3, <1>4, <1>5 DEF Listed

(* A list of one element.                                                  *)
LEMMA ListOfOne ==
  ASSUME NEW x
  PROVE  Listed(<<x>>) /\ Len(<<x>>) = 1 /\ <<x>>[1] = x
<1>1. <<x>> \in Seq({x})
  OBVIOUS
<1> QED
  BY <1>1 DEF Listed

(* The empty list.                                                         *)
LEMMA NoList == Listed(<<>>)
<1>1. <<>> \in Seq({})
  OBVIOUS
<1> QED
  BY <1>1 DEF Listed

(* Joining is associative, and <<>> is its unit.                           *)
LEMMA JoinedThrice ==
  ASSUME NEW s, NEW t, NEW u, Listed(s), Listed(t), Listed(u)
  PROVE  (s \o t) \o u = s \o (t \o u) /\ s \o <<>> = s /\ <<>> \o s = s
<1>1. PICK S, T, U : s \in Seq(S) /\ t \in Seq(T) /\ u \in Seq(U)
  BY DEF Listed
<1> DEFINE All == S \cup T \cup U
<1>2. s \in Seq(All) /\ t \in Seq(All) /\ u \in Seq(All)
  BY <1>1
<1> HIDE DEF All
<1> QED
  BY <1>2, ConcatAssociative, ConcatEmptySeq

(* How three are put together does not matter.                             *)
LEMMA Regrouped == \A u, v, w : Listed(u) /\ Listed(v) /\ Listed(w) => (u \o v) \o w = u \o (v \o w)
<1> SUFFICES ASSUME NEW u, NEW v, NEW w, Listed(u), Listed(v), Listed(w)
             PROVE  (u \o v) \o w = u \o (v \o w)
  OBVIOUS
<1> QED
  BY JoinedThrice

(* No bubble is left pending.                                              *)
NonePending(rs) == \A i \in DOMAIN rs : rs[i].kind # "pending"

(* rs shows an answer to n.                                                *)
HasAnswer(rs, n) == \E i \in DOMAIN rs : rs[i].turn = n /\ rs[i].kind = "answer"

(* A collapse keeps the answers, and changes nothing where no bubble is    *)
(* pending.                                                                *)
LEMMA CollapseKeeps ==
  ASSUME NEW rs, Listed(rs)
  PROVE  /\ Listed(CollapsePriorThoughts(rs))
         /\ \A n : HasAnswer(rs, n) => HasAnswer(CollapsePriorThoughts(rs), n)
         /\ NonePending(rs) => CollapsePriorThoughts(rs) = rs
<1> DEFINE c == CollapsePriorThoughts(rs)
           S == {c[i] : i \in DOMAIN rs}
<1>1. /\ DOMAIN c = DOMAIN rs
      /\ \A i \in DOMAIN rs : c[i] = IF rs[i].kind = "pending" THEN [rs[i] EXCEPT !.kind = "thought"]
                                     ELSE rs[i]
  BY DEF CollapsePriorThoughts
<1>2. rs = [i \in 1 .. Len(rs) |-> rs[i]] /\ Len(rs) \in Nat /\ DOMAIN rs = 1 .. Len(rs)
  BY DEF Listed
<1>3. c = [i \in 1 .. Len(rs) |-> c[i]]
  BY <1>2 DEF CollapsePriorThoughts
<1>4. ASSUME NEW n, HasAnswer(rs, n) PROVE HasAnswer(c, n)
  <2>1. PICK i \in DOMAIN rs : rs[i].turn = n /\ rs[i].kind = "answer"
    BY <1>4 DEF HasAnswer
  <2>2. c[i] = rs[i]
    BY <1>1, <2>1
  <2> QED
    BY <1>1, <2>1, <2>2 DEF HasAnswer
<1>5. ASSUME NonePending(rs) PROVE c = rs
  <2>1. \A i \in 1 .. Len(rs) : c[i] = rs[i]
    BY <1>1, <1>2, <1>5 DEF NonePending
  <2> HIDE DEF c
  <2> QED
    BY <1>2, <1>3, <2>1
<1>6. \A i \in 1 .. Len(rs) : c[i] \in S
  BY <1>2
<1> HIDE DEF c, S
<1>7. c \in Seq(S)
  BY <1>2, <1>3, <1>6
<1> QED
  BY <1>4, <1>5, <1>7 DEF Listed, c

(* Answers and bubbles of two lists, one after the other.                  *)
LEMMA JoinedRows ==
  ASSUME NEW s, NEW t, Listed(s), Listed(t)
  PROVE  /\ \A n : HasAnswer(s, n) \/ HasAnswer(t, n) => HasAnswer(s \o t, n)
         /\ NonePending(s) /\ NonePending(t) => NonePending(s \o t)
<1> DEFINE u == s \o t
<1>1. /\ Listed(u) /\ Len(s) \in Nat /\ Len(t) \in Nat /\ Len(u) = Len(s) + Len(t)
      /\ \A i \in 1 .. Len(s) : u[i] = s[i]
      /\ \A i \in 1 .. Len(t) : u[Len(s) + i] = t[i]
  BY JoinedLists
<1>2. DOMAIN s = 1 .. Len(s) /\ DOMAIN t = 1 .. Len(t) /\ DOMAIN u = 1 .. Len(u)
  BY <1>1 DEF Listed
<1> HIDE DEF u
<1>3. ASSUME NEW n, HasAnswer(s, n) PROVE HasAnswer(u, n)
  <2>1. PICK i \in 1 .. Len(s) : s[i].turn = n /\ s[i].kind = "answer"
    BY <1>2, <1>3 DEF HasAnswer
  <2>2. i \in DOMAIN u /\ u[i] = s[i]
    BY <1>1, <1>2
  <2> QED
    BY <2>1, <2>2 DEF HasAnswer
<1>4. ASSUME NEW n, HasAnswer(t, n) PROVE HasAnswer(u, n)
  <2>1. PICK i \in 1 .. Len(t) : t[i].turn = n /\ t[i].kind = "answer"
    BY <1>2, <1>4 DEF HasAnswer
  <2>2. Len(s) + i \in DOMAIN u /\ u[Len(s) + i] = t[i]
    BY <1>1, <1>2
  <2> QED
    BY <2>1, <2>2 DEF HasAnswer
<1>5. ASSUME NonePending(s), NonePending(t) PROVE NonePending(u)
  <2>1. ASSUME NEW i \in 1 .. Len(u) PROVE u[i].kind # "pending"
    <3>1. CASE i \in 1 .. Len(s)
      BY <1>1, <1>2, <1>5, <3>1 DEF NonePending
    <3>2. CASE i \notin 1 .. Len(s)
      <4>1. i - Len(s) \in 1 .. Len(t) /\ i = Len(s) + (i - Len(s))
        BY <1>1, <3>2
      <4>2. u[i] = t[i - Len(s)]
        BY <1>1, <4>1
      <4> QED
        BY <1>2, <1>5, <4>1, <4>2 DEF NonePending
    <3> QED
      BY <3>1, <3>2
  <2> QED
    BY <1>2, <2>1 DEF NonePending
<1> QED
  BY <1>3, <1>4, <1>5 DEF u

(* A single row.                                                           *)
LEMMA OneRow ==
  ASSUME NEW n, NEW kind, NEW text
  PROVE  /\ Listed(Row(n, kind, text))
         /\ kind = "answer" => HasAnswer(Row(n, kind, text), n)
         /\ kind # "pending" => NonePending(Row(n, kind, text))
<1> DEFINE x == [turn |-> n, kind |-> kind, text |-> text]
<1>1. x.turn = n /\ x.kind = kind
  OBVIOUS
<1> HIDE DEF x
<1>2. Listed(<<x>>) /\ DOMAIN <<x>> = {1} /\ <<x>>[1] = x
  BY ListOfOne
<1>3. Row(n, kind, text) = <<x>>
  BY DEF Row, x
<1> QED
  BY <1>1, <1>2, <1>3 DEF HasAnswer, NonePending

(* The rows while a turn runs.                                             *)
LEMMA PendingRows ==
  ASSUME NEW before, Listed(before), NEW n, NEW trace
  PROVE  Listed(AppendPending(before, n, trace))
<1>1. Listed(CollapsePriorThoughts(before) \o Row(n, "question", <<>>))
  BY CollapseKeeps, OneRow, JoinedLists
<1> QED
  BY <1>1, OneRow, JoinedLists DEF AppendPending

(* The rows of a turn that ended, after those it found.                    *)
LEMMA MessageRows ==
  ASSUME NEW before, Listed(before), NEW n, NEW kind, NEW thinking
  PROVE  /\ Listed(AppendMessages(before, n, kind, thinking))
         /\ kind = "answer" => HasAnswer(AppendMessages(before, n, kind, thinking), n)
         /\ \A m : HasAnswer(before, m) => HasAnswer(AppendMessages(before, n, kind, thinking), m)
         /\ NonePending(before) =>
              AppendMessages(before, n, kind, thinking)
                = before \o AppendMessages(<<>>, n, kind, thinking)
         /\ kind # "pending" => NonePending(AppendMessages(<<>>, n, kind, thinking))
<1> DEFINE c == CollapsePriorThoughts(before)
           q == Row(n, "question", <<>>)
           t == IF thinking = <<>> THEN <<>> ELSE Row(n, "thought", thinking)
           a == Row(n, kind, <<>>)
<1>1. AppendMessages(before, n, kind, thinking) = ((c \o q) \o t) \o a
  BY DEF AppendMessages
<1>2. Listed(c) /\ \A m : HasAnswer(before, m) => HasAnswer(c, m)
  BY CollapseKeeps
<1>3. NonePending(before) => c = before
  BY CollapseKeeps
<1>4. Listed(q) /\ Listed(t) /\ Listed(a) /\ Listed(<<>>)
  BY OneRow, NoList
<1>5. NonePending(q) /\ NonePending(t) /\ (kind # "pending" => NonePending(a))
  <2>1. NonePending(<<>>)
    BY DEF NonePending
  <2> QED
    BY <2>1, OneRow
<1>6. kind = "answer" => HasAnswer(a, n)
  BY OneRow
<1>7. CollapsePriorThoughts(<<>>) = <<>>
  <2>1. NonePending(<<>>)
    BY DEF NonePending
  <2> QED
    BY <2>1, NoList, CollapseKeeps
<1>8. AppendMessages(<<>>, n, kind, thinking) = ((<<>> \o q) \o t) \o a
  BY <1>7 DEF AppendMessages
<1> HIDE DEF c, q, t, a
<1>9. <<>> \o q = q
  BY <1>4, JoinedThrice
<1>10. Listed(c \o q) /\ Listed((c \o q) \o t) /\ Listed(((c \o q) \o t) \o a)
       /\ Listed(q \o t) /\ Listed(t \o a)
  BY <1>2, <1>4, JoinedLists
<1>11. \A m : HasAnswer(c, m) \/ HasAnswer(a, m) => HasAnswer(((c \o q) \o t) \o a, m)
  BY <1>2, <1>4, <1>10, JoinedRows
<1>12. ((c \o q) \o t) \o a = c \o ((q \o t) \o a)
  <2> DEFINE Cat(x, y) == x \o y
  <2>1. \A u, v, w : Listed(u) /\ Listed(v) /\ Listed(w) => Cat(Cat(u, v), w) = Cat(u, Cat(v, w))
    BY Regrouped, Zenon
  <2>2. Listed(Cat(q, t))
    BY <1>10
  <2> HIDE DEF Cat
  <2>3. Cat(Cat(Cat(c, q), t), a) = Cat(c, Cat(Cat(q, t), a))
    BY <1>2, <1>4, <2>1, <2>2
  <2> QED
    BY <2>3, Zenon DEF Cat
<1>13. kind # "pending" => NonePending((q \o t) \o a)
  BY <1>4, <1>5, <1>10, JoinedRows
<1> QED
  BY <1>1, <1>2, <1>3, <1>6, <1>8, <1>9, <1>10, <1>11, <1>12, <1>13

(* The same, to be cited alone.                                            *)
LEMMA MessagesJoined ==
  ASSUME NEW before, Listed(before), NonePending(before), NEW n, NEW kind, NEW thinking
  PROVE  AppendMessages(before, n, kind, thinking) = before \o AppendMessages(<<>>, n, kind, thinking)
BY MessageRows

-----------------------------------------------------------------------------
(* The panel.                                                              *)

Boxes == {"answer", "silencio", "refused", "raised"}

PanelShape(p) == p = [of |-> p.of, banner |-> p.banner]

(* The page a call was given: a panel of an answer in its rows, or of none. *)
Snapshot(before, prior) ==
  /\ Listed(before) /\ PanelShape(prior)
  /\ prior.of \in {None, Pending} \/ HasAnswer(before, prior.of)

Matches == panel = Empty \/ HasAnswer(rows, panel.of)

PageInv ==
  /\ Listed(rows) /\ PanelShape(panel)
  /\ turn = NoTurn => phase = "" /\ Matches
  /\ turn # NoTurn =>
       /\ panel.of \in {None, Pending}
       /\ Snapshot(turn.before, turn.prior)
       /\ turn.at = "done" => turn.box \in Boxes
  /\ queued # <<>> => Snapshot(queued[1].before, queued[1].prior)
  /\ clearing # None => Listed(clearing.rows)

(* Nothing overlapped: one call at a time, and each found the page shown.  *)
Agrees(shown) ==
  /\ turn # NoTurn => queued = <<>> /\ clearing = None
  /\ queued # <<>> => clearing = None
  /\ turn = NoTurn => rows = shown.rows /\ panel = shown.panel /\ session = shown.session
  /\ turn # NoTurn => /\ turn.before = shown.rows /\ turn.prior = shown.panel
                      /\ turn.session = shown.session
  /\ queued # <<>> => queued[1].before = shown.rows /\ queued[1].prior = shown.panel
  /\ clearing # None => clearing.rows = shown.rows /\ clearing.session = shown.session

-----------------------------------------------------------------------------
(* The page that must be shown.  The function PageAfter is the last value  *)
(* of exists, and is the same for lists that begin alike.                  *)

Unfolds(f, done, n) == f = [i \in 0 .. n |-> IF i = 0 THEN Blank ELSE After(f[i - 1], done[i])]

(* By induction on how much was done.                                      *)
LEMMA UnfoldingExists ==
  ASSUME NEW done, NEW n \in Nat
  PROVE  \E f : Unfolds(f, done, n)
<1> DEFINE Good == {m \in Nat : \E f : Unfolds(f, done, m)}
<1>1. 0 \in Good
  <2>1. Unfolds([i \in 0 .. 0 |-> Blank], done, 0)
    BY DEF Unfolds
  <2> QED
    BY <2>1
<1>2. ASSUME NEW m \in Nat, m \in Good
      PROVE  m + 1 \in Good
  <2>1. PICK f : Unfolds(f, done, m)
    BY <1>2
  <2> DEFINE last == After(f[m], done[m + 1])
             g == [i \in 0 .. m + 1 |-> IF i = m + 1 THEN last ELSE f[i]]
             h == [i \in 0 .. m + 1 |-> IF i = 0 THEN Blank ELSE After(g[i - 1], done[i])]
  <2>2. ASSUME NEW i \in 0 .. m + 1
        PROVE  g[i] = h[i]
    <3>1. CASE i = m + 1
      BY <3>1
    <3>2. CASE i # m + 1
      <4>1. i \in 0 .. m /\ g[i] = f[i]
        BY <3>2
      <4>2. i # 0 => g[i - 1] = f[i - 1]
        BY <3>2
      <4>3. f[i] = IF i = 0 THEN Blank ELSE After(f[i - 1], done[i])
        BY <2>1, <4>1 DEF Unfolds
      <4> QED
        BY <4>1, <4>2, <4>3
    <3> QED
      BY <3>1, <3>2
  <2>3. g = h
    <3> HIDE DEF last
    <3> QED BY <2>2
  <2>4. Unfolds(g, done, m + 1)
    BY <2>3 DEF Unfolds
  <2> QED
    BY <2>4
<1>3. Nat \subseteq Good
  <2> HIDE DEF Good
  <2> QED  BY <1>1, <1>2, Reaches
<1> QED
  BY <1>3

(* PageAfter is the last value of an unfolding.                            *)
LEMMA PageByUnfolding ==
  ASSUME NEW done, Listed(done)
  PROVE  \E f : Unfolds(f, done, Len(done)) /\ PageAfter(done) = f[Len(done)]
<1> DEFINE f == CHOOSE f : Unfolds(f, done, Len(done))
<1>1. Len(done) \in Nat
  BY DEF Listed
<1>2. Unfolds(f, done, Len(done))
  BY <1>1, UnfoldingExists
<1>3. PageAfter(done) = f[Len(done)]
  BY DEF PageAfter, Unfolds
<1> QED
  BY <1>2, <1>3

(* Lists that begin alike unfold alike.                                    *)
LEMMA UnfoldingAlike ==
  ASSUME NEW f, NEW g, NEW done, NEW more, NEW n \in Nat,
         Unfolds(f, done, n), Unfolds(g, more, n + 1), \A i \in 1 .. n : more[i] = done[i]
  PROVE  g[n] = f[n]
<1> DEFINE Good == {m \in Nat : m <= n => g[m] = f[m]}
<1>1. \A i \in 0 .. n : f[i] = IF i = 0 THEN Blank ELSE After(f[i - 1], done[i])
  BY DEF Unfolds
<1>2. \A i \in 0 .. n + 1 : g[i] = IF i = 0 THEN Blank ELSE After(g[i - 1], more[i])
  BY DEF Unfolds
<1>3. 0 \in Good
  BY <1>1, <1>2
<1>4. ASSUME NEW m \in Nat, m \in Good
      PROVE  m + 1 \in Good
  <2>1. CASE m + 1 <= n
    <3>1. m + 1 \in 0 .. n /\ m + 1 \in 0 .. n + 1 /\ m + 1 \in 1 .. n /\ m + 1 # 0 /\ m + 1 - 1 = m
      BY <2>1
    <3>2. f[m + 1] = After(f[m], done[m + 1])
      BY <1>1, <3>1
    <3>3. g[m + 1] = After(g[m], more[m + 1])
      BY <1>2, <3>1
    <3>4. g[m] = f[m]
      BY <1>4, <2>1
    <3> QED
      BY <3>1, <3>2, <3>3, <3>4
  <2> QED
    BY <2>1
<1>5. n \in Good
  <2> HIDE DEF Good
  <2> QED  BY <1>3, <1>4, Reaches
<1> QED
  BY <1>5

(* A page in which nothing was done.                                       *)
LEMMA PageOfNone == PageAfter(<<>>) = Blank
<1>1. Len(<<>>) = 0 /\ Listed(<<>>)
  BY NoList
<1>2. PICK f : Unfolds(f, <<>>, 0) /\ PageAfter(<<>>) = f[0]
  BY <1>1, PageByUnfolding
<1> QED
  BY <1>2 DEF Unfolds

(* One more thing done changes the page that was.                          *)
LEMMA PageOfMore ==
  ASSUME NEW done, Listed(done), NEW d
  PROVE  Listed(Append(done, d)) /\ PageAfter(Append(done, d)) = After(PageAfter(done), d)
<1> DEFINE more == Append(done, d)
           n == Len(done)
<1>1. n \in Nat
  BY DEF Listed
<1>2. Listed(more) /\ Len(more) = n + 1 /\ more[n + 1] = d /\ \A i \in 1 .. n : more[i] = done[i]
  <2>1. PICK S : done \in Seq(S)
    BY DEF Listed
  <2>2. done \in Seq(S \cup {d}) /\ d \in S \cup {d}
    BY <2>1
  <2>3. /\ more \in Seq(S \cup {d})
        /\ Len(more) = n + 1 /\ more[n + 1] = d
        /\ \A i \in 1 .. n : more[i] = done[i]
    BY <2>2, AppendProperties
  <2> QED
    BY <2>3 DEF Listed
<1> HIDE DEF more
<1>3. PICK f : Unfolds(f, done, n) /\ PageAfter(done) = f[n]
  BY PageByUnfolding
<1>4. PICK g : Unfolds(g, more, n + 1) /\ PageAfter(more) = g[n + 1]
  BY <1>2, PageByUnfolding
<1>5. g[n] = f[n]
  <2>1. Unfolds(f, done, n) /\ Unfolds(g, more, n + 1) /\ \A i \in 1 .. n : more[i] = done[i]
    BY <1>2, <1>3, <1>4
  <2> HIDE DEF n
  <2> QED
    BY <1>1, <2>1, UnfoldingAlike
<1>6. g[n + 1] = After(g[n], more[n + 1])
  <2>1. n + 1 \in 0 .. n + 1 /\ n + 1 # 0 /\ n + 1 - 1 = n
    BY <1>1
  <2> QED
    BY <1>4, <2>1 DEF Unfolds
<1> QED
  BY <1>2, <1>3, <1>4, <1>5, <1>6 DEF more

(* A page with no bubble left pending and a panel of an answer or of none. *)
Clean(shown) ==
  /\ shown = [rows |-> shown.rows, panel |-> shown.panel, session |-> shown.session]
  /\ Listed(shown.rows) /\ NonePending(shown.rows) /\ PanelShape(shown.panel)
  /\ shown.panel = Empty \/ shown.panel.of \in Turns

(* A panel by its two fields.                                              *)
LEMMA PanelOf ==
  ASSUME NEW n, NEW b
  PROVE  PanelShape([of |-> n, banner |-> b]) /\ [of |-> n, banner |-> b].of = n
BY DEF PanelShape

(* Its banner is set or taken down.                                        *)
LEMMA BannerSet ==
  ASSUME NEW p, PanelShape(p), NEW b
  PROVE  [p EXCEPT !.banner = b] = [of |-> p.of, banner |-> b]
BY DEF PanelShape

(* Taking the banner down leaves the answer.                               *)
LEMMA BannerDown ==
  ASSUME NEW p, PanelShape(p)
  PROVE  /\ PanelShape([p EXCEPT !.banner = FALSE]) /\ [p EXCEPT !.banner = FALSE].of = p.of
         /\ p = Empty => [p EXCEPT !.banner = FALSE] = Empty
<1> DEFINE b == FALSE
           q == [p EXCEPT !.banner = b]
<1> HIDE DEF b, q
<1>1. q = [of |-> p.of, banner |-> b]
  BY BannerSet DEF q
<1>2. PanelShape(q) /\ q.of = p.of
  BY <1>1, PanelOf
<1>3. ASSUME p = Empty
      PROVE  q = Empty
  <2>1. Empty = [of |-> None, banner |-> b]
    BY DEF Empty, b
  <2>2. p.of = None
    BY <1>3, <2>1
  <2> QED
    BY <1>1, <2>1, <2>2
<1> QED
  BY <1>2, <1>3 DEF q, b

(* The empty panel is of no turn.                                          *)
LEMMA EmptyShape == PanelShape(Empty) /\ Empty.of = None
BY DEF PanelShape, Empty

Done(d) ==
  \/ d.out \in {"answer", "silencio"} /\ d.n \in Turns
  \/ d.out \in {"refused", "raised", "clear refused"}

(* A clean page stays clean, whatever is done in it.                       *)
LEMMA AfterClean ==
  ASSUME NEW shown, Clean(shown), NEW d, Done(d)
  PROVE  Clean(After(shown, d))
<1>1. After(shown, d).rows = shown.rows \o RowsOf(d)
      /\ After(shown, d).panel = PanelAfter(shown.panel, d)
  BY DEF After
<1>2. Listed(RowsOf(d)) /\ NonePending(RowsOf(d))
  <2>1. CASE d.out \in {"answer", "silencio"}
    <3>1. RowsOf(d) = AppendMessages(<<>>, d.n, "answer", d.thought)
      BY <2>1 DEF RowsOf
    <3> QED
      BY <3>1, NoList, MessageRows
  <2>2. CASE d.out \in {"refused", "raised"}
    <3>1. RowsOf(d) = AppendMessages(<<>>, d.n, "notice", <<>>)
      BY <2>2 DEF RowsOf
    <3> QED
      BY <3>1, NoList, MessageRows
  <2>3. CASE d.out = "clear refused"
    <3>1. RowsOf(d) = Row(None, "clear refused", <<>>)
      BY <2>3 DEF RowsOf
    <3> QED
      BY <3>1, OneRow
  <2> QED
    BY <2>1, <2>2, <2>3 DEF Done
<1>3. Listed(shown.rows \o RowsOf(d)) /\ NonePending(shown.rows \o RowsOf(d))
  BY <1>2, JoinedLists, JoinedRows DEF Clean
<1>4. /\ PanelShape(PanelAfter(shown.panel, d))
      /\ PanelAfter(shown.panel, d) = Empty \/ PanelAfter(shown.panel, d).of \in Turns
  <2>1. CASE d.out \in {"answer", "silencio"}
    <3>1. PanelAfter(shown.panel, d) = [of |-> d.n, banner |-> d.out = "silencio"]
      BY <2>1 DEF PanelAfter
    <3> DEFINE b == d.out = "silencio"
    <3> HIDE DEF b
    <3>2. PanelAfter(shown.panel, d) = [of |-> d.n, banner |-> b]
      BY <3>1 DEF b
    <3>3. d.n \in Turns
      BY <2>1 DEF Done
    <3> QED
      BY <3>2, <3>3, PanelOf
  <2>2. CASE d.out = "refused"
    <3>1. PanelAfter(shown.panel, d) = [shown.panel EXCEPT !.banner = FALSE]
      BY <2>2 DEF PanelAfter
    <3> QED
      BY <3>1, BannerDown DEF Clean
  <2>3. CASE d.out \notin {"answer", "silencio", "refused"}
    <3>1. PanelAfter(shown.panel, d) = Empty
      BY <2>3 DEF PanelAfter
    <3> QED
      BY <3>1, EmptyShape
  <2> QED
    BY <2>1, <2>2, <2>3
<1>5. After(shown, d) = [rows |-> After(shown, d).rows, panel |-> After(shown, d).panel,
                         session |-> After(shown, d).session]
  BY DEF After
<1> QED
  BY <1>1, <1>3, <1>4, <1>5 DEF Clean

(* The last frame of a turn, and a panel of what it shows.                 *)
LEMMA ShownMatches ==
  ASSUME NEW was, Snapshot(was.before, was.prior), was.box \in Boxes
  PROVE  /\ Listed(Shown(was).rows) /\ PanelShape(Shown(was).panel)
         /\ Shown(was).panel = Empty \/ HasAnswer(Shown(was).rows, Shown(was).panel.of)
<1>1. CASE was.box \in {"answer", "silencio"}
  <2>1. /\ Shown(was).rows = AppendMessages(was.before, was.n, "answer", ShownThought(was))
        /\ Shown(was).panel = [of |-> was.n, banner |-> was.box = "silencio"]
    BY <1>1 DEF Shown
  <2>2. PanelShape(Shown(was).panel) /\ Shown(was).panel.of = was.n
    BY <2>1 DEF PanelShape
  <2> QED
    BY <2>1, <2>2, MessageRows DEF Snapshot
<1>2. CASE was.box = "refused"
  <2>1. /\ Shown(was).rows = AppendMessages(was.before, was.n, "notice", <<>>)
        /\ Shown(was).panel = PriorInspector(was)
    BY <1>2 DEF Shown
  <2>2. CASE was.prior.of \in {None, Pending}
    BY <2>1, <2>2, EmptyShape, MessageRows DEF Snapshot, PriorInspector
  <2>3. CASE was.prior.of \notin {None, Pending}
    <3>1. Shown(was).panel = [was.prior EXCEPT !.banner = FALSE]
      BY <2>1, <2>3 DEF PriorInspector
    <3>2. PanelShape(Shown(was).panel) /\ Shown(was).panel.of = was.prior.of
      BY <3>1, BannerDown DEF Snapshot
    <3> QED
      BY <2>1, <2>3, <3>2, MessageRows DEF Snapshot
  <2> QED
    BY <2>2, <2>3
<1>3. CASE was.box = "raised"
  <2>1. /\ Shown(was).rows = AppendMessages(was.before, was.n, "notice", <<>>)
        /\ Shown(was).panel = Empty
    BY <1>3 DEF Shown
  <2> QED
    BY <2>1, EmptyShape, MessageRows DEF Snapshot
<1> QED
  BY <1>1, <1>2, <1>3 DEF Boxes

(* What a turn did, as it is remembered.                                   *)
DoneBy(was) == [n |-> was.n, out |-> was.box, thought |-> ShownThought(was)]

(* The last frame of a turn that found the page as it must be is the page  *)
(* as it must be.                                                          *)
LEMMA ShownAfter ==
  ASSUME NEW shown, Clean(shown), NEW was, was.box \in Boxes, was.n \in Turns,
         was.before = shown.rows, was.prior = shown.panel, was.session = shown.session
  PROVE  /\ Done(DoneBy(was))
         /\ Shown(was).rows = After(shown, DoneBy(was)).rows
         /\ Shown(was).panel = After(shown, DoneBy(was)).panel
         /\ Shown(was).session = After(shown, DoneBy(was)).session
<1> DEFINE d == DoneBy(was)
<1>1. d.n = was.n /\ d.out = was.box /\ d.thought = ShownThought(was)
  BY DEF DoneBy
<1> HIDE DEF d
<1>2. Done(d)
  BY <1>1 DEF Done, Boxes
<1>3. After(shown, d).rows = shown.rows \o RowsOf(d)
      /\ After(shown, d).panel = PanelAfter(shown.panel, d)
      /\ After(shown, d).session = SessionAfter(shown.session, d)
  BY DEF After
<1>4. CASE was.box \in {"answer", "silencio"}
  <2>1. /\ Shown(was).rows = AppendMessages(was.before, was.n, "answer", ShownThought(was))
        /\ Shown(was).panel = [of |-> was.n, banner |-> was.box = "silencio"]
        /\ Shown(was).session = IF was.session = None THEN was.n ELSE was.session
    BY <1>4 DEF Shown
  <2>2. RowsOf(d) = AppendMessages(<<>>, was.n, "answer", ShownThought(was))
    BY <1>1, <1>4 DEF RowsOf
  <2>3. Shown(was).rows = shown.rows \o RowsOf(d)
    <3> DEFINE found == shown.rows
               n == was.n
               thought == ShownThought(was)
    <3>1. Listed(found) /\ NonePending(found)
      BY DEF Clean
    <3> HIDE DEF found, n, thought
    <3>2. AppendMessages(found, n, "answer", thought)
            = found \o AppendMessages(<<>>, n, "answer", thought)
      BY <3>1, MessagesJoined
    <3> QED
      BY <2>1, <2>2, <3>2 DEF found, n, thought
  <2>4. PanelAfter(shown.panel, d) = Shown(was).panel
    BY <1>1, <1>4, <2>1 DEF PanelAfter
  <2>5. SessionAfter(shown.session, d) = Shown(was).session
    BY <1>1, <1>4, <2>1 DEF SessionAfter
  <2> QED
    BY <1>2, <1>3, <2>3, <2>4, <2>5 DEF d
<1>5. CASE was.box \in {"refused", "raised"}
  <2>1. Shown(was).rows = AppendMessages(was.before, was.n, "notice", <<>>)
        /\ Shown(was).session = was.session
    BY <1>5 DEF Shown
  <2>2. RowsOf(d) = AppendMessages(<<>>, was.n, "notice", <<>>)
    BY <1>1, <1>5 DEF RowsOf
  <2>3. Shown(was).rows = shown.rows \o RowsOf(d)
    <3> DEFINE found == shown.rows
               n == was.n
               thought == <<>>
    <3>1. Listed(found) /\ NonePending(found)
      BY DEF Clean
    <3> HIDE DEF found, n, thought
    <3>2. AppendMessages(found, n, "notice", thought)
            = found \o AppendMessages(<<>>, n, "notice", thought)
      BY <3>1, MessagesJoined
    <3> QED
      BY <2>1, <2>2, <3>2 DEF found, n, thought
  <2>4. PanelAfter(shown.panel, d) = Shown(was).panel
    <3>1. CASE was.box = "raised"
      BY <1>1, <3>1 DEF PanelAfter, Shown
    <3>2. CASE was.box = "refused"
      <4>1. PanelAfter(shown.panel, d) = [shown.panel EXCEPT !.banner = FALSE]
        BY <1>1, <3>2 DEF PanelAfter
      <4>2. Shown(was).panel = PriorInspector(was)
        BY <3>2 DEF Shown
      <4>3. CASE shown.panel = Empty
        <5>1. [shown.panel EXCEPT !.banner = FALSE] = Empty
          BY <4>3, BannerDown, EmptyShape
        <5> QED
          BY <4>1, <4>2, <4>3, <5>1, EmptyShape DEF PriorInspector
      <4>4. CASE shown.panel.of \in Turns
        <5>1. shown.panel.of \notin {None, Pending}
          BY <4>4, TabAssumption
        <5> QED
          BY <4>1, <4>2, <5>1 DEF PriorInspector
      <4> QED
        BY <4>3, <4>4 DEF Clean
    <3> QED
      BY <1>5, <3>1, <3>2
  <2>5. SessionAfter(shown.session, d) = Shown(was).session
    BY <1>1, <1>5, <2>1 DEF SessionAfter
  <2> QED
    BY <1>2, <1>3, <2>3, <2>4, <2>5 DEF d
<1> QED
  BY <1>4, <1>5 DEF Boxes
-----------------------------------------------------------------------------
(* The steps.                                                              *)

HistInv ==
  /\ Listed(asked) /\ Clean(PageAfter(asked))
  /\ ~mixed => Agrees(PageAfter(asked))

(* The history, from the page it unfolds to.                               *)
LEMMA HistBy ==
  ASSUME Listed(asked'), NEW shown, shown = PageAfter(asked'), Clean(shown),
         ~mixed' => Agrees(shown)'
  PROVE  HistInv'
BY DEF HistInv, Agrees

(* The record of a turn is not the absent one.                             *)
LEMMA IsATurn ==
  ASSUME NEW w, w.n \in Turns
  PROVE  w # NoTurn
BY TabAssumption DEF NoTurn

(* A page just opened.                                                     *)
LEMMA PageInit == Init => PageInv /\ HistInv
<1> SUFFICES ASSUME Init PROVE PageInv /\ HistInv
  OBVIOUS
<1>1. /\ rows = <<>> /\ panel = Empty /\ phase = "" /\ session = None /\ queued = <<>>
      /\ turn = NoTurn /\ clearing = None /\ asked = <<>>
  BY DEF Init
<1>2. PageInv
  BY <1>1, NoList, EmptyShape DEF PageInv, Matches
<1>3. /\ PageAfter(asked) = Blank
      /\ Blank.rows = <<>> /\ Blank.panel = Empty /\ Blank.session = None
  BY <1>1, PageOfNone DEF Blank
<1>4. Clean(PageAfter(asked))
  <2>1. Blank = [rows |-> Blank.rows, panel |-> Blank.panel, session |-> Blank.session]
    BY DEF Blank
  <2> QED
    BY <1>3, <2>1, NoList, EmptyShape DEF Clean, NonePending
<1> QED
  BY <1>1, <1>2, <1>3, <1>4, NoList DEF HistInv, Agrees

(* A last frame takes the turn away.                                       *)
LEMMA PageNext ==
  ASSUME RecInv, PageInv, [Next]_vars
  PROVE  PageInv'
<1>0. turn # NoTurn => /\ Shaped(turn) /\ turn.n \in Turns
                       /\ turn.cons = "first" => turn.at = "none"
                       /\ turn.cons = "last" => turn.at = "done"
  BY DEF RecInv, Runs
<1>a. ASSUME UNCHANGED <<rows, panel, phase, turn, queued, clearing>>
      PROVE  PageInv'
  BY <1>a DEF PageInv, Matches
<1>b. ASSUME rows' = <<>>, panel' = Empty, phase' = "", clearing' = None,
             UNCHANGED <<turn, queued>> \/ (turn' = NoTurn /\ queued' = <<>>)
      PROVE  PageInv'
  BY <1>b, NoList, EmptyShape DEF PageInv, Matches
<1>1. CASE Submit
  <2>1. /\ queued' = <<[n |-> count + 1, before |-> rows, prior |-> panel]>>
        /\ UNCHANGED <<rows, panel, phase, turn, clearing>>
    BY <1>1 DEF Submit, page
  <2>2. Snapshot(rows, panel)
    <3>1. Empty.of = None
      BY EmptyShape
    <3> QED
      BY <3>1 DEF PageInv, Snapshot, Matches
  <2>3. queued'[1].before = rows /\ queued'[1].prior = panel
    BY <2>1
  <2>4. Snapshot(queued'[1].before, queued'[1].prior)
    BY <2>2, <2>3
  <2> QED
    BY <2>1, <2>4 DEF PageInv, Matches
<1>2. CASE Begin
  <2> DEFINE q == queued[1]
  <2>1. /\ turn = NoTurn /\ queued # <<>> /\ queued' = <<>> /\ UNCHANGED clearing
        /\ turn'.n = q.n /\ turn'.before = q.before /\ turn'.prior = q.prior /\ turn'.at = "none"
        /\ rows' = AppendPending(q.before, q.n, <<>>)
        /\ panel' = [of |-> Pending, banner |-> FALSE]
    BY <1>2 DEF Begin
  <2>2. Snapshot(q.before, q.prior) /\ q.n \in Turns
    BY <2>1 DEF PageInv, RecInv, Waits
  <2>3. Listed(rows')
    BY <2>1, <2>2, PendingRows DEF Snapshot
  <2>4. PanelShape(panel') /\ panel'.of = Pending
    BY <2>1 DEF PanelShape
  <2>5. turn' # NoTurn
    BY <2>1, <2>2, IsATurn
  <2> QED
    BY <2>1, <2>2, <2>3, <2>4, <2>5 DEF PageInv
<1>3. CASE Produce
  <2>1. TaskSteps
    BY <1>0, <1>3, ProduceSteps
  <2>2. /\ turn # NoTurn /\ Same(turn', turn) /\ UNCHANGED <<rows, panel, phase, queued, clearing>>
        /\ turn'.at = "done" => turn'.box \in Boxes
    BY <2>1 DEF TaskSteps, page, calls, Moved, Boxes, Running
  <2>3. turn' # NoTurn
    BY <1>0, <2>2, IsATurn DEF Same
  <2> QED
    BY <2>2, <2>3 DEF PageInv, Same
<1>4. CASE Consume
  <2>1. PageSteps
    BY <1>0, <1>4, ConsumeSteps
  <2>2. turn # NoTurn /\ UNCHANGED <<queued, clearing>>
    BY <2>1 DEF PageSteps, calls
  <2>3. CASE turn.cons = "first" /\ Same(turn', turn) /\ turn'.at = "created" /\ UNCHANGED page
    <3>1. turn' # NoTurn
      BY <1>0, <2>2, <2>3, IsATurn DEF Same
    <3> QED
      BY <2>2, <2>3, <3>1 DEF PageInv, Same, page
  <2>4. CASE Same(turn', turn) /\ turn'.at = turn.at /\ turn'.box = turn.box /\ Shows
    <3>1. turn' # NoTurn
      BY <1>0, <2>2, <2>4, IsATurn DEF Same
    <3>2. Listed(rows') /\ UNCHANGED panel
      BY <2>2, <2>4, PendingRows DEF Shows, PageInv, Snapshot, page
    <3> QED
      BY <2>2, <2>4, <3>1, <3>2 DEF PageInv, Same
  <2>5. ASSUME turn.at = "done", NEW was, Same(was, turn), was.box = turn.box, Conclude(was)
        PROVE  PageInv'
    <3>1. Snapshot(was.before, was.prior) /\ was.box \in Boxes
      BY <2>2, <2>5 DEF PageInv, Same
    <3>2. rows' = Shown(was).rows /\ panel' = Shown(was).panel /\ phase' = "" /\ turn' = NoTurn
      BY <2>5 DEF Conclude
    <3>3. Listed(rows') /\ PanelShape(panel') /\ Matches'
      BY <3>1, <3>2, ShownMatches DEF Matches
    <3> QED
      BY <2>2, <3>2, <3>3 DEF PageInv
  <2> QED
    BY <1>0, <2>1, <2>3, <2>4, <2>5 DEF PageSteps
<1>5. CASE ClearAsked
  <2>1. clearing' = [rows |-> rows, session |-> session]
        /\ UNCHANGED <<rows, panel, phase, turn, queued>>
    BY <1>5 DEF ClearAsked, page
  <2>2. clearing'.rows = rows
    BY <2>1
  <2> QED
    BY <2>1, <2>2 DEF PageInv, Matches
<1>6. CASE Cleared
  BY <1>b, <1>6 DEF Cleared
<1>7. CASE ClearRefused
  <2>1. /\ clearing # None /\ rows' = clearing.rows \o Row(None, "clear refused", <<>>)
        /\ panel' = Empty /\ phase' = "" /\ clearing' = None /\ UNCHANGED <<turn, queued>>
    BY <1>7 DEF ClearRefused
  <2>2. Listed(rows')
    BY <2>1, OneRow, JoinedLists DEF PageInv
  <2> QED
    BY <2>1, <2>2, EmptyShape DEF PageInv, Matches
<1>8. CASE Browse \/ Expire \/ Judging
  BY <1>a, <1>8 DEF Browse, Expire, Judging, calls, page
<1>9. CASE Reload \/ Stop
  BY <1>b, <1>9 DEF Reload, Stop, Forgotten
<1>10. CASE UNCHANGED vars
  BY <1>a, <1>10 DEF vars, calls, page
<1> QED
  BY <1>1, <1>2, <1>3, <1>4, <1>5, <1>6, <1>7, <1>8, <1>9, <1>10 DEF Next

(* What was asked, and the page it was asked from.                         *)
LEMMA HistNext ==
  ASSUME RecInv, PageInv, HistInv, [Next]_vars
  PROVE  HistInv'
<1>0. turn # NoTurn => /\ Shaped(turn) /\ turn.n \in Turns
                       /\ turn.cons = "first" => turn.at = "none"
                       /\ turn.cons = "last" => turn.at = "done"
  BY DEF RecInv, Runs
<1>p. PICK p : p = PageAfter(asked)
  OBVIOUS
<1>s. Listed(asked) /\ Clean(p) /\ (~mixed => Agrees(p))
  BY <1>p DEF HistInv
<1>a. ASSUME UNCHANGED <<rows, panel, session, turn, queued, clearing, asked, mixed>>
      PROVE  HistInv'
  BY <1>a DEF HistInv, Agrees
<1>b. ASSUME rows' = <<>>, panel' = Empty, session' = None,
             turn' = NoTurn, queued' = <<>>, clearing' = None, asked' = <<>>
      PROVE  HistInv'
  <2>1. Blank.rows = <<>> /\ Blank.panel = Empty /\ Blank.session = None
    BY DEF Blank
  <2>2. Clean(Blank)
    <3>1. Blank = [rows |-> Blank.rows, panel |-> Blank.panel, session |-> Blank.session]
      BY DEF Blank
    <3> QED
      BY <2>1, <3>1, NoList, EmptyShape DEF Clean, NonePending
  <2>3. Agrees(Blank)'
    BY <1>b, <2>1 DEF Agrees
  <2>4. Blank = PageAfter(asked') /\ Listed(asked')
    BY <1>b, PageOfNone, NoList
  <2> QED
    BY <2>2, <2>3, <2>4, HistBy
<1>c. ASSUME asked' = asked, ~mixed' => Agrees(p)'
      PROVE  HistInv'
  BY <1>c, <1>p, <1>s, HistBy
<1>d. ASSUME NEW d, Done(d), asked' = Append(asked, d), ~mixed' => Agrees(After(p, d))'
      PROVE  HistInv'
  <2>1. Listed(asked') /\ PageAfter(asked') = After(p, d)
    BY <1>d, <1>p, <1>s, PageOfMore
  <2>2. PICK q : q = After(p, d)
    OBVIOUS
  <2>3. Clean(q)
    BY <1>d, <1>s, <2>2, AfterClean
  <2>4. ~mixed' => Agrees(q)'
    BY <1>d, <2>2
  <2> QED
    BY <2>1, <2>2, <2>3, <2>4, HistBy
<1>1. CASE Submit
  <2>1. /\ queued' = <<[n |-> count + 1, before |-> rows, prior |-> panel]>>
        /\ mixed' = (mixed \/ Busy)
        /\ UNCHANGED <<rows, panel, session, turn, clearing, asked>>
    BY <1>1 DEF Submit, page
  <2>2. queued'[1].before = rows /\ queued'[1].prior = panel
    BY <2>1
  <2>3. ASSUME ~mixed' PROVE Agrees(p)'
    <3>1. ~mixed /\ turn = NoTurn /\ clearing = None
      BY <2>1, <2>3 DEF Busy
    <3>2. rows = p.rows /\ panel = p.panel /\ session = p.session
      BY <1>s, <3>1 DEF Agrees
    <3> QED
      BY <2>1, <2>2, <3>1, <3>2 DEF Agrees
  <2> QED
    BY <1>c, <2>1, <2>3
<1>2. CASE Begin
  <2> DEFINE q == queued[1]
  <2>1. /\ turn = NoTurn /\ queued # <<>> /\ queued' = <<>>
        /\ turn'.n = q.n /\ turn'.before = q.before /\ turn'.prior = q.prior
        /\ turn'.session = session
        /\ UNCHANGED <<session, clearing, asked, mixed>>
    BY <1>2 DEF Begin, history
  <2>2. q.n \in Turns
    BY <2>1 DEF RecInv, Waits
  <2>3. turn' # NoTurn
    BY <2>1, <2>2, IsATurn
  <2>4. ASSUME ~mixed' PROVE Agrees(p)'
    <3>1. /\ clearing = None /\ session = p.session
          /\ q.before = p.rows /\ q.prior = p.panel
      BY <1>s, <2>1, <2>4 DEF Agrees
    <3> QED
      BY <2>1, <2>3, <3>1 DEF Agrees
  <2> QED
    BY <1>c, <2>1, <2>4
<1>3. CASE Produce
  <2>1. TaskSteps
    BY <1>0, <1>3, ProduceSteps
  <2>2. /\ turn # NoTurn /\ Same(turn', turn)
        /\ UNCHANGED <<rows, panel, session, queued, clearing, asked, mixed>>
    BY <2>1 DEF TaskSteps, page, calls, history, Moved
  <2>3. turn' # NoTurn
    BY <1>0, <2>2, IsATurn DEF Same
  <2>4. ~mixed' => Agrees(p)'
    BY <1>s, <2>2, <2>3 DEF Agrees, Same
  <2> QED
    BY <1>c, <2>2, <2>4
<1>4. CASE Consume
  <2>1. PageSteps
    BY <1>0, <1>4, ConsumeSteps
  <2>2. turn # NoTurn /\ UNCHANGED <<queued, clearing, mixed>>
    BY <2>1 DEF PageSteps, calls
  <2>3. CASE Same(turn', turn) /\ UNCHANGED asked
    <3>1. turn' # NoTurn
      BY <1>0, <2>2, <2>3, IsATurn DEF Same
    <3>2. ~mixed' => Agrees(p)'
      BY <1>s, <2>2, <2>3, <3>1 DEF Agrees, Same
    <3> QED
      BY <1>c, <2>3, <3>2
  <2>4. ASSUME turn.at = "done", NEW was, Same(was, turn), was.box = turn.box, Conclude(was)
        PROVE  HistInv'
    <3>1. was.box \in Boxes /\ was.n \in Turns
      BY <1>0, <2>2, <2>4 DEF PageInv, Same
    <3>2. /\ rows' = Shown(was).rows /\ panel' = Shown(was).panel /\ session' = Shown(was).session
          /\ turn' = NoTurn /\ asked' = Append(asked, DoneBy(was))
      BY <2>4 DEF Conclude, DoneBy
    <3>3. Done(DoneBy(was))
      <4>1. DoneBy(was).n = was.n /\ DoneBy(was).out = was.box
        BY DEF DoneBy
      <4> QED
        BY <3>1, <4>1 DEF Done, Boxes
    <3>4. ASSUME ~mixed' PROVE Agrees(After(p, DoneBy(was)))'
      <4>1. /\ queued = <<>> /\ clearing = None
            /\ was.before = p.rows /\ was.prior = p.panel /\ was.session = p.session
        BY <1>s, <2>2, <2>4, <3>4 DEF Agrees, Same
      <4>2. /\ Shown(was).rows = After(p, DoneBy(was)).rows
            /\ Shown(was).panel = After(p, DoneBy(was)).panel
            /\ Shown(was).session = After(p, DoneBy(was)).session
        BY <1>s, <3>1, <4>1, ShownAfter
      <4> QED
        BY <2>2, <3>2, <4>1, <4>2 DEF Agrees
    <3> QED
      BY <1>d, <3>2, <3>3, <3>4
  <2> QED
    BY <1>0, <2>1, <2>3, <2>4 DEF PageSteps
<1>5. CASE ClearAsked
  <2>1. /\ clearing' = [rows |-> rows, session |-> session]
        /\ mixed' = (mixed \/ Busy)
        /\ UNCHANGED <<rows, panel, session, turn, queued, asked>>
    BY <1>5 DEF ClearAsked, page
  <2>2. clearing'.rows = rows /\ clearing'.session = session
    BY <2>1
  <2>3. ASSUME ~mixed' PROVE Agrees(p)'
    <3>1. ~mixed /\ turn = NoTurn /\ queued = <<>>
      BY <2>1, <2>3 DEF Busy
    <3>2. rows = p.rows /\ panel = p.panel /\ session = p.session
      BY <1>s, <3>1 DEF Agrees
    <3> QED
      BY <2>1, <2>2, <3>1, <3>2 DEF Agrees
  <2> QED
    BY <1>c, <2>1, <2>3
<1>6. CASE Cleared
  <2>1. /\ clearing # None /\ rows' = <<>> /\ session' = None /\ panel' = Empty /\ clearing' = None
        /\ UNCHANGED <<turn, queued>>
        /\ IF turn = NoTurn /\ queued = <<>> THEN asked' = <<>> /\ mixed' = FALSE
           ELSE UNCHANGED history
    BY <1>6 DEF Cleared
  <2>2. CASE turn = NoTurn /\ queued = <<>>
    BY <1>b, <2>1, <2>2
  <2>3. CASE ~(turn = NoTurn /\ queued = <<>>)
    <3>1. asked' = asked /\ mixed' = mixed
      BY <2>1, <2>3 DEF history
    <3>2. mixed
      BY <1>s, <2>1, <2>3 DEF Agrees
    <3> QED
      BY <1>c, <3>1, <3>2
  <2> QED
    BY <2>2, <2>3
<1>7. CASE ClearRefused
  <2> DEFINE d == [n |-> None, out |-> "clear refused", thought |-> <<>>]
  <2>1. /\ clearing # None /\ rows' = clearing.rows \o Row(None, "clear refused", <<>>)
        /\ session' = clearing.session /\ panel' = Empty /\ clearing' = None
        /\ asked' = Append(asked, d)
        /\ UNCHANGED <<turn, queued, mixed>>
    BY <1>7 DEF ClearRefused
  <2>2. d.out = "clear refused" /\ Done(d)
    BY DEF Done
  <2> HIDE DEF d
  <2>3. /\ After(p, d).rows = p.rows \o Row(None, "clear refused", <<>>)
        /\ After(p, d).panel = Empty
        /\ After(p, d).session = p.session
    BY <2>2 DEF After, RowsOf, PanelAfter, SessionAfter
  <2>4. ASSUME ~mixed' PROVE Agrees(After(p, d))'
    <3>1. /\ turn = NoTurn /\ queued = <<>>
          /\ clearing.rows = p.rows /\ clearing.session = p.session
      BY <1>s, <2>1, <2>4 DEF Agrees
    <3> QED
      BY <2>1, <2>3, <3>1 DEF Agrees
  <2> QED
    BY <1>d, <2>1, <2>2, <2>4
<1>8. CASE Browse \/ Expire \/ Judging
  BY <1>a, <1>8 DEF Browse, Expire, Judging, calls, page, history
<1>9. CASE Reload \/ Stop
  BY <1>b, <1>9 DEF Reload, Stop, Forgotten
<1>10. CASE UNCHANGED vars
  BY <1>a, <1>10 DEF vars, calls, page, history
<1> QED
  BY <1>1, <1>2, <1>3, <1>4, <1>5, <1>6, <1>7, <1>8, <1>9, <1>10 DEF Next

(* When nothing runs, the panel is empty or is of an answer the page       *)
(* shows, however turns, clears and sign-outs overlapped (the snapshots of *)
(* chat_fn_stream and clear_fn), for any number of turns.                  *)
THEOREM PanelsOfWhatIsShown == Spec => []PanelMatchesRows
<1>1. RecInv /\ PageInv => PanelMatchesRows
  BY DEF PageInv, Matches, HasAnswer, PanelMatchesRows, Idle, Busy
<1>2. Init => RecInv /\ PageInv
  BY RecInit, PageInit
<1>3. RecInv /\ PageInv /\ [Next]_vars => RecInv' /\ PageInv'
  BY RecNext, PageNext
<1> QED
  BY <1>1, <1>2, <1>3, PTL DEF Spec

(* When nothing runs, a page whose calls did not overlap shows exactly     *)
(* what was asked since the last clear: its rows and session are those     *)
(* that the outcomes give one after the other, no phase is left, and so is *)
(* its panel, unless a refused clear emptied it and nothing came after.    *)
THEOREM PagesAsAsked == Spec => []TabShowsWhatWasAsked
<1>1. PageInv /\ HistInv => TabShowsWhatWasAsked
  <2> DEFINE shown == PageAfter(asked)
  <2> SUFFICES ASSUME PageInv, HistInv, Idle, ~mixed
               PROVE  rows = shown.rows /\ session = shown.session /\ phase = ""
                      /\ panel = shown.panel
    BY DEF TabShowsWhatWasAsked
  <2>1. turn = NoTurn
    BY DEF Idle, Busy
  <2>2. Clean(shown) /\ Agrees(shown)
    BY DEF HistInv
  <2> HIDE DEF shown
  <2> QED
    BY <2>1, <2>2 DEF Clean, Agrees, PageInv
<1>2. Init => RecInv /\ PageInv /\ HistInv
  BY RecInit, PageInit
<1>3. RecInv /\ PageInv /\ HistInv /\ [Next]_vars => RecInv' /\ PageInv' /\ HistInv'
  BY RecNext, PageNext, HistNext
<1> QED
  BY <1>1, <1>2, <1>3, PTL DEF Spec

-----------------------------------------------------------------------------
(* The thoughts.  What was held is what is left at the end, and a last     *)
(* frame shows it.                                                         *)

Thinks(w) ==
  /\ w.held = <<>> => w.latest = <<>> /\ w.seenTrace = <<>>
  /\ w.at = "done" /\ w.held # <<>> => w.latest = w.held
  /\ w.cons = "last" => w.at = "done" /\ w.seenTrace = Trace(w)

Carries(v, w) ==
  /\ Shaped(v) /\ v.held = w.held /\ v.latest = w.latest /\ v.seenTrace = w.seenTrace
  /\ v.staff = w.staff /\ v.cons = w.cons

(* A step before the end that leaves the thoughts.                         *)
LEMMA CarriedThoughts ==
  ASSUME NEW v, NEW w, Thinks(w), Carries(v, w), w.at # "done", v.at # "done"
  PROVE  Thinks(v)
BY DEF Thinks, Carries, Trace

(* At the end the thought that was held is left.                           *)
LEMMA EndThinks ==
  ASSUME NEW w, Shaped(w), Thinks(w), w.at # "done", NEW box
  PROVE  Thinks(Ended(w, box))
<1> DEFINE u == Unread(w)
           v == [u EXCEPT !.at = "done", !.box = box, !.event = TRUE,
                          !.latest = IF w.held # <<>> THEN w.held ELSE @]
<1>1. Carries(u, w)
  BY DEF Unread, Carries, Shaped, Fields
<1> HIDE DEF u
<1>2. /\ v.at = "done" /\ v.held = u.held /\ v.seenTrace = u.seenTrace /\ v.cons = u.cons
      /\ v.latest = IF w.held # <<>> THEN w.held ELSE u.latest
  BY <1>1 DEF Carries, Shaped, Fields
<1>3. Ended(w, box) = v
  BY DEF Ended, u
<1> HIDE DEF v
<1>4. w.cons # "last"
  BY DEF Thinks
<1>5. v.held = w.held /\ v.seenTrace = w.seenTrace /\ v.cons = w.cons
      /\ v.latest = IF w.held # <<>> THEN w.held ELSE w.latest
  BY <1>1, <1>2 DEF Carries
<1> QED
  BY <1>2, <1>3, <1>4, <1>5 DEF Thinks

(* The steps of the task.                                                  *)
LEMMA ProduceThinks ==
  ASSUME Produce, turn # NoTurn => Shaped(turn) /\ Thinks(turn)
  PROVE  Thinks(turn')
<1>0. Shaped(turn) /\ Thinks(turn) /\ turn.at # "done"
  BY DEF Produce, Refuse, Admit, Abstain, Raise, Retrieve, Generate, Receive, Verify, Answer, At
<1>1. CASE Refuse \/ Raise
  BY <1>0, <1>1, EndThinks DEF Refuse, Raise
<1>2. CASE Admit
  <2>1. turn' = [turn EXCEPT !.at = "admitted"]
    BY <1>2 DEF Admit
  <2>2. Carries(turn', turn) /\ turn'.at = "admitted"
    BY <1>0, <2>1 DEF Carries, Shaped, Fields
  <2> QED
    BY <1>0, <2>2, CarriedThoughts
<1>3. CASE Abstain \/ Answer
  <2>1. PICK thinking, kind : turn' = Ended([turn EXCEPT !.thinking = thinking], kind)
    BY <1>3 DEF Abstain, Answer, Respond
  <2> DEFINE w == [turn EXCEPT !.thinking = thinking]
  <2>2. Carries(w, turn) /\ w.at = turn.at
    BY <1>0 DEF Carries, Shaped, Fields
  <2> HIDE DEF w
  <2>3. Thinks(w) /\ Shaped(w)
    BY <1>0, <2>2, CarriedThoughts DEF Carries
  <2>4. Thinks(Ended(w, kind))
    BY <1>0, <2>2, <2>3, EndThinks
  <2> QED
    BY <2>1, <2>4 DEF w
<1>4. CASE Retrieve \/ Generate
  <2>1. \/ turn' = Entered(turn, "retrieve")
        \/ \E wire : turn' = [Entered(turn, "generate") EXCEPT !.wire = wire]
    BY <1>4 DEF Retrieve, Generate
  <2>2. Carries(turn', turn) /\ turn'.at \in {"retrieve", "generate"}
    BY <1>0, <2>1 DEF Carries, Shaped, Fields, Entered
  <2> QED
    BY <1>0, <2>2, CarriedThoughts
<1>5. CASE Verify
  <2>1. PICK thinking : turn' = [Entered(Unread(turn), "verify") EXCEPT !.thinking = thinking]
    BY <1>5 DEF Verify
  <2> DEFINE u == Unread(turn)
  <2>2. Carries(u, turn)
    BY <1>0 DEF Unread, Carries, Shaped, Fields
  <2> HIDE DEF u
  <2>3. turn' = [Entered(u, "verify") EXCEPT !.thinking = thinking]
    BY <2>1 DEF u
  <2>4. Carries(turn', turn) /\ turn'.at = "verify"
    BY <2>2, <2>3 DEF Carries, Shaped, Fields, Entered
  <2> QED
    BY <1>0, <2>4, CarriedThoughts
<1>6. CASE Receive
  <2> DEFINE asm == Feed(turn.asm, turn.wire[turn.got + 1])
             next == [turn EXCEPT !.asm = asm, !.got = @ + 1]
             text == Visible(asm)
  <2>1. Carries(next, turn) /\ next.at = turn.at
    BY <1>0 DEF Carries, Shaped, Fields
  <2>2. turn' = next \/ (text # <<>> /\ \E ready : turn' = Thought(next, text, ready))
    BY <1>6 DEF Receive
  <2> HIDE DEF next, text
  <2>3. CASE turn' = next
    BY <1>0, <2>1, <2>3, CarriedThoughts
  <2>4. ASSUME text # <<>>, NEW ready, turn' = Thought(next, text, ready)
        PROVE  Thinks(turn')
    <3>1. turn'.held = text /\ turn'.at = next.at /\ turn'.cons = next.cons
      BY <2>1, <2>4 DEF Thought, Carries, Shaped, Fields
    <3>2. next.cons # "last"
      BY <1>0, <2>1 DEF Thinks, Carries
    <3> QED
      BY <1>0, <2>1, <2>4, <3>1, <3>2 DEF Thinks
  <2> QED
    BY <2>2, <2>3, <2>4
<1> QED
  BY <1>1, <1>2, <1>3, <1>4, <1>5, <1>6 DEF Produce

(* A frame that is not the last leaves the thoughts; the last has them.    *)
LEMMA CheckThinks ==
  ASSUME NEW was, Shaped(was), Thinks(was), was.cons # "last", Check(was)
  PROVE  \/ Thinks(turn') /\ turn'.n = was.n
         \/ Conclude(was) /\ (was.staff => was.seenTrace = was.held)
<1>1. CASE was.at # "done"
  <2>1. turn' = [was EXCEPT !.cons = "waits"]
    BY <1>1 DEF Check
  <2>2. /\ turn'.held = was.held /\ turn'.latest = was.latest /\ turn'.seenTrace = was.seenTrace
        /\ turn'.at = was.at /\ turn'.cons = "waits" /\ turn'.n = was.n
    BY <2>1 DEF Shaped, Fields
  <2> QED
    BY <2>2 DEF Thinks
<1>2. CASE was.at = "done" /\ Trace(was) # <<>> /\ Trace(was) # was.seenTrace
  <2>1. turn' = [was EXCEPT !.cons = "last", !.seenTrace = Trace(was), !.seenPhase = was.phase]
    BY <1>2 DEF Check, Paint
  <2>2. /\ turn'.held = was.held /\ turn'.latest = was.latest /\ turn'.seenTrace = Trace(was)
        /\ turn'.at = was.at /\ turn'.cons = "last" /\ turn'.staff = was.staff
        /\ turn'.n = was.n
    BY <2>1 DEF Shaped, Fields
  <2>3. was.held # <<>>
    BY <1>2 DEF Thinks, Trace
  <2> QED
    BY <1>2, <2>2, <2>3 DEF Thinks, Trace
<1>3. CASE was.at = "done" /\ ~(Trace(was) # <<>> /\ Trace(was) # was.seenTrace)
  <2>1. Conclude(was)
    BY <1>3 DEF Check
  <2>2. ASSUME was.staff PROVE was.seenTrace = was.held
    BY <1>3, <2>2 DEF Thinks, Trace
  <2> QED
    BY <2>1, <2>2
<1> QED
  BY <1>1, <1>2, <1>3

(* The steps of the generator.                                             *)
LEMMA ConsumeThinks ==
  ASSUME Consume, Shaped(turn), Thinks(turn)
  PROVE  \/ Thinks(turn') /\ turn'.n = turn.n
         \/ turn' = NoTurn /\ (turn.staff => turn.seenTrace = turn.held)
<1>1. CASE Wake
  <2> DEFINE was == [turn EXCEPT !.event = FALSE]
  <2>1. Carries(was, turn) /\ was.at = turn.at /\ was.n = turn.n
    BY DEF Carries, Shaped, Fields
  <2>2. turn.cons = "waits"
    BY <1>1 DEF Wake
  <2>3. Paint(was, Trace(was), "painted") \/ Check(was)
    BY <1>1 DEF Wake
  <2> HIDE DEF was
  <2>4. Thinks(was) /\ Shaped(was) /\ was.cons # "last"
    BY <2>1, <2>2 DEF Carries, Thinks
  <2>5. CASE Paint(was, Trace(was), "painted")
    <3>1. turn' = [was EXCEPT !.cons = "painted", !.seenTrace = Trace(was), !.seenPhase = was.phase]
      BY <2>5 DEF Paint
    <3>2. /\ turn'.held = was.held /\ turn'.latest = was.latest /\ turn'.seenTrace = Trace(was)
          /\ turn'.at = was.at /\ turn'.cons = "painted" /\ turn'.n = was.n
      BY <2>4, <3>1 DEF Shaped, Fields
    <3> QED
      BY <2>1, <2>4, <3>2 DEF Thinks, Trace
  <2>6. CASE Check(was)
    BY <2>1, <2>4, <2>6, CheckThinks DEF Carries, Conclude
  <2> QED
    BY <2>3, <2>5, <2>6
<1>2. CASE turn.cons = "first" /\ turn' = [turn EXCEPT !.cons = "waits", !.at = "created"]
  <2>1. /\ turn'.held = turn.held /\ turn'.latest = turn.latest /\ turn'.seenTrace = turn.seenTrace
        /\ turn'.at = "created" /\ turn'.cons = "waits" /\ turn'.n = turn.n
    BY <1>2 DEF Shaped, Fields
  <2> QED
    BY <2>1 DEF Thinks
<1>3. CASE turn.cons = "painted" /\ Check(turn)
  BY <1>3, CheckThinks DEF Conclude
<1>4. CASE turn.cons = "last" /\ Conclude(turn)
  <2>1. ASSUME turn.staff PROVE turn.seenTrace = turn.held
    BY <1>4, <2>1 DEF Thinks, Trace
  <2> QED
    BY <1>4, <2>1 DEF Conclude
<1> QED
  BY <1>1, <1>2, <1>3, <1>4 DEF Consume, Resume

ThinkInv == turn # NoTurn => Thinks(turn)

(* Staff are shown the last thought the model sent before the answer takes *)
(* its place, although thoughts are held back (produce's finally and the   *)
(* last frame of the generator), whatever the stream was.                  *)
THEOREM LastThoughtsAreShown == Spec => LastThoughtShown
<1>1. Init => RecInv /\ ThinkInv
  BY RecInit DEF Init, ThinkInv
<1>2. ASSUME RecInv, ThinkInv, [Next]_vars
      PROVE  /\ ThinkInv'
             /\ turn # NoTurn /\ turn' = NoTurn /\ asked' # asked /\ asked' # <<>> /\ turn.staff =>
                  turn.seenTrace = turn.held
  <2>0. turn # NoTurn => Shaped(turn) /\ Thinks(turn)
    BY <1>2 DEF RecInv, Runs, ThinkInv
  <2>1. CASE Begin
    <3> DEFINE staff == cookie = "live" /\ layout = "staff"
    <3>1. turn = NoTurn /\ turn'.held = <<>> /\ turn'.latest = <<>> /\ turn'.seenTrace = <<>>
          /\ turn'.at = "none" /\ turn'.cons = "first"
      BY <2>1 DEF Begin
    <3> QED
      BY <3>1 DEF ThinkInv, Thinks
  <2>2. CASE Produce
    <3>1. turn # NoTurn /\ asked' = asked /\ Thinks(turn')
      BY <2>0, <2>2, ProduceThinks, ProduceSteps DEF TaskSteps, history
    <3> QED
      BY <3>1 DEF ThinkInv
  <2>3. CASE Consume
    <3>1. turn # NoTurn
      BY <2>3 DEF Consume, Wake, Resume
    <3>2. CASE Thinks(turn') /\ turn'.n = turn.n
      <4>1. turn' # NoTurn
        BY <1>2, <3>1, <3>2, IsATurn DEF RecInv, Runs
      <4> QED
        BY <3>2, <4>1 DEF ThinkInv
    <3>3. CASE turn' = NoTurn /\ (turn.staff => turn.seenTrace = turn.held)
      BY <3>3 DEF ThinkInv
    <3> QED
      BY <2>0, <2>3, <3>1, <3>2, <3>3, ConsumeThinks
  <2>4. CASE Submit \/ ClearAsked \/ Cleared \/ ClearRefused \/ Browse \/ Expire \/ Judging
             \/ UNCHANGED vars
    <3>1. turn' = turn
      BY <2>4 DEF Submit, ClearAsked, Cleared, ClearRefused, Browse, Expire, Judging, vars
    <3> QED
      BY <1>2, <3>1 DEF ThinkInv
  <2>5. CASE Reload \/ Stop
    BY <2>5 DEF Reload, Stop, Forgotten, ThinkInv
  <2> QED
    BY <1>2, <2>1, <2>2, <2>3, <2>4, <2>5 DEF Next
<1>3. RecInv /\ ThinkInv /\ [Next]_vars =>
        RecInv' /\ ThinkInv'
        /\ [turn # NoTurn /\ turn' = NoTurn /\ asked' # asked /\ asked' # <<>> /\ turn.staff =>
              turn.seenTrace = turn.held]_vars
  BY <1>2, RecNext
<1> QED
  BY <1>1, <1>3, PTL DEF Spec, LastThoughtShown
-----------------------------------------------------------------------------
(* The texts of a stream.  What the reference reads: the function exists,  *)
(* and so it is what its definition says of it.                            *)

ReadsOn(r, text, n) ==
  IF TagAt(text, n, r.inThink) THEN r
  ELSE IF TagAt(text, n - 1, r.inThink) THEN [r EXCEPT !.inThink = ~@]
  ELSE IF r.inThink THEN [r EXCEPT !.thinking = Append(@, text[n])]
       ELSE [r EXCEPT !.body = Append(@, text[n])]

NothingRead == [thinking |-> <<>>, body |-> <<>>, inThink |-> FALSE]

Reads(f, text, n) ==
  f = [m \in 0 .. n |-> IF m = 0 THEN NothingRead ELSE ReadsOn(f[m - 1], text, m)]

LEMMA ReadingExists ==
  ASSUME NEW text, NEW n \in Nat
  PROVE  \E f : Reads(f, text, n)
<1> DEFINE Good == {m \in Nat : \E f : Reads(f, text, m)}
<1>1. 0 \in Good
  <2>1. Reads([m \in 0 .. 0 |-> NothingRead], text, 0)
    BY DEF Reads
  <2> QED
    BY <2>1
<1>2. ASSUME NEW m \in Nat, m \in Good
      PROVE  m + 1 \in Good
  <2>1. PICK f : Reads(f, text, m)
    BY <1>2
  <2> DEFINE g == [i \in 0 .. m + 1 |-> IF i = m + 1 THEN ReadsOn(f[m], text, m + 1) ELSE f[i]]
  <2>2. \A i \in 0 .. m : f[i] = IF i = 0 THEN NothingRead ELSE ReadsOn(f[i - 1], text, i)
    BY <2>1 DEF Reads
  <2>3. ASSUME NEW i \in 0 .. m + 1
        PROVE  g[i] = IF i = 0 THEN NothingRead ELSE ReadsOn(g[i - 1], text, i)
    <3>1. CASE i = m + 1
      <4>1. g[i - 1] = f[m] /\ i # 0
        BY <3>1
      <4> QED
        BY <3>1, <4>1
    <3>2. CASE i # m + 1 /\ i # 0
      <4>1. g[i - 1] = f[i - 1] /\ g[i] = f[i]
        BY <3>2
      <4> QED
        BY <2>2, <3>2, <4>1
    <3>3. CASE i = 0
      BY <2>2, <3>3
    <3> QED
      BY <3>1, <3>2, <3>3
  <2>4. Reads(g, text, m + 1)
    <3> HIDE DEF g
    <3> SUFFICES g = [i \in 0 .. m + 1 |->
                        IF i = 0 THEN NothingRead ELSE ReadsOn(g[i - 1], text, i)]
      BY DEF Reads
    <3> USE DEF g
    <3> QED
      BY <2>3
  <2> QED
    BY <2>4
<1>3. Nat \subseteq Good
  <2> HIDE DEF Good
  <2> QED
    BY <1>1, <1>2, Reaches
<1> QED
  BY <1>3

LEMMA ReadingReads ==
  ASSUME NEW text \in Seq(Tokens)
  PROVE  /\ Reading(text)[0] = NothingRead
         /\ \A n \in 1 .. Len(text) : Reading(text)[n] = ReadsOn(Reading(text)[n - 1], text, n)
<1>0. Len(text) \in Nat
  OBVIOUS
<1>1. PICK f : Reads(f, text, Len(text))
  BY <1>0, ReadingExists
<1>2. Reading(text) = CHOOSE f_1 : Reads(f_1, text, Len(text))
  BY DEF Reading, Reads, ReadsOn, NothingRead
<1>3. Reads(Reading(text), text, Len(text))
  BY <1>1, <1>2
<1> QED
  BY <1>3 DEF Reads

Readings == [thinking : Seq(Tokens), body : Seq(Tokens), inThink : BOOLEAN]

LEMMA ReadingTyped ==
  ASSUME NEW text \in Seq(Tokens)
  PROVE  \A n \in 0 .. Len(text) : Reading(text)[n] \in Readings
<1> DEFINE Good == {n \in Nat : n <= Len(text) => Reading(text)[n] \in Readings}
<1>1. 0 \in Good
  <2>1. <<>> \in Seq(Tokens)
    OBVIOUS
  <2>2. NothingRead \in Readings
    BY <2>1 DEF NothingRead, Readings
  <2> QED
    BY <2>2, ReadingReads
<1>2. ASSUME NEW n \in Nat, n \in Good
      PROVE  n + 1 \in Good
  <2> DEFINE r == Reading(text)[n]
  <2>0. SUFFICES ASSUME n + 1 <= Len(text) PROVE Reading(text)[n + 1] \in Readings
    OBVIOUS
  <2>1. r \in Readings /\ text[n + 1] \in Tokens
    BY <1>2, <2>0
  <2>2. Reading(text)[n + 1] = ReadsOn(r, text, n + 1)
    BY <2>0, ReadingReads
  <2> HIDE DEF r
  <2>3. Append(r.thinking, text[n + 1]) \in Seq(Tokens) /\ Append(r.body, text[n + 1]) \in Seq(Tokens)
    BY <2>1 DEF Readings
  <2>4. ReadsOn(r, text, n + 1) \in Readings
    BY <2>1, <2>3 DEF ReadsOn, Readings
  <2> QED
    BY <2>2, <2>4
<1>3. Nat \subseteq Good
  <2> HIDE DEF Good
  <2> QED
    BY <1>1, <1>2, Reaches
<1> QED
  BY <1>3

(* After n tokens the text is read on as it would be with nothing before   *)
(* them: no tag may still stand across, nor become one.                    *)
Sound(text, n) ==
  /\ n \in 0 .. Len(text)
  /\ n = 0 \/ n < Len(text) \/ text[n] # "<"

(* More text leaves what was read of the text so far.                      *)
LEMMA TagStays ==
  ASSUME NEW text \in Seq(Tokens), NEW more \in Seq(Tokens), NEW n \in Nat, Sound(text, n),
         NEW i \in Int, i <= n, NEW mode
  PROVE  TagAt(text \o more, i, mode) = TagAt(text, i, mode)
<1> DEFINE all == text \o more
<1>1. Len(all) = Len(text) + Len(more) /\ Len(text) \in Nat /\ Len(more) \in Nat
  OBVIOUS
<1>2. CASE i \notin 1 .. Len(text)
  BY <1>1, <1>2 DEF TagAt, Sound
<1>3. CASE i \in 1 .. Len(text) - 1
  <2>1. all[i] = text[i] /\ all[i + 1] = text[i + 1]
    BY <1>3
  <2> QED
    BY <1>1, <1>3, <2>1 DEF TagAt
<1>4. CASE i = Len(text) /\ i # 0
  <2>1. text[i] # "<" /\ all[i] = text[i]
    BY <1>4 DEF Sound
  <2> QED
    BY <1>1, <1>4, <2>1 DEF TagAt, Opens, Closes
<1> QED
  BY <1>1, <1>2, <1>3, <1>4

LEMMA ReadingStays ==
  ASSUME NEW text \in Seq(Tokens), NEW more \in Seq(Tokens), NEW n \in Nat, Sound(text, n)
  PROVE  Reading(text \o more)[n] = Reading(text)[n]
<1> DEFINE all == text \o more
           Good == {m \in Nat : m <= n => Reading(all)[m] = Reading(text)[m]}
<1>0. all \in Seq(Tokens) /\ Len(all) >= Len(text) /\ n <= Len(text)
  BY DEF Sound
<1>1. 0 \in Good
  BY <1>0, ReadingReads
<1>2. ASSUME NEW m \in Nat, m \in Good
      PROVE  m + 1 \in Good
  <2>0. SUFFICES ASSUME m + 1 <= n PROVE Reading(all)[m + 1] = Reading(text)[m + 1]
    OBVIOUS
  <2> DEFINE r == Reading(text)[m]
  <2>1. Reading(all)[m + 1] = ReadsOn(r, all, m + 1)
    <3>1. m + 1 \in 1 .. Len(all) /\ (m + 1) - 1 = m /\ Reading(all)[m] = r
      BY <1>0, <1>2, <2>0
    <3> QED
      BY <1>0, <3>1, ReadingReads
  <2>2. Reading(text)[m + 1] = ReadsOn(r, text, m + 1)
    BY <1>0, <2>0, ReadingReads
  <2>3. \A mode : /\ TagAt(all, m + 1, mode) = TagAt(text, m + 1, mode)
                  /\ TagAt(all, m, mode) = TagAt(text, m, mode)
    BY <2>0, TagStays
  <2>4. all[m + 1] = text[m + 1] /\ (m + 1) - 1 = m
    BY <1>0, <2>0
  <2> HIDE DEF r, all
  <2>5. ReadsOn(r, all, m + 1) = ReadsOn(r, text, m + 1)
    BY <2>3, <2>4 DEF ReadsOn
  <2> QED
    BY <2>1, <2>2, <2>5
<1>3. Nat \subseteq Good
  <2> HIDE DEF Good
  <2> QED
    BY <1>1, <1>2, Reaches
<1> QED
  BY <1>3

LEMMA AppendedLater ==
  ASSUME NEW s \in Seq(Tokens), NEW t \in Seq(Tokens), NEW x \in Tokens
  PROVE  Append(s \o t, x) = s \o Append(t, x)
<1>1. /\ Append(s \o t, x) \in Seq(Tokens) /\ s \o Append(t, x) \in Seq(Tokens)
      /\ Len(Append(s \o t, x)) = Len(s) + Len(t) + 1
      /\ Len(s \o Append(t, x)) = Len(s) + Len(t) + 1
  OBVIOUS
<1>2. ASSUME NEW i \in 1 .. Len(s) + Len(t) + 1
      PROVE  Append(s \o t, x)[i] = (s \o Append(t, x))[i]
  OBVIOUS
<1> QED
  BY <1>1, <1>2, SeqEqual

(* Where no tag is, the text is read as it stands.                         *)
ReadPlainly(s, r, text) ==
  /\ s.inThink = r.inThink
  /\ s.thinking = IF r.inThink THEN r.thinking \o text ELSE r.thinking
  /\ s.body = IF r.inThink THEN r.body ELSE r.body \o text

NoTagFrom(text, n, to, inThink) == \A i \in n .. to : ~TagAt(text, i, inThink)

LEMMA PlainReading ==
  ASSUME NEW text \in Seq(Tokens), NEW n \in Nat, NEW k \in Nat, n + k <= Len(text),
         NoTagFrom(text, n, n + k, Reading(text)[n].inThink)
  PROVE  ReadPlainly(Reading(text)[n + k], Reading(text)[n], SubSeq(text, n + 1, n + k))
<1> DEFINE r == Reading(text)[n]
           Good == {j \in Nat : j <= k =>
                      ReadPlainly(Reading(text)[n + j], r, SubSeq(text, n + 1, n + j))}
<1>0. r \in Readings /\ Len(text) \in Nat
  BY ReadingTyped
<1> HIDE DEF r
<1>1. 0 \in Good
  <2>1. SubSeq(text, n + 1, n + 0) = <<>> /\ n + 0 = n
    OBVIOUS
  <2>2. r.thinking \o <<>> = r.thinking /\ r.body \o <<>> = r.body
    BY <1>0 DEF Readings
  <2>3. ReadPlainly(r, r, <<>>)
    BY <2>2 DEF ReadPlainly
  <2> QED
    BY <2>1, <2>3 DEF r
<1>2. ASSUME NEW j \in Nat, j \in Good
      PROVE  j + 1 \in Good
  <2>0. SUFFICES ASSUME j + 1 <= k
                 PROVE  ReadPlainly(Reading(text)[n + (j + 1)], r, SubSeq(text, n + 1, n + (j + 1)))
    OBVIOUS
  <2> DEFINE s == Reading(text)[n + j]
             x == text[n + j + 1]
             said == SubSeq(text, n + 1, n + j)
  <2>1. ReadPlainly(s, r, said) /\ s \in Readings /\ x \in Tokens /\ said \in Seq(Tokens)
    <3>1. n + j \in 0 .. Len(text) /\ n + j + 1 \in 1 .. Len(text)
      BY <1>0, <2>0
    <3> QED
      BY <1>2, <2>0, <3>1, ReadingTyped
  <2>2. SubSeq(text, n + 1, n + (j + 1)) = Append(said, x)
    BY <1>0, <2>0
  <2>3. Reading(text)[n + (j + 1)] = ReadsOn(s, text, n + j + 1)
    <3>1. n + (j + 1) \in 1 .. Len(text) /\ n + (j + 1) = n + j + 1 /\ (n + (j + 1)) - 1 = n + j
      BY <1>0, <2>0
    <3> QED
      BY <3>1, ReadingReads
  <2>4. ~TagAt(text, n + j + 1, r.inThink) /\ ~TagAt(text, (n + j + 1) - 1, r.inThink)
    <3>1. n + j + 1 \in n .. n + k /\ (n + j + 1) - 1 \in n .. n + k
      BY <2>0
    <3> QED
      BY <3>1 DEF NoTagFrom, r
  <2> HIDE DEF s, x, said
  <2>5. s.inThink = r.inThink
    BY <2>1 DEF ReadPlainly
  <2>6. ReadsOn(s, text, n + j + 1) = IF r.inThink THEN [s EXCEPT !.thinking = Append(@, x)]
                                      ELSE [s EXCEPT !.body = Append(@, x)]
    BY <2>4, <2>5 DEF ReadsOn, x
  <2>7. /\ Append(r.thinking \o said, x) = r.thinking \o Append(said, x)
        /\ Append(r.body \o said, x) = r.body \o Append(said, x)
    <3>1. r.thinking \in Seq(Tokens) /\ r.body \in Seq(Tokens)
      BY <1>0 DEF Readings
    <3>2. ASSUME NEW t \in Seq(Tokens)
          PROVE  Append(t \o said, x) = t \o Append(said, x)
      BY <2>1, AppendedLater
    <3> QED
      BY <3>1, <3>2
  <2>8. ReadPlainly(ReadsOn(s, text, n + j + 1), r, Append(said, x))
    <3>1. CASE r.inThink
      <4>1. s.thinking = r.thinking \o said /\ s.body = r.body
        BY <2>1, <3>1 DEF ReadPlainly
      <4> DEFINE v == [s EXCEPT !.thinking = Append(@, x)]
      <4>2. v.thinking = Append(r.thinking \o said, x) /\ v.body = r.body /\ v.inThink = s.inThink
        BY <2>1, <4>1 DEF Readings
      <4> QED
        BY <2>5, <2>6, <2>7, <3>1, <4>2 DEF ReadPlainly
    <3>2. CASE ~r.inThink
      <4>1. s.body = r.body \o said /\ s.thinking = r.thinking
        BY <2>1, <3>2 DEF ReadPlainly
      <4> DEFINE v == [s EXCEPT !.body = Append(@, x)]
      <4>2. v.body = Append(r.body \o said, x) /\ v.thinking = r.thinking /\ v.inThink = s.inThink
        BY <2>1, <4>1 DEF Readings
      <4> QED
        BY <2>5, <2>6, <2>7, <3>2, <4>2 DEF ReadPlainly
    <3> QED
      BY <3>1, <3>2
  <2> QED
    BY <2>2, <2>3, <2>8
<1>3. Nat \subseteq Good
  <2> HIDE DEF Good
  <2> QED
    BY <1>1, <1>2, Reaches
<1> QED
  BY <1>3 DEF r

(* A tag that is looked for changes the mode and leaves the texts.         *)
LEMMA TagRead ==
  ASSUME NEW text \in Seq(Tokens), NEW i \in Nat, i # 0, i < Len(text),
         LET r == Reading(text)[i - 1]
         IN  TagAt(text, i, r.inThink)
  PROVE  LET r == Reading(text)[i - 1]
         IN  Reading(text)[i + 1] = [r EXCEPT !.inThink = ~@]
<1> DEFINE r == Reading(text)[i - 1]
<1>1. Reading(text)[i] = r
  <2>1. i \in 1 .. Len(text)
    OBVIOUS
  <2> QED
    BY <2>1, ReadingReads DEF ReadsOn
<1>2. ~TagAt(text, i + 1, r.inThink)
  BY DEF TagAt, Opens, Closes
<1>3. Reading(text)[i + 1] = ReadsOn(r, text, i + 1)
  <2>1. i + 1 \in 1 .. Len(text) /\ (i + 1) - 1 = i
    OBVIOUS
  <2> QED
    BY <1>1, <2>1, ReadingReads
<1> HIDE DEF r
<1>4. TagAt(text, (i + 1) - 1, r.inThink)
  BY DEF r
<1> QED
  BY <1>2, <1>3, <1>4 DEF ReadsOn, r

-----------------------------------------------------------------------------
(* The assembler: what it says of itself.                                  *)

Assemblers ==
  [thinking : Seq(Tokens), body : Seq(Tokens), buf : Seq(Tokens), inThink : BOOLEAN,
   extras : BOOLEAN]

(* The text goes where the mode says.                                      *)
LEMMA EmitIs ==
  ASSUME NEW a \in Assemblers, NEW text \in Seq(Tokens)
  PROVE  /\ Emit(a, text) \in Assemblers
         /\ ReadPlainly(Emit(a, text), a, text)
         /\ Emit(a, text).buf = a.buf /\ Emit(a, text).extras = a.extras
<1>1. a.thinking \o text \in Seq(Tokens) /\ a.body \o text \in Seq(Tokens)
  BY DEF Assemblers
<1>2. CASE a.inThink
  BY <1>1, <1>2 DEF Emit, Assemblers, ReadPlainly
<1>3. CASE ~a.inThink
  BY <1>1, <1>3 DEF Emit, Assemblers, ReadPlainly
<1> QED
  BY <1>2, <1>3

(* It has read n tokens of the text and holds the others back.             *)
Upto(a, text, n) ==
  LET r == Reading(text)[n]
  IN  /\ a \in Assemblers
      /\ Sound(text, n)
      /\ a.thinking = r.thinking /\ a.body = r.body /\ a.inThink = r.inThink
      /\ a.buf = SubSeq(text, n + 1, Len(text))
      /\ ~TagAt(text, n, a.inThink)

(* It put a text out, took more out of what it held, and that was right if *)
(* the text was read so.                                                   *)
LEMMA EmitReads ==
  ASSUME NEW text \in Seq(Tokens), NEW n \in Nat, NEW a, Upto(a, text, n),
         NEW k \in Nat, n + k <= Len(text), NoTagFrom(text, n, n + k, a.inThink)
  PROVE  LET b == Emit(a, SubSeq(a.buf, 1, k))
             r == Reading(text)[n + k]
         IN  /\ b \in Assemblers /\ b.extras = a.extras
             /\ b.thinking = r.thinking /\ b.body = r.body /\ b.inThink = r.inThink
             /\ b.inThink = a.inThink
<1> DEFINE said == SubSeq(a.buf, 1, k)
           r == Reading(text)[n]
           s == Reading(text)[n + k]
           b == Emit(a, said)
<1>1. a.thinking = r.thinking /\ a.body = r.body /\ a.inThink = r.inThink
      /\ a \in Assemblers /\ a.buf = SubSeq(text, n + 1, Len(text)) /\ n <= Len(text)
  BY DEF Upto, Sound
<1>2. said = SubSeq(text, n + 1, n + k) /\ said \in Seq(Tokens)
  BY <1>1, SubSeqOfSubSeq
<1>3. ReadPlainly(s, r, SubSeq(text, n + 1, n + k))
  BY <1>1, PlainReading
<1>4. b \in Assemblers /\ ReadPlainly(b, a, said) /\ b.extras = a.extras
  BY <1>1, <1>2, EmitIs
<1> HIDE DEF said, r, s, b
<1> QED
  BY <1>1, <1>2, <1>3, <1>4 DEF ReadPlainly, said, s, b

LEMMA PairOf ==
  ASSUME NEW S, NEW s \in Seq(S), NEW i \in 1 .. Len(s) - 1
  PROVE  SubSeq(s, i, i + 1) = <<s[i], s[i + 1]>>
<1> DEFINE t == SubSeq(s, i, i + 1)
           u == <<s[i], s[i + 1]>>
<1>1. t \in Seq(S) /\ Len(t) = 2 /\ t[1] = s[i] /\ t[2] = s[i + 1]
  OBVIOUS
<1>2. u \in Seq(S) /\ Len(u) = 2 /\ u[1] = s[i] /\ u[2] = s[i + 1]
  OBVIOUS
<1> HIDE DEF t, u
<1>3. \A j \in 1 .. 2 : t[j] = u[j]
  BY <1>1, <1>2
<1>4. t = u
  BY <1>1, <1>2, <1>3, SeqEqual
<1> QED
  BY <1>4 DEF t, u

(* What is left after n places, put after them.                            *)
LEMMA ThereAndBack == \A n, l \in Nat : n + (l - n) = l
OBVIOUS

(* The end of a list from one place on.                                    *)
LEMMA EndIs ==
  ASSUME NEW s \in Seq(Tokens), NEW m \in Nat \ {0}, m <= Len(s) + 1
  PROVE  /\ SubSeq(s, m, Len(s)) \in Seq(Tokens)
         /\ Len(SubSeq(s, m, Len(s))) = Len(s) - m + 1
         /\ \A j \in 1 .. Len(s) - m + 1 : SubSeq(s, m, Len(s))[j] = s[m + j - 1]
<1> DEFINE u == SubSeq(s, m, Len(s))
<1>1. Len(s) \in Nat
  OBVIOUS
<1>2. u \in Seq(Tokens)
  BY <1>1
<1>3. Len(u) = Len(s) - m + 1
  BY <1>1
<1>4. \A j \in 1 .. Len(s) - m + 1 : u[j] = s[m + j - 1]
  BY <1>1
<1> QED
  BY <1>2, <1>3, <1>4

(* The end of an end.                                                      *)
LEMMA EndOfEnd ==
  ASSUME NEW s \in Seq(Tokens), NEW n \in 0 .. Len(s), NEW i \in Nat \ {0}, i <= Len(s) - n + 1
  PROVE  LET t == SubSeq(s, n + 1, Len(s))
         IN  SubSeq(t, i, Len(t)) = SubSeq(s, n + i, Len(s))
<1> DEFINE t == SubSeq(s, n + 1, Len(s))
           u == SubSeq(t, i, Len(t))
           v == SubSeq(s, n + i, Len(s))
<1>0. Len(s) \in Nat
  OBVIOUS
<1>1. t \in Seq(Tokens) /\ Len(t) = Len(s) - (n + 1) + 1
      /\ \A j \in 1 .. Len(s) - (n + 1) + 1 : t[j] = s[(n + 1) + j - 1]
  <2>1. n + 1 \in Nat \ {0} /\ n + 1 <= Len(s) + 1
    BY <1>0
  <2> QED
    BY <2>1, EndIs
<1> HIDE DEF t
<1>2. u \in Seq(Tokens) /\ Len(u) = Len(t) - i + 1
      /\ \A j \in 1 .. Len(t) - i + 1 : u[j] = t[i + j - 1]
  <2>1. i <= Len(t) + 1
    BY <1>0, <1>1
  <2> QED
    BY <1>1, <2>1, EndIs
<1>3. v \in Seq(Tokens) /\ Len(v) = Len(s) - (n + i) + 1
      /\ \A j \in 1 .. Len(s) - (n + i) + 1 : v[j] = s[(n + i) + j - 1]
  <2>1. n + i \in Nat \ {0} /\ n + i <= Len(s) + 1
    BY <1>0
  <2> QED
    BY <2>1, EndIs
<1> HIDE DEF u, v
<1>4. \A j \in 1 .. Len(u) : u[j] = v[j]
  <2> SUFFICES ASSUME NEW j \in 1 .. Len(u) PROVE u[j] = v[j]
    OBVIOUS
  <2>1. /\ j \in 1 .. Len(t) - i + 1 /\ i + j - 1 \in 1 .. Len(s) - (n + 1) + 1
        /\ j \in 1 .. Len(s) - (n + i) + 1 /\ (n + 1) + (i + j - 1) - 1 = (n + i) + j - 1
    BY <1>0, <1>1, <1>2
  <2>2. u[j] = t[i + j - 1]
    BY <1>2, <2>1
  <2>3. t[i + j - 1] = s[(n + 1) + (i + j - 1) - 1]
    BY <1>1, <2>1
  <2>4. v[j] = s[(n + i) + j - 1]
    BY <1>3, <2>1
  <2> QED
    BY <2>1, <2>2, <2>3, <2>4
<1>5. Len(u) = Len(v)
  BY <1>0, <1>1, <1>2, <1>3
<1>6. u = v
  BY <1>2, <1>3, <1>4, <1>5, SeqEqual
<1> QED
  BY <1>6 DEF t, u, v

(* Where it looks for tags in what it holds is where they are in the text. *)
LEMMA TagsHeld ==
  ASSUME NEW text \in Seq(Tokens), NEW n \in 0 .. Len(text), NEW mode \in BOOLEAN
  PROVE  LET buf == SubSeq(text, n + 1, Len(text))
             tags == TagsOf(buf, IF mode THEN Closes ELSE Opens)
         IN  /\ tags \subseteq Nat \ {0}
             /\ \A i \in Nat \ {0} : i \in tags <=> TagAt(text, n + i, mode)
<1> DEFINE buf == SubSeq(text, n + 1, Len(text))
           tag == IF mode THEN Closes ELSE Opens
<1>1. buf \in Seq(Tokens) /\ Len(buf) = Len(text) - n
      /\ \A i \in 1 .. Len(text) - n : buf[i] = text[n + i]
  OBVIOUS
<1>2. TagsOf(buf, tag) \subseteq Nat \ {0}
  BY <1>1 DEF TagsOf
<1>3. ASSUME NEW i \in Nat \ {0}
      PROVE  i \in TagsOf(buf, tag) <=> TagAt(text, n + i, mode)
  <2> HIDE DEF buf
  <2>1. CASE i \in 1 .. Len(buf) - 1
    <3>1. SubSeq(buf, i, i + 1) = <<buf[i], buf[i + 1]>>
      BY <1>1, <2>1, PairOf
    <3>2. <<buf[i], buf[i + 1]>> = <<text[n + i], text[n + i + 1]>>
      BY <1>1, <2>1
    <3> QED
      <4>1. i \in TagsOf(buf, tag) <=> SubSeq(buf, i, i + 1) = tag
        BY <2>1 DEF TagsOf
      <4>2. n + i \in 1 .. Len(text) - 1
        BY <1>1, <2>1
      <4>3. TagAt(text, n + i, mode) <=> <<text[n + i], text[n + i + 1]>> = tag
        BY <4>2 DEF TagAt
      <4> HIDE DEF tag
      <4> QED
        BY <3>1, <3>2, <4>1, <4>3
  <2>2. CASE i \notin 1 .. Len(buf) - 1
    BY <1>1, <2>2 DEF TagsOf, TagAt
  <2> QED
    BY <2>1, <2>2
<1> QED
  BY <1>2, <1>3
(* A round either finds no tag, or reads on to behind the first.           *)
LEMMA PassTagReads ==
  ASSUME NEW text \in Seq(Tokens), NEW n \in Nat, NEW a, Upto(a, text, n)
  PROVE  \/ PassTag(a) = a /\ NoTagFrom(text, n, Len(text), a.inThink)
         \/ \E m \in Nat : m > n /\ Upto(PassTag(a), text, m) /\ PassTag(a).extras = a.extras
<1> DEFINE tags == TagsOf(a.buf, IF a.inThink THEN Closes ELSE Opens)
           i == Min(tags)
           b == Emit(a, SubSeq(a.buf, 1, i - 1))
           c == [b EXCEPT !.buf = SubSeq(a.buf, i + 2, Len(a.buf)), !.inThink = ~a.inThink]
<1>1. /\ n \in 0 .. Len(text) /\ Len(text) \in Nat /\ a \in Assemblers
      /\ a.buf = SubSeq(text, n + 1, Len(text)) /\ a.inThink \in BOOLEAN
      /\ a.inThink = Reading(text)[n].inThink
      /\ ~TagAt(text, n, a.inThink)
  BY DEF Upto, Sound, Assemblers
<1>2. /\ tags \subseteq Nat \ {0}
      /\ \A j \in Nat \ {0} : j \in tags <=> TagAt(text, n + j, a.inThink)
  BY <1>1, TagsHeld
<1>3. PassTag(a) = IF tags = {} THEN a ELSE c
  BY DEF PassTag
<1> HIDE DEF tags
<1>4. CASE tags = {}
  <2>1. ASSUME NEW j \in n .. Len(text) PROVE ~TagAt(text, j, a.inThink)
    <3>1. CASE j = n
      BY <1>1, <3>1
    <3>2. CASE j # n
      <4>1. j - n \in Nat \ {0} /\ n + (j - n) = j
        BY <1>1, <3>2
      <4> QED
        BY <1>2, <1>4, <4>1
    <3> QED
      BY <3>1, <3>2
  <2> QED
    BY <1>3, <1>4, <2>1 DEF NoTagFrom
<1>5. CASE tags # {}
  <2>1. i \in tags /\ \A j \in tags : i <= j
    <3>1. \E x \in tags : \A y \in tags : x <= y
      <4>1. tags \subseteq Nat
        BY <1>2
      <4> QED
        BY <1>5, <4>1, Least
    <3> QED
      BY <3>1 DEF Min
  <2> HIDE DEF i
  <2>2. i \in Nat \ {0} /\ TagAt(text, n + i, a.inThink)
    BY <1>2, <2>1
  <2>3. n + i \in 1 .. Len(text) - 1
    BY <2>2 DEF TagAt
  <2>4. NoTagFrom(text, n, n + (i - 1), a.inThink)
    <3>1. ASSUME NEW j \in n .. n + (i - 1) PROVE ~TagAt(text, j, a.inThink)
      <4>1. CASE j = n
        BY <1>1, <4>1
      <4>2. CASE j # n
        <5>1. j - n \in Nat \ {0} /\ n + (j - n) = j /\ j - n < i
          BY <1>1, <2>2, <4>2
        <5>2. j - n \notin tags
          BY <1>2, <2>1, <5>1
        <5> QED
          BY <1>2, <5>1, <5>2
      <4> QED
        BY <4>1, <4>2
    <3> QED
      BY <3>1 DEF NoTagFrom
  <2> DEFINE r == Reading(text)[n + (i - 1)]
  <2>5. /\ b \in Assemblers /\ b.extras = a.extras /\ b.inThink = a.inThink
        /\ b.thinking = r.thinking /\ b.body = r.body /\ b.inThink = r.inThink
    <3>1. i - 1 \in Nat /\ n + (i - 1) <= Len(text)
      BY <1>1, <2>2, <2>3
    <3> QED
      BY <2>4, <3>1, EmitReads
  <2> DEFINE m == n + i + 1
             s == Reading(text)[m]
  <2>6. m \in Nat /\ m > n /\ m <= Len(text)
    BY <1>1, <2>2, <2>3
  <2>7. s = [r EXCEPT !.inThink = ~@]
    <3>1. (n + i) - 1 = n + (i - 1) /\ n + i \in Nat /\ n + i # 0 /\ n + i < Len(text)
      BY <1>1, <2>2, <2>3
    <3>2. TagAt(text, n + i, Reading(text)[(n + i) - 1].inThink)
      BY <2>2, <2>5, <3>1
    <3>3. Reading(text)[(n + i) + 1] = [Reading(text)[(n + i) - 1] EXCEPT !.inThink = ~@]
      BY <3>1, <3>2, TagRead
    <3> QED
      BY <3>1, <3>3
  <2>8. r \in Readings
    <3>1. n + (i - 1) \in 0 .. Len(text)
      BY <1>1, <2>2, <2>3
    <3> QED
      BY <3>1, ReadingTyped
  <2>9. text[m] # "<"
    BY <2>2 DEF TagAt, Opens, Closes
  <2>10. SubSeq(a.buf, i + 2, Len(a.buf)) = SubSeq(text, m + 1, Len(text))
    <3>1. Len(a.buf) = Len(text) - n /\ i + 2 <= Len(a.buf) + 1
      BY <1>1, <2>2, <2>3
    <3> QED
      BY <1>1, <2>2, <2>6, <3>1, EndOfEnd
  <2> HIDE DEF b, r, s, m
  <2>11. /\ c \in Assemblers /\ c.extras = a.extras /\ c.thinking = s.thinking /\ c.body = s.body
         /\ c.inThink = s.inThink /\ c.buf = SubSeq(text, m + 1, Len(text))
    <3>1. SubSeq(text, m + 1, Len(text)) \in Seq(Tokens)
      BY <2>6
    <3>2. c \in Assemblers /\ c.extras = b.extras /\ c.thinking = b.thinking /\ c.body = b.body
          /\ c.inThink = ~a.inThink /\ c.buf = SubSeq(text, m + 1, Len(text))
      BY <1>1, <2>5, <2>10, <3>1 DEF Assemblers
    <3>3. s.thinking = r.thinking /\ s.body = r.body /\ s.inThink = ~r.inThink
      BY <2>7, <2>8 DEF Readings
    <3> HIDE DEF c
    <3> QED
      BY <2>5, <3>2, <3>3
  <2>12. ~TagAt(text, m, c.inThink)
    BY <2>9 DEF TagAt, Opens, Closes
  <2> HIDE DEF c
  <2>13. Upto(c, text, m)
    BY <2>6, <2>9, <2>11, <2>12 DEF Upto, Sound, s
  <2> QED
    BY <1>3, <1>5, <2>6, <2>11, <2>13
<1> QED
  BY <1>4, <1>5

LEMMA NoTagNoPass ==
  ASSUME NEW text \in Seq(Tokens), NEW n \in Nat, NEW a, Upto(a, text, n),
         NoTagFrom(text, n, Len(text), a.inThink)
  PROVE  PassTag(a) = a
<1> DEFINE tags == TagsOf(a.buf, IF a.inThink THEN Closes ELSE Opens)
<1>1. n \in 0 .. Len(text) /\ a.buf = SubSeq(text, n + 1, Len(text)) /\ a.inThink \in BOOLEAN
      /\ Len(text) \in Nat
  BY DEF Upto, Sound, Assemblers
<1>2. /\ tags \subseteq Nat \ {0}
      /\ \A j \in Nat \ {0} : j \in tags <=> TagAt(text, n + j, a.inThink)
  BY <1>1, TagsHeld
<1> HIDE DEF tags
<1>3. ASSUME NEW j \in tags PROVE FALSE
  <2>1. j \in Nat \ {0} /\ TagAt(text, n + j, a.inThink)
    BY <1>2
  <2>2. n + j \in n .. Len(text)
    BY <1>1, <2>1 DEF TagAt
  <2> QED
    BY <2>1, <2>2 DEF NoTagFrom
<1> QED
  BY <1>3 DEF PassTag, tags

(* As many rounds as there are tokens leave no tag: the function of the    *)
(* rounds exists, and each round that finds a tag takes a token at least.  *)
Passes(f, a, n) == f = [m \in 0 .. n |-> IF m = 0 THEN a ELSE PassTag(f[m - 1])]

LEMMA PassesExist ==
  ASSUME NEW a, NEW n \in Nat
  PROVE  \E f : Passes(f, a, n)
<1> DEFINE Good == {m \in Nat : \E f : Passes(f, a, m)}
<1>1. 0 \in Good
  <2>1. Passes([m \in 0 .. 0 |-> a], a, 0)
    BY DEF Passes
  <2> QED
    BY <2>1
<1>2. ASSUME NEW m \in Nat, m \in Good
      PROVE  m + 1 \in Good
  <2>1. PICK f : Passes(f, a, m)
    BY <1>2
  <2> DEFINE g == [i \in 0 .. m + 1 |-> IF i = m + 1 THEN PassTag(f[m]) ELSE f[i]]
  <2>2. \A i \in 0 .. m : f[i] = IF i = 0 THEN a ELSE PassTag(f[i - 1])
    BY <2>1 DEF Passes
  <2>3. ASSUME NEW i \in 0 .. m + 1
        PROVE  g[i] = IF i = 0 THEN a ELSE PassTag(g[i - 1])
    <3>1. CASE i = m + 1
      <4>1. g[i - 1] = f[m] /\ i # 0
        BY <3>1
      <4> QED
        BY <3>1, <4>1
    <3>2. CASE i # m + 1 /\ i # 0
      <4>1. g[i - 1] = f[i - 1] /\ g[i] = f[i]
        BY <3>2
      <4> QED
        BY <2>2, <3>2, <4>1
    <3>3. CASE i = 0
      BY <2>2, <3>3
    <3> QED
      BY <3>1, <3>2, <3>3
  <2>4. Passes(g, a, m + 1)
    <3> HIDE DEF g
    <3> SUFFICES g = [i \in 0 .. m + 1 |-> IF i = 0 THEN a ELSE PassTag(g[i - 1])]
      BY DEF Passes
    <3> USE DEF g
    <3> QED
      BY <2>3
  <2> QED
    BY <2>4
<1>3. Nat \subseteq Good
  <2> HIDE DEF Good
  <2> QED
    BY <1>1, <1>2, Reaches
<1> QED
  BY <1>3

LEMMA PassesBy ==
  ASSUME NEW f, NEW a, NEW n \in Nat, Passes(f, a, n)
  PROVE  f[0] = a /\ \A k \in 1 .. n : f[k] = PassTag(f[k - 1])
<1>1. ASSUME NEW k \in 0 .. n
      PROVE  f[k] = IF k = 0 THEN a ELSE PassTag(f[k - 1])
  BY DEF Passes
<1> QED
  BY <1>1

LEMMA PassTagsReads ==
  ASSUME NEW text \in Seq(Tokens), NEW n \in Nat, NEW a, Upto(a, text, n)
  PROVE  \E m \in Nat : /\ Upto(PassTags(a), text, m) /\ PassTags(a).extras = a.extras
                        /\ NoTagFrom(text, m, Len(text), PassTags(a).inThink)
<1>0. /\ Len(a.buf) \in Nat /\ Len(text) \in Nat /\ n <= Len(text)
      /\ Len(a.buf) = Len(text) - n
  BY DEF Upto, Sound
<1>1. PICK f : Passes(f, a, Len(a.buf))
  BY <1>0, PassesExist
<1>2. PassTags(a) = (CHOOSE g : Passes(g, a, Len(a.buf)))[Len(a.buf)]
  BY DEF PassTags, Passes
<1> DEFINE p == CHOOSE g : Passes(g, a, Len(a.buf))
<1>3. Passes(p, a, Len(a.buf))
  BY <1>1
<1> HIDE DEF p
<1>4. p[0] = a /\ \A k \in 1 .. Len(a.buf) : p[k] = PassTag(p[k - 1])
  BY <1>0, <1>3, PassesBy
<1> DEFINE Reached(k) ==
             \E m \in Nat : /\ Upto(p[k], text, m) /\ p[k].extras = a.extras
                            /\ m >= n + k \/ NoTagFrom(text, m, Len(text), p[k].inThink)
           Good == {k \in Nat : k <= Len(a.buf) => Reached(k)}
<1>5. 0 \in Good
  BY <1>0, <1>4
<1>6. ASSUME NEW k \in Nat, k \in Good
      PROVE  k + 1 \in Good
  <2>0. SUFFICES ASSUME k + 1 <= Len(a.buf) PROVE Reached(k + 1)
    OBVIOUS
  <2>1. PICK m \in Nat : /\ Upto(p[k], text, m) /\ p[k].extras = a.extras
                         /\ m >= n + k \/ NoTagFrom(text, m, Len(text), p[k].inThink)
    BY <1>0, <1>6, <2>0
  <2>2. p[k + 1] = PassTag(p[k])
    BY <1>4, <2>0
  <2>3. CASE PassTag(p[k]) = p[k] /\ NoTagFrom(text, m, Len(text), p[k].inThink)
    BY <2>1, <2>2, <2>3
  <2>4. ASSUME NEW j \in Nat, j > m, Upto(PassTag(p[k]), text, j),
               PassTag(p[k]).extras = p[k].extras
        PROVE  Reached(k + 1)
    <3>1. CASE m >= n + k
      <4>1. j >= n + (k + 1)
        BY <1>0, <2>4, <3>1
      <4> QED
        BY <2>1, <2>2, <2>4, <4>1
    <3>2. CASE NoTagFrom(text, m, Len(text), p[k].inThink)
      <4>1. PassTag(p[k]) = p[k]
        BY <2>1, <3>2, NoTagNoPass
      <4> QED
        BY <2>1, <2>2, <3>2, <4>1
    <3> QED
      BY <2>1, <3>1, <3>2
  <2> QED
    BY <2>1, <2>3, <2>4, PassTagReads
<1>7. Nat \subseteq Good
  <2> HIDE DEF Good
  <2> QED
    BY <1>5, <1>6, Reaches
<1>8. Reached(Len(a.buf))
  BY <1>0, <1>7
<1> HIDE DEF Good
<1>9. PICK m \in Nat : /\ Upto(p[Len(a.buf)], text, m) /\ p[Len(a.buf)].extras = a.extras
                       /\ \/ m >= n + Len(a.buf)
                          \/ NoTagFrom(text, m, Len(text), p[Len(a.buf)].inThink)
  BY <1>8
<1>10. CASE m >= n + Len(a.buf)
  <2>1. m = Len(text)
    BY <1>0, <1>9, <1>10 DEF Upto, Sound
  <2>2. NoTagFrom(text, m, Len(text), p[Len(a.buf)].inThink)
    BY <1>0, <2>1 DEF NoTagFrom, TagAt
  <2> QED
    BY <1>2, <1>9, <2>2 DEF p
<1>11. CASE NoTagFrom(text, m, Len(text), p[Len(a.buf)].inThink)
  BY <1>2, <1>9, <1>11 DEF p
<1> QED
  BY <1>9, <1>10, <1>11

LEMMA OneOf ==
  ASSUME NEW s \in Seq(Tokens), Len(s) >= 1
  PROVE  SubSeq(s, 1, 1) = <<s[1]>>
<1> DEFINE t == SubSeq(s, 1, 1)
           u == <<s[1]>>
<1>1. t \in Seq(Tokens) /\ Len(t) = 1 /\ t[1] = s[1]
  OBVIOUS
<1>2. u \in Seq(Tokens) /\ Len(u) = 1 /\ u[1] = s[1]
  OBVIOUS
<1> HIDE DEF t, u
<1>3. \A j \in 1 .. 1 : t[j] = u[j]
  BY <1>1, <1>2
<1>4. t = u
  BY <1>1, <1>2, <1>3, SeqEqual
<1> QED
  BY <1>4 DEF t, u

(* What may be the begin of a tag is held back, and a "<" always.          *)
LEMMA SuffixLast ==
  ASSUME NEW s \in Seq(Tokens), NEW t \in Seq(Tokens)
  PROVE  /\ IsSuffix(s, t) => Len(s) <= Len(t)
         /\ t # <<>> /\ t[Len(t)] = "<" => IsSuffix(<<"<">>, t)
<1> DEFINE u == Reverse(t)
           v == Reverse(<<"<">>)
<1>1. Len(Reverse(s)) = Len(s) /\ Len(u) = Len(t)
  BY DEF Reverse
<1>2. ASSUME t # <<>>, t[Len(t)] = "<" PROVE IsPrefix(v, u)
  <2>1. v = <<"<">> /\ Len(v) = 1
    BY DEF Reverse
  <2>2. u[1] = "<" /\ u \in Seq(Tokens) /\ Len(u) >= 1
    BY <1>2 DEF Reverse
  <2> HIDE DEF u, v
  <2>3. SubSeq(u, 1, 1) = <<"<">>
    BY <2>2, OneOf
  <2>4. SubSeq(v, 1, 1) = <<"<">>
    <3>1. v \in Seq(Tokens) /\ v[1] = "<" /\ Len(v) >= 1
      BY <2>1 DEF Tokens
    <3> QED
      BY <2>1, <3>1, OneOf
  <2> QED
    BY <2>1, <2>2, <2>3, <2>4 DEF IsPrefix
<1> QED
  BY <1>1, <1>2 DEF IsSuffix, IsPrefix

LEMMA HoldIs ==
  ASSUME NEW buf \in Seq(Tokens)
  PROVE  /\ Hold(buf) \in 0 .. Len(buf)
         /\ Hold(buf) = 0 => buf = <<>> \/ buf[Len(buf)] # "<"
<1>1. /\ Opens \in Seq(Tokens) /\ Len(Opens) = 2 /\ Closes \in Seq(Tokens) /\ Len(Closes) = 2
      /\ <<"<">> \in Seq(Tokens) /\ Len(<<"<">>) = 1
  BY DEF Opens, Closes, Tokens
<1>2. \A tag \in {Opens, Closes} : IsSuffix(tag, buf) => 2 <= Len(buf)
  BY <1>1, SuffixLast
<1>3. IsSuffix(<<"<">>, buf) => 1 <= Len(buf)
  BY <1>1, SuffixLast
<1>4. buf # <<>> /\ buf[Len(buf)] = "<" => IsSuffix(<<"<">>, buf)
  BY <1>1, SuffixLast
<1> QED
  BY <1>2, <1>3, <1>4 DEF Hold

(* All but that goes out.                                                  *)
LEMMA EmitHoldReads ==
  ASSUME NEW text \in Seq(Tokens), NEW n \in Nat, NEW a, Upto(a, text, n),
         NoTagFrom(text, n, Len(text), a.inThink)
  PROVE  \E m \in Nat : /\ Upto(EmitHold(a), text, m) /\ EmitHold(a).extras = a.extras
                        /\ NoTagFrom(text, m, Len(text), EmitHold(a).inThink)
<1> DEFINE k == Len(a.buf) - Hold(a.buf)
           b == Emit(a, SubSeq(a.buf, 1, k))
           c == [b EXCEPT !.buf = SubSeq(a.buf, k + 1, Len(a.buf))]
           m == n + k
           r == Reading(text)[m]
<1>1. /\ n \in 0 .. Len(text) /\ Len(text) \in Nat /\ a.buf = SubSeq(text, n + 1, Len(text))
      /\ n = 0 \/ n < Len(text) \/ text[n] # "<"
      /\ a \in Assemblers
  BY DEF Upto, Sound
<1>2. a.buf \in Seq(Tokens) /\ Len(a.buf) = Len(text) - n
      /\ (a.buf # <<>> => a.buf[Len(a.buf)] = text[Len(text)] /\ Len(text) # n)
  <2>1. /\ a.buf \in Seq(Tokens) /\ Len(a.buf) = Len(text) - n
        /\ \A i \in 1 .. Len(text) - n : a.buf[i] = text[n + i]
    <3>1. n + 1 \in Nat \ {0} /\ n + 1 <= Len(text) + 1
      BY <1>1
    <3>2. /\ a.buf \in Seq(Tokens) /\ Len(a.buf) = Len(text) - (n + 1) + 1
          /\ \A i \in 1 .. Len(text) - (n + 1) + 1 : a.buf[i] = text[(n + 1) + i - 1]
      BY <1>1, <3>1, EndIs
    <3>3. ASSUME NEW i \in 1 .. Len(text) - n PROVE a.buf[i] = text[n + i]
      <4>1. i \in 1 .. Len(text) - (n + 1) + 1 /\ (n + 1) + i - 1 = n + i
        BY <1>1
      <4> QED
        BY <3>2, <4>1
    <3>4. Len(text) - (n + 1) + 1 = Len(text) - n
      BY <1>1
    <3> QED
      BY <3>2, <3>3, <3>4, Zenon
  <2>2. a.buf # <<>> => Len(a.buf) \in Nat \ {0}
    BY <2>1, EmptySeq
  <2>3. n + (Len(text) - n) = Len(text)
    BY <1>1, ThereAndBack, Zenon
  <2>4. ASSUME a.buf # <<>>
        PROVE  a.buf[Len(a.buf)] = text[Len(text)] /\ Len(text) # n
    <3>1. Len(text) - n \in 1 .. Len(text) - n /\ Len(text) # n
      BY <1>1, <2>1, <2>2, <2>4
    <3>2. a.buf[Len(text) - n] = text[n + (Len(text) - n)]
      BY <2>1, <3>1
    <3> QED
      BY <2>1, <2>3, <3>1, <3>2
  <2> QED
    BY <2>1, <2>4, Zenon
<1>3. Hold(a.buf) \in 0 .. Len(a.buf)
      /\ (Hold(a.buf) = 0 => a.buf = <<>> \/ a.buf[Len(a.buf)] # "<")
  BY <1>2, HoldIs
<1>4. k \in Nat /\ k <= Len(a.buf) /\ m \in Nat /\ m <= Len(text)
  BY <1>1, <1>2, <1>3
<1>5. NoTagFrom(text, n, m, a.inThink)
  BY <1>1, <1>4 DEF NoTagFrom
<1>6. /\ b \in Assemblers /\ b.extras = a.extras /\ b.inThink = a.inThink
      /\ b.thinking = r.thinking /\ b.body = r.body /\ b.inThink = r.inThink
  <2> HIDE DEF k
  <2> QED
    BY <1>4, <1>5, EmitReads
<1>7. Sound(text, m)
  <2>1. CASE Hold(a.buf) # 0
    BY <1>1, <1>2, <1>3, <1>4, <2>1 DEF Sound
  <2>2. CASE Hold(a.buf) = 0
    <3>1. m = Len(text)
      BY <1>1, <1>2, <2>2
    <3>2. CASE a.buf = <<>>
      <4>1. m = n
        BY <1>2, <2>2, <3>2
      <4> QED
        BY <1>1, <3>1, <4>1 DEF Sound
    <3>3. CASE a.buf # <<>>
      <4>1. text[Len(text)] # "<"
        BY <1>2, <1>3, <2>2, <3>3
      <4> QED
        BY <1>1, <3>1, <4>1 DEF Sound
    <3> QED
      BY <3>2, <3>3
  <2> QED
    BY <2>1, <2>2
<1>8. SubSeq(a.buf, k + 1, Len(a.buf)) = SubSeq(text, m + 1, Len(text))
  <2>1. n + (k + 1) = m + 1
    <3> HIDE DEF k
    <3> QED
      BY <1>1, <1>4
  <2>2. k + 1 \in Nat \ {0} /\ k + 1 <= Len(text) - n + 1
    <3> HIDE DEF k, m
    <3> QED
      BY <1>1, <1>2, <1>4
  <2>3. SubSeq(a.buf, k + 1, Len(a.buf)) = SubSeq(text, n + (k + 1), Len(text))
    <3> HIDE DEF k
    <3> QED
      BY <1>1, <2>2, EndOfEnd
  <2> QED
    BY <2>1, <2>3
<1>9. EmitHold(a) = c
  BY DEF EmitHold
<1>10. NoTagFrom(text, m, Len(text), a.inThink)
  BY <1>1, <1>4 DEF NoTagFrom
<1> HIDE DEF k, b, m, r
<1>11. /\ c \in Assemblers /\ c.extras = a.extras /\ c.inThink = a.inThink
       /\ c.thinking = r.thinking /\ c.body = r.body /\ c.inThink = r.inThink
       /\ c.buf = SubSeq(text, m + 1, Len(text))
  <2>1. SubSeq(text, m + 1, Len(text)) \in Seq(Tokens)
    BY <1>4
  <2>2. /\ c \in Assemblers /\ c.extras = b.extras /\ c.inThink = b.inThink
        /\ c.thinking = b.thinking /\ c.body = b.body
        /\ c.buf = SubSeq(text, m + 1, Len(text))
    BY <1>6, <1>8, <2>1 DEF Assemblers
  <2> HIDE DEF c
  <2> QED
    BY <1>6, <2>2
<1>12. ~TagAt(text, m, a.inThink)
  BY <1>1, <1>4, <1>10 DEF NoTagFrom
<1> HIDE DEF c
<1>13. Upto(c, text, m)
  BY <1>7, <1>11, <1>12 DEF Upto, r
<1> QED
  BY <1>4, <1>9, <1>10, <1>11, <1>13

(* It has read a text, up to what it holds, and found the tags there are.  *)
Follows(a, text) ==
  \E n \in Nat : Upto(a, text, n) /\ NoTagFrom(text, n, Len(text), a.inThink)

LEMMA NewFollows == Follows(NewAssembler, <<>>)
<1>1. <<>> \in Seq(Tokens) /\ Len(<<>>) = 0
  OBVIOUS
<1>2. Reading(<<>>)[0] = NothingRead
  BY <1>1, ReadingReads
<1>3. NewAssembler \in Assemblers
  BY <1>1 DEF NewAssembler, Assemblers
<1>4. SubSeq(<<>>, 0 + 1, Len(<<>>)) = <<>>
  OBVIOUS
<1>5. Upto(NewAssembler, <<>>, 0)
  <2> DEFINE a == NewAssembler
  <2>1. /\ a.thinking = NothingRead.thinking /\ a.body = NothingRead.body
        /\ a.inThink = NothingRead.inThink /\ a.buf = <<>>
    BY DEF NewAssembler, NothingRead
  <2>2. Sound(<<>>, 0)
    BY <1>1 DEF Sound
  <2>3. ~TagAt(<<>>, 0, a.inThink)
    BY <1>1 DEF TagAt
  <2> HIDE DEF a
  <2> QED
    BY <1>2, <1>3, <1>4, <2>1, <2>2, <2>3 DEF Upto, a
<1>6. NoTagFrom(<<>>, 0, 0, NewAssembler.inThink)
  BY <1>1 DEF NoTagFrom, TagAt
<1> QED
  BY <1>1, <1>5, <1>6 DEF Follows

(* More text, cut wherever it was.                                         *)
LEMMA FeedFollows ==
  ASSUME NEW text \in Seq(Tokens), NEW more \in Seq(Tokens), NEW a, Follows(a, text)
  PROVE  Follows(FeedTagged(a, more), text \o more) /\ FeedTagged(a, more).extras = a.extras
<1> DEFINE all == text \o more
           b == [a EXCEPT !.buf = @ \o more]
<1>1. PICK n \in Nat : Upto(a, text, n)
  BY DEF Follows
<1>2. /\ a \in Assemblers /\ Sound(text, n) /\ n <= Len(text)
      /\ a.buf = SubSeq(text, n + 1, Len(text)) /\ ~TagAt(text, n, a.inThink)
  BY <1>1 DEF Upto, Sound
<1>3. all \in Seq(Tokens) /\ Len(all) = Len(text) + Len(more) /\ Sound(all, n)
  BY <1>2 DEF Sound
<1>4. Reading(all)[n] = Reading(text)[n]
  BY <1>2, ReadingStays
<1>5. ~TagAt(all, n, a.inThink)
  BY <1>2, TagStays
<1>6. a.buf \o more = SubSeq(all, n + 1, Len(all))
  <2> DEFINE u == SubSeq(text, n + 1, Len(text))
             v == u \o more
             w == SubSeq(all, n + 1, Len(all))
  <2>1. u \in Seq(Tokens) /\ Len(u) = Len(text) - n
        /\ \A i \in 1 .. Len(text) - n : u[i] = text[n + i]
    BY <1>2
  <2> HIDE DEF u
  <2>2. v \in Seq(Tokens) /\ Len(v) = Len(all) - n
        /\ \A i \in 1 .. Len(v) : v[i] = IF i <= Len(text) - n THEN text[n + i]
                                         ELSE more[i - (Len(text) - n)]
    <3>1. v \in Seq(Tokens) /\ Len(v) = Len(u) + Len(more)
          /\ \A i \in 1 .. Len(u) + Len(more) : v[i] = IF i <= Len(u) THEN u[i] ELSE more[i - Len(u)]
      BY <2>1, ConcatProperties
    <3> HIDE DEF v
    <3> QED
      BY <1>2, <1>3, <2>1, <3>1
  <2>3. \A i \in 1 .. Len(all) : all[i] = IF i <= Len(text) THEN text[i] ELSE more[i - Len(text)]
    BY <1>3
  <2>4. all \in Seq(Tokens)
    BY <1>3
  <2> HIDE DEF all, v
  <2>5. w \in Seq(Tokens) /\ Len(w) = Len(all) - n
        /\ \A i \in 1 .. Len(w) : w[i] = all[n + i]
    BY <1>2, <1>3, <2>4
  <2> HIDE DEF w
  <2>6. \A i \in 1 .. Len(v) : v[i] = w[i]
    <3>1. ASSUME NEW i \in 1 .. Len(v) PROVE v[i] = w[i]
      <4>1. i \in 1 .. Len(w) /\ n + i \in 1 .. Len(all)
        BY <1>2, <2>2, <2>5
      <4>2. w[i] = IF n + i <= Len(text) THEN text[n + i] ELSE more[(n + i) - Len(text)]
        BY <2>3, <2>5, <4>1
      <4>3. (n + i) - Len(text) = i - (Len(text) - n) /\ (n + i <= Len(text) <=> i <= Len(text) - n)
        BY <1>2
      <4> QED
        BY <2>2, <4>2, <4>3
    <3> QED
      BY <3>1
  <2>7. v = w
    BY <2>2, <2>5, <2>6, SeqEqual
  <2> QED
    BY <1>2, <2>7 DEF v, w, u
<1> HIDE DEF all
<1>7. Upto(b, all, n) /\ b.extras = a.extras
  <2>1. SubSeq(all, n + 1, Len(all)) \in Seq(Tokens)
    BY <1>2, <1>3
  <2>2. /\ b \in Assemblers /\ b.extras = a.extras /\ b.inThink = a.inThink
        /\ b.thinking = a.thinking /\ b.body = a.body
        /\ b.buf = SubSeq(all, n + 1, Len(all))
    BY <1>2, <1>6, <2>1 DEF Assemblers
  <2> HIDE DEF b
  <2> QED
    BY <1>1, <1>3, <1>4, <1>5, <2>2 DEF Upto
<1> HIDE DEF b
<1>8. PICK m \in Nat : /\ Upto(PassTags(b), all, m) /\ PassTags(b).extras = b.extras
                       /\ NoTagFrom(all, m, Len(all), PassTags(b).inThink)
  BY <1>3, <1>7, PassTagsReads
<1>9. /\ Follows(EmitHold(PassTags(b)), all)
      /\ EmitHold(PassTags(b)).extras = PassTags(b).extras
  BY <1>3, <1>8, EmitHoldReads DEF Follows
<1> QED
  BY <1>7, <1>8, <1>9 DEF FeedTagged, b, all

(* At the end of the text what was held goes out.                          *)
LEMMA FlushReads ==
  ASSUME NEW text \in Seq(Tokens), NEW a, Follows(a, text)
  PROVE  LET r == Reading(text)[Len(text)]
         IN  /\ Flush(a) \in Assemblers /\ Flush(a).buf = <<>> /\ Flush(a).extras = a.extras
             /\ Flush(a).thinking = r.thinking /\ Flush(a).body = r.body
<1>1. PICK n \in Nat : Upto(a, text, n) /\ NoTagFrom(text, n, Len(text), a.inThink)
  BY DEF Follows
<1>2. a.buf \in Seq(Tokens) /\ Len(a.buf) = Len(text) - n /\ n <= Len(text) /\ Len(text) \in Nat
  BY <1>1 DEF Upto, Sound
<1> DEFINE k == Len(text) - n
           r == Reading(text)[Len(text)]
           b == Emit(a, a.buf)
<1>3. k \in Nat /\ n + k = Len(text) /\ SubSeq(a.buf, 1, k) = a.buf
  BY <1>2, SubSeqFull
<1> HIDE DEF k
<1>4. /\ b \in Assemblers /\ b.extras = a.extras /\ b.thinking = r.thinking /\ b.body = r.body
  <2>1. NoTagFrom(text, n, n + k, a.inThink) /\ n + k <= Len(text)
    BY <1>1, <1>2, <1>3
  <2>2. LET c == Emit(a, SubSeq(a.buf, 1, k))
            s == Reading(text)[n + k]
        IN  /\ c \in Assemblers /\ c.extras = a.extras
            /\ c.thinking = s.thinking /\ c.body = s.body
    BY <1>1, <1>3, <2>1, EmitReads
  <2> QED
    BY <1>3, <2>2
<1>5. Flush(a) = [b EXCEPT !.buf = <<>>]
  BY DEF Flush
<1> HIDE DEF b, r
<1>6. <<>> \in Seq(Tokens)
  OBVIOUS
<1> QED
  BY <1>4, <1>5, <1>6 DEF Assemblers, r

-----------------------------------------------------------------------------
(* The pieces.  The texts of a list as one: the function exists.           *)

Joins(f, texts, from, n) ==
  f = [i \in from - 1 .. n |-> IF i < from THEN <<>> ELSE f[i - 1] \o texts[i]]

LEMMA JoiningExists ==
  ASSUME NEW texts, NEW from \in Nat \ {0}, NEW n \in Nat, n >= from - 1
  PROVE  \E f : Joins(f, texts, from, n)
<1> DEFINE o == from - 1
           Good == {m \in Nat : \E f : Joins(f, texts, from, o + m)}
<1>0. o \in Nat
  OBVIOUS
<1>1. 0 \in Good
  <2>1. Joins([i \in o .. o + 0 |-> <<>>], texts, from, o + 0)
    <3>1. \A i \in o .. o + 0 : i < from
      BY <1>0
    <3> QED
      BY <3>1 DEF Joins
  <2> QED
    BY <2>1
<1>2. ASSUME NEW m \in Nat, m \in Good
      PROVE  m + 1 \in Good
  <2>1. PICK f : Joins(f, texts, from, o + m)
    BY <1>2
  <2> DEFINE p == o + m
             g == [i \in o .. p + 1 |-> IF i = p + 1 THEN f[p] \o texts[i] ELSE f[i]]
  <2>2. \A i \in o .. p : f[i] = IF i < from THEN <<>> ELSE f[i - 1] \o texts[i]
    BY <2>1 DEF Joins
  <2>3. ASSUME NEW i \in o .. p + 1
        PROVE  g[i] = IF i < from THEN <<>> ELSE g[i - 1] \o texts[i]
    <3>1. CASE i = p + 1
      <4>1. g[i - 1] = f[p] /\ ~(i < from)
        BY <3>1
      <4> QED
        BY <3>1, <4>1
    <3>2. CASE i # p + 1 /\ ~(i < from)
      <4>1. g[i - 1] = f[i - 1] /\ g[i] = f[i] /\ i \in o .. p
        BY <3>2
      <4> HIDE DEF g, p
      <4> QED
        BY <2>2, <3>2, <4>1
    <3>3. CASE i < from
      BY <2>2, <3>3
    <3> QED
      BY <3>1, <3>2, <3>3
  <2>4. Joins(g, texts, from, o + (m + 1))
    <3>1. o + (m + 1) = p + 1
      BY <1>0
    <3> HIDE DEF g, p
    <3> SUFFICES g = [i \in from - 1 .. p + 1 |-> IF i < from THEN <<>> ELSE g[i - 1] \o texts[i]]
      BY <3>1 DEF Joins
    <3> USE DEF g
    <3> QED
      BY <2>3
  <2> QED
    BY <2>4
<1>3. Nat \subseteq Good
  <2> HIDE DEF Good
  <2> QED
    BY <1>1, <1>2, Reaches
<1>4. n - o \in Nat /\ o + (n - o) = n
  BY <1>0
<1> HIDE DEF o
<1> QED
  BY <1>3, <1>4

LEMMA JoinedBy ==
  ASSUME NEW texts \in Seq(Seq(Tokens)), NEW from \in 1 .. Len(texts) + 1
  PROVE  /\ Joined(texts, from)[from - 1] = <<>>
         /\ \A i \in from .. Len(texts) :
              Joined(texts, from)[i] = Joined(texts, from)[i - 1] \o texts[i]
<1> DEFINE N == Len(texts)
<1>0. N \in Nat /\ N >= from - 1 /\ from \in Nat \ {0}
  OBVIOUS
<1> HIDE DEF N
<1>1. PICK f : Joins(f, texts, from, N)
  BY <1>0, JoiningExists
<1>2. Joined(texts, from) = CHOOSE g : Joins(g, texts, from, N)
  BY DEF Joined, Joins, N
<1>3. Joins(Joined(texts, from), texts, from, N)
  BY <1>1, <1>2
<1>4. ASSUME NEW i \in from - 1 .. N
      PROVE  Joined(texts, from)[i]
               = IF i < from THEN <<>> ELSE Joined(texts, from)[i - 1] \o texts[i]
  BY <1>3 DEF Joins
<1>5. ASSUME NEW i \in from .. N
      PROVE  Joined(texts, from)[i] = Joined(texts, from)[i - 1] \o texts[i]
  <2>1. i \in from - 1 .. N /\ ~(i < from)
    BY <1>0
  <2> QED
    BY <1>4, <2>1
<1>6. Joined(texts, from)[from - 1] = <<>>
  BY <1>0, <1>4
<1> QED
  BY <1>5, <1>6 DEF N

LEMMA JoinedTyped ==
  ASSUME NEW texts \in Seq(Seq(Tokens)), NEW from \in 1 .. Len(texts) + 1
  PROVE  \A i \in from - 1 .. Len(texts) : Joined(texts, from)[i] \in Seq(Tokens)
<1> DEFINE o == from - 1
           Good == {m \in Nat : o + m <= Len(texts) => Joined(texts, from)[o + m] \in Seq(Tokens)}
<1>0. o \in Nat /\ Len(texts) \in Nat /\ o + 1 = from
  OBVIOUS
<1>1. 0 \in Good
  <2>1. <<>> \in Seq(Tokens) /\ o + 0 = from - 1
    BY <1>0
  <2> QED
    BY <2>1, JoinedBy
<1>2. ASSUME NEW m \in Nat, m \in Good
      PROVE  m + 1 \in Good
  <2>0. SUFFICES ASSUME o + (m + 1) <= Len(texts)
                 PROVE  Joined(texts, from)[o + (m + 1)] \in Seq(Tokens)
    OBVIOUS
  <2> DEFINE i == o + (m + 1)
  <2>1. i \in from .. Len(texts) /\ i - 1 = o + m /\ i \in 1 .. Len(texts)
    BY <1>0, <2>0
  <2>2. Joined(texts, from)[i - 1] \in Seq(Tokens)
    BY <1>0, <1>2, <2>0, <2>1
  <2> HIDE DEF i
  <2>3. texts[i] \in Seq(Tokens)
    BY <2>1
  <2>4. Joined(texts, from)[i] = Joined(texts, from)[i - 1] \o texts[i]
    BY <2>1, JoinedBy
  <2>5. Joined(texts, from)[i] \in Seq(Tokens)
    BY <2>2, <2>3, <2>4
  <2> QED
    BY <2>5 DEF i
<1>3. Nat \subseteq Good
  <2> HIDE DEF Good
  <2> QED
    BY <1>1, <1>2, Reaches
<1>4. ASSUME NEW i \in from - 1 .. Len(texts) PROVE Joined(texts, from)[i] \in Seq(Tokens)
  <2>1. i - o \in Nat /\ o + (i - o) = i
    BY <1>0
  <2> HIDE DEF o
  <2> QED
    BY <1>3, <2>1
<1> QED
  BY <1>4

(* Where the reasoning begins.                                             *)
LEMMA FirstIs ==
  ASSUME NEW wire \in Seq(Pieces)
  PROVE  LET first == FirstReasoning(wire)
         IN  /\ first \in 1 .. Len(wire) + 1
             /\ \A i \in 1 .. Len(wire) : i < first => wire[i].reasoning = <<>>
             /\ first <= Len(wire) => wire[first].reasoning # <<>>
<1> DEFINE reasons == {i \in DOMAIN wire : wire[i].reasoning # <<>>}
<1>1. reasons \subseteq 1 .. Len(wire) /\ Len(wire) \in Nat
      /\ \A i \in 1 .. Len(wire) : i \in reasons <=> wire[i].reasoning # <<>>
  OBVIOUS
<1>2. FirstReasoning(wire) = IF reasons = {} THEN Len(wire) + 1 ELSE Min(reasons)
  BY DEF FirstReasoning
<1> HIDE DEF reasons
<1>3. CASE reasons = {}
  BY <1>1, <1>2, <1>3
<1>4. CASE reasons # {}
  <2>1. \E x \in reasons : \A y \in reasons : x <= y
    <3>1. reasons \subseteq Nat
      BY <1>1
    <3> QED
      BY <1>4, <3>1, Least
  <2>2. Min(reasons) \in reasons /\ \A y \in reasons : Min(reasons) <= y
    BY <2>1 DEF Min
  <2> DEFINE first == Min(reasons)
  <2> HIDE DEF first
  <2>3. first \in reasons /\ \A y \in reasons : first <= y
    BY <2>2 DEF first
  <2>4. FirstReasoning(wire) = first
    BY <1>2, <1>4 DEF first
  <2> QED
    BY <1>1, <2>3, <2>4
<1> QED
  BY <1>3, <1>4

(* What was held goes out, and where nothing was nothing does.             *)
LEMMA FlushIs ==
  ASSUME NEW a \in Assemblers
  PROVE  /\ Flush(a) \in Assemblers /\ Flush(a).buf = <<>> /\ Flush(a).extras = a.extras
         /\ a.buf = <<>> => Flush(a).thinking = a.thinking /\ Flush(a).body = a.body
<1> DEFINE b == Emit(a, a.buf)
<1>1. a.buf \in Seq(Tokens) /\ a.thinking \in Seq(Tokens) /\ a.body \in Seq(Tokens)
  BY DEF Assemblers
<1>2. b \in Assemblers /\ ReadPlainly(b, a, a.buf) /\ b.extras = a.extras
  BY <1>1, EmitIs
<1>3. Flush(a) = [b EXCEPT !.buf = <<>>]
  BY DEF Flush
<1>4. <<>> \in Seq(Tokens)
  OBVIOUS
<1> HIDE DEF b
<1>5. Flush(a) \in Assemblers /\ Flush(a).buf = <<>> /\ Flush(a).extras = b.extras
      /\ Flush(a).thinking = b.thinking /\ Flush(a).body = b.body
  BY <1>2, <1>3, <1>4 DEF Assemblers
<1>6. ASSUME a.buf = <<>> PROVE b.thinking = a.thinking /\ b.body = a.body
  <2>1. a.thinking \o <<>> = a.thinking /\ a.body \o <<>> = a.body
    BY <1>1, ConcatEmptySeq
  <2> QED
    BY <1>2, <1>6, <2>1 DEF ReadPlainly
<1> QED
  BY <1>2, <1>5, <1>6

(* From the first reasoning on, the texts are what they are.               *)
LEMMA FeedPlainly ==
  ASSUME NEW a \in Assemblers, NEW piece \in Pieces,
         piece.reasoning # <<>> \/ (a.extras /\ a.buf = <<>>)
  PROVE  LET c == FeedDelta(a, piece)
         IN  /\ c \in Assemblers /\ c.extras /\ c.buf = <<>>
             /\ c.thinking = Flush(a).thinking \o piece.reasoning
             /\ c.body = Flush(a).body \o piece.content
<1> DEFINE f == Flush(a)
           b == IF piece.reasoning = <<>> THEN a
                ELSE [f EXCEPT !.thinking = @ \o piece.reasoning, !.extras = TRUE]
           c == IF piece.content = <<>> THEN b
                ELSE IF b.extras THEN [Flush(b) EXCEPT !.body = @ \o piece.content]
                ELSE FeedTagged(b, piece.content)
<1>1. FeedDelta(a, piece) = c
  BY DEF FeedDelta
<1>2. piece.reasoning \in Seq(Tokens) /\ piece.content \in Seq(Tokens)
  BY DEF Pieces
<1>3. f \in Assemblers /\ f.buf = <<>>
      /\ (a.buf = <<>> => f.thinking = a.thinking /\ f.body = a.body)
  BY FlushIs
<1> HIDE DEF f
<1>4. f.thinking \in Seq(Tokens) /\ f.body \in Seq(Tokens)
  BY <1>3 DEF Assemblers
<1>5. b \in Assemblers /\ b.extras /\ b.buf = <<>>
      /\ b.thinking = f.thinking \o piece.reasoning /\ b.body = f.body
  <2>1. CASE piece.reasoning = <<>>
    <3>1. f.thinking \o piece.reasoning = f.thinking
      BY <1>4, <2>1, ConcatEmptySeq
    <3> QED
      BY <1>3, <2>1, <3>1
  <2>2. CASE piece.reasoning # <<>>
    <3>1. f.thinking \o piece.reasoning \in Seq(Tokens)
      BY <1>2, <1>4
    <3> QED
      BY <1>3, <2>2, <3>1 DEF Assemblers
  <2> QED
    BY <2>1, <2>2
<1> HIDE DEF b
<1>6. CASE piece.content = <<>>
  <2>1. f.body \o piece.content = f.body
    BY <1>4, <1>6, ConcatEmptySeq
  <2> QED
    BY <1>1, <1>5, <1>6, <2>1 DEF f
<1>7. CASE piece.content # <<>>
  <2> DEFINE g == Flush(b)
  <2>1. g \in Assemblers /\ g.buf = <<>> /\ g.extras = b.extras
        /\ g.thinking = b.thinking /\ g.body = b.body
    BY <1>5, FlushIs
  <2>2. c = [g EXCEPT !.body = @ \o piece.content]
    BY <1>5, <1>7
  <2> HIDE DEF g
  <2>3. g.body \o piece.content \in Seq(Tokens)
    BY <1>2, <2>1 DEF Assemblers
  <2> HIDE DEF c
  <2>4. c \in Assemblers /\ c.buf = g.buf /\ c.extras = g.extras /\ c.thinking = g.thinking
        /\ c.body = g.body \o piece.content
    BY <2>1, <2>2, <2>3 DEF Assemblers
  <2> QED
    BY <1>1, <1>5, <2>1, <2>4 DEF f
<1> QED
  BY <1>6, <1>7

Contents(wire) == [i \in DOMAIN wire |-> wire[i].content]
Reasonings(wire) == [i \in DOMAIN wire |-> wire[i].reasoning]

(* What stands before the first reasoning.                                 *)
Tagged(wire) == Joined(Contents(wire), 1)[FirstReasoning(wire) - 1]

(* The assembler after the first g pieces.                                 *)
Heard(a, wire, g) ==
  LET first == FirstReasoning(wire)
      read == Reading(Tagged(wire))[Len(Tagged(wire))]
  IN  IF g < first THEN Follows(a, Joined(Contents(wire), 1)[g]) /\ ~a.extras
      ELSE /\ a \in Assemblers /\ a.extras /\ a.buf = <<>>
           /\ a.thinking = read.thinking \o Joined(Reasonings(wire), first)[g]
           /\ a.body = read.body \o Joined(Contents(wire), first)[g]

LEMMA WireTexts ==
  ASSUME NEW wire \in Seq(Pieces)
  PROVE  /\ Contents(wire) \in Seq(Seq(Tokens)) /\ Len(Contents(wire)) = Len(wire)
         /\ Reasonings(wire) \in Seq(Seq(Tokens)) /\ Len(Reasonings(wire)) = Len(wire)
         /\ \A i \in 1 .. Len(wire) : /\ wire[i] \in Pieces
                                      /\ Contents(wire)[i] = wire[i].content
                                      /\ Reasonings(wire)[i] = wire[i].reasoning
<1>1. \A i \in 1 .. Len(wire) : /\ wire[i] \in Pieces
                                /\ wire[i].content \in Seq(Tokens)
                                /\ wire[i].reasoning \in Seq(Tokens)
  <2>1. \A i \in 1 .. Len(wire) : wire[i] \in Pieces
    OBVIOUS
  <2> QED
    BY <2>1 DEF Pieces
<1>2. DOMAIN wire = 1 .. Len(wire) /\ Len(wire) \in Nat
  OBVIOUS
<1>3. /\ Contents(wire) = [i \in 1 .. Len(wire) |-> wire[i].content]
      /\ Reasonings(wire) = [i \in 1 .. Len(wire) |-> wire[i].reasoning]
  BY <1>2 DEF Contents, Reasonings
<1>4. Contents(wire) \in Seq(Seq(Tokens)) /\ Len(Contents(wire)) = Len(wire)
  BY <1>1, <1>2, <1>3
<1>5. Reasonings(wire) \in Seq(Seq(Tokens)) /\ Len(Reasonings(wire)) = Len(wire)
  BY <1>1, <1>2, <1>3
<1> QED
  BY <1>1, <1>3, <1>4, <1>5

(* How three texts are put together does not matter.                       *)
LEMMA RegroupedTexts == \A s, t, u \in Seq(Tokens) : (s \o t) \o u = s \o (t \o u)
<1> SUFFICES ASSUME NEW s \in Seq(Tokens), NEW t \in Seq(Tokens), NEW u \in Seq(Tokens)
             PROVE  (s \o t) \o u = s \o (t \o u)
  OBVIOUS
<1> QED
  BY ConcatAssociative

(* A piece more.                                                           *)
LEMMA HeardMore ==
  ASSUME NEW wire \in Seq(Pieces), NEW g \in 0 .. Len(wire) - 1, NEW a, Heard(a, wire, g),
         ~wire[g + 1].whole
  PROVE  Heard(Feed(a, wire[g + 1]), wire, g + 1)
<1> DEFINE first == FirstReasoning(wire)
           contents == Contents(wire)
           reasonings == Reasonings(wire)
           piece == wire[g + 1]
           b == FeedDelta(a, piece)
           T == Tagged(wire)
           read == Reading(T)[Len(T)]
<1>1. /\ contents \in Seq(Seq(Tokens)) /\ Len(contents) = Len(wire)
      /\ reasonings \in Seq(Seq(Tokens)) /\ Len(reasonings) = Len(wire)
      /\ contents[g + 1] = piece.content /\ reasonings[g + 1] = piece.reasoning
      /\ piece \in Pieces /\ g + 1 \in 1 .. Len(wire) /\ Len(wire) \in Nat
  BY WireTexts
<1>2. /\ first \in 1 .. Len(wire) + 1
      /\ g + 1 < first => piece.reasoning = <<>>
      /\ g + 1 = first => piece.reasoning # <<>>
  BY <1>1, FirstIs
<1>3. Feed(a, piece) = b
  BY DEF Feed
<1>4. piece.reasoning \in Seq(Tokens) /\ piece.content \in Seq(Tokens)
  BY <1>1 DEF Pieces
<1> HIDE DEF first, contents, reasonings, piece, b, T, read
<1>5. CASE g + 1 < first
  <2> DEFINE text == Joined(contents, 1)[g]
             more == Joined(contents, 1)[g + 1]
  <2>1. Follows(a, text) /\ ~a.extras
    <3>1. g < first
      BY <1>1, <1>2, <1>5
    <3> QED
      BY <3>1 DEF Heard, contents, first
  <2>2. text \in Seq(Tokens) /\ more = text \o piece.content
    <3>1. 1 \in 1 .. Len(contents) + 1 /\ g \in 1 - 1 .. Len(contents) /\ g + 1 \in 1 .. Len(contents)
          /\ (g + 1) - 1 = g
      BY <1>1
    <3> QED
      BY <1>1, <3>1, JoinedTyped, JoinedBy
  <2> HIDE DEF text, more
  <2>3. Follows(b, more) /\ b.extras = a.extras
    <3>1. CASE piece.content = <<>>
      <4>1. b = a
        BY <1>2, <1>5, <3>1 DEF FeedDelta, b
      <4>2. more = text
        BY <2>2, <3>1, ConcatEmptySeq
      <4> QED
        BY <2>1, <4>1, <4>2
    <3>2. CASE piece.content # <<>>
      <4>1. b = FeedTagged(a, piece.content)
        BY <1>2, <1>5, <2>1, <3>2 DEF FeedDelta, b
      <4> QED
        BY <1>4, <2>1, <2>2, <4>1, FeedFollows
    <3> QED
      BY <3>1, <3>2
  <2>4. Heard(b, wire, g + 1)
    BY <1>5, <2>1, <2>3 DEF Heard, more, contents, first
  <2> QED
    BY <1>3, <2>4 DEF piece
<1>6. CASE g + 1 >= first
  <2> DEFINE thought == Joined(reasonings, first)
             said == Joined(contents, first)
  <2>1. /\ g + 1 \in first .. Len(contents) /\ g + 1 \in first .. Len(reasonings)
        /\ (g + 1) - 1 = g /\ first \in 1 .. Len(contents) + 1 /\ first \in 1 .. Len(reasonings) + 1
    BY <1>1, <1>2, <1>6
  <2>2. thought[g + 1] = thought[g] \o piece.reasoning
    BY <1>1, <2>1, JoinedBy
  <2>3. said[g + 1] = said[g] \o piece.content
    BY <1>1, <2>1, JoinedBy
  <2>4. thought[g] \in Seq(Tokens) /\ said[g] \in Seq(Tokens)
    <3>1. g \in first - 1 .. Len(contents) /\ g \in first - 1 .. Len(reasonings)
      BY <2>1
    <3> QED
      BY <1>1, <2>1, <3>1, JoinedTyped
  <2>5. T \in Seq(Tokens)
    <3>1. 1 \in 1 .. Len(contents) + 1 /\ first - 1 \in 1 - 1 .. Len(contents)
      BY <1>1, <1>2
    <3> QED
      BY <1>1, <3>1, JoinedTyped DEF T, Tagged, contents, first
  <2>6. read.thinking \in Seq(Tokens) /\ read.body \in Seq(Tokens)
    <3>1. Len(T) \in 0 .. Len(T)
      BY <2>5
    <3>2. read \in Readings
      BY <2>5, <3>1, ReadingTyped DEF read
    <3> QED
      BY <3>2 DEF Readings
  <2>7. /\ a \in Assemblers /\ (piece.reasoning # <<>> \/ (a.extras /\ a.buf = <<>>))
        /\ Flush(a).thinking = read.thinking \o thought[g]
        /\ Flush(a).body = read.body \o said[g]
    <3>1. CASE g + 1 = first
      <4>1. g = first - 1 /\ g < first
        BY <1>2, <3>1
      <4>2. Follows(a, T)
        BY <4>1 DEF Heard, T, Tagged, first
      <4>3. a \in Assemblers
        BY <4>2 DEF Follows, Upto
      <4>4. Flush(a).thinking = read.thinking /\ Flush(a).body = read.body
        BY <2>5, <4>2, FlushReads DEF read
      <4>5. thought[g] = <<>> /\ said[g] = <<>>
        BY <1>1, <2>1, <4>1, JoinedBy
      <4>6. read.thinking \o <<>> = read.thinking /\ read.body \o <<>> = read.body
        BY <2>6, ConcatEmptySeq
      <4> HIDE DEF thought, said
      <4> QED
        BY <1>2, <3>1, <4>3, <4>4, <4>5, <4>6
    <3>2. CASE g + 1 # first
      <4>1. ~(g < first)
        BY <1>2, <1>6, <3>2
      <4>2. /\ a \in Assemblers /\ a.extras /\ a.buf = <<>>
            /\ a.thinking = read.thinking \o thought[g] /\ a.body = read.body \o said[g]
        BY <4>1 DEF Heard, read, T, first, contents, reasonings
      <4> HIDE DEF thought, said
      <4> QED
        BY <4>2, FlushIs
    <3> QED
      BY <3>1, <3>2
  <2>8. /\ b \in Assemblers /\ b.extras /\ b.buf = <<>>
        /\ b.thinking = Flush(a).thinking \o piece.reasoning
        /\ b.body = Flush(a).body \o piece.content
    BY <1>1, <2>7, FeedPlainly DEF b
  <2> HIDE DEF thought, said
  <2>9. /\ (read.thinking \o thought[g]) \o piece.reasoning = read.thinking \o thought[g + 1]
        /\ (read.body \o said[g]) \o piece.content = read.body \o said[g + 1]
    <3>1. (read.thinking \o thought[g]) \o piece.reasoning
            = read.thinking \o (thought[g] \o piece.reasoning)
      <4>1. read.thinking \in Seq(Tokens)
        BY <2>6
      <4>2. thought[g] \in Seq(Tokens)
        BY <2>4
      <4>3. piece.reasoning \in Seq(Tokens)
        BY <1>4
      <4> QED
        BY <4>1, <4>2, <4>3, RegroupedTexts, Zenon
    <3>2. (read.body \o said[g]) \o piece.content = read.body \o (said[g] \o piece.content)
      <4>1. read.body \in Seq(Tokens)
        BY <2>6
      <4>2. said[g] \in Seq(Tokens)
        BY <2>4
      <4>3. piece.content \in Seq(Tokens)
        BY <1>4
      <4> QED
        BY <4>1, <4>2, <4>3, RegroupedTexts, Zenon
    <3> QED
      BY <2>2, <2>3, <3>1, <3>2
  <2>10. b.thinking = read.thinking \o thought[g + 1] /\ b.body = read.body \o said[g + 1]
    BY <2>7, <2>8, <2>9
  <2>11. ~(g + 1 < first)
    BY <1>1, <1>2, <1>6
  <2>12. Heard(b, wire, g + 1)
    BY <2>8, <2>10, <2>11 DEF Heard, read, T, first, contents, reasonings, thought, said
  <2> QED
    BY <1>3, <2>12 DEF piece
<1> QED
  BY <1>1, <1>2, <1>5, <1>6

LEMMA HeardNothing ==
  ASSUME NEW wire \in Seq(Pieces)
  PROVE  Heard(NewAssembler, wire, 0)
<1>1. 0 < FirstReasoning(wire)
  BY FirstIs
<1>2. Joined(Contents(wire), 1)[0] = <<>>
  <2>1. Contents(wire) \in Seq(Seq(Tokens)) /\ 1 \in 1 .. Len(Contents(wire)) + 1
    BY WireTexts
  <2>2. Joined(Contents(wire), 1)[1 - 1] = <<>>
    BY <2>1, JoinedBy
  <2> QED
    BY <2>2
<1>3. ~NewAssembler.extras
  BY DEF NewAssembler
<1> QED
  BY <1>1, <1>2, <1>3, NewFollows DEF Heard

(* The end of the stream.                                                  *)
LEMMA HeardAll ==
  ASSUME NEW wire \in Seq(Pieces), NEW a, Heard(a, wire, Len(wire))
  PROVE  Finish(a) = ReadStream(wire)
<1> DEFINE first == FirstReasoning(wire)
           contents == Contents(wire)
           reasonings == Reasonings(wire)
           T == Tagged(wire)
           read == Reading(T)[Len(T)]
           raw == read.body \o Joined(contents, first)[Len(wire)]
           thinking == read.thinking \o Joined(reasonings, first)[Len(wire)]
<1>1. ReadStream(wire) = [thinking |-> StripJson(thinking, raw), raw |-> raw]
  BY DEF ReadStream, Tagged, Contents, Reasonings
<1>2. Finish(a) = [thinking |-> StripJson(Flush(a).thinking, Flush(a).body), raw |-> Flush(a).body]
  BY DEF Finish, Visible
<1>3. /\ contents \in Seq(Seq(Tokens)) /\ Len(contents) = Len(wire)
      /\ reasonings \in Seq(Seq(Tokens)) /\ Len(reasonings) = Len(wire) /\ Len(wire) \in Nat
  BY WireTexts
<1>4. first \in 1 .. Len(wire) + 1
  BY FirstIs
<1> HIDE DEF first, contents, reasonings, T, read
<1>5. T \in Seq(Tokens) /\ read.thinking \in Seq(Tokens) /\ read.body \in Seq(Tokens)
  <2>1. 1 \in 1 .. Len(contents) + 1 /\ first - 1 \in 1 - 1 .. Len(contents)
    BY <1>3, <1>4
  <2>2. T \in Seq(Tokens)
    BY <1>3, <2>1, JoinedTyped DEF T, Tagged, contents, first
  <2>3. Len(T) \in 0 .. Len(T)
    BY <2>2
  <2>4. read \in Readings
    BY <2>2, <2>3, ReadingTyped DEF read
  <2> QED
    BY <2>2, <2>4 DEF Readings
<1>6. Flush(a).thinking = thinking /\ Flush(a).body = raw
  <2>1. CASE Len(wire) < first
    <3>1. first - 1 = Len(wire) /\ first \in 1 .. Len(contents) + 1
          /\ first \in 1 .. Len(reasonings) + 1
      BY <1>3, <1>4, <2>1
    <3>2. Follows(a, T)
      BY <2>1, <3>1 DEF Heard, T, Tagged, first
    <3>3. Flush(a).thinking = read.thinking /\ Flush(a).body = read.body
      BY <1>5, <3>2, FlushReads DEF read
    <3>4. Joined(contents, first)[Len(wire)] = <<>> /\ Joined(reasonings, first)[Len(wire)] = <<>>
      <4>1. Joined(contents, first)[first - 1] = <<>> /\ Joined(reasonings, first)[first - 1] = <<>>
        BY <1>3, <3>1, JoinedBy
      <4> QED
        BY <3>1, <4>1
    <3>5. read.thinking \o <<>> = read.thinking /\ read.body \o <<>> = read.body
      BY <1>5, ConcatEmptySeq
    <3> QED
      BY <3>3, <3>4, <3>5
  <2>2. CASE ~(Len(wire) < first)
    <3>1. a \in Assemblers /\ a.buf = <<>> /\ a.thinking = thinking /\ a.body = raw
      BY <2>2 DEF Heard, read, T, first, contents, reasonings
    <3> HIDE DEF thinking, raw
    <3> QED
      BY <3>1, FlushIs
  <2> QED
    BY <2>1, <2>2
<1> HIDE DEF thinking, raw
<1> QED
  BY <1>1, <1>2, <1>6
-----------------------------------------------------------------------------
(* A turn and its stream: what was read of it is what the reference reads. *)

Hears(w) ==
  IF w.at = "generate"
  THEN /\ w.wire \in Seq(Pieces) /\ w.got \in 0 .. Len(w.wire)
       /\ (\A i \in DOMAIN w.wire : ~w.wire[i].whole) => Heard(w.asm, w.wire, w.got)
  ELSE w.asm = NewAssembler /\ w.wire = <<>> /\ w.got = 0

(* A step that leaves the stream.                                          *)
LEMMA HearsSame ==
  ASSUME NEW v, NEW w, Hears(w), v.asm = w.asm, v.wire = w.wire, v.got = w.got,
         v.at = "generate" <=> w.at = "generate"
  PROVE  Hears(v)
BY DEF Hears

(* What is left of the stream goes at the end, and when a draft is there.  *)
LEMMA HearsNoMore ==
  ASSUME NEW w, Shaped(w)
  PROVE  /\ \A box : Hears(Ended(w, box))
         /\ \A thinking : Hears([Entered(Unread(w), "verify") EXCEPT !.thinking = thinking])
<1> DEFINE u == Unread(w)
<1>1. Shaped(u) /\ u.asm = NewAssembler /\ u.wire = <<>> /\ u.got = 0
  BY DEF Unread, Shaped, Fields
<1> HIDE DEF u
<1>2. ASSUME NEW box PROVE Hears(Ended(w, box))
  <2> DEFINE v == [u EXCEPT !.at = "done", !.box = box, !.event = TRUE,
                            !.latest = IF w.held # <<>> THEN w.held ELSE @]
  <2>1. v.asm = u.asm /\ v.wire = u.wire /\ v.got = u.got /\ v.at = "done"
    BY <1>1 DEF Shaped, Fields
  <2>2. Ended(w, box) = v
    BY DEF Ended, u
  <2> HIDE DEF v
  <2> QED
    BY <1>1, <2>1, <2>2 DEF Hears
<1>3. ASSUME NEW thinking
      PROVE  Hears([Entered(u, "verify") EXCEPT !.thinking = thinking])
  <2> DEFINE v == [Entered(u, "verify") EXCEPT !.thinking = thinking]
  <2>1. v.asm = u.asm /\ v.wire = u.wire /\ v.got = u.got /\ v.at = "verify"
    BY <1>1 DEF Shaped, Fields, Entered
  <2> HIDE DEF v
  <2> QED
    BY <1>1, <2>1 DEF Hears, v
<1> QED
  BY <1>2, <1>3 DEF u

(* The steps of the task.                                                  *)
LEMMA ProduceHears ==
  ASSUME Produce, turn # NoTurn => Shaped(turn) /\ Hears(turn)
  PROVE  Hears(turn')
<1>0. Shaped(turn) /\ Hears(turn)
  BY DEF Produce, Refuse, Admit, Abstain, Raise, Retrieve, Generate, Receive, Verify, Answer, At
<1>1. CASE Refuse \/ Raise
  BY <1>0, <1>1, HearsNoMore DEF Refuse, Raise
<1>2. CASE Abstain \/ Answer
  <2>1. PICK thinking, kind : turn' = Ended([turn EXCEPT !.thinking = thinking], kind)
    BY <1>2 DEF Abstain, Answer, Respond
  <2> DEFINE w == [turn EXCEPT !.thinking = thinking]
  <2>2. Shaped(w)
    BY <1>0 DEF Shaped, Fields
  <2> HIDE DEF w
  <2> QED
    BY <2>1, <2>2, HearsNoMore DEF w
<1>3. CASE Verify
  <2>1. PICK thinking : turn' = [Entered(Unread(turn), "verify") EXCEPT !.thinking = thinking]
    BY <1>3 DEF Verify
  <2> QED
    BY <1>0, <2>1, HearsNoMore
<1>4. CASE Admit \/ Retrieve
  <2>1. turn.at # "generate"
        /\ (turn' = [turn EXCEPT !.at = "admitted"] \/ turn' = Entered(turn, "retrieve"))
    BY <1>4 DEF Admit, Retrieve, At
  <2>2. turn'.asm = turn.asm /\ turn'.wire = turn.wire /\ turn'.got = turn.got
        /\ turn'.at # "generate"
    BY <1>0, <2>1 DEF Shaped, Fields, Entered
  <2> QED
    BY <1>0, <2>1, <2>2, HearsSame
<1>5. CASE Generate
  <2>1. PICK wire \in Wires : turn' = [Entered(turn, "generate") EXCEPT !.wire = wire]
    BY <1>5 DEF Generate
  <2>2. turn.asm = NewAssembler /\ turn.got = 0
    BY <1>0, <1>5 DEF Generate, At, Hears
  <2>3. turn'.asm = NewAssembler /\ turn'.wire = wire /\ turn'.got = 0 /\ turn'.at = "generate"
    BY <1>0, <2>1, <2>2 DEF Shaped, Fields, Entered
  <2>4. wire \in Seq(Pieces)
    BY TabAssumption
  <2>5. Heard(NewAssembler, wire, 0)
    BY <2>4, HeardNothing
  <2> QED
    BY <2>3, <2>4, <2>5 DEF Hears
<1>6. CASE Receive
  <2> DEFINE asm == Feed(turn.asm, turn.wire[turn.got + 1])
             next == [turn EXCEPT !.asm = asm, !.got = @ + 1]
             text == Visible(asm)
  <2>1. turn.at = "generate" /\ turn.got < Len(turn.wire)
    BY <1>6 DEF Receive, At
  <2>2. /\ turn.wire \in Seq(Pieces) /\ turn.got \in 0 .. Len(turn.wire) - 1
        /\ (\A i \in DOMAIN turn.wire : ~turn.wire[i].whole) => Heard(turn.asm, turn.wire, turn.got)
    BY <1>0, <2>1 DEF Hears
  <2>3. turn' = next \/ (\E ready : turn' = Thought(next, text, ready))
    BY <1>6 DEF Receive
  <2> HIDE DEF asm, text
  <2>4. /\ Shaped(next) /\ next.asm = asm /\ next.wire = turn.wire
        /\ next.got = turn.got + 1 /\ next.at = "generate"
    BY <1>0, <2>1 DEF Shaped, Fields
  <2> HIDE DEF next
  <2>5. turn'.asm = asm /\ turn'.wire = turn.wire /\ turn'.got = turn.got + 1
        /\ turn'.at = "generate"
    BY <2>3, <2>4 DEF Thought, Shaped, Fields
  <2>6. ASSUME \A i \in DOMAIN turn.wire : ~turn.wire[i].whole
        PROVE  Heard(asm, turn.wire, turn.got + 1)
    <3>1. turn.got + 1 \in DOMAIN turn.wire
      BY <2>2
    <3>2. ~turn.wire[turn.got + 1].whole
      BY <2>6, <3>1
    <3> QED
      BY <2>2, <2>6, <3>2, HeardMore DEF asm
  <2> QED
    BY <2>2, <2>5, <2>6 DEF Hears
<1> QED
  BY <1>1, <1>2, <1>3, <1>4, <1>5, <1>6 DEF Produce

(* The steps of the generator do not touch the stream.                     *)
LEMMA ConsumeHears ==
  ASSUME Consume, turn # NoTurn, Shaped(turn), turn.cons = "first" => turn.at = "none",
         Hears(turn), turn' # NoTurn
  PROVE  Hears(turn')
<1> DEFINE Left(w) == /\ turn'.asm = w.asm /\ turn'.wire = w.wire /\ turn'.got = w.got
                      /\ turn'.at = w.at
<1>1. ASSUME NEW w, Shaped(w), Check(w) PROVE Left(w)
  <2>1. turn' = NoTurn \/ turn' = [w EXCEPT !.cons = "waits"]
        \/ \E trace : turn' = [w EXCEPT !.cons = "last", !.seenTrace = trace, !.seenPhase = w.phase]
    BY <1>1 DEF Check, Conclude, Paint
  <2> QED
    BY <1>1, <2>1 DEF Shaped, Fields
<1>2. CASE Wake
  <2> DEFINE was == [turn EXCEPT !.event = FALSE]
  <2>1. /\ Shaped(was) /\ was.asm = turn.asm /\ was.wire = turn.wire /\ was.got = turn.got
        /\ was.at = turn.at
    BY DEF Shaped, Fields
  <2>2. Paint(was, Trace(was), "painted") \/ Check(was)
    BY <1>2 DEF Wake
  <2> HIDE DEF was
  <2>3. CASE Paint(was, Trace(was), "painted")
    <3>1. turn' = [was EXCEPT !.cons = "painted", !.seenTrace = Trace(was), !.seenPhase = was.phase]
      BY <2>3 DEF Paint
    <3>2. Left(was)
      BY <2>1, <3>1 DEF Shaped, Fields
    <3> QED
      BY <2>1, <3>2, HearsSame
  <2>4. CASE Check(was)
    BY <1>1, <2>1, <2>4, HearsSame
  <2> QED
    BY <2>2, <2>3, <2>4
<1>3. CASE turn.cons = "first" /\ turn' = [turn EXCEPT !.cons = "waits", !.at = "created"]
  <2>1. /\ turn'.asm = turn.asm /\ turn'.wire = turn.wire /\ turn'.got = turn.got
        /\ turn'.at = "created" /\ turn.at = "none"
    BY <1>3 DEF Shaped, Fields
  <2> QED
    BY <2>1, HearsSame
<1>4. CASE turn.cons = "painted" /\ Check(turn)
  BY <1>1, <1>4, HearsSame
<1>5. CASE turn.cons = "last" /\ Conclude(turn)
  BY <1>5 DEF Conclude
<1> QED
  BY <1>2, <1>3, <1>4, <1>5 DEF Consume, Resume

HearInv == turn # NoTurn => Hears(turn)

(* The answer and the thinking are told apart the same way however the     *)
(* stream was cut (ThinkAssembler), for streams of any length, with tags   *)
(* cut anywhere, looked for until reasoning comes in a field of its own.   *)
THEOREM CutsAreUnseen == Spec => []CutDoesNotMatter
<1>1. Init => RecInv /\ HearInv
  BY RecInit DEF Init, HearInv
<1>2. ASSUME RecInv, HearInv, [Next]_vars
      PROVE  HearInv'
  <2>0. turn # NoTurn => Shaped(turn) /\ Hears(turn) /\ (turn.cons = "first" => turn.at = "none")
    BY <1>2 DEF RecInv, Runs, HearInv
  <2>1. CASE Begin
    <3>1. turn'.asm = NewAssembler /\ turn'.wire = <<>> /\ turn'.got = 0 /\ turn'.at = "none"
      BY <2>1 DEF Begin
    <3> QED
      BY <3>1 DEF HearInv, Hears
  <2>2. CASE Produce
    BY <2>0, <2>2, ProduceHears DEF HearInv
  <2>3. CASE Consume
    <3>1. turn # NoTurn
      BY <2>3 DEF Consume, Wake, Resume
    <3> QED
      BY <2>0, <2>3, <3>1, ConsumeHears DEF HearInv
  <2>4. CASE Submit \/ ClearAsked \/ Cleared \/ ClearRefused \/ Browse \/ Expire \/ Judging
             \/ UNCHANGED vars
    <3>1. turn' = turn
      BY <2>4 DEF Submit, ClearAsked, Cleared, ClearRefused, Browse, Expire, Judging, vars
    <3> QED
      BY <1>2, <3>1 DEF HearInv
  <2>5. CASE Reload \/ Stop
    BY <2>5 DEF Reload, Stop, Forgotten, HearInv
  <2> QED
    BY <1>2, <2>1, <2>2, <2>3, <2>4, <2>5 DEF Next
<1>3. RecInv /\ HearInv /\ [Next]_vars => RecInv' /\ HearInv'
  BY <1>2, RecNext
<1>4. ASSUME HearInv PROVE CutDoesNotMatter
  <2>1. SUFFICES ASSUME turn # NoTurn, turn.at = "generate", turn.got = Len(turn.wire),
                        \A i \in DOMAIN turn.wire : ~turn.wire[i].whole
                 PROVE  Finish(turn.asm) = ReadStream(turn.wire)
    BY DEF CutDoesNotMatter, At
  <2>2. turn.wire \in Seq(Pieces) /\ Heard(turn.asm, turn.wire, Len(turn.wire))
    BY <1>4, <2>1 DEF HearInv, Hears
  <2> QED
    BY <2>2, HeardAll
<1> QED
  BY <1>1, <1>3, <1>4, PTL DEF Spec
-----------------------------------------------------------------------------
(* The event between task and generator.  What the end of every turn rests *)
(* on: there is nothing the generator waits for in vain.                   *)

Woken(w) == w.cons = "waits" /\ w.at = "done" => w.event = TRUE

NoWakeUpLost == turn # NoTurn => Woken(turn)

(* The steps of the task: whatever ends it sets the event.                 *)
LEMMA ProduceWakes ==
  ASSUME Produce, turn # NoTurn => Shaped(turn)
  PROVE  turn'.at = "done" => turn'.event = TRUE
<1>0. Shaped(turn)
  BY ProduceSteps DEF TaskSteps
<1>1. ASSUME NEW w, Shaped(w), NEW box PROVE Ended(w, box).event = TRUE
  <2> DEFINE u == Unread(w)
             v == [u EXCEPT !.at = "done", !.box = box, !.event = TRUE,
                            !.latest = IF w.held # <<>> THEN w.held ELSE @]
  <2>1. Shaped(u)
    BY <1>1, UnreadSame DEF Moved, Same
  <2>2. v.event = TRUE
    BY <2>1 DEF Shaped, Fields
  <2> QED
    BY <2>2 DEF Ended
<1>2. CASE Refuse \/ Raise
  BY <1>0, <1>1, <1>2 DEF Refuse, Raise
<1>3. CASE Abstain \/ Answer
  <2>1. PICK thinking, kind : turn' = Ended([turn EXCEPT !.thinking = thinking], kind)
    BY <1>3 DEF Abstain, Answer, Respond
  <2> DEFINE w == [turn EXCEPT !.thinking = thinking]
  <2>2. Shaped(w)
    BY <1>0 DEF Shaped, Fields
  <2> HIDE DEF w
  <2>3. Ended(w, kind).event = TRUE
    BY <1>1, <2>2
  <2> QED
    BY <2>1, <2>3 DEF w
<1>4. CASE Admit
  <2>1. turn' = [turn EXCEPT !.at = "admitted"]
    BY <1>4 DEF Admit
  <2>2. turn'.at = "admitted"
    BY <1>0, <2>1 DEF Shaped, Fields
  <2> QED
    BY <2>2
<1>5. CASE Retrieve \/ Generate
  <2>1. \/ turn' = Entered(turn, "retrieve")
        \/ \E wire : turn' = [Entered(turn, "generate") EXCEPT !.wire = wire]
    BY <1>5 DEF Retrieve, Generate
  <2>2. turn'.at \in {"retrieve", "generate"}
    BY <1>0, <2>1 DEF Shaped, Fields, Entered
  <2> QED
    BY <2>2
<1>6. CASE Verify
  <2>1. PICK thinking : turn' = [Entered(Unread(turn), "verify") EXCEPT !.thinking = thinking]
    BY <1>6 DEF Verify
  <2> DEFINE u == Unread(turn)
  <2>2. Shaped(u)
    BY <1>0, UnreadSame DEF Moved, Same
  <2>3. turn' = [Entered(u, "verify") EXCEPT !.thinking = thinking]
    BY <2>1
  <2> HIDE DEF u
  <2>4. turn'.at = "verify"
    BY <2>2, <2>3 DEF Shaped, Fields, Entered
  <2> QED
    BY <2>4
<1>7. CASE Receive
  <2> DEFINE next == [turn EXCEPT !.asm = Feed(turn.asm, turn.wire[turn.got + 1]), !.got = @ + 1]
  <2>1. turn.at = "generate" /\ Shaped(next) /\ next.at = turn.at
    BY <1>0, <1>7 DEF Receive, At, Shaped, Fields
  <2>2. turn' = next \/ \E text, ready : turn' = Thought(next, text, ready)
    BY <1>7 DEF Receive
  <2> HIDE DEF next
  <2>3. turn'.at = "generate"
    BY <2>1, <2>2, ThoughtSame DEF Moved
  <2> QED
    BY <2>3
<1> QED
  BY <1>2, <1>3, <1>4, <1>5, <1>6, <1>7 DEF Produce

(* The steps of the generator: it clears the event before it looks whether *)
(* the task has ended, and does not go back to wait if it has.             *)
LEMMA ConsumeWakes ==
  ASSUME Consume, turn # NoTurn, Shaped(turn), turn' # NoTurn
  PROVE  turn'.cons = "waits" => turn'.at # "done"
<1>1. ASSUME NEW w, Shaped(w), Check(w) PROVE turn'.cons = "waits" => turn'.at # "done"
  <2>1. CASE w.at # "done"
    <3>1. turn' = [w EXCEPT !.cons = "waits"]
      BY <1>1, <2>1 DEF Check
    <3> QED
      BY <1>1, <2>1, <3>1 DEF Shaped, Fields
  <2>2. CASE w.at = "done"
    <3>1. \E trace : turn' = [w EXCEPT !.cons = "last", !.seenTrace = trace, !.seenPhase = w.phase]
      BY <1>1, <2>2 DEF Check, Conclude, Paint
    <3>2. turn'.cons = "last"
      BY <1>1, <3>1 DEF Shaped, Fields
    <3> QED
      BY <3>2
  <2> QED
    BY <2>1, <2>2
<1>2. CASE Wake
  <2> DEFINE was == [turn EXCEPT !.event = FALSE]
  <2>1. Shaped(was)
    BY DEF Shaped, Fields
  <2>2. Paint(was, Trace(was), "painted") \/ Check(was)
    BY <1>2 DEF Wake
  <2> HIDE DEF was
  <2>3. CASE Paint(was, Trace(was), "painted")
    <3>1. turn' = [was EXCEPT !.cons = "painted", !.seenTrace = Trace(was), !.seenPhase = was.phase]
      BY <2>3 DEF Paint
    <3>2. turn'.cons = "painted"
      BY <2>1, <3>1 DEF Shaped, Fields
    <3> QED
      BY <3>2
  <2> QED
    BY <1>1, <2>1, <2>2, <2>3
<1>3. CASE turn.cons = "first" /\ turn' = [turn EXCEPT !.cons = "waits", !.at = "created"]
  <2>1. turn'.at = "created"
    BY <1>3 DEF Shaped, Fields
  <2> QED
    BY <2>1
<1>4. CASE turn.cons = "painted" /\ Check(turn)
  BY <1>1, <1>4
<1>5. CASE turn.cons = "last" /\ Conclude(turn)
  BY <1>5 DEF Conclude
<1> QED
  BY <1>2, <1>3, <1>4, <1>5 DEF Consume, Resume

(* A generator that waits for a task that has ended has its event set      *)
(* (iter_observatory_turn: produce's finally, event.clear before the look  *)
(* at task.done): no turn hangs because it was woken too early.            *)
THEOREM WaitersAreWoken == Spec => []NoWakeUpLost
<1>1. Init => RecInv /\ NoWakeUpLost
  BY RecInit DEF Init, NoWakeUpLost
<1>2. ASSUME RecInv, NoWakeUpLost, [Next]_vars
      PROVE  NoWakeUpLost'
  <2>0. turn # NoTurn => Shaped(turn)
    BY <1>2 DEF RecInv, Runs
  <2>1. CASE Begin
    <3>1. turn'.at = "none"
      BY <2>1 DEF Begin
    <3> QED
      BY <3>1 DEF NoWakeUpLost, Woken
  <2>2. CASE Produce
    BY <2>0, <2>2, ProduceWakes DEF NoWakeUpLost, Woken
  <2>3. CASE Consume
    <3>1. turn # NoTurn
      BY <2>3 DEF Consume, Wake, Resume
    <3> QED
      BY <2>0, <2>3, <3>1, ConsumeWakes DEF NoWakeUpLost, Woken
  <2>4. CASE Submit \/ ClearAsked \/ Cleared \/ ClearRefused \/ Browse \/ Expire \/ Judging
             \/ UNCHANGED vars
    <3>1. turn' = turn
      BY <2>4 DEF Submit, ClearAsked, Cleared, ClearRefused, Browse, Expire, Judging, vars
    <3> QED
      BY <1>2, <3>1 DEF NoWakeUpLost
  <2>5. CASE Reload \/ Stop
    BY <2>5 DEF Reload, Stop, Forgotten, NoWakeUpLost
  <2> QED
    BY <1>2, <2>1, <2>2, <2>3, <2>4, <2>5 DEF Next
<1>3. RecInv /\ NoWakeUpLost /\ [Next]_vars => RecInv' /\ NoWakeUpLost'
  BY <1>2, RecNext
<1> QED
  BY <1>1, <1>3, PTL DEF Spec
=============================================================================
