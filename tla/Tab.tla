--------------------------------- MODULE Tab ---------------------------------
(***************************************************************************)
(* One tab of the web page and the turns asked in it (ui/gradio_app.py,    *)
(* ui/config.py): a generator paints the page while a task runs the turn   *)
(* and leaves it phases and thoughts; Limpiar clears the conversation from *)
(* a handler of its own; the cookie comes, goes and expires meanwhile.     *)
(*                                                                         *)
(* A step is the code between two awaits of the event loop.  A handler     *)
(* gets the page as it was when it was asked for, and its outputs replace  *)
(* whatever is there.  What the turn retrieves, drafts and checks is left  *)
(* to its outcome; its thoughts come through Stream, its trace is Spans.   *)
(***************************************************************************)
EXTENDS Stream, Spans

CONSTANTS
  None, Pending,
  Wires,    \* the streams the model may send
  MaxCalls  \* bound: turns and clears asked for

ASSUME TabAssumption ==
  /\ Turns \subseteq Nat /\ Turns = 1 .. Cardinality(Turns)   \* in the order they are asked for
  /\ None \notin Turns /\ Pending \notin Turns /\ None # Pending
  /\ Wires \subseteq Seq(Pieces)
  /\ MaxCalls \in Nat

(* The side panel: the turn whose citations and verdicts it shows, Pending *)
(* while one is asked, and whether a banner says that it has no answer.    *)
Empty == [of |-> None, banner |-> FALSE]
NoTurn == [n |-> None]

VARIABLES
  rows,                 \* of the conversation: their turn, kind and thought
  panel,
  phase,                \* "", "retrieve", "generate" or "verify", as the page says
  session,              \* session_state: the turn that gave it, or None
  cookie,               \* the browser's: "none", "live" or "expired"
  layout,               \* "user" or "staff"
  count, clears,        \* turns and clears asked for
  queued,               \* those that wait, with the page as it was then
  turn,                 \* the turn being run, or NoTurn: its task and its generator
  clearing,             \* the clear being run, or None
  up,                   \* whether the service runs
  asked,                \* what was done since the last clear (history)
  mixed                 \* whether handlers overlapped since then (history)

page == <<rows, panel, phase, session>>
around == <<cookie, layout, up>>
calls == <<count, clears, queued, clearing>>
history == <<asked, mixed>>
vars == <<page, around, calls, turn, history, spanVars>>

MayCall == count + clears < MaxCalls
Busy == turn # NoTurn \/ queued # <<>> \/ clearing # None

Init ==
  /\ rows = <<>> /\ panel = Empty /\ phase = "" /\ session = None
  /\ cookie \in {"none", "live"} /\ layout = "user"
  /\ count = 0 /\ clears = 0 /\ queued = <<>> /\ turn = NoTurn /\ clearing = None /\ up = TRUE
  /\ asked = <<>> /\ mixed = FALSE
  /\ SpanInit

-----------------------------------------------------------------------------
(* The rows of the conversation.  Definitions named Bad... are seeded      *)
(* faults: the one after as a plausible slip would have left it.           *)

Row(n, kind, text) == <<[turn |-> n, kind |-> kind, text |-> text]>>

(* A bubble that was pending is marked done: its text stays.               *)
CollapsePriorThoughts(before) ==
  [i \in DOMAIN before |-> IF before[i].kind = "pending" THEN [before[i] EXCEPT !.kind = "thought"]
                           ELSE before[i]]

AppendPending(before, n, trace) ==
  CollapsePriorThoughts(before) \o Row(n, "question", <<>>) \o Row(n, "pending", trace)

AppendMessages(before, n, kind, thinking) ==
  CollapsePriorThoughts(before) \o Row(n, "question", <<>>)
    \o (IF thinking = <<>> THEN <<>> ELSE Row(n, "thought", thinking))
    \o Row(n, kind, <<>>)

-----------------------------------------------------------------------------
(* Asking.  The button and the Enter key are two listeners, each with one  *)
(* call at a time, and their calls run one after the other.                *)

Submit ==
  /\ up /\ MayCall /\ count + 1 \in Turns /\ queued = <<>>
  /\ count' = count + 1
  /\ queued' = <<[n |-> count + 1, before |-> rows, prior |-> panel]>>
  /\ mixed' = (mixed \/ Busy)
  /\ UNCHANGED <<page, around, clears, turn, clearing, asked, spanVars>>

(* The first frame; the task is not there yet.                             *)
Begin ==
  /\ turn = NoTurn /\ queued # <<>>
  /\ LET q == queued[1]
     IN  /\ turn' = [n |-> q.n, before |-> q.before, prior |-> q.prior, session |-> session,
                     staff |-> cookie = "live" /\ layout = "staff",
                     cons |-> "first", at |-> "none", box |-> None, asm |-> NewAssembler,
                     wire |-> <<>>, got |-> 0, held |-> <<>>, latest |-> <<>>, timed |-> FALSE,
                     phase |-> "", event |-> FALSE, seenTrace |-> <<>>, seenPhase |-> "",
                     thinking |-> <<>>]
         /\ rows' = AppendPending(q.before, q.n, <<>>)
  /\ panel' = [of |-> Pending, banner |-> FALSE]
  /\ phase' = ""
  /\ queued' = <<>>
  /\ UNCHANGED <<session, around, count, clears, clearing, history, spanVars>>

-----------------------------------------------------------------------------
(* The task that runs the turn.                                            *)

At(place) == turn # NoTurn /\ turn.at = place

(* produce's finally: the last thought is left even if it was held back.   *)
Unread(was) == [was EXCEPT !.asm = NewAssembler, !.wire = <<>>, !.got = 0]

BadEnded(was, box) == [Unread(was) EXCEPT !.at = "done", !.box = box, !.event = TRUE]
BadSilentEnd(was, box) ==
  [Unread(was) EXCEPT !.at = "done", !.box = box, !.latest = IF was.held # <<>> THEN was.held ELSE @]

Ended(was, box) ==
  [Unread(was) EXCEPT !.at = "done", !.box = box, !.event = TRUE,
                      !.latest = IF was.held # <<>> THEN was.held ELSE @]

Entered(was, place) == [was EXCEPT !.at = place, !.phase = place, !.event = TRUE]

Elsewhere == UNCHANGED <<page, around, calls, history>>

(* prepare_turn: no session, or a limit.                                   *)
Refuse ==
  /\ At("created")
  /\ turn' = Ended(turn, "refused")
  /\ Elsewhere /\ UNCHANGED spanVars

Admit ==
  /\ At("created") /\ cookie = "live"
  /\ turn' = [turn EXCEPT !.at = "admitted"]
  /\ EnterSpan(turn.n)
  /\ Elsewhere

Respond(kind, thinking, drafted) ==
  /\ turn' = Ended([turn EXCEPT !.thinking = thinking], kind)
  /\ RespondSpan(turn.n, drafted)
  /\ Elsewhere

(* An input rail, a typed /clear or the index, before any phase, or nothing *)
(* found, or the model fails or times out: silencio, without a draft.  (A  *)
(* typed /clear empties the store of the service, which is not here; to    *)
(* the page it is a turn like another.)                                    *)
Abstain ==
  /\ At("admitted") \/ At("retrieve") \/ At("generate")
  /\ Respond("silencio", <<>>, FALSE)

Raise ==
  /\ At("admitted") \/ At("retrieve") \/ At("generate") \/ At("verify")
  /\ turn' = Ended(turn, "raised")
  /\ ExitSpan(turn.n)
  /\ Elsewhere

Retrieve ==
  /\ At("admitted")
  /\ turn' = Entered(turn, "retrieve")
  /\ Elsewhere /\ UNCHANGED spanVars

Generate ==
  /\ At("retrieve")
  /\ \E wire \in Wires : turn' = [Entered(turn, "generate") EXCEPT !.wire = wire]
  /\ Elsewhere /\ UNCHANGED spanVars

(* on_thinking: a thought is shown once in a while, never the first one.   *)
Thought(was, text, ready) ==
  [was EXCEPT !.held = text, !.timed = TRUE,
              !.latest = IF was.timed /\ ready THEN text ELSE @,
              !.event = @ \/ (was.timed /\ ready)]

Receive ==
  /\ At("generate") /\ turn.got < Len(turn.wire)
  /\ LET asm == Feed(turn.asm, turn.wire[turn.got + 1])
         next == [turn EXCEPT !.asm = asm, !.got = @ + 1]
         grew == asm.thinking # turn.asm.thinking
     IN  IF turn.staff /\ grew /\ Visible(asm) # <<>>
         THEN \E ready \in BOOLEAN : turn' = Thought(next, Visible(asm), ready)
         ELSE turn' = next
  /\ Elsewhere /\ UNCHANGED spanVars

(* The stream ends in a draft, or in one that cannot be read, and then the *)
(* model is asked once more and not to think.                              *)
Verify ==
  /\ At("generate") /\ turn.got = Len(turn.wire)
  /\ \E thinking \in {Finish(turn.asm).thinking, <<>>} :
       turn' = [Entered(Unread(turn), "verify") EXCEPT !.thinking = thinking]
  /\ Elsewhere /\ UNCHANGED spanVars

Answer ==
  /\ At("verify")
  /\ \E kind \in {"answer", "silencio"} : Respond(kind, turn.thinking, TRUE)

Produce ==
  \/ Refuse \/ Admit \/ Abstain \/ Raise \/ Retrieve \/ Generate \/ Receive \/ Verify \/ Answer

-----------------------------------------------------------------------------
(* The generator.  It waits for the event, or, having painted, for the     *)
(* page to take the frame.                                                 *)

Trace(was) == IF was.staff THEN was.latest ELSE <<>>

(* thinking_for_staff.                                                     *)
ShownThought(was) == IF was.staff THEN was.thinking ELSE <<>>

PriorInspector(was) ==
  IF was.prior.of \in {None, Pending} THEN Empty ELSE [was.prior EXCEPT !.banner = FALSE]

(* The last frame.                                                         *)
Shown(was) ==
  CASE was.box \in {"answer", "silencio"} ->
         [rows |-> AppendMessages(was.before, was.n, "answer", ShownThought(was)),
          panel |-> [of |-> was.n, banner |-> was.box = "silencio"],
          session |-> IF was.session = None THEN was.n ELSE was.session]
    [] was.box = "refused" ->
         [rows |-> AppendMessages(was.before, was.n, "notice", <<>>),
          panel |-> PriorInspector(was), session |-> was.session]
    [] was.box = "raised" ->
         [rows |-> AppendMessages(was.before, was.n, "notice", <<>>),
          panel |-> Empty, session |-> was.session]

BadConclude(was) ==
  /\ rows' = AppendMessages(rows, was.n, "answer", ShownThought(was))
  /\ panel' = Shown(was).panel /\ session' = Shown(was).session /\ phase' = ""
  /\ turn' = NoTurn
  /\ asked' = Append(asked, [n |-> was.n, out |-> was.box, thought |-> ShownThought(was)])

Conclude(was) ==
  /\ rows' = Shown(was).rows /\ panel' = Shown(was).panel /\ session' = Shown(was).session
  /\ phase' = ""
  /\ turn' = NoTurn
  /\ asked' = Append(asked, [n |-> was.n, out |-> was.box, thought |-> ShownThought(was)])

Paint(was, trace, cons) ==
  /\ rows' = AppendPending(was.before, was.n, trace)
  /\ phase' = was.phase
  /\ turn' = [was EXCEPT !.cons = cons, !.seenTrace = trace, !.seenPhase = was.phase]
  /\ UNCHANGED <<panel, session, asked>>

(* After a frame, or with nothing to paint: is the task done?              *)
Check(was) ==
  IF was.at # "done"
  THEN turn' = [was EXCEPT !.cons = "waits"] /\ UNCHANGED <<page, asked>>
  ELSE IF Trace(was) # <<>> /\ Trace(was) # was.seenTrace THEN Paint(was, Trace(was), "last")
  ELSE Conclude(was)

Wake ==
  /\ turn # NoTurn /\ turn.cons = "waits" /\ turn.event
  /\ LET was == [turn EXCEPT !.event = FALSE]
     IN  IF \/ Trace(was) # <<>> /\ Trace(was) # was.seenTrace
            \/ was.phase # was.seenPhase
         THEN Paint(was, Trace(was), "painted")
         ELSE Check(was)

Resume ==
  /\ turn # NoTurn
  /\ \/ /\ turn.cons = "first"
        /\ turn' = [turn EXCEPT !.cons = "waits", !.at = "created"]
        /\ UNCHANGED <<page, asked>>
     \/ turn.cons = "painted" /\ Check(turn)
     \/ turn.cons = "last" /\ Conclude(turn)

Consume == (Wake \/ Resume) /\ UNCHANGED <<around, calls, mixed, spanVars>>

-----------------------------------------------------------------------------
(* Limpiar.                                                                *)

ClearAsked ==
  /\ up /\ clearing = None
  /\ rows # <<>>   \* bound: an empty page is not cleared
  /\ MayCall /\ clears' = clears + 1
  /\ clearing' = [rows |-> rows, session |-> session]
  /\ mixed' = (mixed \/ Busy)
  /\ UNCHANGED <<page, around, count, queued, turn, asked, spanVars>>

BadCleared ==
  /\ clearing # None /\ cookie = "live"
  /\ rows' = <<>> /\ session' = None /\ phase' = ""
  /\ clearing' = None
  /\ IF turn = NoTurn /\ queued = <<>> THEN asked' = <<>> /\ mixed' = FALSE
     ELSE UNCHANGED history
  /\ UNCHANGED <<panel, around, count, clears, queued, turn, spanVars>>

Cleared ==
  /\ clearing # None /\ cookie = "live"
  /\ rows' = <<>> /\ session' = None /\ panel' = Empty /\ phase' = ""
  /\ clearing' = None
  /\ IF turn = NoTurn /\ queued = <<>> THEN asked' = <<>> /\ mixed' = FALSE
     ELSE UNCHANGED history
  /\ UNCHANGED <<around, count, clears, queued, turn, spanVars>>

(* No session, a demo key the form has no field for, or the rate limit.    *)
(* The rows stay and the panel is emptied.                                 *)
ClearRefused ==
  /\ clearing # None
  /\ rows' = clearing.rows \o Row(None, "clear refused", <<>>) /\ session' = clearing.session
  /\ panel' = Empty /\ phase' = ""
  /\ asked' = Append(asked, [n |-> None, out |-> "clear refused", thought |-> <<>>])
  /\ clearing' = None
  /\ UNCHANGED <<around, count, clears, queued, turn, mixed, spanVars>>

-----------------------------------------------------------------------------
(* The browser: signing in and out repaint the chrome and leave the        *)
(* conversation; a signed cookie expires wherever it is.                   *)

SignIn == cookie # "live" /\ cookie' = "live" /\ UNCHANGED layout
Logout == cookie # "none" /\ cookie' = "none" /\ layout' = "user"
ChooseLayout == layout' = (IF layout = "user" THEN "staff" ELSE "user") /\ UNCHANGED cookie

Browse ==
  /\ up /\ ~Busy   \* bound: a call that is out has the cookie and the layout of the browser
  /\ MayCall        \* bound: what no call would see is left out
  /\ SignIn \/ Logout \/ ChooseLayout
  /\ UNCHANGED <<page, up, calls, turn, history, spanVars>>

Expire ==
  /\ up /\ (MayCall \/ Busy)
  /\ cookie = "live" /\ cookie' = "expired"
  /\ UNCHANGED <<page, layout, up, calls, turn, history, spanVars>>

(* The tab is closed or loaded again while a turn runs: the generator is   *)
(* closed and cancels the task.                                            *)
Forgotten ==
  /\ rows' = <<>> /\ panel' = Empty /\ phase' = "" /\ session' = None
  /\ turn' = NoTurn /\ queued' = <<>> /\ clearing' = None
  /\ asked' = <<>> /\ mixed' = FALSE
  /\ layout' = "user"
  /\ UNCHANGED <<cookie, count, clears>>

Reload ==
  /\ turn # NoTurn
  /\ Forgotten /\ UNCHANGED up
  /\ IF span[turn.n] = "open" /\ turn.at # "done" THEN ExitSpan(turn.n) ELSE UNCHANGED spanVars

(* What a page shows when its service is gone is left out.                 *)
Stop == up /\ up' = FALSE /\ CloseAll /\ Forgotten

Judging == up /\ Background /\ UNCHANGED <<page, around, calls, turn, history>>

Next ==
  \/ Submit \/ Begin \/ Produce \/ Consume
  \/ ClearAsked \/ Cleared \/ ClearRefused
  \/ Browse \/ Expire \/ Reload \/ Stop \/ Judging

Spec == Init /\ [][Next]_vars

(* The service runs what is ready, the page takes what is painted, and the *)
(* model's time is limited.                                                *)
Fairness ==
  /\ WF_vars(Begin)
  /\ WF_vars(Produce)
  /\ WF_vars(Consume)
  /\ WF_vars(Judging)

FairSpec == Spec /\ Fairness
-----------------------------------------------------------------------------
(* Properties.                                                             *)

Idle == up /\ ~Busy

(* What the page must show after what was done in it, one thing at a time. *)
RowsOf(done) ==
  CASE done.out \in {"answer", "silencio"} -> AppendMessages(<<>>, done.n, "answer", done.thought)
    [] done.out \in {"refused", "raised"} -> AppendMessages(<<>>, done.n, "notice", <<>>)
    [] done.out = "clear refused" -> Row(None, "clear refused", <<>>)

PanelAfter(before, done) ==
  CASE done.out \in {"answer", "silencio"} -> [of |-> done.n, banner |-> done.out = "silencio"]
    [] done.out = "refused" -> [before EXCEPT !.banner = FALSE]
    [] OTHER -> Empty

SessionAfter(before, done) ==
  IF before = None /\ done.out \in {"answer", "silencio"} THEN done.n ELSE before

Blank == [rows |-> <<>>, panel |-> Empty, session |-> None]

After(before, done) ==
  [rows |-> before.rows \o RowsOf(done), panel |-> PanelAfter(before.panel, done),
   session |-> SessionAfter(before.session, done)]

PageAfter(done) ==
  LET shown[n \in 0 .. Len(done)] == IF n = 0 THEN Blank ELSE After(shown[n - 1], done[n])
  IN  shown[Len(done)]

(* Whether an answer, or a turn that failed, came after each refused clear. *)
PanelTold ==
  \A i \in DOMAIN asked : asked[i].out = "clear refused" =>
    \E j \in i .. Len(asked) : asked[j].out \in {"answer", "silencio", "raised"}

(* When nothing runs, a page whose calls did not overlap shows exactly     *)
(* what was asked since the last clear, in order: each question with its   *)
(* answer or notice, the thoughts of those asked by staff, no bubble left  *)
(* pending, and the session of the first.  The panel is that of the last   *)
(* answer, which a refused question leaves and a failed one empties.  What *)
(* a refused clear makes of the panel is no part of this: the code empties *)
(* it, and the specification of the page says it must not.                 *)
TabShowsWhatWasAsked ==
  Idle /\ ~mixed =>
    LET shown == PageAfter(asked)
    IN  /\ rows = shown.rows /\ session = shown.session /\ phase = ""
        /\ PanelTold => panel = shown.panel

(* When nothing runs, the panel is empty or is of an answer the page       *)
(* shows, whatever overlapped: a clear during a turn, a turn asked from    *)
(* the other listener, a clear that was refused.                           *)
PanelMatchesRows ==
  Idle => \/ panel = Empty
          \/ \E i \in DOMAIN rows : rows[i].turn = panel.of /\ rows[i].kind = "answer"

(* The last frame before the answer showed staff the last thought that     *)
(* the model sent, although thoughts are held back for half a second and   *)
(* the task may end while the page takes a frame.                          *)
LastThoughtShown ==
  [][turn # NoTurn /\ turn' = NoTurn /\ asked' # asked /\ asked' # <<>> /\ turn.staff =>
       turn.seenTrace = turn.held]_vars

(* A stream reads the same however it was cut, inside a tag or out of it.  *)
CutDoesNotMatter ==
  At("generate") /\ turn.got = Len(turn.wire) /\ (\A i \in DOMAIN turn.wire : ~turn.wire[i].whole)
    => Finish(turn.asm) = ReadStream(turn.wire)

(* A turn that got past the gate leaves one record, with its answer if it  *)
(* has one, also when the tab is gone, the turn is cancelled or the judge  *)
(* fails; only a stop that comes before the judge began may leave none.    *)
RecordsComplete ==
  \A t \in Turns :
    /\ Len(written[t]) = IF span[t] = "closed" THEN 1 ELSE 0
    /\ span[t] = "closed" => written[t][1] = Compact(attrs[t])
    /\ ~up /\ span[t] = "open" => task[t] = "created" /\ "response" \in attrs[t]

(* A question that is taken up is answered, or refused, on its page, and   *)
(* the judge of its answer ends, unless the tab or the service goes away.  *)
TurnsEnd ==
  /\ turn # NoTurn ~> turn = NoTurn \/ ~up
  /\ (\E t \in Turns : task[t] = "created") ~> ~up \/ \A t \in Turns : task[t] \in {"none", "done"}
=============================================================================
