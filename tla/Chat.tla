-------------------------------- MODULE Chat --------------------------------
(***************************************************************************)
(* Chat turns in flight at once: the gate in front of a turn               *)
(* (api/handle.py), what the turn reads and writes of the conversation     *)
(* (use_cases/answer_query.py) and its stream to the client                *)
(* (api/chat_stream.py).                                                   *)
(*                                                                         *)
(* All of it runs on one event loop: an action is the code between two     *)
(* awaits.  A turn awaits the health of the dump, then the passages and    *)
(* the model, and may be cancelled or raise at either.  What is retrieved, *)
(* generated and checked is left to its outcome: whether the exchange is   *)
(* remembered.                                                             *)
(***************************************************************************)
EXTENDS SessionStore, TurnCaps

CONSTANTS
  Turns,     \* the requests of a behaviour
  Users,     \* normalized mailboxes
  Ids,       \* public session ids
  Clients,   \* what the rate limiter counts by
  None,
  MaxTime    \* bound: last instant

ASSUME ChatAssumption ==
  /\ MaxTime \in Nat
  /\ None \notin Users \X Ids
  /\ None \notin 0 .. MaxTime

Times == 0 .. MaxTime
Days == 0 .. UtcDay(MaxTime)
(* _scoped_session_id: a session is a mailbox's own.                       *)
Sessions == Users \X Ids
Owner(s) == s[1]

InFlight == {"admitted", "answering"}
Refusals == {"limited", "capped"}
Ended == {"overk", "cleared", "blocked", "unanswered", "answered", "dropped"}
Stages == {"new"} \cup Refusals \cup InFlight \cup Ended
Messages == [turn : Turns, role : {"user", "assistant"}]

VARIABLES
  now,
  hits,         \* RateLimiter._hits
  emailDay,     \* TurnCaps._email_day
  processDay,   \* TurnCaps._process_day
  store,        \* InMemorySessionStore._sessions
  stage,        \* where each turn is, or how it ended
  session,      \* its session
  clear,        \* whether its message is /clear
  client,       \* its client
  at,           \* when it arrived
  read,         \* the history it was composed with
  refundedOn,   \* the day its refund was taken from (history)
  disowned      \* turns asked before a later clear of their session (history)

gate == <<hits, emailDay, processDay>>
request == <<session, clear, client, at>>
vars == <<now, gate, store, stage, request, read, refundedOn, disowned>>

TypeOK ==
  /\ now \in Times
  /\ hits \in [Clients -> Seq(Times)]
  /\ emailDay \in [Users \X Days -> 0 .. MaxEmail]
  /\ processDay \in [Days -> 0 .. MaxProcess]
  /\ DOMAIN store \subseteq Sessions
  /\ \A s \in DOMAIN store : /\ store[s].messages \in Seq(Messages)
                             /\ Len(store[s].messages) <= MaxMessages
                             /\ store[s].updated \in Times
  /\ stage \in [Turns -> Stages]
  /\ session \in [Turns -> Sessions \cup {None}]
  /\ clear \in [Turns -> BOOLEAN]
  /\ client \in [Turns -> Clients \cup {None}]
  /\ at \in [Turns -> Times]
  /\ read \in [Turns -> Seq(Messages)]
  /\ refundedOn \in [Turns -> Days \cup {None}]
  /\ disowned \subseteq Turns

Init ==
  /\ now = 0
  /\ hits = [c \in Clients |-> <<>>]
  /\ emailDay = [k \in Users \X Days |-> 0]
  /\ processDay = [d \in Days |-> 0]
  /\ store = NoSessions
  /\ stage = [t \in Turns |-> "new"]
  /\ session = [t \in Turns |-> None]
  /\ clear = [t \in Turns |-> FALSE]
  /\ client = [t \in Turns |-> None]
  /\ at = [t \in Turns |-> 0]
  /\ read = [t \in Turns |-> <<>>]
  /\ refundedOn = [t \in Turns |-> None]
  /\ disowned = {}

-----------------------------------------------------------------------------
(* prepare_turn, which does not await.  Definitions named Bad... are        *)
(* seeded faults: the one after as a plausible slip would have left it.    *)

Today == UtcDay(now)
User(t) == Owner(session[t])

(* A request that passed the session check and the demo key, and stands    *)
(* before the rate limiter; the refusals ahead of it change nothing.       *)
Arrives(t, s, c, clears) ==
  /\ stage[t] = "new"
  /\ session' = [session EXCEPT ![t] = s]
  /\ client' = [client EXCEPT ![t] = c]
  /\ clear' = [clear EXCEPT ![t] = clears]
  /\ at' = [at EXCEPT ![t] = now]
  /\ UNCHANGED <<now, store, read, refundedOn, disowned>>

Goto(t, s) == stage' = [stage EXCEPT ![t] = s]

RateAllows(c) == Len(Recent(hits[c], now)) < MaxHits

Hit(c) == hits' = [hits EXCEPT ![c] = Append(Recent(hits[c], now), now)]

Limited(t, s, c, clears) ==
  /\ Arrives(t, s, c, clears)
  /\ ~RateAllows(c)
  /\ Goto(t, "limited")
  /\ UNCHANGED gate

CapReached(u) == AtCap(emailDay[<<u, Today>>], processDay[Today])

Capped(t, s, c) ==
  /\ Arrives(t, s, c, FALSE)
  /\ RateAllows(c) /\ Hit(c)
  /\ CapReached(Owner(s))
  /\ Goto(t, "capped")
  /\ UNCHANGED <<emailDay, processDay>>

Charge(u) ==
  /\ ~CapReached(u)
  /\ emailDay' = [emailDay EXCEPT ![<<u, Today>>] = @ + 1]
  /\ processDay' = [processDay EXCEPT ![Today] = @ + 1]

(* A turn is charged before its k is looked at.                            *)
Admit(t, s, c, clears) ==
  /\ Arrives(t, s, c, clears)
  /\ RateAllows(c) /\ Hit(c)
  /\ IF clears THEN UNCHANGED <<emailDay, processDay>> ELSE Charge(Owner(s))
  /\ Goto(t, "admitted") \/ Goto(t, "overk")

-----------------------------------------------------------------------------
(* The turn, after the health of the dump came back.                       *)

Asked(t) == stage[t] = "admitted" /\ ~clear[t]

ClearSession(t) ==
  LET mine == {x \in Turns : session[x] = session[t] /\ ~clear[x]}
  IN  /\ stage[t] = "admitted" /\ clear[t]
      /\ store' = Clear(store, session[t])
      /\ Goto(t, "cleared")
      /\ disowned' = disowned \cup {x \in mine : stage[x] \notin Refusals}
      /\ UNCHANGED <<now, gate, request, read, refundedOn>>

BadRefund(t) ==
  /\ emailDay' = [emailDay EXCEPT ![<<User(t), Today>>] = Less(@)]
  /\ UNCHANGED processDay
  /\ refundedOn' = [refundedOn EXCEPT ![t] = Today]

(* release takes the refund from the day on which the turn ends.           *)
Refund(t) ==
  /\ emailDay' = [emailDay EXCEPT ![<<User(t), Today>>] = Less(@)]
  /\ processDay' = [processDay EXCEPT ![Today] = Less(@)]
  /\ refundedOn' = [refundedOn EXCEPT ![t] = Today]

(* An input guardrail blocks before the history is read ...                *)
BlockedFirst(t) ==
  /\ Asked(t)
  /\ Goto(t, "blocked")
  /\ Refund(t)
  /\ UNCHANGED <<now, hits, store, request, read, disowned>>

ReadHistory(t) ==
  LET live == Expire(store, now)
  IN  /\ Asked(t)
      /\ store' = live
      /\ read' = [read EXCEPT ![t] = MessagesOf(live, session[t])]
      /\ UNCHANGED <<now, hits, request, disowned>>

(* ... or after.                                                           *)
BlockedLater(t) ==
  /\ ReadHistory(t)
  /\ Goto(t, "blocked")
  /\ Refund(t)

IndexNotReady(t) ==
  /\ ReadHistory(t)
  /\ Goto(t, "unanswered")
  /\ UNCHANGED <<emailDay, processDay, refundedOn>>

StartAnswer(t) ==
  /\ ReadHistory(t)
  /\ Goto(t, "answering")
  /\ UNCHANGED <<emailDay, processDay, refundedOn>>

(* Nothing found, nothing left by the retrieve rails, or a draft: the      *)
(* exchange is remembered.                                                 *)
Answered(t) ==
  /\ stage[t] = "answering"
  /\ store' \in Remember(store, session[t], t, now)
  /\ Goto(t, "answered")
  /\ UNCHANGED <<now, gate, request, read, refundedOn, disowned>>

(* No draft: the model failed or timed out.                                *)
Unanswered(t) ==
  /\ stage[t] = "answering"
  /\ Goto(t, "unanswered")
  /\ UNCHANGED <<now, gate, store, request, read, refundedOn, disowned>>

BadDropped(t) ==
  /\ stage[t] \in InFlight
  /\ Goto(t, "dropped")
  /\ IF clear[t] THEN UNCHANGED <<emailDay, processDay, refundedOn>> ELSE Refund(t)
  /\ UNCHANGED <<now, hits, store, request, read, disowned>>

(* The client goes away, and json_chat_chunks cancels the turn, or the     *)
(* turn raises.                                                            *)
Dropped(t) ==
  /\ stage[t] \in InFlight
  /\ Goto(t, "dropped")
  /\ UNCHANGED <<now, gate, store, request, read, refundedOn, disowned>>

Tick ==
  /\ now < MaxTime
  /\ now' = now + 1
  /\ UNCHANGED <<gate, store, stage, request, read, refundedOn, disowned>>

Arrival(t) ==
  \E s \in Sessions, c \in Clients :
    \/ \E clears \in BOOLEAN : Limited(t, s, c, clears) \/ Admit(t, s, c, clears)
    \/ Capped(t, s, c)

Step(t) ==
  \/ ClearSession(t) \/ BlockedFirst(t) \/ BlockedLater(t)
  \/ IndexNotReady(t) \/ StartAnswer(t)
  \/ Answered(t) \/ Unanswered(t) \/ Dropped(t)

Next == Tick \/ \E t \in Turns : Arrival(t) \/ Step(t)

Spec == Init /\ [][Next]_vars
-----------------------------------------------------------------------------
(* Properties.                                                             *)

(* What a session remembers is a run of whole exchanges of its own         *)
(* mailbox, each answered once, none of them blocked, dropped or left      *)
(* unanswered, however turns of that session overlap and whatever is       *)
(* evicted or expires between them.                                        *)
WholeExchanges ==
  \A s \in DOMAIN store :
    LET m == store[s].messages
        turnsOf(role) == {m[i].turn : i \in {j \in DOMAIN m : m[j].role = role}}
    IN  /\ \A i \in DOMAIN m : stage[m[i].turn] = "answered" /\ session[m[i].turn] = s
        /\ \A i \in DOMAIN m : i % 2 = 1 =>
             /\ i < Len(m)
             /\ m[i].role = "user" /\ m[i + 1].role = "assistant"
             /\ m[i].turn = m[i + 1].turn
        /\ 2 * Cardinality(turnsOf("user")) = Len(m)

(* Turns that count against a day: charged on it and not blocked.          *)
Counted(d) ==
  {t \in Turns : /\ stage[t] \notin Refusals \cup {"new", "blocked"}
                 /\ ~clear[t] /\ UtcDay(at[t]) = d}

Within(d, turns) ==
  /\ Cardinality(turns) <= MaxProcess
  /\ \A u \in Users : Cardinality({t \in turns : User(t) = u}) <= MaxEmail

(* On a UTC day no mailbox has more turns that count than its cap, nor the *)
(* process than its own ("After 30 counted turns in the current UTC day    *)
(* ... a further counted question SHALL be HTTP 429").                     *)
CapsHold == \A d \in Days : Within(d, Counted(d))

(* That much holds of a day that gave no refund to a turn of an earlier    *)
(* day.                                                                    *)
CapsHoldWithinDay ==
  \A d \in Days :
    (\A t \in Turns : refundedOn[t] = d => UtcDay(at[t]) = d) => Within(d, Counted(d))

(* A turn is refused for a cap only on a day that really has that many     *)
(* turns that count: refused, blocked and refunded ones take nothing from  *)
(* what a mailbox or the process is due.                                   *)
RefusedOnlyAtCap ==
  [][\A t \in Turns : stage[t] = "new" /\ stage'[t] = "capped" =>
       LET today == Counted(Today)
       IN  AtCap(Cardinality({x \in today : User(x) = Owner(session'[t])}),
                 Cardinality(today))]_vars

(* A conversation disappears only because its owner cleared it, because it *)
(* idled for its time to live, or because the store was full and of those  *)
(* that had not expired it was the one idle longest.                       *)
OnlyOldestEvicted ==
  [][\A s \in DOMAIN store \ DOMAIN store' :
       \/ \E t \in Turns : stage'[t] = "cleared" /\ stage[t] # "cleared" /\ session[t] = s
       \/ now - store[s].updated >= Ttl
       \/ /\ Cardinality(DOMAIN store' \cup {s}) >= Cap
          /\ \A x \in DOMAIN store \cap DOMAIN store' :
               now - store[x].updated < Ttl => store[s].updated <= store[x].updated]_vars

(* A turn asked after a clear is not composed with an exchange asked       *)
(* before it ("After clear, the system SHALL NOT use prior turns").        *)
ClearForgets ==
  \A t \in Turns \ disowned :
    \A i \in DOMAIN read[t] : read[t][i].turn \notin disowned
=============================================================================
