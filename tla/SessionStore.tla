---------------------------- MODULE SessionStore ----------------------------
(***************************************************************************)
(* The conversations the process remembers (adapters/session_memory.py):   *)
(* a store maps some sessions to their messages and the time of the last   *)
(* one.  get, append and clear run on the event loop and never await, so   *)
(* each is an operator from a store to the stores it may leave.            *)
(***************************************************************************)
EXTENDS Naturals, Sequences, FiniteSets

CONSTANTS
  Ttl,          \* seconds a session may idle
  Cap,          \* sessions at which append starts to evict
  MaxMessages   \* messages kept of a session

ASSUME StoreAssumption ==
  /\ {Ttl, Cap} \subseteq Nat \ {0}
  /\ MaxMessages \in Nat \ {0}
  /\ MaxMessages % 2 = 0     \* six, three exchanges

NoSessions == <<>>

Keep(store, kept) == [s \in DOMAIN store \cap kept |-> store[s]]

Expire(store, now) == Keep(store, {s \in DOMAIN store : now - store[s].updated < Ttl})

MessagesOf(store, s) == IF s \in DOMAIN store THEN store[s].messages ELSE <<>>

Clear(store, s) == Keep(store, DOMAIN store \ {s})

(* What eviction may leave when s is kept: sessions go in the order of     *)
(* their last message until fewer than Cap are left.  Definitions named    *)
(* Bad... are seeded faults: the one after as a plausible slip would have  *)
(* left it.                                                                *)
BadEvict(store, s) ==
  IF Cardinality(DOMAIN store) < Cap THEN {store}
  ELSE {Keep(store, kept) : kept \in {k \in SUBSET DOMAIN store :
          s \in k /\ (Cardinality(k) = Cap - 1 \/ (Cap = 1 /\ k = {s}))}}

Evict(store, s) ==
  IF Cardinality(DOMAIN store) < Cap THEN {store}
  ELSE {Keep(store, kept) : kept \in {k \in SUBSET DOMAIN store :
          /\ s \in k
          /\ Cardinality(k) = Cap - 1 \/ (Cap = 1 /\ k = {s})
          /\ \A gone \in DOMAIN store \ k, other \in k \ {s} :
               store[gone].updated <= store[other].updated}}

BadLast(messages) ==
  IF Len(messages) < MaxMessages THEN messages
  ELSE SubSeq(messages, Len(messages) - MaxMessages + 2, Len(messages))

Last(messages) ==
  IF Len(messages) <= MaxMessages THEN messages
  ELSE SubSeq(messages, Len(messages) - MaxMessages + 1, Len(messages))

(* A new session is entered before the eviction, which may not drop it.    *)
Entered(store, s, now) ==
  IF s \in DOMAIN store THEN {store}
  ELSE Evict([x \in DOMAIN store \cup {s} |->
                IF x = s THEN [messages |-> <<>>, updated |-> now]
                ELSE store[x]], s)

Append1(store, s, message, now) ==
  {[st EXCEPT ![s] = [messages |-> Last(Append(@.messages, message)),
                      updated |-> now]] :
     st \in Entered(Expire(store, now), s, now)}

(* The question and the answer of a turn, appended one after the other.    *)
Remember(store, s, turn, now) ==
  UNION {Append1(st, s, [turn |-> turn, role |-> "assistant"], now) :
           st \in Append1(store, s, [turn |-> turn, role |-> "user"], now)}
=============================================================================
