----------------------------- MODULE ChatProofs -----------------------------
(***************************************************************************)
(* What holds of any number of chat turns in flight, of any mailboxes and  *)
(* sessions, for every cap, window and time to live.                       *)
(***************************************************************************)
EXTENDS Chat, ListProofs

-----------------------------------------------------------------------------
(* The store.  A smaller store has some of the sessions, as they were.     *)

Smaller(st, old) ==
  /\ DOMAIN st \subseteq DOMAIN old
  /\ \A s \in DOMAIN st : st[s] = old[s]

(* What is kept of a store is a smaller one.                               *)
LEMMA KeepSmaller ==
  ASSUME NEW st, NEW kept
  PROVE  /\ Smaller(Keep(st, kept), st)
         /\ DOMAIN Keep(st, kept) = DOMAIN st \cap kept
BY DEF Keep, Smaller

(* What an expiry takes away had idled for its time to live.               *)
LEMMA ExpireSmaller ==
  ASSUME NEW st, NEW time
  PROVE  /\ Smaller(Expire(st, time), st)
         /\ \A s \in DOMAIN st :
              s \in DOMAIN Expire(st, time) <=> time - st[s].updated < Ttl
<1> DEFINE live == {s \in DOMAIN st : time - st[s].updated < Ttl}
<1>1. Smaller(Keep(st, live), st) /\ DOMAIN Keep(st, live) = DOMAIN st \cap live
  BY KeepSmaller
<1> QED
  BY <1>1 DEF Expire

(* g made room in st: the store was full, and none but s is older.         *)
MadeRoom(g, st, s, old) ==
  /\ Cardinality(DOMAIN st \cup {g}) >= Cap
  /\ \A x \in DOMAIN st \ {s} : old[g].updated <= old[x].updated

(* An eviction takes the oldest, and only to make room.                    *)
LEMMA EvictSmaller ==
  ASSUME NEW old, NEW s \in DOMAIN old, IsFiniteSet(DOMAIN old), NEW st \in Evict(old, s)
  PROVE  /\ Smaller(st, old) /\ s \in DOMAIN st
         /\ \A g \in DOMAIN old \ DOMAIN st : MadeRoom(g, st, s, old)
<1>1. CASE Cardinality(DOMAIN old) < Cap
  BY <1>1 DEF Evict, Smaller
<1>2. CASE ~(Cardinality(DOMAIN old) < Cap)
  <2>1. PICK k \in SUBSET DOMAIN old :
          /\ st = Keep(old, k)
          /\ s \in k
          /\ Cardinality(k) = Cap - 1 \/ (Cap = 1 /\ k = {s})
          /\ \A gone \in DOMAIN old \ k, other \in k \ {s} :
               old[gone].updated <= old[other].updated
    BY <1>2 DEF Evict
  <2>2. Smaller(st, old) /\ DOMAIN st = k
    <3>1. Smaller(st, old) /\ DOMAIN st = DOMAIN old \cap k
      BY <2>1, KeepSmaller
    <3> QED
      BY <3>1
  <2>3. ASSUME NEW g \in DOMAIN old \ k
        PROVE  Cardinality(k \cup {g}) >= Cap
    <3>1. IsFiniteSet(k)
      BY FS_Subset
    <3>2. Cardinality(k \cup {g}) = Cardinality(k) + 1 /\ Cardinality(k) \in Nat
      BY <3>1, FS_AddElement, FS_CardinalityType
    <3>3. Cap \in Nat
      BY StoreAssumption
    <3> QED
      BY <2>1, <3>2, <3>3
  <2> QED
    BY <2>1, <2>2, <2>3 DEF MadeRoom
<1> QED
  BY <1>1, <1>2

(* A session that is entered begins with no messages, and only a new one   *)
(* has others evicted for it.                                              *)
LEMMA EnteredStore ==
  ASSUME NEW live, NEW s, NEW time, IsFiniteSet(DOMAIN live), NEW st \in Entered(live, s, time)
  PROVE  /\ s \in DOMAIN st /\ DOMAIN st \subseteq DOMAIN live \cup {s}
         /\ IsFiniteSet(DOMAIN st)
         /\ st[s].messages = MessagesOf(live, s)
         /\ \A x \in DOMAIN st \ {s} : st[x] = live[x]
         /\ \A g \in DOMAIN live \ DOMAIN st :
              s \notin DOMAIN live /\ MadeRoom(g, st, s, live)
<1>1. CASE s \in DOMAIN live
  BY <1>1 DEF Entered, MessagesOf
<1>2. CASE s \notin DOMAIN live
  <2> DEFINE new == [x \in DOMAIN live \cup {s} |->
                       IF x = s THEN [messages |-> <<>>, updated |-> time] ELSE live[x]]
  <2>1. st \in Evict(new, s)
    BY <1>2 DEF Entered
  <2>2. /\ DOMAIN new = DOMAIN live \cup {s}
        /\ new[s].messages = <<>>
        /\ \A x \in DOMAIN live : new[x] = live[x]
    BY <1>2
  <2> HIDE DEF new
  <2>3. IsFiniteSet(DOMAIN new)
    BY <2>2, FS_AddElement
  <2>4. /\ Smaller(st, new) /\ s \in DOMAIN st
        /\ \A g \in DOMAIN new \ DOMAIN st : MadeRoom(g, st, s, new)
    BY <2>1, <2>2, <2>3, EvictSmaller
  <2>5. \A g \in DOMAIN live \ DOMAIN st : MadeRoom(g, st, s, live)
    BY <2>2, <2>4 DEF MadeRoom, Smaller
  <2>6. IsFiniteSet(DOMAIN st)
    BY <2>3, <2>4, FS_Subset DEF Smaller
  <2> QED
    BY <1>2, <2>2, <2>4, <2>5, <2>6 DEF Smaller, MessagesOf
<1> QED
  BY <1>1, <1>2

Added(st, s, message) == Last(Append(MessagesOf(st, s), message))

(* The store after one message: that session, and some of the others.      *)
LEMMA Append1Store ==
  ASSUME NEW old, NEW s, NEW message, NEW time, IsFiniteSet(DOMAIN old),
         NEW st \in Append1(old, s, message, time)
  PROVE  LET live == Expire(old, time)
         IN  /\ s \in DOMAIN st /\ DOMAIN st \subseteq DOMAIN live \cup {s}
             /\ IsFiniteSet(DOMAIN st)
             /\ st[s] = [messages |-> Added(live, s, message), updated |-> time]
             /\ \A x \in DOMAIN st \ {s} : st[x] = live[x]
             /\ \A g \in DOMAIN live \ DOMAIN st :
                  s \notin DOMAIN live /\ MadeRoom(g, st, s, live)
<1> DEFINE live == Expire(old, time)
<1>1. PICK e \in Entered(live, s, time) :
        st = [e EXCEPT ![s] = [messages |-> Last(Append(@.messages, message)),
                               updated |-> time]]
  BY DEF Append1
<1>2. IsFiniteSet(DOMAIN live)
  BY ExpireSmaller, FS_Subset DEF Smaller
<1> HIDE DEF live
<1>3. /\ s \in DOMAIN e /\ DOMAIN e \subseteq DOMAIN live \cup {s}
      /\ IsFiniteSet(DOMAIN e)
      /\ e[s].messages = MessagesOf(live, s)
      /\ \A x \in DOMAIN e \ {s} : e[x] = live[x]
      /\ \A g \in DOMAIN live \ DOMAIN e :
           s \notin DOMAIN live /\ MadeRoom(g, e, s, live)
  BY <1>1, <1>2, EnteredStore
<1>4. /\ DOMAIN st = DOMAIN e
      /\ st[s] = [messages |-> Added(live, s, message), updated |-> time]
      /\ \A x \in DOMAIN e \ {s} : st[x] = e[x]
  BY <1>1, <1>3 DEF Added
<1>5. \A g : MadeRoom(g, e, s, live) <=> MadeRoom(g, st, s, live)
  BY <1>4 DEF MadeRoom
<1> QED
  BY <1>3, <1>4, <1>5 DEF live

UserMessage(t) == [turn |-> t, role |-> "user"]
AssistantMessage(t) == [turn |-> t, role |-> "assistant"]
WithExchange(m, t) == Last(Append(Last(Append(m, UserMessage(t))), AssistantMessage(t)))

(* What an exchange leaves: nothing it needs expires or is evicted between *)
(* its question and its answer.                                            *)
LEMMA RememberStore ==
  ASSUME NEW old, NEW s, NEW t, NEW time \in Nat, IsFiniteSet(DOMAIN old),
         NEW st \in Remember(old, s, t, time)
  PROVE  LET live == Expire(old, time)
         IN  /\ s \in DOMAIN st /\ DOMAIN st \subseteq DOMAIN live \cup {s}
             /\ IsFiniteSet(DOMAIN st)
             /\ st[s].messages = WithExchange(MessagesOf(live, s), t)
             /\ st[s].updated = time
             /\ \A x \in DOMAIN st \ {s} : st[x] = live[x]
             /\ \A g \in DOMAIN live \ DOMAIN st :
                  s \notin DOMAIN live /\ MadeRoom(g, st, s, live)
<1> DEFINE live == Expire(old, time)
           q == UserMessage(t)
           a == AssistantMessage(t)
<1>1. PICK mid \in Append1(old, s, q, time) : st \in Append1(mid, s, a, time)
  BY DEF Remember, UserMessage, AssistantMessage
<1> DEFINE same == Expire(mid, time)
<1> HIDE DEF q, a
<1>2. /\ s \in DOMAIN mid /\ DOMAIN mid \subseteq DOMAIN live \cup {s}
      /\ IsFiniteSet(DOMAIN mid)
      /\ mid[s] = [messages |-> Added(live, s, q), updated |-> time]
      /\ \A x \in DOMAIN mid \ {s} : mid[x] = live[x]
      /\ \A g \in DOMAIN live \ DOMAIN mid :
           s \notin DOMAIN live /\ MadeRoom(g, mid, s, live)
  BY <1>1, Append1Store
<1>3. ASSUME NEW x \in DOMAIN mid
      PROVE  time - mid[x].updated < Ttl
  <2>1. CASE x = s
    <3>1. mid[x].updated = time
      BY <1>2, <2>1
    <3> QED
      BY <3>1, StoreAssumption
  <2>2. CASE x # s
    <3>1. x \in DOMAIN live /\ mid[x] = live[x]
      BY <1>2, <2>2
    <3>2. x \in DOMAIN old /\ live[x] = old[x]
      BY <3>1, ExpireSmaller DEF Smaller
    <3>3. time - old[x].updated < Ttl
      BY <3>1, <3>2, ExpireSmaller
    <3> QED
      BY <3>1, <3>2, <3>3
  <2> QED
    BY <2>1, <2>2
<1>4. DOMAIN same = DOMAIN mid /\ \A x \in DOMAIN mid : same[x] = mid[x]
  BY <1>3, ExpireSmaller DEF Smaller
<1>5. /\ s \in DOMAIN st /\ DOMAIN st \subseteq DOMAIN same \cup {s}
      /\ IsFiniteSet(DOMAIN st)
      /\ st[s] = [messages |-> Added(same, s, a), updated |-> time]
      /\ \A x \in DOMAIN st \ {s} : st[x] = same[x]
      /\ \A g \in DOMAIN same \ DOMAIN st : s \notin DOMAIN same
  BY <1>1, <1>2, Append1Store
<1> HIDE DEF live, same
<1>6. DOMAIN st = DOMAIN mid
  BY <1>2, <1>4, <1>5
<1>7. \A g : MadeRoom(g, mid, s, live) <=> MadeRoom(g, st, s, live)
  BY <1>6 DEF MadeRoom
<1>8. st[s].messages = WithExchange(MessagesOf(live, s), t)
  <2>1. MessagesOf(same, s) = Added(live, s, q)
    BY <1>2, <1>4 DEF MessagesOf
  <2> QED
    BY <1>5, <2>1 DEF Added, WithExchange, q, a
<1> QED
  BY <1>2, <1>4, <1>5, <1>6, <1>7, <1>8 DEF live

-----------------------------------------------------------------------------
(* What a session remembers.                                               *)

(* Whole exchanges, of different turns.                                    *)
Exchanges(m) ==
  /\ m \in Seq(Messages)
  /\ Len(m) <= MaxMessages
  /\ Len(m) % 2 = 0
  /\ \A i \in 1 .. Len(m) : i % 2 = 1 =>
       /\ m[i].role = "user" /\ m[i + 1].role = "assistant"
       /\ m[i].turn = m[i + 1].turn
  /\ \A i, j \in 1 .. Len(m) :
       i % 2 = 1 /\ j % 2 = 1 /\ m[i].turn = m[j].turn => i = j

(* The two ends of a list that is trimmed as it grows: as many messages go *)
(* as come once it is full, and never one of a pair.                       *)
LEMMA LastOfTwo ==
  ASSUME NEW S, NEW m \in Seq(S), NEW x \in S, NEW y \in S,
         Len(m) <= MaxMessages, Len(m) % 2 = 0
  PROVE  LET r == Last(Append(Last(Append(m, x)), y))
         IN  \E d \in {0, 2} :
               /\ d <= Len(m)
               /\ r \in Seq(S)
               /\ Len(r) = Len(m) + 2 - d
               /\ Len(r) <= MaxMessages
               /\ \A i \in 1 .. Len(m) - d : r[i] = m[i + d]
               /\ r[Len(r) - 1] = x /\ r[Len(r)] = y
<1> DEFINE n == Len(m)
           one == Append(m, x)
<1>1. n \in Nat /\ MaxMessages \in Nat /\ MaxMessages >= 2 /\ MaxMessages % 2 = 0
  BY StoreAssumption
<1>2. one \in Seq(S) /\ Len(one) = n + 1 /\ one[n + 1] = x /\ \A i \in 1 .. n : one[i] = m[i]
  BY AppendProperties
<1> HIDE DEF one
<1>3. CASE n < MaxMessages
  <2>1. n + 2 <= MaxMessages
    BY <1>1, <1>3
  <2>2. Last(one) = one
    BY <1>1, <1>2, <2>1 DEF Last
  <2> DEFINE two == Append(one, y)
  <2>3. /\ two \in Seq(S) /\ Len(two) = n + 2 /\ two[n + 2] = y
        /\ \A i \in 1 .. n + 1 : two[i] = one[i]
    BY <1>1, <1>2, AppendProperties
  <2> HIDE DEF two
  <2>4. Last(two) = two
    BY <2>1, <2>3 DEF Last
  <2>5. /\ \A i \in 1 .. n - 0 : two[i] = m[i + 0]
        /\ two[Len(two) - 1] = x
    BY SMTT(60), <1>1, <1>2, <2>3
  <2> QED
    BY <1>1, <2>1, <2>2, <2>3, <2>4, <2>5 DEF one, two
<1>4. CASE n = MaxMessages
  <2> DEFINE cut == Last(one)
  <2>1. cut = SubSeq(one, 2, n + 1)
    BY <1>1, <1>2, <1>4 DEF Last
  <2>2. /\ cut \in Seq(S) /\ Len(cut) = n /\ cut[n] = x
        /\ \A i \in 1 .. n - 1 : cut[i] = m[i + 1]
    <3>1. cut \in Seq(S) /\ Len(cut) = n /\ \A i \in 1 .. n : cut[i] = one[i + 1]
      BY <1>1, <1>2, <2>1, SubSeqProperties
    <3> QED
      BY <1>1, <1>2, <1>4, <3>1
  <2> HIDE DEF cut
  <2> DEFINE two == Append(cut, y)
             r == Last(two)
  <2>3. /\ two \in Seq(S) /\ Len(two) = n + 1 /\ two[n + 1] = y
        /\ \A i \in 1 .. n : two[i] = cut[i]
    BY <1>1, <2>2, AppendProperties
  <2> HIDE DEF two
  <2>4. r = SubSeq(two, 2, n + 1)
    BY <1>1, <2>3, <1>4 DEF Last
  <2>5. r \in Seq(S) /\ Len(r) = n /\ \A i \in 1 .. n : r[i] = two[i + 1]
    BY <1>1, <2>3, <2>4, SubSeqProperties
  <2> HIDE DEF r
  <2>6. r[n - 1] = x /\ r[n] = y /\ \A i \in 1 .. n - 2 : r[i] = m[i + 2]
    BY <1>1, <1>4, <2>2, <2>3, <2>5
  <2>7. r = Last(Append(Last(Append(m, x)), y))
    BY DEF r, two, cut, one
  <2> QED
    BY <1>1, <1>4, <2>5, <2>6, <2>7
<1> QED
  BY <1>1, <1>3, <1>4

(* An exchange after whole ones leaves whole ones.                         *)
LEMMA ExchangeAdded ==
  ASSUME NEW m, Exchanges(m), NEW t \in Turns, \A i \in 1 .. Len(m) : m[i].turn # t
  PROVE  LET r == WithExchange(m, t)
         IN  /\ Exchanges(r)
             /\ \A i \in 1 .. Len(r) :
                  r[i].turn = t \/ \E j \in 1 .. Len(m) : r[i].turn = m[j].turn
<1> DEFINE r == WithExchange(m, t)
           x == UserMessage(t)
           y == AssistantMessage(t)
<1>1. /\ x \in Messages /\ x.turn = t /\ x.role = "user"
      /\ y \in Messages /\ y.turn = t /\ y.role = "assistant"
  BY DEF Messages, UserMessage, AssistantMessage
<1>2. m \in Seq(Messages) /\ Len(m) <= MaxMessages /\ Len(m) % 2 = 0 /\ Len(m) \in Nat
  BY DEF Exchanges
<1> HIDE DEF x, y
<1>3. PICK d \in {0, 2} :
        /\ d <= Len(m)
        /\ r \in Seq(Messages)
        /\ Len(r) = Len(m) + 2 - d
        /\ Len(r) <= MaxMessages
        /\ \A i \in 1 .. Len(m) - d : r[i] = m[i + d]
        /\ r[Len(r) - 1] = x /\ r[Len(r)] = y
  BY <1>1, <1>2, LastOfTwo DEF WithExchange, x, y
<1> HIDE DEF r
<1> DEFINE k == Len(m) - d
<1>4. k \in Nat /\ Len(r) = k + 2 /\ k % 2 = 0 /\ r[k + 1] = x /\ r[k + 2] = y
  <2>1. k \in Nat /\ Len(r) = k + 2 /\ k % 2 = 0
    <3>1. CASE d = 0
      BY <1>2, <1>3, <3>1
    <3>2. CASE d = 2
      BY <1>2, <1>3, <3>2
    <3> QED
      BY <3>1, <3>2
  <2>2. Len(r) - 1 = k + 1
    BY <2>1
  <2> QED
    BY <1>3, <2>1, <2>2
<1>5. \A i \in 1 .. k : r[i] = m[i + d] /\ i + d \in 1 .. Len(m) /\ (i + d) % 2 = i % 2
  <2> SUFFICES ASSUME NEW i \in 1 .. k
               PROVE  r[i] = m[i + d] /\ i + d \in 1 .. Len(m) /\ (i + d) % 2 = i % 2
    OBVIOUS
  <2>1. r[i] = m[i + d]
    BY <1>3
  <2>2. Len(m) = k + d
    BY <1>2
  <2> HIDE DEF k
  <2>3. i + d \in 1 .. Len(m)
    BY <1>4, <2>2
  <2>4. (i + d) % 2 = i % 2
    <3>1. CASE d = 0
      BY <1>4, <3>1
    <3>2. CASE d = 2
      BY <1>4, <3>2
    <3> QED
      BY <3>1, <3>2
  <2> QED
    BY <2>1, <2>3, <2>4
<1> HIDE DEF k
<1>6. \A i \in 1 .. k + 2 : i % 2 = 1 =>
        \/ i \in 1 .. k /\ i + 1 \in 1 .. k
        \/ i = k + 1
  BY <1>4
<1>7. \A i \in 1 .. Len(r) : i % 2 = 1 =>
        /\ r[i].role = "user" /\ r[i + 1].role = "assistant"
        /\ r[i].turn = r[i + 1].turn
  <2> SUFFICES ASSUME NEW i \in 1 .. k + 2, i % 2 = 1
               PROVE  /\ r[i].role = "user" /\ r[i + 1].role = "assistant"
                      /\ r[i].turn = r[i + 1].turn
    BY <1>4
  <2>1. CASE i \in 1 .. k /\ i + 1 \in 1 .. k
    <3>1. r[i] = m[i + d] /\ r[i + 1] = m[(i + d) + 1]
      BY <1>3, <1>5, <2>1
    <3> QED
      BY <1>5, <2>1, <3>1 DEF Exchanges
  <2>2. CASE i = k + 1
    BY <1>1, <1>4, <2>2
  <2> QED
    BY <1>6, <2>1, <2>2
<1>8. \A i, j \in 1 .. Len(r) :
        i % 2 = 1 /\ j % 2 = 1 /\ r[i].turn = r[j].turn => i = j
  <2> SUFFICES ASSUME NEW i \in 1 .. k + 2, NEW j \in 1 .. k + 2,
                      i % 2 = 1, j % 2 = 1, r[i].turn = r[j].turn
               PROVE  i = j
    BY <1>4
  <2>1. CASE i \in 1 .. k /\ j \in 1 .. k
    <3>1. i + d = j + d
      BY <1>5, <2>1 DEF Exchanges
    <3> QED
      BY SMTT(60), <1>3, <3>1
  <2>2. \A l \in 1 .. k : r[l].turn # t
    BY <1>5
  <2>3. CASE i = k + 1 \/ j = k + 1
    BY <1>1, <1>4, <1>6, <2>2, <2>3
  <2> QED
    BY <1>6, <2>1, <2>3
<1>9. \A i \in 1 .. Len(r) : r[i].turn = t \/ \E j \in 1 .. Len(m) : r[i].turn = m[j].turn
  <2> SUFFICES ASSUME NEW i \in 1 .. k + 2
               PROVE  r[i].turn = t \/ \E j \in 1 .. Len(m) : r[i].turn = m[j].turn
    BY <1>4
  <2>1. CASE i \in 1 .. k
    BY <1>5, <2>1
  <2>2. CASE i \notin 1 .. k
    <3>1. i = k + 1 \/ i = k + 2
      BY <1>4, <2>2
    <3> QED
      BY <1>1, <1>4, <3>1
  <2> QED
    BY <2>1, <2>2
<1>10. Len(r) % 2 = 0
  <2>1. \A j \in Nat : j % 2 = 0 => (j + 2) % 2 = 0
    OBVIOUS
  <2> QED
    BY <1>4, <2>1, Zenon
<1> QED
  BY <1>3, <1>7, <1>8, <1>9, <1>10, Zenon DEF Exchanges, r

(* Half the messages of whole exchanges are questions, each of a turn of   *)
(* its own.                                                                *)
LEMMA QuestionsCounted ==
  ASSUME NEW m, Exchanges(m)
  PROVE  2 * Cardinality({m[i].turn : i \in {j \in DOMAIN m : m[j].role = "user"}}) = Len(m)
<1> DEFINE asked == {j \in DOMAIN m : m[j].role = "user"}
           turns == {m[i].turn : i \in asked}
           h == Len(m) \div 2
           f == [k \in 1 .. h |-> m[2 * k - 1].turn]
<1>1. /\ DOMAIN m = 1 .. Len(m) /\ Len(m) \in Nat /\ h \in Nat /\ Len(m) = 2 * h
  BY DEF Exchanges
<1>2. \A i \in 1 .. Len(m) : m[i].role = "user" <=> i % 2 = 1
  <2> SUFFICES ASSUME NEW i \in 1 .. Len(m), i % 2 # 1
               PROVE  m[i].role # "user"
    BY DEF Exchanges
  <2>1. i - 1 \in 1 .. Len(m) /\ (i - 1) % 2 = 1
    BY <1>1
  <2>2. m[(i - 1) + 1].role = "assistant"
    BY <2>1 DEF Exchanges
  <2> QED
    BY <2>2
<1>3. asked = {j \in 1 .. Len(m) : j % 2 = 1}
  BY <1>1, <1>2
<1>4. \A k \in 1 .. h : 2 * k - 1 \in asked
  BY <1>1, <1>3
<1>5. \A j \in asked : \E k \in 1 .. h : j = 2 * k - 1
  <2> SUFFICES ASSUME NEW j \in asked
               PROVE  \E k \in 1 .. h : j = 2 * k - 1
    OBVIOUS
  <2>1. (j + 1) \div 2 \in 1 .. h /\ j = 2 * ((j + 1) \div 2) - 1
    BY SMTT(60), <1>1, <1>3
  <2> QED
    BY <2>1
<1>6. f \in Surjection(1 .. h, turns)
  <2>1. f \in [1 .. h -> turns]
    BY <1>4
  <2>2. \A t \in turns : \E k \in 1 .. h : f[k] = t
    BY <1>5
  <2> HIDE DEF f, turns
  <2> QED
    BY <2>1, <2>2, Fun_IsSurj
<1>7. \A k, l \in 1 .. h : f[k] = f[l] => k = l
  <2> SUFFICES ASSUME NEW k \in 1 .. h, NEW l \in 1 .. h, m[2 * k - 1].turn = m[2 * l - 1].turn
               PROVE  k = l
    OBVIOUS
  <2>1. 2 * k - 1 = 2 * l - 1
    <3> DEFINE i == 2 * k - 1
               j == 2 * l - 1
    <3>1. i \in 1 .. Len(m) /\ j \in 1 .. Len(m) /\ i % 2 = 1 /\ j % 2 = 1
      BY <1>1
    <3>2. m[i].turn = m[j].turn
      OBVIOUS
    <3> HIDE DEF i, j
    <3>3. i = j
      BY <3>1, <3>2 DEF Exchanges
    <3> QED
      BY <3>3 DEF i, j
  <2> QED
    BY <2>1
<1>8. f \in Bijection(1 .. h, turns)
  <2> HIDE DEF f, turns
  <2> QED
    BY <1>6, <1>7, Fun_IsBij DEF Surjection
<1>9. IsFiniteSet(1 .. h) /\ Cardinality(1 .. h) = h
  BY <1>1, FS_Interval
<1>10. Cardinality(turns) = h
  <2> HIDE DEF f, turns, h
  <2> QED
    BY <1>8, <1>9, FS_Bijection DEF ExistsBijection
<1> QED
  BY <1>1, <1>10

-----------------------------------------------------------------------------
(* The turns.                                                              *)

TurnTypes ==
  /\ now \in Times
  /\ hits \in [Clients -> Seq(Times)]
  /\ stage \in [Turns -> Stages]
  /\ session \in [Turns -> Sessions \cup {None}]
  /\ clear \in [Turns -> BOOLEAN]
  /\ client \in [Turns -> Clients \cup {None}]
  /\ at \in [Turns -> Times]
  /\ read \in [Turns -> Seq(Messages)]
  /\ refundedOn \in [Turns -> Days \cup {None}]
  /\ disowned \subseteq Turns

(* At any time finitely many turns have arrived, each for a session, and   *)
(* only a blocked one was refunded.                                        *)
TurnInv ==
  /\ TurnTypes
  /\ IsFiniteSet({t \in Turns : stage[t] # "new"})
  /\ \A t \in Turns : stage[t] # "new" => session[t] \in Sessions
  /\ \A t \in Turns : refundedOn[t] # None => stage[t] = "blocked"

(* Every conversation is whole exchanges of turns of its own that were     *)
(* answered.                                                               *)
OwnExchanges(s, m) ==
  /\ Exchanges(m)
  /\ \A i \in 1 .. Len(m) : stage[m[i].turn] = "answered" /\ session[m[i].turn] = s

StoreInv ==
  /\ DOMAIN store \subseteq Sessions
  /\ IsFiniteSet(DOMAIN store)
  /\ \A s \in DOMAIN store : store[s].updated \in Times /\ OwnExchanges(s, store[s].messages)

Stays(t) ==
  /\ stage'[t] = stage[t] /\ session'[t] = session[t] /\ clear'[t] = clear[t]
  /\ at'[t] = at[t] /\ refundedOn'[t] = refundedOn[t]

(* A step of t: it arrives, or it was in flight.                           *)
Moves(t) ==
  /\ \A x \in Turns \ {t} : Stays(x)
  /\ stage[t] \in {"new"} \cup InFlight
  /\ stage'[t] \in Stages \ {"new"}
  /\ session'[t] \in Sessions
  /\ refundedOn'[t] # None => stage'[t] = "blocked"
  /\ stage[t] # "new" => session'[t] = session[t] /\ clear'[t] = clear[t] /\ at'[t] = at[t]
  /\ stage[t] = "new" => at'[t] = now

Typed ==
  /\ stage' \in [Turns -> Stages]
  /\ session' \in [Turns -> Sessions \cup {None}]
  /\ clear' \in [Turns -> BOOLEAN]
  /\ client' \in [Turns -> Clients \cup {None}]
  /\ at' \in [Turns -> Times]
  /\ refundedOn' \in [Turns -> Days \cup {None}]
  /\ disowned' \subseteq Turns

(* Days follow their instants.                                             *)
LEMMA DaysOrdered ==
  /\ \A t, u \in Nat : t <= u => UtcDay(t) <= UtcDay(u)
  /\ \A t \in Times : UtcDay(t) \in Days
  /\ Days \subseteq Nat
  /\ None \notin Days
<1>1. \A t, u \in Nat : t <= u => UtcDay(t) <= UtcDay(u)
  BY CapsAssumption DEF UtcDay
<1>2. \A t \in Nat : UtcDay(t) \in Nat
  BY CapsAssumption DEF UtcDay
<1>3. UtcDay(MaxTime) <= MaxTime
  BY CapsAssumption, ChatAssumption DEF UtcDay
<1> QED
  BY <1>1, <1>2, <1>3, ChatAssumption DEF Times, Days

(* What an arrival does to the turn, its times and its charges.            *)
LEMMA ArrivalMoves ==
  ASSUME TurnInv, NEW t \in Turns, Arrival(t)
  PROVE  Moves(t) /\ Typed
<1> PICK s \in Sessions, c \in Clients, clears \in BOOLEAN :
      Arrives(t, s, c, clears) /\ \E to \in {"limited", "capped", "admitted", "overk"} : Goto(t, to)
  BY DEF Arrival, Limited, Admit, Capped
<1>1. PICK to \in {"limited", "capped", "admitted", "overk"} : Goto(t, to)
  OBVIOUS
<1>2. to \in Stages \ {"new"}
  BY DEF Stages, Refusals, InFlight, Ended
<1>3. Moves(t)
  BY <1>1, <1>2 DEF Moves, Stays, Arrives, Goto, TurnInv, TurnTypes
<1>4. Typed
  BY <1>1, <1>2 DEF Typed, Arrives, Goto, TurnInv, TurnTypes
<1> QED
  BY <1>3, <1>4

(* What a step of a turn does to them.                                     *)
LEMMA StepMoves ==
  ASSUME TurnInv, NEW t \in Turns, Step(t)
  PROVE  Moves(t) /\ Typed
<1>1. UNCHANGED request /\ stage[t] \in InFlight
  BY DEF Step, ClearSession, BlockedFirst, BlockedLater, IndexNotReady, StartAnswer,
     ReadHistory, Answered, Unanswered, Dropped, Asked, InFlight
<1>2. \E to \in Ended \cup InFlight :
        /\ Goto(t, to)
        /\ UNCHANGED refundedOn \/ (to = "blocked" /\ refundedOn' = [refundedOn EXCEPT ![t] = Today])
  BY DEF Step, ClearSession, BlockedFirst, BlockedLater, IndexNotReady, StartAnswer,
     ReadHistory, Answered, Unanswered, Dropped, Refund, Ended, InFlight
<1>3. PICK to \in Ended \cup InFlight :
        /\ Goto(t, to)
        /\ UNCHANGED refundedOn \/ (to = "blocked" /\ refundedOn' = [refundedOn EXCEPT ![t] = Today])
  BY <1>2
<1>4. to \in Stages \ {"new"} /\ stage[t] # "new" /\ stage[t] # "blocked"
  BY <1>1 DEF Stages, Refusals, InFlight, Ended
<1>5. Today \in Days
  BY DaysOrdered DEF Today, TurnInv, TurnTypes
<1>6. disowned' \subseteq Turns
  BY DEF Step, ClearSession, BlockedFirst, BlockedLater, IndexNotReady, StartAnswer,
     ReadHistory, Answered, Unanswered, Dropped, TurnInv, TurnTypes
<1>7. Moves(t)
  BY <1>1, <1>3, <1>4 DEF Moves, Stays, Goto, request, TurnInv, TurnTypes
<1>8. Typed
  BY <1>1, <1>3, <1>4, <1>5, <1>6 DEF Typed, Goto, request, TurnInv, TurnTypes
<1> QED
  BY <1>7, <1>8

(* A move leaves the other turns as they were.                             *)
LEMMA MovesKeepTurnInv ==
  ASSUME TurnInv, NEW t \in Turns, Moves(t), Typed,
         now' \in Times, hits' \in [Clients -> Seq(Times)], read' \in [Turns -> Seq(Messages)]
  PROVE  TurnInv'
<1>1. TurnTypes'
  BY DEF TurnTypes, Typed
<1>2. IsFiniteSet({x \in Turns : stage'[x] # "new"})
  <2> DEFINE old == {x \in Turns : stage[x] # "new"}
  <2>1. IsFiniteSet(old \cup {t})
    BY FS_AddElement DEF TurnInv
  <2>2. {x \in Turns : stage'[x] # "new"} \subseteq old \cup {t}
    BY DEF Moves, Stays
  <2> QED
    BY <2>1, <2>2, FS_Subset
<1>3. \A x \in Turns : stage'[x] # "new" => session'[x] \in Sessions
  BY DEF Moves, Stays, TurnInv
<1>4. \A x \in Turns : refundedOn'[x] # None => stage'[x] = "blocked"
  BY DEF Moves, Stays, TurnInv
<1> QED
  BY <1>1, <1>2, <1>3, <1>4 DEF TurnInv

(* The rate limiter's lists.                                               *)
LEMMA HitTyped ==
  ASSUME TurnInv, NEW c \in Clients, Hit(c)
  PROVE  hits' \in [Clients -> Seq(Times)]
<1>1. hits[c] \in Seq(Times) /\ now \in Times
  BY DEF TurnInv, TurnTypes
<1>2. Recent(hits[c], now) \in Seq(Times)
  BY <1>1, KeptEnumerates DEF Recent
<1>3. Append(Recent(hits[c], now), now) \in Seq(Times)
  BY <1>1, <1>2
<1> QED
  BY <1>3 DEF Hit, TurnInv, TurnTypes

(* What a turn reads.                                                      *)
LEMMA HistoryTyped ==
  ASSUME StoreInv, NEW s
  PROVE  MessagesOf(Expire(store, now), s) \in Seq(Messages)
<1>1. \A x \in DOMAIN store : store[x].messages \in Seq(Messages)
  BY DEF StoreInv, OwnExchanges, Exchanges
<1>2. <<>> \in Seq(Messages)
  OBVIOUS
<1> QED
  BY <1>1, <1>2, ExpireSmaller DEF MessagesOf, Smaller

LEMMA NextKeepsTurnInv ==
  ASSUME TurnInv, StoreInv, [Next]_vars
  PROVE  TurnInv'
<1>1. ASSUME NEW t \in Turns, Arrival(t) PROVE TurnInv'
  <2>1. now' = now /\ read' = read
    BY <1>1 DEF Arrival, Limited, Admit, Capped, Arrives
  <2>2. hits' \in [Clients -> Seq(Times)]
    <3>1. UNCHANGED hits \/ \E c \in Clients : Hit(c)
      BY <1>1 DEF Arrival, Limited, Admit, Capped, gate
    <3> QED
      BY <3>1, HitTyped DEF TurnInv, TurnTypes
  <2> QED
    BY <1>1, <2>1, <2>2, ArrivalMoves, MovesKeepTurnInv DEF TurnInv, TurnTypes
<1>2. ASSUME NEW t \in Turns, Step(t) PROVE TurnInv'
  <2>1. now' = now /\ hits' = hits
    BY <1>2 DEF Step, ClearSession, BlockedFirst, BlockedLater, IndexNotReady, StartAnswer,
       ReadHistory, Answered, Unanswered, Dropped, gate
  <2>2. read' \in [Turns -> Seq(Messages)]
    <3>1. UNCHANGED read \/ read' = [read EXCEPT ![t] = MessagesOf(Expire(store, now), session[t])]
      BY <1>2 DEF Step, ClearSession, BlockedFirst, BlockedLater, IndexNotReady, StartAnswer,
         ReadHistory, Answered, Unanswered, Dropped
    <3>2. PICK m \in Seq(Messages) : UNCHANGED read \/ read' = [read EXCEPT ![t] = m]
      BY <3>1, HistoryTyped
    <3>3. read \in [Turns -> Seq(Messages)]
      BY DEF TurnInv, TurnTypes
    <3> QED
      BY <3>2, <3>3
  <2> QED
    BY <1>2, <2>1, <2>2, StepMoves, MovesKeepTurnInv DEF TurnInv, TurnTypes
<1>3. CASE Tick
  <2>1. now' \in Times
    BY <1>3, ChatAssumption DEF Tick, Times, TurnInv, TurnTypes
  <2> QED
    BY <1>3, <2>1 DEF Tick, gate, request, TurnInv, TurnTypes
<1>4. CASE UNCHANGED vars
  BY <1>4 DEF vars, gate, request, TurnInv, TurnTypes
<1> QED
  BY <1>1, <1>2, <1>3, <1>4 DEF Next

-----------------------------------------------------------------------------
(* The conversations.                                                      *)

AnsweredStay ==
  \A x \in Turns : stage[x] = "answered" => stage'[x] = "answered" /\ session'[x] = session[x]

LEMMA NextAnsweredStay ==
  ASSUME TurnInv, [Next]_vars
  PROVE  AnsweredStay
<1>1. ASSUME NEW t \in Turns, Moves(t) PROVE AnsweredStay
  BY <1>1 DEF Moves, Stays, AnsweredStay, InFlight
<1>2. CASE Tick \/ UNCHANGED vars
  BY <1>2 DEF Tick, vars, request, AnsweredStay
<1> QED
  BY <1>1, <1>2, ArrivalMoves, StepMoves DEF Next

(* A store that lost sessions.                                             *)
LEMMA SmallerKeepsStoreInv ==
  ASSUME StoreInv, AnsweredStay, Smaller(store', store)
  PROVE  StoreInv'
<1>1. DOMAIN store' \subseteq Sessions /\ IsFiniteSet(DOMAIN store')
  BY FS_Subset DEF StoreInv, Smaller
<1>2. ASSUME NEW s \in DOMAIN store'
      PROVE  store'[s].updated \in Times /\ OwnExchanges(s, store[s].messages)'
  <2>1. s \in DOMAIN store /\ store'[s] = store[s]
    BY DEF Smaller
  <2> DEFINE m == store[s].messages
  <2>2. store[s].updated \in Times /\ OwnExchanges(s, m)
    BY <2>1 DEF StoreInv
  <2>3. \A i \in 1 .. Len(m) : m[i].turn \in Turns
    <3>1. m \in Seq(Messages)
      BY <2>2 DEF OwnExchanges, Exchanges
    <3>2. \A i \in 1 .. Len(m) : m[i] \in Messages
      BY <3>1
    <3> QED
      BY <3>2 DEF Messages
  <2>4. \A i \in 1 .. Len(m) : stage'[m[i].turn] = "answered" /\ session'[m[i].turn] = s
    BY <2>2, <2>3 DEF OwnExchanges, AnsweredStay
  <2> QED
    BY <2>1, <2>2, <2>4 DEF OwnExchanges
<1> QED
  BY <1>1, <1>2 DEF StoreInv

(* The one step that adds to a conversation: a turn in flight, so none of  *)
(* those remembered, is answered.                                          *)
LEMMA AnsweredKeepsStoreInv ==
  ASSUME TurnInv, StoreInv, AnsweredStay, NEW t \in Turns, Answered(t)
  PROVE  StoreInv'
<1> DEFINE own == session[t]
           live == Expire(store, now)
           old == MessagesOf(live, own)
<1>1. /\ stage[t] = "answering" /\ stage'[t] = "answered" /\ session' = session
      /\ now' = now /\ now \in Times /\ now \in Nat /\ own \in Sessions
  BY DEF Answered, Goto, request, TurnInv, TurnTypes, Times
<1>2. /\ own \in DOMAIN store' /\ DOMAIN store' \subseteq DOMAIN live \cup {own}
      /\ IsFiniteSet(DOMAIN store')
      /\ store'[own].messages = WithExchange(old, t)
      /\ store'[own].updated = now
      /\ \A x \in DOMAIN store' \ {own} : store'[x] = live[x]
  BY <1>1, RememberStore DEF Answered, StoreInv
<1>3. Smaller(live, store)
  BY ExpireSmaller
<1> HIDE DEF live
<1>4. OwnExchanges(own, old)
  <2>1. CASE own \in DOMAIN live
    BY <1>3, <2>1 DEF MessagesOf, Smaller, StoreInv
  <2>2. CASE own \notin DOMAIN live
    <3>1. old = <<>> /\ Len(old) = 0
      BY <2>2 DEF MessagesOf
    <3>2. old \in Seq(Messages) /\ 0 <= MaxMessages /\ 0 % 2 = 0
      BY <3>1, StoreAssumption, EmptySeq
    <3> HIDE DEF old
    <3> QED
      BY <3>1, <3>2 DEF OwnExchanges, Exchanges
  <2> QED
    BY <2>1, <2>2
<1> HIDE DEF old
<1>5. \A i \in 1 .. Len(old) : old[i].turn \in Turns /\ old[i].turn # t
  <2>1. old \in Seq(Messages)
    BY <1>4 DEF OwnExchanges, Exchanges
  <2>2. \A i \in 1 .. Len(old) : old[i] \in Messages
    BY <2>1
  <2> QED
    BY <1>1, <1>4, <2>2 DEF OwnExchanges, Messages
<1> DEFINE new == WithExchange(old, t)
<1>6. /\ Exchanges(new)
      /\ \A i \in 1 .. Len(new) :
           new[i].turn = t \/ \E j \in 1 .. Len(old) : new[i].turn = old[j].turn
  BY <1>4, <1>5, ExchangeAdded DEF OwnExchanges
<1> HIDE DEF new
<1>7. \A i \in 1 .. Len(new) : stage'[new[i].turn] = "answered" /\ session'[new[i].turn] = own
  BY <1>1, <1>4, <1>5, <1>6 DEF OwnExchanges, AnsweredStay
<1>8. ASSUME NEW s \in DOMAIN store'
      PROVE  store'[s].updated \in Times /\ OwnExchanges(s, store[s].messages)'
  <2>1. CASE s = own
    BY <1>1, <1>2, <1>6, <1>7, <2>1 DEF OwnExchanges, new
  <2>2. CASE s # own
    <3>1. s \in DOMAIN store /\ store'[s] = store[s]
      BY <1>2, <1>3, <2>2 DEF Smaller
    <3> DEFINE m == store[s].messages
    <3>2. store[s].updated \in Times /\ OwnExchanges(s, m)
      BY <3>1 DEF StoreInv
    <3>3. \A i \in 1 .. Len(m) : m[i].turn \in Turns
      <4>1. m \in Seq(Messages)
        BY <3>2 DEF OwnExchanges, Exchanges
      <4>2. \A i \in 1 .. Len(m) : m[i] \in Messages
        BY <4>1
      <4> QED
        BY <4>2 DEF Messages
    <3>4. \A i \in 1 .. Len(m) : stage'[m[i].turn] = "answered" /\ session'[m[i].turn] = s
      BY <3>2, <3>3 DEF OwnExchanges, AnsweredStay
    <3> QED
      BY <3>1, <3>2, <3>4 DEF OwnExchanges
  <2> QED
    BY <2>1, <2>2
<1>9. DOMAIN store' \subseteq Sessions
  BY <1>1, <1>2, <1>3 DEF Smaller, StoreInv
<1> QED
  BY <1>2, <1>8, <1>9 DEF StoreInv

(* What each action does to the store.                                     *)
LEMMA StoreSteps ==
  ASSUME [Next]_vars
  PROVE  \/ UNCHANGED store
         \/ store' = Expire(store, now)
         \/ \E t \in Turns : ClearSession(t) \/ Answered(t)
<1>1. ASSUME NEW t \in Turns, Arrival(t) PROVE UNCHANGED store
  BY <1>1 DEF Arrival, Limited, Admit, Capped, Arrives
<1>2. ASSUME NEW t \in Turns, Step(t)
      PROVE  UNCHANGED store \/ store' = Expire(store, now) \/ ClearSession(t) \/ Answered(t)
  BY <1>2 DEF Step, BlockedFirst, BlockedLater, IndexNotReady, StartAnswer, ReadHistory,
     Unanswered, Dropped
<1>3. CASE Tick \/ UNCHANGED vars
  BY <1>3 DEF Tick, vars
<1> QED
  BY <1>1, <1>2, <1>3 DEF Next

LEMMA NextKeepsStoreInv ==
  ASSUME TurnInv, StoreInv, [Next]_vars
  PROVE  StoreInv'
<1>1. AnsweredStay
  BY NextAnsweredStay
<1>2. CASE Smaller(store', store)
  BY <1>1, <1>2, SmallerKeepsStoreInv
<1>3. CASE UNCHANGED store
  BY <1>2, <1>3 DEF Smaller
<1>4. CASE store' = Expire(store, now)
  BY <1>2, <1>4, ExpireSmaller
<1>5. ASSUME NEW t \in Turns, ClearSession(t) PROVE StoreInv'
  BY <1>2, <1>5, KeepSmaller DEF ClearSession, Clear
<1>6. ASSUME NEW t \in Turns, Answered(t) PROVE StoreInv'
  BY <1>1, <1>6, AnsweredKeepsStoreInv
<1> QED
  BY <1>3, <1>4, <1>5, <1>6, StoreSteps

LEMMA InitTurnsAndStore == Init => TurnInv /\ StoreInv
<1> SUFFICES ASSUME Init PROVE TurnInv /\ StoreInv
  OBVIOUS
<1>1. TurnTypes
  <2>1. 0 \in Times /\ \A S : <<>> \in Seq(S)
    BY ChatAssumption DEF Times
  <2> QED
    BY <2>1 DEF Init, TurnTypes, Stages
<1>2. {t \in Turns : stage[t] # "new"} = {} /\ IsFiniteSet({})
  BY FS_EmptySet DEF Init
<1>3. DOMAIN store = {}
  BY DEF Init, NoSessions
<1> QED
  BY <1>1, <1>2, <1>3 DEF Init, TurnInv, StoreInv

LEMMA AlwaysTurnsAndStore == Spec => [](TurnInv /\ StoreInv)
<1>1. TurnInv /\ StoreInv /\ [Next]_vars => (TurnInv /\ StoreInv)'
  BY NextKeepsTurnInv, NextKeepsStoreInv
<1> QED
  BY <1>1, InitTurnsAndStore, PTL DEF Spec

(* Whatever turns overlap and whatever expires or is evicted between them, *)
(* a session remembers whole exchanges of its own, each answered.          *)
THEOREM ExchangesStayWhole == Spec => []WholeExchanges
<1>1. ASSUME StoreInv PROVE WholeExchanges
  <2> SUFFICES ASSUME NEW s \in DOMAIN store
               PROVE  LET m == store[s].messages
                          turnsOf(role) == {m[i].turn : i \in {j \in DOMAIN m : m[j].role = role}}
                      IN  /\ \A i \in DOMAIN m : stage[m[i].turn] = "answered" /\ session[m[i].turn] = s
                          /\ \A i \in DOMAIN m : i % 2 = 1 =>
                               /\ i < Len(m)
                               /\ m[i].role = "user" /\ m[i + 1].role = "assistant"
                               /\ m[i].turn = m[i + 1].turn
                          /\ 2 * Cardinality(turnsOf("user")) = Len(m)
    BY DEF WholeExchanges
  <2> DEFINE m == store[s].messages
  <2>1. OwnExchanges(s, m)
    BY <1>1 DEF StoreInv
  <2> HIDE DEF m
  <2>2. Exchanges(m) /\ DOMAIN m = 1 .. Len(m) /\ Len(m) \in Nat /\ Len(m) % 2 = 0
    BY <2>1 DEF OwnExchanges, Exchanges
  <2>3. \A i \in 1 .. Len(m) : i % 2 = 1 => i < Len(m)
    BY <2>2
  <2>4. 2 * Cardinality({m[i].turn : i \in {j \in DOMAIN m : m[j].role = "user"}}) = Len(m)
    BY <2>2, QuestionsCounted
  <2> QED
    BY <2>1, <2>2, <2>3, <2>4 DEF OwnExchanges, Exchanges, m
<1> QED
  BY <1>1, AlwaysTurnsAndStore, PTL

(* None loses its conversation for another one's sake while an older one   *)
(* is kept.                                                                *)
THEOREM EvictionsOldestFirst == Spec => OnlyOldestEvicted
<1>1. ASSUME TurnInv, StoreInv, [Next]_vars, NEW s \in DOMAIN store \ DOMAIN store'
      PROVE  \/ \E t \in Turns : stage'[t] = "cleared" /\ stage[t] # "cleared" /\ session[t] = s
             \/ now - store[s].updated >= Ttl
             \/ /\ Cardinality(DOMAIN store' \cup {s}) >= Cap
                /\ \A x \in DOMAIN store \cap DOMAIN store' :
                     now - store[x].updated < Ttl => store[s].updated <= store[x].updated
  <2> DEFINE live == Expire(store, now)
  <2>1. /\ Smaller(live, store)
        /\ \A x \in DOMAIN store : x \in DOMAIN live <=> now - store[x].updated < Ttl
    BY ExpireSmaller
  <2>2. now \in Nat /\ store[s].updated \in Nat /\ Ttl \in Nat
    BY <1>1, StoreAssumption DEF TurnInv, TurnTypes, StoreInv, Times
  <2>3. CASE store' = live
    BY <2>1, <2>2, <2>3
  <2>4. ASSUME NEW t \in Turns, ClearSession(t)
        PROVE  stage'[t] = "cleared" /\ stage[t] # "cleared" /\ session[t] = s
    <3>1. store' = Keep(store, DOMAIN store \ {session[t]})
      BY <2>4 DEF ClearSession, Clear
    <3>2. session[t] = s
      BY <3>1, KeepSmaller
    <3> QED
      BY <1>1, <2>4, <3>2 DEF ClearSession, Goto, TurnInv, TurnTypes
  <2>5. ASSUME NEW t \in Turns, Answered(t), s \in DOMAIN live
        PROVE  /\ Cardinality(DOMAIN store' \cup {s}) >= Cap
               /\ \A x \in DOMAIN store \cap DOMAIN store' :
                    now - store[x].updated < Ttl => store[s].updated <= store[x].updated
    <3>1. session[t] \notin DOMAIN live /\ MadeRoom(s, store', session[t], live)
      BY <1>1, <2>2, <2>5, RememberStore DEF Answered, StoreInv
    <3> HIDE DEF live
    <3> QED
      BY <2>1, <2>5, <3>1 DEF MadeRoom, Smaller
  <2>6. s \in DOMAIN live \/ now - store[s].updated >= Ttl
    BY <2>1, <2>2
  <2> HIDE DEF live
  <2>7. CASE \E t \in Turns : ClearSession(t)
    BY <2>4, <2>7
  <2>8. CASE \E t \in Turns : Answered(t)
    BY <2>5, <2>6, <2>8
  <2>9. store' # store
    OBVIOUS
  <2> QED
    BY <1>1, <2>3, <2>7, <2>8, <2>9, StoreSteps DEF live
<1>2. TurnInv /\ StoreInv /\ [Next]_vars =>
        [\A s \in DOMAIN store \ DOMAIN store' :
           \/ \E t \in Turns : stage'[t] = "cleared" /\ stage[t] # "cleared" /\ session[t] = s
           \/ now - store[s].updated >= Ttl
           \/ /\ Cardinality(DOMAIN store' \cup {s}) >= Cap
              /\ \A x \in DOMAIN store \cap DOMAIN store' :
                   now - store[x].updated < Ttl => store[s].updated <= store[x].updated]_vars
  BY <1>1
<1> QED
  BY <1>2, AlwaysTurnsAndStore, PTL DEF Spec, OnlyOldestEvicted

-----------------------------------------------------------------------------
(* The caps.                                                               *)

CounterTypes ==
  /\ emailDay \in [Users \X Days -> 0 .. MaxEmail]
  /\ processDay \in [Days -> 0 .. MaxProcess]

CountedOf(u, d) == {t \in Counted(d) : User(t) = u}

(* Every refund taken from d was of a turn of d.                           *)
OwnRefunds(d) == \A t \in Turns : refundedOn[t] = d => UtcDay(at[t]) = d

(* A day that has not come was not charged.  The counters of today are no  *)
(* higher than the turns that count, and those of any day whose refunds    *)
(* are its own are no lower.  Neither half holds of the other days: a turn *)
(* refunded after midnight lowers the counters of a day it was not charged *)
(* to, and leaves those of its own day too high.                           *)
CapInv ==
  /\ CounterTypes
  /\ \A d \in Days : d > Today =>
       processDay[d] = 0 /\ \A u \in Users : emailDay[<<u, d>>] = 0
  /\ /\ processDay[Today] <= Cardinality(Counted(Today))
     /\ \A u \in Users : emailDay[<<u, Today>>] <= Cardinality(CountedOf(u, Today))
  /\ \A d \in Days : OwnRefunds(d) =>
       /\ Cardinality(Counted(d)) <= processDay[d]
       /\ \A u \in Users : Cardinality(CountedOf(u, d)) <= emailDay[<<u, d>>]

(* The turns a day counts can be counted.                                  *)
LEMMA CountedFinite ==
  ASSUME TurnInv, NEW d
  PROVE  /\ IsFiniteSet(Counted(d)) /\ Cardinality(Counted(d)) \in Nat
         /\ \A u : IsFiniteSet(CountedOf(u, d)) /\ Cardinality(CountedOf(u, d)) \in Nat
<1>1. IsFiniteSet(Counted(d))
  <2>1. Counted(d) \subseteq {t \in Turns : stage[t] # "new"}
    BY DEF Counted
  <2> QED
    BY <2>1, FS_Subset DEF TurnInv
<1>2. \A u : CountedOf(u, d) \subseteq Counted(d)
  BY DEF CountedOf
<1> QED
  BY <1>1, <1>2, FS_Subset, FS_CardinalityType

One(b) == IF b THEN 1 ELSE 0

(* How many of two sets that differ in t at most.                          *)
LEMMA DifferInOne ==
  ASSUME NEW C, NEW D, NEW t, IsFiniteSet(C), IsFiniteSet(D), C \ {t} = D \ {t}
  PROVE  \E b \in Nat : /\ Cardinality(C) = b + One(t \in C)
                        /\ Cardinality(D) = b + One(t \in D)
<1> DEFINE E == C \ {t}
<1>1. IsFiniteSet(E) /\ Cardinality(E) \in Nat
  BY FS_Subset, FS_CardinalityType
<1>2. ASSUME NEW X, X \ {t} = E
      PROVE  Cardinality(X) = Cardinality(E) + One(t \in X)
  <2>1. CASE t \in X
    <3>1. X = E \cup {t} /\ t \notin E
      BY <1>2, <2>1
    <3>2. Cardinality(E \cup {t}) = Cardinality(E) + 1
      BY <1>1, <3>1, FS_AddElement
    <3> HIDE DEF E
    <3> QED
      BY <2>1, <3>1, <3>2 DEF One
  <2>2. CASE t \notin X
    <3>1. X = E
      BY <1>2, <2>2
    <3> HIDE DEF E
    <3> QED
      BY <1>1, <2>2, <3>1 DEF One
  <2> QED
    BY <2>1, <2>2
<1> QED
  BY <1>1, <1>2

(* A step of t counts it, or no longer, and no other turn.                 *)
LEMMA Recount ==
  ASSUME TurnInv, TurnInv', NEW t \in Turns, Moves(t), NEW d
  PROVE  /\ \E b \in Nat : /\ Cardinality(Counted(d)) = b + One(t \in Counted(d))
                           /\ Cardinality(Counted(d)') = b + One(t \in Counted(d)')
         /\ \A u : \E b \in Nat :
              /\ Cardinality(CountedOf(u, d)) = b + One(t \in CountedOf(u, d))
              /\ Cardinality(CountedOf(u, d)') = b + One(t \in CountedOf(u, d)')
<1>1. Counted(d) \ {t} = Counted(d)' \ {t}
  BY DEF Counted, Moves, Stays
<1>2. \A u : CountedOf(u, d) \ {t} = CountedOf(u, d)' \ {t}
  BY <1>1 DEF CountedOf, User, Moves, Stays, Counted
<1>3. /\ IsFiniteSet(Counted(d)) /\ IsFiniteSet(Counted(d)')
      /\ \A u : IsFiniteSet(CountedOf(u, d)) /\ IsFiniteSet(CountedOf(u, d)')
  <2>1. TurnInv => IsFiniteSet(Counted(d)) /\ \A u : IsFiniteSet(CountedOf(u, d))
    BY CountedFinite
  <2>2. TurnInv' => IsFiniteSet(Counted(d)') /\ \A u : IsFiniteSet(CountedOf(u, d)')
    <3>1. Counted(d)' \subseteq {x \in Turns : stage'[x] # "new"}
      BY DEF Counted
    <3>2. \A u : CountedOf(u, d)' \subseteq Counted(d)'
      BY DEF CountedOf
    <3> QED
      BY <3>1, <3>2, FS_Subset DEF TurnInv
  <2> QED
    BY <2>1, <2>2
<1> QED
  BY <1>1, <1>2, <1>3, DifferInOne

Counts(t) == stage[t] \notin Refusals \cup {"new", "blocked"} /\ ~clear[t]

(* When a turn is counted, before and after a step.                        *)
LEMMA CountedWhen ==
  ASSUME NEW t \in Turns, NEW d
  PROVE  /\ t \in Counted(d) <=> Counts(t) /\ UtcDay(at[t]) = d
         /\ \A u : t \in CountedOf(u, d) <=> t \in Counted(d) /\ User(t) = u
         /\ t \in Counted(d)' <=> Counts(t)' /\ UtcDay(at'[t]) = d
         /\ \A u : t \in CountedOf(u, d)' <=> t \in Counted(d)' /\ User(t)' = u
BY DEF Counted, CountedOf, Counts, User

(* If the refunds are of their own day after a step, they were before it.  *)
LEMMA RefundsSoFar ==
  ASSUME TurnInv, NEW t \in Turns, Moves(t), NEW d \in Days, OwnRefunds(d)'
  PROVE  OwnRefunds(d)
<1>1. refundedOn[t] = None
  BY DEF Moves, TurnInv, InFlight
<1>2. d # None
  BY DaysOrdered
<1> QED
  BY <1>1, <1>2 DEF OwnRefunds, Moves, Stays

(* A turn that counts no more and no less than before.                     *)
LEMMA NeutralKeepsCapInv ==
  ASSUME TurnInv, TurnInv', CapInv, NEW t \in Turns, Moves(t),
         UNCHANGED <<emailDay, processDay, now>>, Counts(t)' <=> Counts(t)
  PROVE  CapInv'
<1>1. Today' = Today
  BY DEF Today
<1>2. \A d : /\ t \in Counted(d)' <=> t \in Counted(d)
             /\ \A u : t \in CountedOf(u, d)' <=> t \in CountedOf(u, d)
  <2>1. Counts(t) => stage[t] # "new"
    BY DEF Counts
  <2> QED
    BY <2>1, CountedWhen DEF Moves, User
<1>3. \A d : /\ Cardinality(Counted(d)') = Cardinality(Counted(d))
             /\ \A u : Cardinality(CountedOf(u, d)') = Cardinality(CountedOf(u, d))
  BY <1>2, Recount
<1>4. CounterTypes'
  BY DEF CapInv, CounterTypes
<1>5. \A d \in Days : OwnRefunds(d)' => OwnRefunds(d)
  BY RefundsSoFar
<1> QED
  BY <1>1, <1>3, <1>4, <1>5 DEF CapInv

(* A turn that is charged counts from then on, on the day it is charged    *)
(* to.                                                                     *)
LEMMA ChargeKeepsCapInv ==
  ASSUME TurnInv, TurnInv', CapInv, NEW t \in Turns, Moves(t), now' = now,
         NEW w \in Users, Charge(w),
         stage[t] = "new", Counts(t)', User(t)' = w, at'[t] = now
  PROVE  CapInv'
<1>1. Today' = Today /\ Today \in Days
  BY DaysOrdered DEF Today, TurnInv, TurnTypes
<1>2. /\ emailDay[<<w, Today>>] < MaxEmail /\ processDay[Today] < MaxProcess
      /\ emailDay' = [emailDay EXCEPT ![<<w, Today>>] = @ + 1]
      /\ processDay' = [processDay EXCEPT ![Today] = @ + 1]
  <2>1. emailDay[<<w, Today>>] \in Nat /\ processDay[Today] \in Nat /\ MaxEmail \in Nat /\ MaxProcess \in Nat
    BY <1>1, CapsAssumption DEF CapInv, CounterTypes
  <2> QED
    BY <2>1 DEF Charge, CapReached, AtCap
<1>3. /\ processDay'[Today] = processDay[Today] + 1
      /\ \A d \in Days \ {Today} : processDay'[d] = processDay[d]
      /\ emailDay'[<<w, Today>>] = emailDay[<<w, Today>>] + 1
      /\ \A u \in Users, d \in Days : ~(u = w /\ d = Today) =>
           emailDay'[<<u, d>>] = emailDay[<<u, d>>]
  BY <1>1, <1>2 DEF CapInv, CounterTypes
<1>4. CounterTypes'
  BY <1>1, <1>2, CapsAssumption DEF CapInv, CounterTypes
<1>5. ~Counts(t)
  BY DEF Counts
<1>6. /\ \A d : t \notin Counted(d) /\ (t \in Counted(d)' <=> d = Today)
      /\ \A u, d : /\ t \notin CountedOf(u, d)
                   /\ t \in CountedOf(u, d)' => d = Today /\ u = w
                   /\ d = Today /\ u = w => t \in CountedOf(u, d)'
  BY <1>5, CountedWhen DEF Today
<1>7. /\ Cardinality(Counted(Today)') = Cardinality(Counted(Today)) + 1
      /\ Cardinality(CountedOf(w, Today)') = Cardinality(CountedOf(w, Today)) + 1
      /\ \A d : d # Today => Cardinality(Counted(d)') = Cardinality(Counted(d))
      /\ \A u, d : ~(u = w /\ d = Today) =>
           Cardinality(CountedOf(u, d)') = Cardinality(CountedOf(u, d))
  <2>1. ASSUME NEW d
        PROVE  Cardinality(Counted(d)') = Cardinality(Counted(d)) + One(d = Today)
    BY <1>6, Recount DEF One
  <2>2. ASSUME NEW u, NEW d
        PROVE  Cardinality(CountedOf(u, d)') =
                 Cardinality(CountedOf(u, d)) + IF u = w /\ d = Today THEN 1 ELSE 0
    <3>1. PICK b \in Nat : /\ Cardinality(CountedOf(u, d)) = b + One(t \in CountedOf(u, d))
                           /\ Cardinality(CountedOf(u, d)') = b + One(t \in CountedOf(u, d)')
      BY Recount
    <3>2. CASE u = w /\ d = Today
      <4>1. t \in CountedOf(u, d)' /\ t \notin CountedOf(u, d)
        BY <1>6, <3>2
      <4>2. Cardinality(CountedOf(u, d)) = b /\ Cardinality(CountedOf(u, d)') = b + 1
        BY <3>1, <4>1 DEF One
      <4> QED
        BY <3>2, <4>2 DEF One
    <3>3. CASE ~(u = w /\ d = Today)
      <4>1. t \notin CountedOf(u, d)' /\ t \notin CountedOf(u, d)
        BY <1>6, <3>3
      <4>2. Cardinality(CountedOf(u, d)) = b /\ Cardinality(CountedOf(u, d)') = b
        BY <3>1, <4>1 DEF One
      <4> QED
        BY <3>3, <4>2
    <3> QED
      BY <3>2, <3>3
  <2>3. \A d : Cardinality(Counted(d)) \in Nat /\ \A u : Cardinality(CountedOf(u, d)) \in Nat
    BY CountedFinite
  <2>4. Cardinality(Counted(Today)') = Cardinality(Counted(Today)) + 1
    BY <1>1, <2>1 DEF One
  <2>5. Cardinality(CountedOf(w, Today)') = Cardinality(CountedOf(w, Today)) + 1
    BY <1>1, <2>2 DEF One
  <2>6. ASSUME NEW d, d # Today PROVE Cardinality(Counted(d)') = Cardinality(Counted(d))
    BY <2>1, <2>3, <2>6 DEF One
  <2>7. ASSUME NEW u, NEW d, ~(u = w /\ d = Today)
        PROVE  Cardinality(CountedOf(u, d)') = Cardinality(CountedOf(u, d))
    BY SMTT(60), <2>2, <2>3, <2>7 DEF One
  <2> QED
    BY <2>4, <2>5, <2>6, <2>7
<1>8. \A d \in Days : OwnRefunds(d)' => OwnRefunds(d)
  BY RefundsSoFar
<1>9. \A d \in Days : d > Today => d # Today
  BY <1>1, DaysOrdered
<1>10. \A d \in Days : d > Today =>
         processDay'[d] = 0 /\ \A u \in Users : emailDay'[<<u, d>>] = 0
  BY <1>3, <1>9 DEF CapInv
<1>11. /\ processDay'[Today] <= Cardinality(Counted(Today)')
       /\ \A u \in Users : emailDay'[<<u, Today>>] <= Cardinality(CountedOf(u, Today)')
  <2>1. processDay[Today] \in Nat /\ \A u \in Users : emailDay[<<u, Today>>] \in Nat
    BY <1>1, CapsAssumption DEF CapInv, CounterTypes
  <2>2. /\ Cardinality(Counted(Today)) \in Nat
        /\ \A u : Cardinality(CountedOf(u, Today)) \in Nat
    BY CountedFinite
  <2> QED
    BY <1>1, <1>3, <1>7, <2>1, <2>2 DEF CapInv
<1>12. ASSUME NEW d \in Days, OwnRefunds(d)
       PROVE  /\ Cardinality(Counted(d)') <= processDay'[d]
              /\ \A u \in Users : Cardinality(CountedOf(u, d)') <= emailDay'[<<u, d>>]
  <2>1. processDay[d] \in Nat /\ \A u \in Users : emailDay[<<u, d>>] \in Nat
    BY CapsAssumption DEF CapInv, CounterTypes
  <2>2. /\ Cardinality(Counted(d)) \in Nat
        /\ \A u : Cardinality(CountedOf(u, d)) \in Nat
    BY CountedFinite
  <2>3. /\ Cardinality(Counted(d)) <= processDay[d]
        /\ \A u \in Users : Cardinality(CountedOf(u, d)) <= emailDay[<<u, d>>]
    BY <1>12 DEF CapInv
  <2>4. CASE d = Today
    <3>1. Cardinality(Counted(d)') <= processDay'[d]
      BY <1>1, <1>3, <1>7, <2>1, <2>2, <2>3, <2>4
    <3>2. ASSUME NEW u \in Users
          PROVE  Cardinality(CountedOf(u, d)') <= emailDay'[<<u, d>>]
      <4>1. CASE u = w
        BY <1>1, <1>3, <1>7, <2>1, <2>2, <2>3, <2>4, <4>1
      <4>2. CASE u # w
        BY <1>3, <1>7, <2>3, <4>2
      <4> QED
        BY <4>1, <4>2
    <3> QED
      BY <3>1, <3>2
  <2>5. CASE d # Today
    BY <1>3, <1>7, <2>3, <2>5
  <2> QED
    BY <2>4, <2>5
<1> QED
  BY <1>1, <1>4, <1>8, <1>10, <1>11, <1>12 DEF CapInv

(* A refund comes off today, whatever day the turn was charged to.         *)
LEMMA RefundKeepsCapInv ==
  ASSUME TurnInv, TurnInv', CapInv, NEW t \in Turns, Moves(t), now' = now,
         Refund(t), Counts(t), ~Counts(t)'
  PROVE  CapInv'
<1> PICK w, own : w = User(t) /\ own = UtcDay(at[t])
  OBVIOUS
<1>1. Today' = Today /\ Today \in Days
  BY DaysOrdered DEF Today, TurnInv, TurnTypes
<1>2. w \in Users
  BY DEF Counts, TurnInv, User, Owner, Sessions
<1>3. /\ emailDay' = [emailDay EXCEPT ![<<w, Today>>] = Less(@)]
      /\ processDay' = [processDay EXCEPT ![Today] = Less(@)]
      /\ refundedOn'[t] = Today
  BY DEF Refund, TurnInv, TurnTypes
<1>4. at'[t] = at[t]
  BY DEF Moves, Counts
<1>5. \A d : /\ t \notin Counted(d)' /\ (t \in Counted(d) <=> d = own)
             /\ \A u : t \notin CountedOf(u, d)' /\ (t \in CountedOf(u, d) <=> d = own /\ u = w)
  BY CountedWhen
<1>6. /\ processDay'[Today] = Less(processDay[Today])
      /\ \A d \in Days \ {Today} : processDay'[d] = processDay[d]
      /\ emailDay'[<<w, Today>>] = Less(emailDay[<<w, Today>>])
      /\ \A u \in Users, d \in Days : ~(u = w /\ d = Today) =>
           emailDay'[<<u, d>>] = emailDay[<<u, d>>]
  BY <1>1, <1>2, <1>3 DEF CapInv, CounterTypes
<1>7. /\ \A n \in 0 .. MaxEmail : Less(n) \in 0 .. MaxEmail
      /\ \A n \in 0 .. MaxProcess : Less(n) \in 0 .. MaxProcess
  BY CapsAssumption DEF Less
<1>8. CounterTypes'
  BY <1>1, <1>2, <1>3, <1>7 DEF CapInv, CounterTypes
<1>9. /\ Cardinality(Counted(own)) = Cardinality(Counted(own)') + 1
      /\ Cardinality(CountedOf(w, own)) = Cardinality(CountedOf(w, own)') + 1
      /\ \A d : /\ Cardinality(Counted(d)') \in Nat
                /\ d # own => Cardinality(Counted(d)') = Cardinality(Counted(d))
      /\ \A u, d : /\ Cardinality(CountedOf(u, d)') \in Nat
                   /\ ~(u = w /\ d = own) =>
                        Cardinality(CountedOf(u, d)') = Cardinality(CountedOf(u, d))
  <2>1. ASSUME NEW d
        PROVE  /\ Cardinality(Counted(d)') \in Nat
               /\ Cardinality(Counted(d)) = Cardinality(Counted(d)') + One(d = own)
    BY <1>5, Recount DEF One
  <2>2. ASSUME NEW u, NEW d
        PROVE  /\ Cardinality(CountedOf(u, d)') \in Nat
               /\ Cardinality(CountedOf(u, d)) = Cardinality(CountedOf(u, d)') + One(u = w /\ d = own)
    <3>1. PICK b \in Nat : /\ Cardinality(CountedOf(u, d)) = b + One(t \in CountedOf(u, d))
                           /\ Cardinality(CountedOf(u, d)') = b + One(t \in CountedOf(u, d)')
      BY Recount
    <3>2. CASE u = w /\ d = own
      BY <1>5, <3>1, <3>2 DEF One
    <3>3. CASE ~(u = w /\ d = own)
      BY <1>5, <3>1, <3>3 DEF One
    <3> QED
      BY <3>2, <3>3
  <2> QED
    BY <2>1, <2>2 DEF One
<1>10. \A n, c, b \in Nat :
         /\ n <= c /\ (c = b + 1 \/ c = b) => Less(n) <= b
         /\ b + 1 <= n => b <= Less(n)
  BY DEF Less
<1>11. /\ \A d \in Days : processDay[d] \in Nat /\ \A u \in Users : emailDay[<<u, d>>] \in Nat
       /\ \A d : Cardinality(Counted(d)) \in Nat
       /\ \A d, u : Cardinality(CountedOf(u, d)) \in Nat
  <2>1. \A d \in Days : processDay[d] \in Nat /\ \A u \in Users : emailDay[<<u, d>>] \in Nat
    BY CapsAssumption DEF CapInv, CounterTypes
  <2>2. /\ \A d : Cardinality(Counted(d)) \in Nat
        /\ \A d, u : Cardinality(CountedOf(u, d)) \in Nat
    BY CountedFinite
  <2> QED
    BY <2>1, <2>2
<1>12. \A d \in Days : d > Today =>
         processDay'[d] = 0 /\ \A u \in Users : emailDay'[<<u, d>>] = 0
  <2>1. \A d \in Days : d > Today => d # Today
    BY <1>1, DaysOrdered
  <2> QED
    BY <1>6, <2>1 DEF CapInv
<1>13. /\ processDay'[Today] <= Cardinality(Counted(Today)')
       /\ \A u \in Users : emailDay'[<<u, Today>>] <= Cardinality(CountedOf(u, Today)')
  <2>1. processDay[Today] <= Cardinality(Counted(Today))
    BY DEF CapInv
  <2>2. processDay'[Today] <= Cardinality(Counted(Today)')
    BY <1>1, <1>6, <1>9, <1>10, <1>11, <2>1
  <2>3. ASSUME NEW u \in Users
        PROVE  emailDay'[<<u, Today>>] <= Cardinality(CountedOf(u, Today)')
    <3>1. emailDay[<<u, Today>>] <= Cardinality(CountedOf(u, Today))
      BY DEF CapInv
    <3>2. CASE u = w
      BY <1>1, <1>6, <1>9, <1>10, <1>11, <3>1, <3>2
    <3>3. CASE u # w
      BY <1>1, <1>6, <1>9, <3>1, <3>3
    <3> QED
      BY <3>2, <3>3
  <2> QED
    BY <2>2, <2>3
<1>14. ASSUME NEW d \in Days, OwnRefunds(d)'
       PROVE  /\ Cardinality(Counted(d)') <= processDay'[d]
              /\ \A u \in Users : Cardinality(CountedOf(u, d)') <= emailDay'[<<u, d>>]
  <2>1. OwnRefunds(d)
    BY <1>14, RefundsSoFar
  <2>2. /\ Cardinality(Counted(d)) <= processDay[d]
        /\ \A u \in Users : Cardinality(CountedOf(u, d)) <= emailDay[<<u, d>>]
    BY <2>1 DEF CapInv
  <2>3. CASE d = Today
    <3>1. own = Today
      BY <1>3, <1>4, <1>14, <2>3 DEF OwnRefunds
    <3>2. Cardinality(Counted(d)') <= processDay'[d]
      BY <1>6, <1>9, <1>10, <1>11, <2>2, <2>3, <3>1
    <3>3. ASSUME NEW u \in Users
          PROVE  Cardinality(CountedOf(u, d)') <= emailDay'[<<u, d>>]
      <4>1. CASE u = w
        BY <1>6, <1>9, <1>10, <1>11, <2>2, <2>3, <3>1, <4>1
      <4>2. CASE u # w
        BY <1>6, <1>9, <2>2, <4>2
      <4> QED
        BY <4>1, <4>2
    <3> QED
      BY <3>2, <3>3
  <2>4. CASE d # Today
    <3>1. Cardinality(Counted(d)') <= Cardinality(Counted(d))
      BY <1>9, <1>11
    <3>2. \A u \in Users : Cardinality(CountedOf(u, d)') <= Cardinality(CountedOf(u, d))
      BY <1>9, <1>11
    <3>3. Cardinality(Counted(d)') \in Nat /\ \A u \in Users : Cardinality(CountedOf(u, d)') \in Nat
      BY <1>9, <1>11
    <3> QED
      BY <1>6, <1>11, <2>2, <2>4, <3>1, <3>2, <3>3
  <2> QED
    BY <2>3, <2>4
<1> QED
  BY <1>1, <1>8, <1>12, <1>13, <1>14 DEF CapInv

(* A new day begins with counters nobody has touched.                      *)
LEMMA TickKeepsCapInv ==
  ASSUME TurnInv, TurnInv', CapInv, Tick
  PROVE  CapInv'
<1>1. /\ now \in Nat /\ now' = now + 1 /\ Today \in Days /\ Today' \in Days
      /\ Today <= Today' /\ Today \in Nat /\ Today' \in Nat
  <2>1. now \in Times /\ now' \in Times /\ now' = now + 1 /\ Times \subseteq Nat
    BY DEF Tick, TurnInv, TurnTypes, Times
  <2>2. now \in Nat /\ now' \in Nat /\ now <= now'
    BY <2>1
  <2>3. UtcDay(now) <= UtcDay(now') /\ UtcDay(now) \in Days /\ UtcDay(now') \in Days
    BY <2>1, <2>2, DaysOrdered
  <2> QED
    BY <2>1, <2>2, <2>3, DaysOrdered DEF Today
<1>2. UNCHANGED <<emailDay, processDay, stage, clear, at, session, refundedOn>>
  BY DEF Tick, gate, request
<1>3. \A d : /\ Cardinality(Counted(d)') = Cardinality(Counted(d))
             /\ \A u : Cardinality(CountedOf(u, d)') = Cardinality(CountedOf(u, d))
             /\ OwnRefunds(d)' = OwnRefunds(d)
  BY <1>2 DEF Counted, CountedOf, User, OwnRefunds
<1>4. CounterTypes'
  BY <1>2 DEF CapInv, CounterTypes
<1>5. \A d \in Days : d > Today' => d > Today
  BY <1>1, DaysOrdered
<1>6. CASE Today' = Today
  BY <1>2, <1>3, <1>4, <1>6 DEF CapInv
<1>7. CASE Today' # Today
  <2>1. processDay[Today'] = 0 /\ \A u \in Users : emailDay[<<u, Today'>>] = 0
    BY <1>1, <1>7 DEF CapInv
  <2>2. /\ Cardinality(Counted(Today)') \in Nat
        /\ \A u : Cardinality(CountedOf(u, Today)') \in Nat
    <3>1. /\ IsFiniteSet(Counted(Today)')
          /\ \A u : IsFiniteSet(CountedOf(u, Today)')
      <4>1. Counted(Today)' \subseteq {x \in Turns : stage'[x] # "new"}
        BY DEF Counted
      <4>2. \A u : CountedOf(u, Today)' \subseteq Counted(Today)'
        BY DEF CountedOf
      <4> QED
        BY <4>1, <4>2, FS_Subset DEF TurnInv
    <3> QED
      BY <3>1, FS_CardinalityType
  <2>3. /\ processDay'[Today'] <= Cardinality(Counted(Today)')
        /\ \A u \in Users : emailDay'[<<u, Today'>>] <= Cardinality(CountedOf(u, Today)')
    BY <1>2, <2>1, <2>2
  <2> QED
    BY <1>2, <1>3, <1>4, <1>5, <2>3 DEF CapInv
<1> QED
  BY <1>6, <1>7

(* An arrival, charged or refused.                                         *)
LEMMA ArrivalKeepsCapInv ==
  ASSUME TurnInv, TurnInv', CapInv, NEW t \in Turns, Arrival(t)
  PROVE  CapInv'
<1> PICK s \in Sessions, c \in Clients, clears \in BOOLEAN :
      \/ Limited(t, s, c, clears) \/ Admit(t, s, c, clears)
      \/ (Capped(t, s, c) /\ ~clears)
  BY DEF Arrival
<1>1. Moves(t)
  BY ArrivalMoves
<1>2. /\ stage[t] = "new" /\ now' = now /\ clear'[t] = clears /\ session'[t] = s
      /\ at'[t] = now
  BY DEF Limited, Admit, Capped, Arrives, TurnInv, TurnTypes
<1>3. ~Counts(t)
  BY <1>2 DEF Counts
<1>4. CASE Limited(t, s, c, clears) \/ Capped(t, s, c)
  <2>1. stage'[t] \in Refusals /\ UNCHANGED <<emailDay, processDay>>
    BY <1>4 DEF Limited, Capped, Goto, Refusals, gate, TurnInv, TurnTypes
  <2>2. ~Counts(t)'
    BY <2>1 DEF Counts
  <2> QED
    BY <1>1, <1>2, <1>3, <2>1, <2>2, NeutralKeepsCapInv
<1>5. CASE Admit(t, s, c, clears) /\ clears
  <2>1. UNCHANGED <<emailDay, processDay>> /\ ~Counts(t)'
    BY <1>2, <1>5 DEF Admit, Counts
  <2> QED
    BY <1>1, <1>2, <1>3, <2>1, NeutralKeepsCapInv
<1>6. CASE Admit(t, s, c, clears) /\ ~clears
  <2>1. stage'[t] \in {"admitted", "overk"} /\ Charge(Owner(s))
    BY <1>6 DEF Admit, Goto, TurnInv, TurnTypes
  <2>2. Counts(t)' /\ User(t)' = Owner(s) /\ Owner(s) \in Users
    BY <1>2, <1>6, <2>1 DEF Counts, Refusals, User, Owner, Sessions
  <2> QED
    BY <1>1, <1>2, <2>1, <2>2, ChargeKeepsCapInv
<1> QED
  BY <1>4, <1>5, <1>6

(* A step, with its refund or without.                                     *)
LEMMA StepKeepsCapInv ==
  ASSUME TurnInv, TurnInv', CapInv, NEW t \in Turns, Step(t)
  PROVE  CapInv'
<1>1. Moves(t) /\ now' = now /\ clear' = clear
  BY StepMoves DEF Step, ClearSession, BlockedFirst, BlockedLater, IndexNotReady,
     StartAnswer, ReadHistory, Answered, Unanswered, Dropped, request
<1>2. CASE BlockedFirst(t) \/ BlockedLater(t)
  <2>1. /\ Refund(t) /\ stage[t] = "admitted" /\ ~clear[t] /\ stage'[t] = "blocked"
    BY <1>2 DEF BlockedFirst, BlockedLater, ReadHistory, Asked, Goto, TurnInv, TurnTypes
  <2>2. Counts(t) /\ ~Counts(t)'
    BY <2>1 DEF Counts, Refusals
  <2> QED
    BY <1>1, <2>1, <2>2, RefundKeepsCapInv
<1>3. CASE ~(BlockedFirst(t) \/ BlockedLater(t))
  <2>1. /\ UNCHANGED <<emailDay, processDay>>
        /\ stage[t] \in InFlight
        /\ stage'[t] \in {"cleared", "unanswered", "answering", "answered", "dropped"}
    BY <1>3 DEF Step, ClearSession, IndexNotReady, StartAnswer, ReadHistory, Answered,
       Unanswered, Dropped, Asked, Goto, gate, InFlight, TurnInv, TurnTypes
  <2>2. Counts(t)' <=> Counts(t)
    BY <1>1, <2>1 DEF Counts, Refusals, InFlight
  <2> QED
    BY <1>1, <2>1, <2>2, NeutralKeepsCapInv
<1> QED
  BY <1>2, <1>3

LEMMA NextKeepsCapInv ==
  ASSUME TurnInv, StoreInv, CapInv, [Next]_vars
  PROVE  CapInv'
<1>1. TurnInv'
  BY NextKeepsTurnInv
<1>2. CASE UNCHANGED vars
  <2>1. UNCHANGED <<now, emailDay, processDay, stage, clear, at, session, refundedOn>>
    BY <1>2 DEF vars, gate, request
  <2>2. Today' = Today
    BY <2>1 DEF Today
  <2>3. \A d : /\ Cardinality(Counted(d)') = Cardinality(Counted(d))
               /\ \A u : Cardinality(CountedOf(u, d)') = Cardinality(CountedOf(u, d))
               /\ OwnRefunds(d)' = OwnRefunds(d)
    BY <2>1 DEF Counted, CountedOf, User, OwnRefunds
  <2> QED
    BY <2>1, <2>2, <2>3 DEF CapInv, CounterTypes
<1> QED
  BY <1>1, <1>2, TickKeepsCapInv, ArrivalKeepsCapInv, StepKeepsCapInv DEF Next

LEMMA InitCapInv == Init => CapInv
<1> SUFFICES ASSUME Init PROVE CapInv
  OBVIOUS
<1>1. CounterTypes
  BY CapsAssumption DEF Init, CounterTypes
<1>2. \A d : Counted(d) = {} /\ \A u : CountedOf(u, d) = {}
  BY DEF Init, Counted, CountedOf
<1>3. Cardinality({}) = 0
  BY FS_EmptySet
<1>4. Today \in Days
  BY DaysOrdered, ChatAssumption DEF Init, Today, Times
<1>5. \A d \in Days : processDay[d] = 0 /\ \A u \in Users : emailDay[<<u, d>>] = 0
  BY DEF Init
<1> QED
  BY <1>1, <1>2, <1>3, <1>4, <1>5 DEF CapInv

LEMMA AlwaysCapInv == Spec => [](TurnInv /\ StoreInv /\ CapInv)
<1>1. TurnInv /\ StoreInv /\ CapInv /\ [Next]_vars => (TurnInv /\ StoreInv /\ CapInv)'
  BY NextKeepsTurnInv, NextKeepsStoreInv, NextKeepsCapInv
<1> QED
  BY <1>1, InitTurnsAndStore, InitCapInv, PTL DEF Spec

(* Every variable of the chat gate, the turns and the conversations has    *)
(* its type, the counters between zero and their caps included.            *)
THEOREM ChatTyping == Spec => []TypeOK
<1>1. ASSUME TurnInv, StoreInv, CapInv PROVE TypeOK
  BY <1>1 DEF TypeOK, TurnInv, TurnTypes, StoreInv, OwnExchanges, Exchanges, CapInv,
     CounterTypes
<1> QED
  BY <1>1, AlwaysCapInv, PTL

(* A day that gave no refund to a turn of another day kept its caps, for   *)
(* every mailbox and for the process, however turns of that day overlap,   *)
(* are blocked, dropped or left unanswered.                                *)
THEOREM CapsOfADay == Spec => []CapsHoldWithinDay
<1>1. ASSUME TurnInv, CapInv PROVE CapsHoldWithinDay
  <2> SUFFICES ASSUME NEW d \in Days, OwnRefunds(d)
               PROVE  Within(d, Counted(d))
    BY DEF CapsHoldWithinDay, OwnRefunds
  <2>1. /\ Cardinality(Counted(d)) <= processDay[d]
        /\ \A u \in Users : Cardinality(CountedOf(u, d)) <= emailDay[<<u, d>>]
    BY <1>1 DEF CapInv
  <2>2. /\ processDay[d] \in 0 .. MaxProcess
        /\ \A u \in Users : emailDay[<<u, d>>] \in 0 .. MaxEmail
    BY <1>1 DEF CapInv, CounterTypes
  <2>3. /\ Cardinality(Counted(d)) \in Nat
        /\ \A u : Cardinality(CountedOf(u, d)) \in Nat
    BY <1>1, CountedFinite
  <2>4. /\ Cardinality(Counted(d)) <= MaxProcess
        /\ \A u \in Users : Cardinality(CountedOf(u, d)) <= MaxEmail
    <3>1. Cardinality(Counted(d)) <= MaxProcess
      BY <2>1, <2>2, <2>3, CapsAssumption
    <3>2. ASSUME NEW u \in Users PROVE Cardinality(CountedOf(u, d)) <= MaxEmail
      <4>1. /\ Cardinality(CountedOf(u, d)) \in Nat /\ MaxEmail \in Nat
            /\ emailDay[<<u, d>>] \in 0 .. MaxEmail
            /\ Cardinality(CountedOf(u, d)) <= emailDay[<<u, d>>]
        BY <2>1, <2>2, <2>3, CapsAssumption
      <4> QED
        BY <4>1
    <3> QED
      BY <3>1, <3>2
  <2> QED
    BY <2>4 DEF Within, CountedOf
<1> QED
  BY <1>1, AlwaysCapInv, PTL

(* Nobody is refused for a cap that the turns of the day have not reached. *)
THEOREM RefusalsAtCap == Spec => RefusedOnlyAtCap
<1>1. ASSUME TurnInv, CapInv, [Next]_vars, NEW t \in Turns,
             stage[t] = "new", stage'[t] = "capped"
      PROVE  AtCap(Cardinality({x \in Counted(Today) : User(x) = Owner(session'[t])}),
                   Cardinality(Counted(Today)))
  <2>1. Arrival(t)
    <3>1. ASSUME NEW x \in Turns, Moves(x) PROVE x = t
      BY <1>1, <3>1 DEF Moves, Stays
    <3>2. ~Tick /\ ~UNCHANGED vars
      BY <1>1 DEF Tick, vars
    <3>3. ASSUME NEW x \in Turns, Step(x) PROVE FALSE
      BY <1>1, <3>1, <3>3, StepMoves DEF Step, ClearSession, BlockedFirst, BlockedLater,
         IndexNotReady, StartAnswer, ReadHistory, Answered, Unanswered, Dropped, Asked, InFlight
    <3>4. ASSUME NEW x \in Turns, Arrival(x) PROVE x = t
      BY <1>1, <3>1, <3>4, ArrivalMoves
    <3> QED
      BY <1>1, <3>2, <3>3, <3>4 DEF Next
  <2>2. PICK s \in Sessions, c \in Clients : Capped(t, s, c)
    BY <1>1, <2>1 DEF Arrival, Limited, Admit, Goto, TurnInv, TurnTypes
  <2>3. session'[t] = s /\ CapReached(Owner(s)) /\ Owner(s) \in Users
    BY <1>1, <2>2 DEF Capped, Arrives, Owner, Sessions, TurnInv, TurnTypes
  <2> DEFINE u == Owner(s)
  <2>4. emailDay[<<u, Today>>] >= MaxEmail \/ processDay[Today] >= MaxProcess
    BY <2>3 DEF CapReached, AtCap
  <2>5. /\ processDay[Today] <= Cardinality(Counted(Today))
        /\ emailDay[<<u, Today>>] <= Cardinality(CountedOf(u, Today))
    BY <1>1, <2>3 DEF CapInv
  <2>6. /\ processDay[Today] \in Nat /\ emailDay[<<u, Today>>] \in Nat
        /\ MaxEmail \in Nat /\ MaxProcess \in Nat
    <3>1. Today \in Days
      BY <1>1, DaysOrdered DEF Today, TurnInv, TurnTypes
    <3> QED
      BY <1>1, <2>3, <3>1, CapsAssumption DEF CapInv, CounterTypes
  <2>7. Cardinality(Counted(Today)) \in Nat /\ Cardinality(CountedOf(u, Today)) \in Nat
    BY <1>1, CountedFinite
  <2>8. AtCap(Cardinality(CountedOf(u, Today)), Cardinality(Counted(Today)))
    BY <2>4, <2>5, <2>6, <2>7 DEF AtCap
  <2> QED
    BY <2>3, <2>8 DEF CountedOf
<1>2. TurnInv /\ CapInv /\ [Next]_vars =>
        [\A t \in Turns : stage[t] = "new" /\ stage'[t] = "capped" =>
           LET today == Counted(Today)
           IN  AtCap(Cardinality({x \in today : User(x) = Owner(session'[t])}),
                     Cardinality(today))]_vars
  BY <1>1
<1> QED
  BY <1>2, AlwaysCapInv, PTL DEF Spec, RefusedOnlyAtCap
=============================================================================
