------------------------------ MODULE AuthProofs ------------------------------
(***************************************************************************)
(* What holds of the mail sign-in for any mailboxes, clients, windows and  *)
(* caps: first the secrets, then what the limits come to, the failures of  *)
(* an hour, the gap between two tries and the mail of a UTC day.  The code *)
(* counts in lists that it prunes as it reads them; those arguments count  *)
(* the same lists, with Count and Kept of ListProofs, over every window    *)
(* that is still to come.                                                  *)
(***************************************************************************)
EXTENDS AuthOtp, ListProofs

secretVars == <<live, expires, fails, linkIndex, issued, mail, grants, guesses>>

Live(s) == live[Mailbox(s)] = s[2]

(* A code not generated yet was neither mailed, tried nor used.            *)
UnissuedInv ==
  \A s \in Secrets : s[2] > issued[Mailbox(s)] =>
    ~Live(s) /\ grants[s] = 0 /\ guesses[s] = 0 /\ mail[s] = None

(* The record of a mailbox is that of a mailed and unused secret, and      *)
(* counts the wrong codes compared with it.                                *)
LiveInv ==
  \A s \in Secrets : Live(s) =>
    /\ grants[s] = 0
    /\ fails[s] = guesses[s]
    /\ guesses[s] < MaxFailsOtp
    /\ mail[s] # None
    /\ expires[s] = mail[s].at + OtpTtl
    /\ PublicOrigin => s \in linkIndex

(* A good secret is still the one its mailbox holds.                       *)
Good(s) ==
  /\ mail[s] # None
  /\ now < mail[s].at + OtpTtl
  /\ grants[s] = 0
  /\ guesses[s] < MaxFailsOtp

GoodInv == \A s \in Secrets : Good(s) => Live(s)

SecretInv ==
  /\ SecretTypes
  /\ UnissuedInv
  /\ LiveInv
  /\ GoodInv
  /\ SingleUse
  /\ TriesBounded

(* A visit is matched only with the intent cookie of the secret it opens.  *)
VisitInv ==
  \A c \in Clients : visit[c] # None /\ visit[c].matched =>
    visit[c].intent = visit[c].token

(* A secret is the pair of its mailbox and the number of its issue.        *)
LEMMA SecretPairs ==
  /\ \A s \in Secrets : /\ Mailbox(s) \in Emails
                        /\ s[2] \in 1 .. MaxIssued
                        /\ s = <<Mailbox(s), s[2]>>
  /\ \A e \in Emails, g \in 1 .. MaxIssued :
       <<e, g>> \in Secrets /\ Mailbox(<<e, g>>) = e /\ <<e, g>>[2] = g
BY DEF Secrets, Mailbox

(* The record a mailbox holds is a secret of that mailbox.                 *)
LEMMA HeldLive ==
  ASSUME SecretTypes, NEW e \in Emails, live[e] # 0
  PROVE  Held(e) \in Secrets /\ Mailbox(Held(e)) = e /\ Live(Held(e))
BY AuthAssumption DEF Secrets, Mailbox, Held, Live, SecretTypes

(* No secret is held, used or mailed before anything happens.              *)
LEMMA InitInv == Init => SecretInv /\ VisitInv
<1> SUFFICES ASSUME Init PROVE SecretInv /\ VisitInv
  OBVIOUS
<1> USE AuthAssumption
<1>1. SecretTypes
  BY DEF Init, SecretTypes, Times, Mails
<1>2. UnissuedInv /\ LiveInv /\ GoodInv
  BY SMTT(60), SecretPairs DEF Init, UnissuedInv, LiveInv, GoodInv, Good, Live
<1>3. SingleUse /\ TriesBounded
  BY DEF Init, SingleUse, TriesBounded
<1>4. VisitInv
  BY DEF Init, VisitInv
<1> QED
  BY <1>1, <1>2, <1>3, <1>4 DEF SecretInv

(* Only time passes for the secrets: a good one stays good or expires.     *)
LEMMA TimeKeepsInv ==
  ASSUME SecretInv, UNCHANGED secretVars, now' \in Times, now <= now'
  PROVE  SecretInv'
<1> USE AuthAssumption DEF SecretInv, secretVars
<1>1. SecretTypes'
  BY DEF SecretTypes
<1>2. UnissuedInv' /\ LiveInv'
  BY DEF UnissuedInv, LiveInv, Live
<1>3. GoodInv'
  <2> SUFFICES ASSUME NEW s \in Secrets, Good(s)' PROVE Live(s)'
    BY DEF GoodInv
  <2>1. mail[s] \in Mails
    BY DEF Good, SecretTypes
  <2>2. now < mail[s].at + OtpTtl
    BY <2>1 DEF Good, Mails, SecretTypes, Times
  <2> QED
    BY <2>2 DEF Good, GoodInv, Live
<1>4. SingleUse' /\ TriesBounded'
  BY DEF SingleUse, TriesBounded
<1> QED
  BY <1>1, <1>2, <1>3, <1>4

(* A send takes a new issue number and happens only when the mailbox holds *)
(* no unexpired secret: its good secrets are none.                         *)
LEMMA SendFindsNoGood ==
  ASSUME SecretInv, NEW e \in Emails, NEW c \in Clients, TrySend(e, c)
  PROVE  /\ \A s \in Secrets : Mailbox(s) = e => ~Good(s)
         /\ now' \in Times /\ now <= now'
         /\ issued' = [issued EXCEPT ![e] = @ + 1]
         /\ issued[e] + 1 \in 1 .. MaxIssued
<1> USE AuthAssumption DEF SecretInv
<1>1. ASSUME NEW s \in Secrets, Mailbox(s) = e, Good(s) PROVE FALSE
  <2>1. Live(s) /\ s = Held(e) /\ live[e] # 0
    BY <1>1, SecretPairs DEF GoodInv, Live, Held
  <2>2. Fresh(Held(e))
    BY <1>1, <2>1 DEF LiveInv, Good, Fresh
  <2> QED
    BY <2>1, <2>2 DEF TrySend, LiveFor
<1>2. now' \in Times /\ now <= now'
  BY DEF TrySend, SecretTypes, Times
<1> QED
  BY <1>1, <1>2 DEF TrySend, SecretTypes

(* A successful send makes its new secret the only live one of e.          *)
LEMMA SentKeepsInv ==
  ASSUME SecretInv, NEW e \in Emails, NEW c \in Clients, RequestSent(e, c)
  PROVE  SecretInv'
<1> USE AuthAssumption
<1>1. TrySend(e, c)
  BY DEF RequestSent
<1>2. /\ \A s \in Secrets : Mailbox(s) = e => ~Good(s)
      /\ now' \in Times /\ now <= now'
      /\ issued' = [issued EXCEPT ![e] = @ + 1]
      /\ issued[e] + 1 \in 1 .. MaxIssued
  BY <1>1, SendFindsNoGood
<1> PICK n \in Secrets : n = <<e, issued[e] + 1>>
  BY <1>2, SecretPairs
<1>3. /\ Mailbox(n) = e /\ n[2] = issued[e] + 1
      /\ grants[n] = 0 /\ guesses[n] = 0
  BY <1>2, SecretPairs DEF SecretInv, SecretTypes, UnissuedInv
<1>4. /\ live' = [live EXCEPT ![e] = issued[e] + 1]
      /\ expires' = [expires EXCEPT ![n] = now + OtpTtl]
      /\ fails' = [fails EXCEPT ![n] = 0]
      /\ linkIndex' = IF PublicOrigin THEN linkIndex \cup {n} ELSE linkIndex
      /\ mail' = [mail EXCEPT ![n] = [at |-> now, by |-> c]]
      /\ UNCHANGED <<grants, guesses>>
  BY DEF RequestSent, outcomes
<1>5. SecretTypes'
  BY SMTT(60), <1>2, <1>3, <1>4 DEF SecretInv, SecretTypes, Mails, Times
<1>6. \A s \in Secrets : s # n =>
        /\ expires'[s] = expires[s] /\ fails'[s] = fails[s] /\ mail'[s] = mail[s]
        /\ Live(s)' => Mailbox(s) # e /\ Live(s)
  <2> SUFFICES ASSUME NEW s \in Secrets, s # n
               PROVE  /\ expires'[s] = expires[s] /\ fails'[s] = fails[s]
                      /\ mail'[s] = mail[s]
                      /\ Live(s)' => Mailbox(s) # e /\ Live(s)
    OBVIOUS
  <2>1. Mailbox(s) = e => s[2] # issued[e] + 1
    BY SecretPairs
  <2> QED
    BY <2>1, <1>3, <1>4, SecretPairs DEF SecretInv, SecretTypes, Live
<1>7. Live(n)' /\ mail'[n] = [at |-> now, by |-> c] /\ expires'[n] = now + OtpTtl
      /\ fails'[n] = 0
  BY <1>3, <1>4 DEF SecretInv, SecretTypes, Live
<1>8. UnissuedInv'
  <2> SUFFICES ASSUME NEW s \in Secrets, s[2] > issued'[Mailbox(s)]
               PROVE  /\ ~Live(s)' /\ grants'[s] = 0 /\ guesses'[s] = 0
                      /\ mail'[s] = None
    BY DEF UnissuedInv
  <2>1. s # n /\ s[2] > issued[Mailbox(s)]
    BY <1>2, <1>3, SecretPairs DEF SecretInv, SecretTypes
  <2> QED
    BY <2>1, <1>4, <1>6 DEF SecretInv, UnissuedInv
<1>9. LiveInv'
  <2> SUFFICES ASSUME NEW s \in Secrets, Live(s)'
               PROVE  /\ grants'[s] = 0 /\ fails'[s] = guesses'[s]
                      /\ guesses'[s] < MaxFailsOtp /\ mail'[s] # None
                      /\ expires'[s] = mail'[s].at + OtpTtl
                      /\ PublicOrigin => s \in linkIndex'
    BY DEF LiveInv
  <2>1. CASE s = n
    <3>1. [at |-> now, by |-> c] # None
      BY DEF SecretInv, SecretTypes, Times
    <3>2. MaxFailsOtp > 0
      OBVIOUS
    <3> QED
      BY <2>1, <3>1, <3>2, <1>3, <1>4, <1>7
  <2>2. CASE s # n
    <3>1. Live(s)
      BY <2>2, <1>6
    <3>2. /\ grants[s] = 0 /\ fails[s] = guesses[s] /\ guesses[s] < MaxFailsOtp
          /\ mail[s] # None /\ expires[s] = mail[s].at + OtpTtl
          /\ PublicOrigin => s \in linkIndex
      BY <3>1 DEF SecretInv, LiveInv
    <3> QED
      BY <3>2, <2>2, <1>4, <1>6
  <2> QED
    BY <2>1, <2>2
<1>10. GoodInv'
  <2> SUFFICES ASSUME NEW s \in Secrets, Good(s)', s # n PROVE Live(s)'
    BY <1>7 DEF GoodInv
  <2>1. mail[s] = mail'[s] /\ mail[s] \in Mails
    BY <1>6 DEF Good, SecretInv, SecretTypes
  <2>2. Good(s)
    BY <2>1, <1>2, <1>4 DEF Good, Mails, SecretInv, SecretTypes, Times
  <2> QED
    BY <2>2, <1>2, <1>4, SecretPairs DEF SecretInv, SecretTypes, GoodInv, Live
<1>11. SingleUse' /\ TriesBounded'
  BY <1>4 DEF SecretInv, SingleUse, TriesBounded
<1> QED
  BY <1>5, <1>8, <1>9, <1>10, <1>11 DEF SecretInv

(* A failed send uses up an issue number and nothing else.                 *)
LEMMA SendFailsKeepsInv ==
  ASSUME SecretInv, NEW e \in Emails, NEW c \in Clients, RequestSendFails(e, c)
  PROVE  SecretInv'
<1> USE AuthAssumption
<1>1. /\ now' \in Times /\ now <= now'
      /\ issued' = [issued EXCEPT ![e] = @ + 1]
      /\ issued[e] + 1 \in 1 .. MaxIssued
  BY SendFindsNoGood DEF RequestSendFails
<1>2. UNCHANGED <<live, expires, fails, linkIndex, mail, grants, guesses>>
  BY DEF RequestSendFails, otpVars, outcomes
<1>3. SecretTypes' /\ LiveInv' /\ SingleUse' /\ TriesBounded'
  BY <1>1, <1>2 DEF SecretInv, SecretTypes, LiveInv, Live, SingleUse, TriesBounded
<1>4. UnissuedInv'
  BY <1>1, <1>2, SecretPairs DEF SecretInv, SecretTypes, UnissuedInv, Live
<1>5. GoodInv'
  <2> SUFFICES ASSUME NEW s \in Secrets, Good(s)' PROVE Live(s)'
    BY DEF GoodInv
  <2>1. mail[s] \in Mails
    BY <1>2 DEF Good, SecretInv, SecretTypes
  <2>2. Good(s)
    BY <2>1, <1>1, <1>2 DEF Good, Mails, SecretInv, SecretTypes, Times
  <2> QED
    BY <2>2, <1>2 DEF SecretInv, GoodInv, Live
<1> QED
  BY <1>3, <1>4, <1>5 DEF SecretInv

(* Dropping the record of s leaves every other record as it was.           *)
LEMMA DropOthers ==
  ASSUME SecretTypes, NEW s \in Secrets, Drop(s)
  PROVE  /\ live' \in [Emails -> 0 .. MaxIssued]
         /\ linkIndex' \subseteq Secrets
         /\ \A r \in Secrets :
              /\ Live(r)' <=> Live(r) /\ Mailbox(r) # Mailbox(s)
              /\ r # s => (r \in linkIndex' <=> r \in linkIndex)
BY AuthAssumption, SecretPairs DEF SecretTypes, Drop, Live

(* Two live secrets of one mailbox are the same.                           *)
LEMMA LiveIsOne ==
  ASSUME NEW r \in Secrets, NEW s \in Secrets, Live(r), Live(s),
         Mailbox(r) = Mailbox(s)
  PROVE  r = s
BY SecretPairs DEF Live

(* Signing in with a live secret uses it up.                               *)
LEMMA SignInKeepsInv ==
  ASSUME SecretInv, NEW s \in Secrets, NEW c \in Clients, Live(s), SignIn(s, c)
  PROVE  SecretInv'
<1> USE AuthAssumption
<1>1. /\ Drop(s)
      /\ grants' = [grants EXCEPT ![s] = @ + 1]
      /\ UNCHANGED <<now, expires, fails, issued, mail, guesses>>
  BY DEF SignIn, mailed
<1>2. /\ live' \in [Emails -> 0 .. MaxIssued]
      /\ linkIndex' \subseteq Secrets
      /\ \A r \in Secrets :
           /\ Live(r)' <=> Live(r) /\ Mailbox(r) # Mailbox(s)
           /\ r # s => (r \in linkIndex' <=> r \in linkIndex)
  BY <1>1, DropOthers DEF SecretInv
<1>3. grants[s] = 0 /\ guesses[s] < MaxFailsOtp /\ s[2] <= issued[Mailbox(s)]
  BY SecretPairs DEF SecretInv, SecretTypes, LiveInv, UnissuedInv
<1>4. \A r \in Secrets : r # s => grants'[r] = grants[r]
  BY <1>1 DEF SecretInv, SecretTypes
<1>5. grants'[s] = 1
  BY <1>1, <1>3 DEF SecretInv, SecretTypes
<1>6. SecretTypes'
  BY <1>1, <1>2 DEF SecretInv, SecretTypes
<1>7. UnissuedInv'
  BY <1>1, <1>2, <1>3, <1>4 DEF SecretInv, UnissuedInv
<1>8. LiveInv'
  BY <1>1, <1>2, <1>4 DEF SecretInv, LiveInv
<1>9. GoodInv'
  <2> SUFFICES ASSUME NEW r \in Secrets, Good(r)' PROVE Live(r)'
    BY DEF GoodInv
  <2>1. r # s /\ Good(r)
    BY <1>1, <1>4, <1>5 DEF Good
  <2>2. Live(r)
    BY <2>1 DEF SecretInv, GoodInv
  <2> QED
    BY <2>1, <2>2, <1>2, LiveIsOne
<1>10. SingleUse' /\ TriesBounded'
  BY <1>1, <1>3, <1>4, <1>5 DEF SecretInv, SecretTypes, SingleUse, TriesBounded
<1> QED
  BY <1>6, <1>7, <1>8, <1>9, <1>10 DEF SecretInv

(* A wrong code counts against the record of its mailbox, and burns it at  *)
(* the last one allowed.                                                   *)
LEMMA GuessKeepsInv ==
  ASSUME SecretInv, NEW s \in Secrets, Live(s), Burn(s),
         fails' = [fails EXCEPT ![s] = @ + 1],
         guesses' = [guesses EXCEPT ![s] = @ + 1],
         UNCHANGED <<now, expires, issued, mail, grants>>
  PROVE  SecretInv'
<1> USE AuthAssumption
<1>1. /\ grants[s] = 0 /\ fails[s] = guesses[s] /\ guesses[s] < MaxFailsOtp
      /\ guesses[s] \in Nat /\ s[2] <= issued[Mailbox(s)]
  BY SecretPairs DEF SecretInv, SecretTypes, LiveInv, UnissuedInv
<1>2. /\ fails'[s] = fails[s] + 1 /\ guesses'[s] = guesses[s] + 1
      /\ \A r \in Secrets : r # s => fails'[r] = fails[r] /\ guesses'[r] = guesses[r]
  BY DEF SecretInv, SecretTypes
<1>3. /\ live' \in [Emails -> 0 .. MaxIssued] /\ linkIndex' \subseteq Secrets
      /\ \A r \in Secrets : r # s /\ Live(r) =>
           Live(r)' /\ (r \in linkIndex' <=> r \in linkIndex)
      /\ \A r \in Secrets : Live(r)' => Live(r)
      /\ guesses[s] + 1 < MaxFailsOtp =>
           Live(s)' /\ (s \in linkIndex' <=> s \in linkIndex)
      /\ Live(s)' => guesses[s] + 1 < MaxFailsOtp
  <2>1. CASE fails[s] + 1 >= MaxFailsOtp
    <3>1. Drop(s)
      BY <2>1 DEF Burn
    <3> QED
      BY <2>1, <3>1, <1>1, DropOthers, LiveIsOne DEF SecretInv
  <2>2. CASE ~(fails[s] + 1 >= MaxFailsOtp)
    <3>1. UNCHANGED <<live, linkIndex>>
      BY <2>2 DEF Burn
    <3> QED
      BY <2>2, <3>1, <1>1 DEF SecretInv, SecretTypes, Live
  <2> QED
    BY <2>1, <2>2
<1>4. SecretTypes'
  BY <1>1, <1>3 DEF SecretInv, SecretTypes
<1>5. UnissuedInv'
  BY <1>1, <1>2, <1>3 DEF SecretInv, UnissuedInv
<1>6. LiveInv'
  <2> SUFFICES ASSUME NEW r \in Secrets, Live(r)'
               PROVE  /\ grants'[r] = 0 /\ fails'[r] = guesses'[r]
                      /\ guesses'[r] < MaxFailsOtp /\ mail'[r] # None
                      /\ expires'[r] = mail'[r].at + OtpTtl
                      /\ PublicOrigin => r \in linkIndex'
    BY DEF LiveInv
  <2>1. Live(r)
    BY <1>3
  <2> QED
    BY <2>1, <1>1, <1>2, <1>3 DEF SecretInv, LiveInv
<1>7. GoodInv'
  <2> SUFFICES ASSUME NEW r \in Secrets, Good(r)' PROVE Live(r)'
    BY DEF GoodInv
  <2>1. CASE r = s
    BY <2>1, <1>2, <1>3 DEF Good
  <2>2. CASE r # s
    BY <2>2, <1>2, <1>3 DEF Good, SecretInv, GoodInv
  <2> QED
    BY <2>1, <2>2
<1>8. SingleUse' /\ TriesBounded'
  BY <1>1, <1>2 DEF SecretInv, SecretTypes, SingleUse, TriesBounded
<1> QED
  BY <1>4, <1>5, <1>6, <1>7, <1>8 DEF SecretInv

(* What VerifyWrong does to the secrets is that guess, or nothing.         *)
LEMMA WrongKeepsInv ==
  ASSUME SecretInv, NEW e \in Emails, NEW g \in 0 .. MaxIssued,
         NEW c \in Clients, VerifyWrong(e, g, c)
  PROVE  SecretInv'
<1>1. UNCHANGED <<now, issued, mail, grants>>
  BY DEF VerifyWrong, mailed
<1>2. CASE live[e] = 0
  <2>1. UNCHANGED secretVars
    BY <1>1, <1>2 DEF VerifyWrong, otpVars, secretVars
  <2> QED
    BY <1>1, <2>1, TimeKeepsInv DEF SecretInv, SecretTypes, Times
<1>3. CASE live[e] # 0
  <2>1. PICK s \in Secrets : s = Held(e) /\ Live(s)
    BY <1>3, HeldLive DEF SecretInv
  <2>2. /\ fails' = [fails EXCEPT ![s] = @ + 1]
        /\ guesses' = [guesses EXCEPT ![s] = @ + 1]
        /\ Burn(s) /\ UNCHANGED expires
    BY <1>3, <2>1 DEF VerifyWrong
  <2> QED
    BY <1>1, <2>1, <2>2, GuessKeepsInv
<1> QED
  BY <1>2, <1>3

(* A secret that a code or a link is right for is live.                    *)
LEMMA UsedIsLive ==
  ASSUME SecretInv
  PROVE  /\ \A e \in Emails, g \in 0 .. MaxIssued : Right(e, g) =>
              <<e, g>> \in Secrets /\ Live(<<e, g>>)
         /\ \A s : Found(s) => s \in Secrets /\ Live(s)
BY AuthAssumption, SecretPairs
   DEF SecretInv, SecretTypes, Right, LiveFor, Found, Live, Secrets, Mailbox

(* One secret step: what each action of Next does to the secrets.          *)
Quiet == UNCHANGED secretVars /\ now' \in Times /\ now <= now'

LEMMA ConsumeSteps ==
  ASSUME SecretInv, NEW s, NEW c \in Clients,
         \/ ConsumeFound(s, c) \/ ConsumeUnknown(s, c)
         \/ ConsumeLockOut(s, c) \/ ConsumeRefused(s, c)
  PROVE  Quiet \/ (s \in Secrets /\ Live(s) /\ SignIn(s, c))
<1>1. CASE ConsumeFound(s, c)
  BY <1>1, UsedIsLive DEF ConsumeFound
<1>2. CASE ConsumeUnknown(s, c) \/ ConsumeLockOut(s, c) \/ ConsumeRefused(s, c)
  BY <1>2 DEF ConsumeUnknown, ConsumeLockOut, ConsumeRefused, Quiet, secretVars,
              otpVars, mailed, outcomes, SecretInv, SecretTypes, Times
<1> QED
  BY <1>1, <1>2

LEMMA NextKeepsSecretInv == SecretInv /\ [Next]_vars => SecretInv'
<1> SUFFICES ASSUME SecretInv, [Next]_vars PROVE SecretInv'
  OBVIOUS
<1>0. now \in Times
  BY DEF SecretInv, SecretTypes
<1>q. Quiet => SecretInv'
  BY TimeKeepsInv DEF Quiet
<1>1. ASSUME NEW e \in Emails, NEW c \in Clients, Request(e, c) PROVE SecretInv'
  <2>1. CASE RequestCoalesced(e, c) \/ RequestUnlisted(e, c)
    BY <2>1, <1>0, <1>q DEF RequestCoalesced, RequestUnlisted, Quiet, secretVars,
       otpVars, mailed, outcomes, Times
  <2>2. CASE RequestSent(e, c)
    BY <2>2, SentKeepsInv
  <2>3. CASE RequestSendFails(e, c)
    BY <2>3, SendFailsKeepsInv
  <2> QED
    BY <1>1, <2>1, <2>2, <2>3 DEF Request
<1>2. ASSUME NEW e \in Emails, NEW c \in Clients, Verify(e, c) PROVE SecretInv'
  <2>1. ASSUME NEW g \in 0 .. MaxIssued, VerifyRight(e, g, c) PROVE SecretInv'
    BY <2>1, UsedIsLive, SignInKeepsInv DEF VerifyRight
  <2>2. ASSUME NEW g \in 0 .. MaxIssued, VerifyWrong(e, g, c) PROVE SecretInv'
    BY <2>2, WrongKeepsInv
  <2>3. CASE VerifyLockOut(e, c)
    BY <2>3, <1>0, <1>q DEF VerifyLockOut, Quiet, secretVars, otpVars, mailed,
       outcomes, Times
  <2> QED
    BY <1>2, <2>1, <2>2, <2>3 DEF Verify
<1>3. ASSUME NEW c \in Clients, Link(c) PROVE SecretInv'
  <2>1. ASSUME NEW s \in Presentable, InspectLink(s, c) PROVE SecretInv'
    BY <2>1, <1>0, <1>q DEF InspectLink, Quiet, secretVars, otpVars, mailed,
       outcomes, Times
  <2>2. CASE MatchIntent(c) \/ ForeignPost(c)
    BY <2>2, <1>0, <1>q DEF MatchIntent, ForeignPost, Quiet, secretVars, otpVars,
       mailed, outcomes, Times
  <2>3. CASE ConsumeGet(c)
    BY <2>3, <1>q, ConsumeSteps, SignInKeepsInv DEF ConsumeGet
  <2>4. ASSUME NEW s \in Presentable \cup {None}, ConsumePost(s, c) PROVE SecretInv'
    BY <2>4, <1>q, ConsumeSteps, SignInKeepsInv DEF ConsumePost
  <2> QED
    BY <1>3, <2>1, <2>2, <2>3, <2>4 DEF Link
<1>4. CASE Tick
  BY <1>4, <1>0, <1>q, AuthAssumption DEF Tick, Quiet, secretVars, otpVars,
     mailed, Times
<1>5. CASE UNCHANGED vars
  BY <1>5, <1>0, <1>q DEF vars, Quiet, secretVars, otpVars, mailed, outcomes,
     Times
<1> QED
  BY <1>1, <1>2, <1>3, <1>4, <1>5 DEF Next

(* A secret opens a session only while live and unexpired, and a GET opens *)
(* one only through a matched visit.                                       *)
Opening(s) ==
  /\ Live(s) /\ Fresh(s)
  /\ \A c \in Clients : visit'[c] # visit[c] =>
       visit[c] # None /\ visit[c].matched /\ visit[c].token = s

LEMMA SignInOpens ==
  ASSUME SecretInv, NEW s \in Secrets, NEW r \in Secrets, NEW c \in Clients,
         SignIn(s, c), grants'[r] # grants[r]
  PROVE  r = s
BY DEF SignIn, SecretInv, SecretTypes

LEMMA GrantSteps ==
  ASSUME SecretInv, [Next]_vars, NEW r \in Secrets, grants'[r] # grants[r],
         visit \in [Clients -> Visits \cup {None}]
  PROVE  Opening(r)
<1> USE UsedIsLive
<1>1. ASSUME NEW e \in Emails, NEW c \in Clients, Verify(e, c) PROVE Opening(r)
  <2>1. ASSUME NEW g \in 0 .. MaxIssued, VerifyRight(e, g, c) PROVE Opening(r)
    <3>1. /\ <<e, g>> \in Secrets /\ Live(<<e, g>>)
          /\ SignIn(<<e, g>>, c) /\ UNCHANGED visit /\ Right(e, g)
      BY <2>1 DEF VerifyRight
    <3>2. r = <<e, g>>
      BY <3>1, SignInOpens
    <3> QED
      BY <3>1, <3>2 DEF Opening, Right, LiveFor, Held
  <2>2. ASSUME NEW g \in 0 .. MaxIssued, VerifyWrong(e, g, c) PROVE FALSE
    BY <2>2 DEF VerifyWrong
  <2>3. ~VerifyLockOut(e, c)
    BY DEF VerifyLockOut, outcomes
  <2> QED
    BY <1>1, <2>1, <2>2, <2>3 DEF Verify
<1>2. ASSUME NEW s, NEW c \in Clients,
             \/ ConsumeFound(s, c) \/ ConsumeUnknown(s, c)
             \/ ConsumeLockOut(s, c) \/ ConsumeRefused(s, c)
      PROVE  r = s /\ Live(s) /\ Fresh(s)
  <2>1. ConsumeFound(s, c)
    BY <1>2 DEF ConsumeUnknown, ConsumeLockOut, ConsumeRefused, outcomes
  <2> QED
    BY <2>1, SignInOpens DEF ConsumeFound, Found
<1>3. ASSUME NEW c \in Clients, Link(c) PROVE Opening(r)
  <2>1. ASSUME NEW s \in Presentable, InspectLink(s, c) PROVE FALSE
    BY <2>1 DEF InspectLink, outcomes
  <2>2. ~MatchIntent(c) /\ ~ForeignPost(c)
    BY DEF MatchIntent, ForeignPost, outcomes
  <2>3. CASE ConsumeGet(c)
    <3>1. /\ r = visit[c].token /\ Live(r) /\ Fresh(r)
          /\ visit[c] # None /\ visit[c].matched
          /\ visit' = [visit EXCEPT ![c] = None]
      BY <2>3, <1>2 DEF ConsumeGet
    <3> QED
      BY <3>1 DEF Opening
  <2>4. ASSUME NEW s \in Presentable \cup {None}, ConsumePost(s, c)
        PROVE Opening(r)
    <3>1. r = s /\ Live(s) /\ Fresh(s) /\ UNCHANGED visit
      BY <2>4, <1>2 DEF ConsumePost
    <3> QED
      BY <3>1 DEF Opening
  <2> QED
    BY <1>3, <2>1, <2>2, <2>3, <2>4 DEF Link
<1>4. ASSUME NEW e \in Emails, NEW c \in Clients PROVE ~Request(e, c)
  BY DEF Request, RequestCoalesced, RequestUnlisted, RequestSent,
     RequestSendFails, outcomes
<1>5. ~Tick /\ ~UNCHANGED vars
  BY DEF Tick, vars, outcomes
<1> QED
  BY <1>1, <1>3, <1>4, <1>5 DEF Next

(* The cookies keep their types, and a visit is matched only with its own  *)
(* secret's intent.                                                        *)
CookieInv == CookieTypes /\ VisitInv

LEMMA NextKeepsCookieInv ==
  ASSUME SecretInv, CookieInv, [Next]_vars
  PROVE  CookieInv'
<1> USE DEF CookieInv
<1>s. ASSUME NEW s \in Secrets, NEW c \in Clients, SignIn(s, c)
      PROVE  intent' \in [Clients -> Secrets \cup {None}]
  BY <1>s DEF SignIn, CookieTypes
<1>k. UNCHANGED visit /\ intent' \in [Clients -> Secrets \cup {None}] => CookieInv'
  BY DEF CookieTypes, VisitInv
<1>1. ASSUME NEW e \in Emails, NEW c \in Clients, Request(e, c) PROVE CookieInv'
  <2>1. UNCHANGED visit
    BY <1>1 DEF Request, RequestCoalesced, RequestUnlisted, RequestSent,
       RequestSendFails, cookies
  <2>2. intent' \in [Clients -> Secrets \cup {None}]
    <3>1. ASSUME NEW s \in Secrets, RememberIntent(c, s)
          PROVE  intent' \in [Clients -> Secrets \cup {None}]
      BY <3>1 DEF RememberIntent, CookieTypes
    <3>2. CASE RequestCoalesced(e, c)
      BY <3>1, <3>2, HeldLive DEF RequestCoalesced, LiveFor, SecretInv
    <3>3. CASE RequestSent(e, c)
      <4>1. <<e, issued[e] + 1>> \in Secrets
        BY <3>3, SendFindsNoGood, SecretPairs DEF RequestSent
      <4> QED
        BY <3>1, <3>3, <4>1 DEF RequestSent
    <3>4. CASE RequestUnlisted(e, c) \/ RequestSendFails(e, c)
      BY <3>4 DEF RequestUnlisted, RequestSendFails, cookies, CookieTypes
    <3> QED
      BY <1>1, <3>2, <3>3, <3>4 DEF Request
  <2> QED
    BY <2>1, <2>2, <1>k
<1>2. ASSUME NEW e \in Emails, NEW c \in Clients, Verify(e, c) PROVE CookieInv'
  <2>1. ASSUME NEW g \in 0 .. MaxIssued, VerifyRight(e, g, c) PROVE CookieInv'
    BY <2>1, <1>s, <1>k, UsedIsLive DEF VerifyRight
  <2>2. ASSUME NEW g \in 0 .. MaxIssued, VerifyWrong(e, g, c) PROVE CookieInv'
    BY <2>2, <1>k DEF VerifyWrong, cookies, CookieTypes
  <2>3. CASE VerifyLockOut(e, c)
    BY <2>3, <1>k DEF VerifyLockOut, cookies, CookieTypes
  <2> QED
    BY <1>2, <2>1, <2>2, <2>3 DEF Verify
<1>c. ASSUME NEW s, NEW c \in Clients,
             \/ ConsumeFound(s, c) \/ ConsumeUnknown(s, c)
             \/ ConsumeLockOut(s, c) \/ ConsumeRefused(s, c)
      PROVE  intent' \in [Clients -> Secrets \cup {None}]
  BY <1>c, <1>s, UsedIsLive DEF ConsumeFound, ConsumeUnknown, ConsumeLockOut,
     ConsumeRefused, CookieTypes
<1>3. ASSUME NEW c \in Clients, Link(c) PROVE CookieInv'
  <2>1. ASSUME NEW s \in Presentable, InspectLink(s, c) PROVE CookieInv'
    <3>1. s \in Secrets /\ intent[c] \in Secrets \cup {None}
      BY DEF Presentable, CookieTypes
    <3>2. [token |-> s, intent |-> intent[c], matched |-> FALSE] \in Visits
      BY <3>1 DEF Visits
    <3> QED
      BY <2>1, <3>2 DEF InspectLink, CookieTypes, VisitInv
  <2>2. CASE MatchIntent(c)
    <3>1. visit[c] \in Visits
      BY <2>2 DEF MatchIntent, CookieTypes
    <3>2. CASE IntentMatches(visit[c])
      BY <2>2, <3>1, <3>2 DEF MatchIntent, IntentMatches, CookieTypes, VisitInv,
         Visits
    <3>3. CASE ~IntentMatches(visit[c])
      BY <2>2, <3>3 DEF MatchIntent, CookieTypes, VisitInv
    <3> QED
      BY <3>2, <3>3
  <2>3. CASE ForeignPost(c)
    BY <2>3, <1>k DEF ForeignPost, cookies, CookieTypes
  <2>4. CASE ConsumeGet(c)
    <3>1. /\ intent' \in [Clients -> Secrets \cup {None}]
          /\ visit' = [visit EXCEPT ![c] = None]
      BY <2>4, <1>c DEF ConsumeGet
    <3> QED
      BY <3>1 DEF CookieTypes, VisitInv
  <2>5. ASSUME NEW s \in Presentable \cup {None}, ConsumePost(s, c)
        PROVE CookieInv'
    BY <2>5, <1>c, <1>k DEF ConsumePost
  <2> QED
    BY <1>3, <2>1, <2>2, <2>3, <2>4, <2>5 DEF Link
<1>4. CASE Tick \/ UNCHANGED vars
  BY <1>4, <1>k DEF Tick, vars, cookies, CookieTypes
<1> QED
  BY <1>1, <1>2, <1>3, <1>4 DEF Next

LEMMA InitCookies == Init => CookieInv
BY InitInv, AuthAssumption DEF Init, CookieInv, CookieTypes

LEMMA AlwaysInv == Spec => [](SecretInv /\ CookieInv)
<1>1. Init => SecretInv /\ CookieInv
  BY InitInv, InitCookies
<1>2. SecretInv /\ CookieInv /\ [Next]_vars => (SecretInv /\ CookieInv)'
  BY NextKeepsSecretInv, NextKeepsCookieInv
<1> QED
  BY <1>1, <1>2, PTL DEF Spec

(* Whatever the limits and however requests, guesses and links interleave, *)
(* no secret opens two sessions.                                           *)
THEOREM OneSession == Spec => []SingleUse
<1>1. SecretInv => SingleUse
  BY DEF SecretInv
<1> QED
  BY <1>1, AlwaysInv, PTL

(* No secret is tried more than MaxFailsOtp times before it is gone.       *)
THEOREM FewTries == Spec => []TriesBounded
<1>1. SecretInv => TriesBounded
  BY DEF SecretInv
<1> QED
  BY <1>1, AlwaysInv, PTL

(* Nothing but its use, its expiry and its own wrong guesses takes away a  *)
(* mailed secret.                                                          *)
THEOREM MailedSecretWorks == Spec => []GoodSecretWorks
<1>1. ASSUME SecretInv PROVE GoodSecretWorks
  <2> SUFFICES ASSUME NEW s \in Secrets, Good(s)
               PROVE  Right(Mailbox(s), s[2]) /\ (PublicOrigin => Found(s))
    BY DEF GoodSecretWorks, Good
  <2>1. Live(s)
    BY <1>1 DEF SecretInv, GoodInv
  <2>2. now < expires[s] /\ (PublicOrigin => s \in linkIndex)
    BY <1>1, <2>1 DEF SecretInv, LiveInv, Good
  <2>3. s = Held(Mailbox(s)) /\ live[Mailbox(s)] # 0 /\ s # None
    BY <2>1, SecretPairs, AuthAssumption DEF Live, Held, Secrets
  <2> QED
    BY <2>1, <2>2, <2>3 DEF Right, LiveFor, Fresh, Found, Live
<1> QED
  BY <1>1, AlwaysInv, PTL

(* A session is opened only from a message that went out, before it        *)
(* expires.                                                                *)
THEOREM FreshGrants == Spec => GrantsAreFresh
<1>1. SecretInv /\ CookieInv /\ [Next]_vars =>
        [\A s \in Secrets : grants'[s] # grants[s] =>
           mail[s] # None /\ now < mail[s].at + OtpTtl]_vars
  <2> SUFFICES ASSUME SecretInv, CookieInv, [Next]_vars, NEW s \in Secrets,
                      grants'[s] # grants[s]
               PROVE  mail[s] # None /\ now < mail[s].at + OtpTtl
    OBVIOUS
  <2>1. Live(s) /\ Fresh(s)
    BY GrantSteps DEF Opening, CookieInv, CookieTypes
  <2> QED
    BY <2>1 DEF SecretInv, LiveInv, Fresh
<1> QED
  BY <1>1, AlwaysInv, PTL DEF Spec, GrantsAreFresh

(* A GET of the link signs in only a browser that asked for its secret.    *)
THEOREM GetNeedsIntent == Spec => IntentBound
<1>1. SecretInv /\ CookieInv /\ [Next]_vars =>
        [\A c \in Clients, s \in Secrets :
           grants'[s] # grants[s] /\ visit[c] # visit'[c] =>
             visit[c].intent = s]_vars
  <2> SUFFICES ASSUME SecretInv, CookieInv, [Next]_vars, NEW c \in Clients,
                      NEW s \in Secrets, grants'[s] # grants[s],
                      visit[c] # visit'[c]
               PROVE  visit[c].intent = s
    OBVIOUS
  <2>1. visit[c] # None /\ visit[c].matched /\ visit[c].token = s
    BY GrantSteps DEF Opening, CookieInv, CookieTypes
  <2> QED
    BY <2>1 DEF CookieInv, VisitInv
<1> QED
  BY <1>1, AlwaysInv, PTL DEF Spec, IntentBound

-----------------------------------------------------------------------------
(* What each action does to the limits.                                    *)

(* The page of a link either changes no limit or is one of four tries.     *)
LEMMA LinkSteps ==
  ASSUME NEW c \in Clients, Link(c)
  PROVE  /\ UNCHANGED <<now, sends, mailed>>
         /\ \/ UNCHANGED <<limitVars, grants, guesses, answered, compared>>
            \/ \E s : ConsumeFound(s, c)
            \/ \E s : ConsumeUnknown(s, c)
            \/ \E s : ConsumeLockOut(s, c)
            \/ ForeignPost(c)
<1>1. ASSUME NEW s,
             \/ ConsumeFound(s, c) \/ ConsumeUnknown(s, c)
             \/ ConsumeLockOut(s, c) \/ ConsumeRefused(s, c)
      PROVE  /\ UNCHANGED <<now, sends, mailed>>
             /\ ConsumeRefused(s, c) =>
                  UNCHANGED <<limitVars, grants, guesses, answered, compared>>
  BY <1>1 DEF ConsumeFound, ConsumeUnknown, ConsumeLockOut, ConsumeRefused, SignIn,
     limitVars, outcomes
<1>2. CASE \E s \in Presentable : InspectLink(s, c)
  BY <1>2 DEF InspectLink, limitVars, outcomes
<1>3. CASE MatchIntent(c) \/ ForeignPost(c)
  BY <1>3 DEF MatchIntent, ForeignPost, limitVars, outcomes
<1>4. CASE ConsumeGet(c)
  BY <1>1, <1>4 DEF ConsumeGet
<1>5. ASSUME NEW s \in Presentable \cup {None}, ConsumePost(s, c)
      PROVE  /\ UNCHANGED <<now, sends, mailed>>
             /\ \/ ConsumeFound(s, c) \/ ConsumeUnknown(s, c) \/ ConsumeLockOut(s, c)
  BY <1>1, <1>5 DEF ConsumePost
<1> QED
  BY <1>2, <1>3, <1>4, <1>5 DEF Link

(* One step of the limits.  now changes in the second and the last only.   *)
Refusal == UNCHANGED <<now, limitVars, mail, grants, guesses, answered, compared>>

(* Every step, by what it does to the limits.                              *)
LEMMA LimitSteps ==
  ASSUME SecretInv, [Next]_vars
  PROVE  \/ Refusal
         \/ \E e \in Emails, c \in Clients :
              RequestUnlisted(e, c) \/ RequestSent(e, c) \/ RequestSendFails(e, c)
         \/ \E e \in Emails, c \in Clients, g \in 0 .. MaxIssued :
              VerifyRight(e, g, c) \/ VerifyWrong(e, g, c)
         \/ \E s : \E c \in Clients : ConsumeFound(s, c) /\ UNCHANGED <<now, sends, mail>>
         \/ \E s : \E c \in Clients : ConsumeUnknown(s, c) /\ UNCHANGED <<now, sends, mail>>
         \/ \E k \in Emails \cup {LinkKey}, c \in Clients :
              /\ LockOut(k, c)
              /\ UNCHANGED <<now, sends, mail, verifyFails, verifyLast, outcomes>>
         \/ \E c \in Clients : ForeignPost(c)
         \/ Tick
<1>1. CASE UNCHANGED vars
  BY <1>1 DEF vars, Refusal, mailed, outcomes
<1>2. ASSUME NEW e \in Emails, NEW c \in Clients, RequestCoalesced(e, c) PROVE Refusal
  BY <1>2 DEF RequestCoalesced, Refusal, mailed, outcomes
<1>3. ASSUME NEW e \in Emails, NEW c \in Clients, VerifyLockOut(e, c)
      PROVE  /\ LockOut(e, c)
             /\ UNCHANGED <<now, sends, mail, verifyFails, verifyLast, outcomes>>
  BY <1>3 DEF VerifyLockOut, mailed
<1>4. ASSUME NEW s, NEW c \in Clients, ConsumeLockOut(s, c)
      PROVE  \E k \in Emails \cup {LinkKey} :
               /\ LockOut(k, c)
               /\ UNCHANGED <<now, sends, mail, verifyFails, verifyLast, outcomes>>
  <2>1. ConsumeKey(s) \in Emails \cup {LinkKey}
    BY UsedIsLive, SecretPairs DEF ConsumeKey
  <2> QED
    BY <1>4, <2>1 DEF ConsumeLockOut, mailed
<1>5. ASSUME NEW e \in Emails, NEW c \in Clients, Request(e, c)
      PROVE  Refusal \/ RequestUnlisted(e, c) \/ RequestSent(e, c) \/ RequestSendFails(e, c)
  BY <1>2, <1>5 DEF Request
<1>6. ASSUME NEW c \in Clients, Link(c)
      PROVE  \/ Refusal
             \/ \E s : ConsumeFound(s, c) /\ UNCHANGED <<now, sends, mail>>
             \/ \E s : ConsumeUnknown(s, c) /\ UNCHANGED <<now, sends, mail>>
             \/ \E k \in Emails \cup {LinkKey} :
                  /\ LockOut(k, c)
                  /\ UNCHANGED <<now, sends, mail, verifyFails, verifyLast, outcomes>>
             \/ ForeignPost(c)
  <2>1. UNCHANGED <<now, sends, mail>>
    BY <1>6, LinkSteps DEF mailed
  <2>2. CASE UNCHANGED <<limitVars, grants, guesses, answered, compared>>
    BY <2>1, <2>2 DEF Refusal
  <2> QED
    BY <1>4, <1>6, <2>1, <2>2, LinkSteps
<1> QED
  BY <1>1, <1>3, <1>5, <1>6 DEF Next, Verify

(* A list filtered and appended to keeps its type.                         *)
LEMMA KeptTyped ==
  ASSUME NEW S, NEW s \in Seq(S), NEW T, NEW x \in S
  PROVE  Kept(s, T) \in Seq(S) /\ Append(Kept(s, T), x) \in Seq(S)
BY KeptEnumerates

(* A send is recorded in the list of sends.                                *)
LEMMA SendRecorded ==
  ASSUME LimitTypes, now \in Times, NEW e \in Emails, NEW c \in Clients, RecordSend(e, c)
  PROVE  sends' \in Seq(SendRecords)
<1>1. [mail |-> e, by |-> c, at |-> now] \in SendRecords
  BY DEF SendRecords
<1> QED
  BY <1>1, KeptTyped DEF RecordSend, SendsIn, LimitTypes

(* A failure is noted in the lists of its client.                          *)
LEMMA FailNoted ==
  ASSUME LimitTypes, now \in Times, NEW c \in Clients
  PROVE  /\ NoteFail(c) => verifyFails' \in [Clients -> Seq(Times)]
         /\ Answer401(c) => answered' \in [Clients -> Seq(Times)]
<1>1. ASSUME NoteFail(c) PROVE verifyFails' \in [Clients -> Seq(Times)]
  <2>1. Append(RecentFails(c), now) \in Seq(Times)
    BY KeptTyped DEF RecentFails, LimitTypes
  <2> QED
    BY <1>1, <2>1 DEF NoteFail, LimitTypes
<1>2. ASSUME Answer401(c) PROVE answered' \in [Clients -> Seq(Times)]
  <2>1. Append(Kept(answered[c], LastHour), now) \in Seq(Times)
    BY KeptTyped DEF LimitTypes
  <2> QED
    BY <1>2, <2>1 DEF Answer401, LimitTypes
<1> QED
  BY <1>1, <1>2

LEMMA NextKeepsLimitTypes ==
  ASSUME SecretInv, LimitTypes, [Next]_vars
  PROVE  LimitTypes'
<1>0. now \in Times /\ now \in Nat
  BY DEF SecretInv, SecretTypes, Times
<1>1. CASE Refusal
  BY <1>1 DEF Refusal, limitVars, LimitTypes
<1>2. ASSUME NEW e \in Emails, NEW c \in Clients,
             RequestUnlisted(e, c) \/ RequestSent(e, c) \/ RequestSendFails(e, c)
      PROVE  LimitTypes'
  <2>1. RecordSend(e, c) /\ UNCHANGED <<verifyFails, verifyLast, lockout, answered, compared>>
    BY <1>2 DEF RequestUnlisted, RequestSent, RequestSendFails, TrySend, outcomes
  <2> QED
    BY <1>0, <2>1, SendRecorded DEF LimitTypes
<1>s. ASSUME NEW s \in Secrets, NEW c \in Clients, SignIn(s, c), UNCHANGED sends
      PROVE  LimitTypes'
  <2>1. Mailbox(s) \in Emails
    BY SecretPairs
  <2> QED
    BY <1>0, <1>s, <2>1 DEF SignIn, Used, LimitTypes
<1>3. ASSUME NEW e \in Emails, NEW c \in Clients, NEW g \in 0 .. MaxIssued,
             VerifyRight(e, g, c)
      PROVE  LimitTypes'
  BY <1>3, <1>s, UsedIsLive DEF VerifyRight, SignIn
<1>4. ASSUME NEW e \in Emails, NEW c \in Clients, NEW g \in 0 .. MaxIssued,
             VerifyWrong(e, g, c)
      PROVE  LimitTypes'
  <2>1. Answer401(c) /\ NoteFail(c) /\ Used(e) /\ UNCHANGED <<sends, lockout>>
    BY <1>4 DEF VerifyWrong, Answer401
  <2> QED
    BY <1>0, <2>1, FailNoted DEF Used, LimitTypes
<1>5. ASSUME NEW s, NEW c \in Clients, ConsumeFound(s, c), UNCHANGED sends
      PROVE  LimitTypes'
  BY <1>5, <1>s, UsedIsLive DEF ConsumeFound
<1>6. ASSUME NEW s, NEW c \in Clients, ConsumeUnknown(s, c)
      PROVE  LimitTypes'
  <2>1. /\ Answer401(c) /\ NoteFail(c) /\ UNCHANGED <<sends, lockout, compared>>
        /\ verifyLast' = [verifyLast EXCEPT ![LinkKey] = now]
    BY <1>6 DEF ConsumeUnknown, Answer401
  <2> QED
    BY <1>0, <2>1, FailNoted DEF LimitTypes
<1>7. ASSUME NEW k \in Emails \cup {LinkKey}, NEW c \in Clients, LockOut(k, c),
             UNCHANGED <<sends, verifyFails, verifyLast, outcomes>>
      PROVE  LimitTypes'
  <2>1. now + Cooldown \in Nat
    BY <1>0, AuthAssumption
  <2> QED
    BY <1>7, <2>1 DEF LockOut, LimitTypes, outcomes
<1>8. ASSUME NEW c \in Clients, ForeignPost(c)
      PROVE  LimitTypes'
  <2>1. NoteFail(c) /\ UNCHANGED <<sends, verifyLast, lockout, answered, compared>>
    BY <1>8 DEF ForeignPost, outcomes
  <2> QED
    BY <1>0, <2>1, FailNoted DEF LimitTypes
<1>9. CASE Tick
  <2>1. /\ \A c \in Clients : Kept(verifyFails[c], LastHour') \in Seq(Times)
        /\ \A c \in Clients : Kept(answered[c], LastHour') \in Seq(Times)
        /\ Kept(sends, {r \in SendRecords : now' - r.at < Day}) \in Seq(SendRecords)
    BY KeptEnumerates DEF LimitTypes
  <2> QED
    BY <1>9, <2>1 DEF Tick, LimitTypes
<1> QED
  BY <1>1, <1>2, <1>3, <1>4, <1>5, <1>6, <1>7, <1>8, <1>9, LimitSteps

LEMMA InitLimitTypes == Init => LimitTypes
<1>1. 0 \in Times /\ \A S : <<>> \in Seq(S)
  BY AuthAssumption DEF Times
<1> QED
  BY <1>1 DEF Init, LimitTypes

-----------------------------------------------------------------------------
(* Types.                                                                  *)

(* The state keeps its types.                                              *)
LimitInv == SecretInv /\ CookieInv /\ LimitTypes

LEMMA AlwaysLimitInv == Spec => []LimitInv
<1>1. Init => LimitInv
  BY InitInv, InitCookies, InitLimitTypes DEF LimitInv
<1>2. LimitInv /\ [Next]_vars => LimitInv'
  BY NextKeepsSecretInv, NextKeepsCookieInv, NextKeepsLimitTypes DEF LimitInv
<1> QED
  BY <1>1, <1>2, PTL DEF Spec

(* Every record, cookie, list and clock of the sign-in keeps its type, for *)
(* any mailboxes, clients, windows and caps.                               *)
THEOREM AuthTyping == Spec => []TypeOK
<1>1. LimitInv => TypeOK
  BY DEF LimitInv, SecretInv, CookieInv, TypeOK
<1> QED
  BY <1>1, AlwaysLimitInv, PTL

-----------------------------------------------------------------------------
(* The failures of an hour.                                                *)

(* The instants that are within an hour at m.                              *)
HourTo(m) == {t \in Times : m - t < Hour}

(* Of every hour still to end, the failed verifies answered are among the  *)
(* failures noted, and no more than the limit.  The foreign posts, noted   *)
(* but not answered, are why the two differ.                               *)
FailInv ==
  \A c \in Clients : \A m \in Nat : m >= now =>
    /\ Count(answered[c], HourTo(m)) <= Count(verifyFails[c], HourTo(m))
    /\ Count(answered[c], HourTo(m)) <= MaxFailsHour

(* An hour that ends later begins later.                                   *)
LEMMA LaterHour ==
  ASSUME NEW n \in Nat, NEW m \in Nat, m >= n, NEW t \in HourTo(m)
  PROVE  t \in HourTo(n)
<1>1. MaxTime \in Nat /\ Hour \in Nat
  BY AuthAssumption
<1> QED
  BY <1>1 DEF HourTo, Times

(* Pruning at n takes nothing from an hour that ends later, and a failure  *)
(* noted at n counts once in it, if at all.                                *)
LEMMA HourPruned ==
  ASSUME NEW s \in Seq(Times), NEW n \in Nat, NEW m \in Nat, m >= n
  PROVE  /\ Kept(s, HourTo(n)) \in Seq(Times)
         /\ Count(Kept(s, HourTo(n)), HourTo(m)) = Count(s, HourTo(m))
         /\ n \in Times =>
              Count(Append(Kept(s, HourTo(n)), n), HourTo(m)) =
                Count(s, HourTo(m)) + (IF n \in HourTo(m) THEN 1 ELSE 0)
<1>1. HourTo(n) \cap HourTo(m) = HourTo(m)
  BY LaterHour
<1>2. /\ Kept(s, HourTo(n)) \in Seq(Times)
      /\ Count(Kept(s, HourTo(n)), HourTo(m)) = Count(s, HourTo(m))
  BY <1>1, CountKept
<1> QED
  BY <1>2, CountAppend

(* The first of these, to be cited alone.                                  *)
LEMMA HourStays ==
  ASSUME NEW s \in Seq(Times), NEW n \in Nat, NEW m \in Nat, m >= n,
         NEW r, r = Kept(s, HourTo(n))
  PROVE  Count(r, HourTo(m)) = Count(s, HourTo(m))
BY HourPruned

(* What a failed verify notes, and what another failure notes.             *)
LEMMA FailsCounted ==
  ASSUME LimitTypes, now \in Times, NEW c \in Clients, NEW m \in Nat, m >= now
  PROVE  /\ Count(answered[c], HourTo(m)) \in Nat
         /\ Count(verifyFails[c], HourTo(m)) \in Nat
         /\ Len(RecentFails(c)) = Count(verifyFails[c], HourTo(now))
         /\ Count(verifyFails[c], HourTo(m)) <= Count(verifyFails[c], HourTo(now))
         /\ NoteFail(c) =>
              Count(verifyFails'[c], HourTo(m)) =
                Count(verifyFails[c], HourTo(m)) + (IF now \in HourTo(m) THEN 1 ELSE 0)
         /\ Answer401(c) =>
              Count(answered'[c], HourTo(m)) =
                Count(answered[c], HourTo(m)) + (IF now \in HourTo(m) THEN 1 ELSE 0)
<1>1. /\ verifyFails[c] \in Seq(Times) /\ answered[c] \in Seq(Times)
      /\ now \in Nat /\ LastHour = HourTo(now)
  BY DEF LimitTypes, LastHour, HourTo, Times
<1>2. \A t \in Times : t \in HourTo(m) => t \in HourTo(now)
  BY <1>1, LaterHour
<1>3. Len(RecentFails(c)) = Count(verifyFails[c], HourTo(now))
  BY <1>1, KeptLength DEF RecentFails
<1>4. Count(verifyFails[c], HourTo(m)) <= Count(verifyFails[c], HourTo(now))
  BY <1>1, <1>2, CountWithin
<1>5. NoteFail(c) => verifyFails'[c] = Append(Kept(verifyFails[c], HourTo(now)), now)
  BY <1>1 DEF NoteFail, RecentFails, LimitTypes
<1>6. Answer401(c) => answered'[c] = Append(Kept(answered[c], HourTo(now)), now)
  BY <1>1 DEF Answer401, LimitTypes
<1>7. /\ Count(Append(Kept(verifyFails[c], HourTo(now)), now), HourTo(m)) =
           Count(verifyFails[c], HourTo(m)) + (IF now \in HourTo(m) THEN 1 ELSE 0)
      /\ Count(Append(Kept(answered[c], HourTo(now)), now), HourTo(m)) =
           Count(answered[c], HourTo(m)) + (IF now \in HourTo(m) THEN 1 ELSE 0)
  BY ZenonT(60), <1>1, HourPruned
<1>8. Count(answered[c], HourTo(m)) \in Nat /\ Count(verifyFails[c], HourTo(m)) \in Nat
  BY <1>1, PlacesFinite
<1> QED
  BY <1>3, <1>4, <1>5, <1>6, <1>7, <1>8

(* A failed verify is answered only when the hour has room for it.         *)
LEMMA AnsweredKeepsFailInv ==
  ASSUME LimitTypes, FailInv, now \in Times, NEW k, NEW c \in Clients,
         VerifyAllowed(k, c), Answer401(c), UNCHANGED now
  PROVE  FailInv'
<1> SUFFICES ASSUME NEW d \in Clients, NEW m \in Nat, m >= now
             PROVE  /\ Count(answered'[d], HourTo(m)) <= Count(verifyFails'[d], HourTo(m))
                    /\ Count(answered'[d], HourTo(m)) <= MaxFailsHour
  BY DEF FailInv, HourTo, Times
<1>1. NoteFail(c)
  BY DEF Answer401
<1>2. /\ Count(answered[d], HourTo(m)) <= Count(verifyFails[d], HourTo(m))
      /\ Count(answered[d], HourTo(m)) <= MaxFailsHour
  BY DEF FailInv
<1>3. CASE d = c
  <2>1. Count(verifyFails[c], HourTo(now)) < MaxFailsHour
    BY FailsCounted DEF VerifyAllowed, Times
  <2>2. MaxFailsHour \in Nat
    BY AuthAssumption
  <2>3. Count(verifyFails[c], HourTo(now)) \in Nat
    BY FailsCounted DEF Times
  <2> QED
    BY <1>1, <1>2, <1>3, <2>1, <2>2, <2>3, FailsCounted
<1>4. CASE d # c
  <2>1. answered'[d] = answered[d] /\ verifyFails'[d] = verifyFails[d]
    BY <1>1, <1>4 DEF Answer401, NoteFail, LimitTypes
  <2> QED
    BY <1>2, <2>1
<1> QED
  BY <1>3, <1>4

LEMMA NextKeepsFailInv ==
  ASSUME LimitInv, FailInv, [Next]_vars
  PROVE  FailInv'
<1> USE DEF LimitInv
<1>0. now \in Times /\ now \in Nat
  BY DEF SecretInv, SecretTypes, Times
<1>k. ASSUME UNCHANGED <<verifyFails, answered>>, now' \in Nat, now <= now'
      PROVE  FailInv'
  <2>1. \A m \in Nat : m >= now' => m >= now
    BY <1>0, <1>k
  <2> QED
    BY <1>k, <2>1 DEF FailInv, HourTo, Times
<1>1. CASE Refusal
  BY <1>0, <1>1, <1>k DEF Refusal, limitVars
<1>2. ASSUME NEW e \in Emails, NEW c \in Clients,
             RequestUnlisted(e, c) \/ RequestSent(e, c) \/ RequestSendFails(e, c)
      PROVE  FailInv'
  <2>1. UNCHANGED <<verifyFails, answered>>
    BY <1>2 DEF RequestUnlisted, RequestSent, RequestSendFails, outcomes
  <2>2. now' \in Nat /\ now <= now'
    BY <1>0, <1>2, SendFindsNoGood
       DEF RequestUnlisted, RequestSent, RequestSendFails, Times
  <2> QED
    BY <1>k, <2>1, <2>2
<1>3. ASSUME NEW e \in Emails, NEW c \in Clients, NEW g \in 0 .. MaxIssued,
             VerifyRight(e, g, c) \/ VerifyWrong(e, g, c)
      PROVE  FailInv'
  <2>1. CASE VerifyRight(e, g, c)
    BY <1>0, <1>k, <2>1 DEF VerifyRight, SignIn
  <2>2. CASE VerifyWrong(e, g, c)
    BY <1>0, <2>2, AnsweredKeepsFailInv DEF VerifyWrong
  <2> QED
    BY <1>3, <2>1, <2>2
<1>4. ASSUME NEW s, NEW c \in Clients, ConsumeFound(s, c)
      PROVE  FailInv'
  BY <1>0, <1>4, <1>k DEF ConsumeFound, SignIn
<1>5. ASSUME NEW s, NEW c \in Clients, ConsumeUnknown(s, c)
      PROVE  FailInv'
  BY <1>0, <1>5, AnsweredKeepsFailInv DEF ConsumeUnknown
<1>6. ASSUME UNCHANGED <<now, verifyFails, outcomes>>
      PROVE  FailInv'
  BY <1>0, <1>6, <1>k DEF outcomes
<1>7. ASSUME NEW c \in Clients, ForeignPost(c)
      PROVE  FailInv'
  <2> SUFFICES ASSUME NEW d \in Clients, NEW m \in Nat, m >= now
               PROVE  /\ Count(answered[d], HourTo(m)) <= Count(verifyFails'[d], HourTo(m))
                      /\ Count(answered[d], HourTo(m)) <= MaxFailsHour
    BY <1>7 DEF FailInv, ForeignPost, outcomes, HourTo, Times
  <2>1. /\ Count(answered[d], HourTo(m)) <= Count(verifyFails[d], HourTo(m))
        /\ Count(answered[d], HourTo(m)) <= MaxFailsHour
    BY DEF FailInv
  <2>2. NoteFail(c)
    BY <1>7 DEF ForeignPost
  <2>3. CASE d = c
    BY SMTT(60), <1>0, <2>1, <2>2, <2>3, FailsCounted
  <2>4. CASE d # c
    BY <2>1, <2>2, <2>4 DEF NoteFail, LimitTypes
  <2> QED
    BY <2>3, <2>4
<1>8. CASE Tick
  <2>1. now' = now + 1 /\ now' \in Nat /\ LastHour' = HourTo(now')
    BY <1>0, <1>8 DEF Tick, LastHour, HourTo, Times
  <2> SUFFICES ASSUME NEW d \in Clients, NEW m \in Nat, m >= now'
               PROVE  /\ Count(answered'[d], HourTo(m)) <= Count(verifyFails'[d], HourTo(m))
                      /\ Count(answered'[d], HourTo(m)) <= MaxFailsHour
    BY DEF FailInv, HourTo, Times
  <2>2. /\ verifyFails'[d] = Kept(verifyFails[d], HourTo(now'))
        /\ answered'[d] = Kept(answered[d], HourTo(now'))
    BY <1>8, <2>1 DEF Tick
  <2>3. verifyFails[d] \in Seq(Times) /\ answered[d] \in Seq(Times)
    BY DEF LimitTypes
  <2> PICK n \in Nat : n = now'
    BY <2>1
  <2>4. Count(verifyFails'[d], HourTo(m)) = Count(verifyFails[d], HourTo(m))
    BY <2>1, <2>2, <2>3, HourStays
  <2>5. Count(answered'[d], HourTo(m)) = Count(answered[d], HourTo(m))
    BY <2>1, <2>2, <2>3, HourStays
  <2> QED
    BY <1>0, <2>1, <2>4, <2>5 DEF FailInv
<1> QED
  BY <1>1, <1>2, <1>3, <1>4, <1>5, <1>6, <1>7, <1>8, LimitSteps

(* However a client mixes codes, links and foreign posts, and whatever the *)
(* pruning of the lists forgets, no hour answers it more failed verifies   *)
(* than the limit.                                                         *)
THEOREM FailuresOfAnHour == Spec => []FailuresBounded
<1>1. Init => FailInv
  <2> SUFFICES ASSUME Init, NEW c \in Clients, NEW m \in Nat
               PROVE  /\ Count(answered[c], HourTo(m)) <= Count(verifyFails[c], HourTo(m))
                      /\ Count(answered[c], HourTo(m)) <= MaxFailsHour
    BY DEF FailInv
  <2>1. answered[c] = <<>> /\ verifyFails[c] = <<>>
    BY DEF Init
  <2> QED
    BY SMTT(60), <2>1, CountEmpty, AuthAssumption
<1>2. LimitInv /\ FailInv /\ [Next]_vars => FailInv'
  BY NextKeepsFailInv
<1>3. LimitInv /\ FailInv => FailuresBounded
  <2> SUFFICES ASSUME LimitInv, FailInv, NEW c \in Clients
               PROVE  Len(Kept(answered[c], LastHour)) <= MaxFailsHour
    BY DEF FailuresBounded
  <2>1. answered[c] \in Seq(Times) /\ now \in Nat
    BY DEF LimitInv, LimitTypes, SecretInv, SecretTypes, Times
  <2>2. LastHour = HourTo(now)
    BY DEF LastHour, HourTo
  <2>3. Count(answered[c], HourTo(now)) <= MaxFailsHour
    BY <2>1 DEF FailInv
  <2> QED
    BY <2>1, <2>2, <2>3, KeptLength
<1> QED
  BY <1>1, <1>2, <1>3, AlwaysLimitInv, PTL DEF Spec

-----------------------------------------------------------------------------
(* The gap between two tries.                                              *)

(* The throttle of a mailbox remembers the last use or comparison of its   *)
(* secrets, by code or by link: the key of an unknown token is no mailbox. *)
GapInv == \A e \in Emails : compared[e] = verifyLast[e]

(* A secret is tried only when its mailbox's throttle lets it.             *)
TriedInTime(e) == \E c \in Clients : VerifyAllowed(e, c)

LEMMA NextKeepsGapInv ==
  ASSUME LimitInv, GapInv, [Next]_vars
  PROVE  GapInv'
<1> USE DEF LimitInv
<1>k. ASSUME UNCHANGED <<verifyLast, compared>> PROVE GapInv'
  BY <1>k DEF GapInv
<1>u. ASSUME NEW e \in Emails, Used(e) PROVE GapInv'
  <2> SUFFICES ASSUME NEW d \in Emails PROVE compared'[d] = verifyLast'[d]
    BY DEF GapInv
  <2> QED
    BY <1>u DEF Used, GapInv, LimitTypes
<1>1. CASE Refusal
  BY <1>1, <1>k DEF Refusal, limitVars
<1>2. ASSUME NEW e \in Emails, NEW c \in Clients,
             RequestUnlisted(e, c) \/ RequestSent(e, c) \/ RequestSendFails(e, c)
      PROVE  GapInv'
  BY <1>2, <1>k DEF RequestUnlisted, RequestSent, RequestSendFails, outcomes
<1>3. ASSUME NEW e \in Emails, NEW c \in Clients, NEW g \in 0 .. MaxIssued,
             VerifyRight(e, g, c) \/ VerifyWrong(e, g, c)
      PROVE  GapInv'
  BY <1>3, <1>u, UsedIsLive, SecretPairs DEF VerifyRight, VerifyWrong, SignIn, Mailbox
<1>4. ASSUME NEW s, NEW c \in Clients, ConsumeFound(s, c)
      PROVE  GapInv'
  BY <1>4, <1>u, UsedIsLive, SecretPairs DEF ConsumeFound, SignIn
<1>5. ASSUME NEW s, NEW c \in Clients, ConsumeUnknown(s, c)
      PROVE  GapInv'
  BY <1>5, AuthAssumption DEF ConsumeUnknown, GapInv, LimitTypes
<1>6. ASSUME UNCHANGED <<verifyLast, outcomes>> PROVE GapInv'
  BY <1>6, <1>k DEF outcomes
<1>7. ASSUME NEW c \in Clients, ForeignPost(c) PROVE GapInv'
  BY <1>7, <1>k DEF ForeignPost, outcomes
<1>8. CASE Tick
  BY <1>8, <1>k DEF Tick
<1> QED
  BY <1>1, <1>2, <1>3, <1>4, <1>5, <1>6, <1>7, <1>8, LimitSteps

(* Where a grant or a guess moved, the gap was kept.                       *)
LEMMA TriesAreTimely ==
  ASSUME LimitInv, [Next]_vars, NEW s \in Secrets,
         grants'[s] # grants[s] \/ guesses'[s] # guesses[s]
  PROVE  TriedInTime(Mailbox(s))
<1> USE DEF LimitInv
<1>1. ~Refusal
  BY DEF Refusal
<1>2. ASSUME NEW e \in Emails, NEW c \in Clients
      PROVE  ~RequestUnlisted(e, c) /\ ~RequestSent(e, c) /\ ~RequestSendFails(e, c)
  BY DEF RequestUnlisted, RequestSent, RequestSendFails, outcomes
<1>3. ASSUME NEW r \in Secrets, NEW c \in Clients, SignIn(r, c)
      PROVE  s = r
  BY <1>3, SignInOpens DEF SignIn
<1>4. ASSUME NEW e \in Emails, NEW c \in Clients, NEW g \in 0 .. MaxIssued,
             VerifyRight(e, g, c)
      PROVE  TriedInTime(Mailbox(s))
  <2>1. <<e, g>> \in Secrets /\ SignIn(<<e, g>>, c) /\ VerifyAllowed(e, c)
    BY <1>4, UsedIsLive DEF VerifyRight
  <2>2. Mailbox(s) = e
    BY <1>3, <2>1 DEF Mailbox
  <2> QED
    BY <2>1, <2>2 DEF TriedInTime
<1>5. ASSUME NEW e \in Emails, NEW c \in Clients, NEW g \in 0 .. MaxIssued,
             VerifyWrong(e, g, c)
      PROVE  TriedInTime(Mailbox(s))
  <2>1. VerifyAllowed(e, c) /\ s = Held(e)
    BY <1>5 DEF VerifyWrong, SecretInv, SecretTypes
  <2>2. Mailbox(s) = e
    BY <2>1 DEF Held, Mailbox
  <2> QED
    BY <2>1, <2>2 DEF TriedInTime
<1>6. ASSUME NEW r, NEW c \in Clients, ConsumeFound(r, c)
      PROVE  TriedInTime(Mailbox(s))
  BY <1>3, <1>6, UsedIsLive DEF ConsumeFound, ConsumeKey, TriedInTime
<1>7. ASSUME NEW r, NEW c \in Clients PROVE ~ConsumeUnknown(r, c)
  BY DEF ConsumeUnknown
<1>8. ~UNCHANGED outcomes /\ ~Tick /\ \A c \in Clients : ~ForeignPost(c)
  BY DEF Tick, ForeignPost, outcomes
<1> QED
  BY <1>1, <1>2, <1>4, <1>5, <1>6, <1>7, <1>8, LimitSteps

(* Two tries of a mailbox's secrets are MinGap apart, by whichever of code *)
(* and link and from whichever clients.                                    *)
THEOREM TriesAreSpaced == Spec => VerifiesSpaced
<1>1. Init => GapInv
  BY DEF Init, GapInv
<1>2. LimitInv /\ GapInv /\ [Next]_vars => GapInv'
  BY NextKeepsGapInv
<1>3. LimitInv /\ GapInv /\ [Next]_vars =>
        [\A e \in Emails : compared[e] # 0 /\
           (\E s \in Secrets : Mailbox(s) = e /\
              (grants'[s] # grants[s] \/ guesses'[s] # guesses[s])) =>
           now - compared[e] >= MinGap]_vars
  <2> SUFFICES ASSUME LimitInv, GapInv, [Next]_vars, NEW s \in Secrets,
                      grants'[s] # grants[s] \/ guesses'[s] # guesses[s]
               PROVE  now - compared[Mailbox(s)] >= MinGap
    OBVIOUS
  <2>1. TriedInTime(Mailbox(s)) /\ Mailbox(s) \in Emails
    BY TriesAreTimely, SecretPairs
  <2> QED
    BY <2>1 DEF TriedInTime, VerifyAllowed, GapInv
<1> QED
  BY <1>1, <1>2, <1>3, AlwaysLimitInv, PTL DEF Spec, VerifiesSpaced

-----------------------------------------------------------------------------
(* The mail of a UTC day.                                                  *)

DayTo(n) == {r \in SendRecords : n - r.at < Day}
OfDay(d) == {r \in SendRecords : UtcDay(r.at) = d}
SinceDay(d) == {r \in SendRecords : UtcDay(r.at) >= d}

(* The entry of the send log that the mail m[s] answers.                   *)
Entry(m, s) == [mail |-> Mailbox(s), by |-> m[s].by, at |-> m[s].at]
MailedIn(m, T) == {s \in Secrets : m[s] # None /\ Entry(m, s) \in T}
MailedTo(m, T) == {Mailbox(s) : s \in MailedIn(m, T)}

(* The mailboxes a client named on a day.                                  *)
Seen(l, c, d) == {l[i].mail : i \in {j \in DOMAIN l : l[j].by = c /\ UtcDay(l[j].at) = d}}

(* A later instant is of no earlier day, and two instants of which the     *)
(* later is of no later day are less than a day apart.                     *)
LEMMA DayOrder ==
  ASSUME NEW t \in Nat, NEW u \in Nat
  PROVE  /\ UtcDay(t) \in Nat
         /\ t <= u => UtcDay(t) <= UtcDay(u)
         /\ UtcDay(u) <= UtcDay(t) => u - t < Day
<1>0. Day \in Nat \ {0}
  BY AuthAssumption
<1>1. UtcDay(t) \in Nat /\ UtcDay(u) \in Nat
  BY <1>0 DEF UtcDay
<1>2. t <= u => UtcDay(t) <= UtcDay(u)
  BY <1>0 DEF UtcDay
<1>3. /\ Day * UtcDay(t) <= t
      /\ u < Day * UtcDay(u) + Day
  BY <1>0 DEF UtcDay
<1>4. UtcDay(u) <= UtcDay(t) => Day * UtcDay(u) <= Day * UtcDay(t)
  BY <1>0, <1>1
<1>5. Day * UtcDay(u) \in Nat /\ Day * UtcDay(t) \in Nat
  BY <1>0, <1>1
<1> QED
  <2> DEFINE x == Day * UtcDay(t)
             y == Day * UtcDay(u)
  <2> HIDE DEF x, y
  <2>1. UtcDay(u) <= UtcDay(t) => y <= x
    BY <1>4 DEF x, y
  <2>2. x <= t /\ u < y + Day /\ x \in Nat /\ y \in Nat
    BY <1>3, <1>5 DEF x, y
  <2>3. UtcDay(u) <= UtcDay(t) => u - t < Day
    BY <1>0, <2>1, <2>2
  <2> QED
    BY <1>1, <1>2, <2>3

(* Pruning at n spares the entries of its own day, and of any later one.   *)
LEMMA DayIsKept ==
  ASSUME NEW n \in Nat, NEW r \in SendRecords, UtcDay(r.at) >= UtcDay(n)
  PROVE  r \in DayTo(n)
<1>1. r.at \in Nat
  BY DEF SendRecords, Times
<1> QED
  BY <1>1, DayOrder DEF DayTo

(* The filter of a day keeps what later days count.                        *)
LEMMA DayCounted ==
  ASSUME NEW l \in Seq(SendRecords), NEW n \in Nat, NEW T \in SUBSET SinceDay(UtcDay(n))
  PROVE  Count(Kept(l, DayTo(n)), T) = Count(l, T)
<1>1. DayTo(n) \cap T = T
  BY DayIsKept DEF SinceDay
<1> QED
  BY <1>1, CountKept

(* The filter of a day keeps the mailboxes seen since.                     *)
LEMMA DaySeen ==
  ASSUME NEW l \in Seq(SendRecords), NEW n \in Nat, NEW c, NEW d \in Nat, d >= UtcDay(n)
  PROVE  Seen(Kept(l, DayTo(n)), c, d) = Seen(l, c, d)
<1> PICK k : k = Kept(l, DayTo(n))
  OBVIOUS
<1>1. k \in Seq(SendRecords)
  BY KeptEnumerates
<1>2. \A i \in 1 .. Len(k) : \E j \in 1 .. Len(l) : k[i] = l[j]
  BY KeptFrom
<1>3. \A j \in 1 .. Len(l) : l[j] \in DayTo(n) => \E i \in 1 .. Len(k) : k[i] = l[j]
  BY KeptHas
<1>4. \A j \in 1 .. Len(l) : l[j] \in SendRecords
  OBVIOUS
<1>5. \A j \in 1 .. Len(l) : UtcDay(l[j].at) = d => \E i \in 1 .. Len(k) : k[i] = l[j]
  BY <1>3, <1>4, DayIsKept
<1>6. DOMAIN k = 1 .. Len(k) /\ DOMAIN l = 1 .. Len(l)
  BY <1>1
<1>7. Seen(k, c, d) \subseteq Seen(l, c, d)
  BY <1>2, <1>6 DEF Seen
<1>8. Seen(l, c, d) \subseteq Seen(k, c, d)
  BY <1>5, <1>6 DEF Seen
<1> QED
  BY <1>7, <1>8

(* What an entry adds to what its client has named.                        *)
LEMMA SeenAppended ==
  ASSUME NEW l \in Seq(SendRecords), NEW r \in SendRecords, NEW c, NEW d
  PROVE  Seen(Append(l, r), c, d) =
           IF r.by = c /\ UtcDay(r.at) = d THEN Seen(l, c, d) \cup {r.mail} ELSE Seen(l, c, d)
<1> PICK k : k = Append(l, r)
  OBVIOUS
<1>1. /\ Len(l) \in Nat
      /\ DOMAIN l = 1 .. Len(l) /\ DOMAIN k = 1 .. Len(l) + 1
      /\ k[Len(l) + 1] = r
      /\ \A i \in 1 .. Len(l) : k[i] = l[i]
  BY AppendProperties
<1>2. \A i \in DOMAIN k : i \in DOMAIN l \/ i = Len(l) + 1
  BY <1>1
<1>3. ASSUME NEW x \in Seen(l, c, d)
      PROVE  x \in Seen(k, c, d)
  <2>1. PICK i \in DOMAIN l : l[i].by = c /\ UtcDay(l[i].at) = d /\ x = l[i].mail
    BY DEF Seen
  <2>2. i \in DOMAIN k /\ k[i] = l[i]
    BY <1>1
  <2> QED
    BY <2>1, <2>2 DEF Seen
<1>4. r.by = c /\ UtcDay(r.at) = d => r.mail \in Seen(k, c, d)
  BY <1>1 DEF Seen
<1>5. ASSUME NEW x \in Seen(k, c, d), x \notin Seen(l, c, d)
      PROVE  r.by = c /\ UtcDay(r.at) = d /\ x = r.mail
  <2>1. PICK i \in DOMAIN k : k[i].by = c /\ UtcDay(k[i].at) = d /\ x = k[i].mail
    BY DEF Seen
  <2>2. i = Len(l) + 1
    BY <1>1, <1>2, <1>5, <2>1 DEF Seen
  <2> QED
    BY <1>1, <2>1, <2>2
<1> QED
  BY <1>3, <1>4, <1>5

(* What one more mail adds to a class of mails.                            *)
LEMMA MailAdds ==
  ASSUME NEW m \in [Secrets -> Mails \cup {None}], NEW n \in Secrets, m[n] = None,
         NEW a \in Mails, a # None, NEW T,
         NEW p, p[n] = a, \A s \in Secrets : s # n => p[s] = m[s]
  PROVE  /\ n \notin MailedIn(m, T)
         /\ Entry(p, n) \in T => MailedIn(p, T) = MailedIn(m, T) \cup {n}
         /\ Entry(p, n) \notin T => MailedIn(p, T) = MailedIn(m, T)
<1>2. \A s \in Secrets : s # n => (s \in MailedIn(p, T) <=> s \in MailedIn(m, T))
  BY DEF MailedIn, Entry
<1>3. n \in MailedIn(p, T) <=> Entry(p, n) \in T
  BY DEF MailedIn
<1>4. n \notin MailedIn(m, T)
  BY DEF MailedIn
<1>5. MailedIn(p, T) \subseteq Secrets /\ MailedIn(m, T) \subseteq Secrets
  BY DEF MailedIn
<1>6. CASE Entry(p, n) \in T
  <2>1. MailedIn(p, T) = MailedIn(m, T) \cup {n}
    BY <1>2, <1>3, <1>5, <1>6
  <2> QED
    BY <1>4, <1>6, <2>1
<1>7. CASE Entry(p, n) \notin T
  <2>1. MailedIn(p, T) = MailedIn(m, T)
    <3>1. \A s \in Secrets : s \in MailedIn(p, T) <=> s \in MailedIn(m, T)
      BY <1>2, <1>3, <1>4, <1>7
    <3> QED
      BY <3>1, <1>5
  <2> QED
    BY <1>4, <1>7, <2>1
<1> QED
  BY <1>6, <1>7

(* The mails that went out are finitely many; those of today, and of any   *)
(* day to come, are entries of the send log, and so are the mailboxes they *)
(* went to; and no day, past ones included, has more than its limits.      *)
FinitelyMailed == IsFiniteSet({s \in Secrets : mail[s] # None})

Logged ==
  \A T \in SUBSET SinceDay(UtcDay(now)) : Cardinality(MailedIn(mail, T)) <= Count(sends, T)

Named ==
  \A c \in Clients : \A d \in Nat : d >= UtcDay(now) =>
    /\ IsFiniteSet(Seen(sends, c, d))
    /\ Cardinality(Seen(sends, c, d)) <= MaxDistinctDay
    /\ MailedTo(mail, OfDay(d) \cap From(c)) \subseteq Seen(sends, c, d)

Capped ==
  /\ \A d \in Nat : Cardinality(MailedIn(mail, OfDay(d))) <= MaxProcessDay
  /\ \A d \in Nat : \A e \in Emails :
       Cardinality(MailedIn(mail, OfDay(d) \cap To(e))) <= MaxEmailDay
  /\ \A d \in Nat : \A c \in Clients :
       Cardinality(MailedIn(mail, OfDay(d) \cap From(c))) <= MaxIpDay
  /\ \A d \in Nat : \A c \in Clients :
       Cardinality(MailedTo(mail, OfDay(d) \cap From(c))) <= MaxDistinctDay

MailInv == FinitelyMailed /\ Logged /\ Named /\ Capped

(* A request of a client for a mailbox, at now, sends at most one mail.    *)
New(e, c) == [mail |-> e, by |-> c, at |-> now]
AtMostOne(e, c) ==
  \/ UNCHANGED mail
  \/ \E n \in Secrets : /\ mail[n] = None /\ Mailbox(n) = e
                        /\ mail' = [mail EXCEPT ![n] = [at |-> now, by |-> c]]

(* A request mails one secret at most.                                     *)
LEMMA OneMore ==
  ASSUME LimitInv, FinitelyMailed, NEW e \in Emails, NEW c \in Clients,
         AtMostOne(e, c), NEW T
  PROVE  /\ IsFiniteSet(MailedIn(mail, T)) /\ IsFiniteSet(MailedIn(mail', T))
         /\ Cardinality(MailedIn(mail, T)) \in Nat /\ Cardinality(MailedIn(mail', T)) \in Nat
         /\ Cardinality(MailedIn(mail', T)) <= Cardinality(MailedIn(mail, T)) + 1
         /\ MailedTo(mail', T) \subseteq MailedTo(mail, T) \cup {e}
         /\ New(e, c) \notin T => MailedIn(mail', T) = MailedIn(mail, T)
         /\ FinitelyMailed'
<1> DEFINE A == MailedIn(mail, T)
<1>1. now \in Times /\ mail \in [Secrets -> Mails \cup {None}]
  BY DEF LimitInv, SecretInv, SecretTypes
<1>2. IsFiniteSet(A) /\ Cardinality(A) \in Nat
  <2>1. A \subseteq {s \in Secrets : mail[s] # None}
    BY DEF MailedIn
  <2> QED
    BY <2>1, FS_Subset, FS_CardinalityType DEF FinitelyMailed
<1>3. CASE UNCHANGED mail
  BY <1>2, <1>3 DEF FinitelyMailed
<1>4. CASE ~UNCHANGED mail
  <2>1. PICK n \in Secrets : /\ mail[n] = None /\ Mailbox(n) = e
                             /\ mail' = [mail EXCEPT ![n] = [at |-> now, by |-> c]]
    BY <1>4 DEF AtMostOne
  <2> PICK a : a = [at |-> now, by |-> c]
    OBVIOUS
  <2>2. a \in Mails /\ a # None /\ a.at = now /\ a.by = c
    BY <1>1, AuthAssumption DEF Mails, Times
  <2>3. /\ n \notin A
        /\ MailedIn(mail', T) = IF New(e, c) \in T THEN A \cup {n} ELSE A
    <3> PICK p : p = mail'
      OBVIOUS
    <3>1. /\ mail[n] = None /\ p[n] = a
          /\ \A s \in Secrets : s # n => p[s] = mail[s]
      BY <1>1, <2>1
    <3>2. Entry(p, n) = New(e, c)
      BY <1>1, <2>1, <2>2, <3>1 DEF Entry, New
    <3>3. /\ n \notin MailedIn(mail, T)
          /\ Entry(p, n) \in T => MailedIn(p, T) = MailedIn(mail, T) \cup {n}
          /\ Entry(p, n) \notin T => MailedIn(p, T) = MailedIn(mail, T)
      BY <1>1, <2>2, <3>1, MailAdds
    <3> QED
      BY <3>2, <3>3
  <2>4. /\ IsFiniteSet(A \cup {n})
        /\ Cardinality(A \cup {n}) = Cardinality(A) + 1
    BY <1>2, <2>3, FS_AddElement
  <2>5. FinitelyMailed'
    <3>1. {s \in Secrets : mail'[s] # None} = {s \in Secrets : mail[s] # None} \cup {n}
      BY <1>1, <2>1, <2>2
    <3>2. IsFiniteSet({s \in Secrets : mail[s] # None} \cup {n})
      BY FS_AddElement DEF FinitelyMailed
    <3> QED
      BY <3>1, <3>2 DEF FinitelyMailed
  <2>6. MailedTo(mail', T) \subseteq MailedTo(mail, T) \cup {e}
    BY <2>1, <2>3 DEF MailedTo
  <2> QED
    BY <1>2, <2>3, <2>4, <2>5, <2>6
<1> QED
  BY <1>3, <1>4

(* The entry a request leaves in the send log.                             *)
LEMMA SendLogged ==
  ASSUME LimitInv, NEW e \in Emails, NEW c \in Clients, RecordSend(e, c)
  PROVE  /\ New(e, c) \in SendRecords
         /\ \A T \in SUBSET SinceDay(UtcDay(now)) :
              Count(sends', T) = Count(sends, T) + (IF New(e, c) \in T THEN 1 ELSE 0)
         /\ \A k, d : d \in Nat /\ d >= UtcDay(now) =>
              Seen(sends', k, d) = IF k = c /\ d = UtcDay(now)
                                   THEN Seen(sends, k, d) \cup {e} ELSE Seen(sends, k, d)
<1>1. now \in Times /\ now \in Nat /\ sends \in Seq(SendRecords)
  BY DEF LimitInv, LimitTypes, SecretInv, SecretTypes, Times
<1>2. New(e, c) \in SendRecords
  BY <1>1 DEF New, SendRecords
<1> PICK l : l = Kept(sends, DayTo(now))
  OBVIOUS
<1>3. sends' = Append(l, New(e, c))
  BY DEF RecordSend, SendsIn, DayTo, New
<1>4. /\ l \in Seq(SendRecords)
      /\ \A T \in SUBSET SinceDay(UtcDay(now)) : Count(l, T) = Count(sends, T)
      /\ \A k : \A d \in Nat : d >= UtcDay(now) => Seen(l, k, d) = Seen(sends, k, d)
  BY <1>1, KeptEnumerates, DayCounted, DaySeen
<1>5. \A T : Count(sends', T) = Count(l, T) + (IF New(e, c) \in T THEN 1 ELSE 0)
  BY <1>2, <1>3, <1>4, CountAppend
<1>6. \A k, d : Seen(sends', k, d) =
        IF New(e, c).by = k /\ UtcDay(New(e, c).at) = d
        THEN Seen(l, k, d) \cup {New(e, c).mail} ELSE Seen(l, k, d)
  BY <1>2, <1>3, <1>4, SeenAppended
<1>7. New(e, c).by = c /\ New(e, c).at = now /\ New(e, c).mail = e
  BY DEF New
<1> QED
  BY <1>2, <1>4, <1>5, <1>6, <1>7

(* What a send that is allowed finds in the log.                           *)
LEMMA SendHasRoom ==
  ASSUME LimitInv, NEW e \in Emails, NEW c \in Clients, SendAllowed(e, c)
  PROVE  LET T == OfDay(UtcDay(now))
         IN  /\ Count(sends, T) < MaxProcessDay
             /\ Count(sends, T \cap To(e)) < MaxEmailDay
             /\ Count(sends, T \cap From(c)) < MaxIpDay
<1> DEFINE T == OfDay(UtcDay(now))
           l == Kept(sends, DayTo(now))
<1>1. now \in Nat /\ sends \in Seq(SendRecords)
  BY DEF LimitInv, LimitTypes, SecretInv, SecretTypes, Times
<1>2. \A r \in SendRecords : r \in T => r \in DayTo(now)
  BY <1>1, DayOrder DEF OfDay, DayTo, SendRecords, Times
<1>3. l \in Seq(SendRecords) /\ Len(l) = Count(sends, DayTo(now))
  BY <1>1, KeptLength
<1>4. \A U : Len(Kept(l, U)) = Count(sends, DayTo(now) \cap U)
  BY <1>1, <1>3, KeptLength, CountKept
<1>5. SendsIn(Day) = l
  BY DEF SendsIn, DayTo
<1> HIDE DEF l
<1>6. /\ Len(l) < MaxProcessDay
      /\ Len(Kept(l, To(e))) < MaxEmailDay
      /\ Len(Kept(l, From(c))) < MaxIpDay
  BY <1>5 DEF SendAllowed
<1>7. /\ Count(sends, T) <= Count(sends, DayTo(now))
      /\ Count(sends, T \cap To(e)) <= Count(sends, DayTo(now) \cap To(e))
      /\ Count(sends, T \cap From(c)) <= Count(sends, DayTo(now) \cap From(c))
  <2> HIDE DEF T
  <2> QED
    BY <1>1, <1>2, CountWithin
<1>8. \A U : Count(sends, U) \in Nat
  BY <1>1, PlacesFinite
<1>9. {MaxProcessDay, MaxEmailDay, MaxIpDay} \subseteq Nat
  BY AuthAssumption
<1> HIDE DEF T
<1>10. /\ Count(sends, T) < MaxProcessDay
       /\ Count(sends, T \cap To(e)) < MaxEmailDay
       /\ Count(sends, T \cap From(c)) < MaxIpDay
  BY <1>3, <1>4, <1>6, <1>7, <1>8, <1>9
<1> QED
  BY <1>10 DEF T

(* A request that the limits let through.                                  *)
LEMMA RequestKeepsMailInv ==
  ASSUME LimitInv, MailInv, NEW e \in Emails, NEW c \in Clients,
         SendAllowed(e, c), RecordSend(e, c), AtMostOne(e, c),
         now' \in Times, now <= now'
  PROVE  MailInv'
<1> DEFINE today == UtcDay(now)
           new == New(e, c)
<1>0. now \in Nat /\ now' \in Nat /\ sends \in Seq(SendRecords) /\ today \in Nat
  BY DayOrder DEF LimitInv, LimitTypes, SecretInv, SecretTypes, Times
<1>1. today <= UtcDay(now')
  <2> PICK n \in Nat : n = now'
    BY <1>0
  <2> QED
    BY <1>0, DayOrder
<1>2. /\ new \in SendRecords
      /\ \A T \in SUBSET SinceDay(today) :
           Count(sends', T) = Count(sends, T) + (IF new \in T THEN 1 ELSE 0)
      /\ \A k, d : d \in Nat /\ d >= today =>
           Seen(sends', k, d) = IF k = c /\ d = today
                                THEN Seen(sends, k, d) \cup {e} ELSE Seen(sends, k, d)
  BY SendLogged
<1>3. new.mail = e /\ new.by = c /\ new.at = now
  BY DEF New
<1>4. \A d : \A T : new \in OfDay(d) \cap T => d = today
  BY <1>3 DEF OfDay
<1>5. OfDay(today) \in SUBSET SinceDay(today)
  BY <1>0, DayOrder DEF OfDay, SinceDay
<1>6. {MaxProcessDay, MaxEmailDay, MaxIpDay, MaxDistinctDay} \subseteq Nat
  BY AuthAssumption
<1>7. \A T \in SUBSET SinceDay(today) : Count(sends, T) \in Nat
  BY <1>0, PlacesFinite
<1> HIDE DEF today, new
<1>8. FinitelyMailed'
  BY OneMore DEF MailInv
<1>9. \A T \in SUBSET SinceDay(today) : Cardinality(MailedIn(mail', T)) <= Count(sends', T)
  <2> TAKE T \in SUBSET SinceDay(today)
  <2>1. /\ Cardinality(MailedIn(mail, T)) \in Nat
        /\ Cardinality(MailedIn(mail', T)) \in Nat
        /\ Cardinality(MailedIn(mail', T)) <= Cardinality(MailedIn(mail, T)) + 1
        /\ new \notin T => MailedIn(mail', T) = MailedIn(mail, T)
    BY OneMore DEF MailInv, new
  <2>2. Cardinality(MailedIn(mail, T)) <= Count(sends, T)
    BY DEF MailInv, Logged, today
  <2>3. CASE new \in T
    BY <1>2, <1>7, <2>1, <2>2, <2>3
  <2>4. CASE new \notin T
    BY <1>2, <1>7, <2>1, <2>2, <2>4
  <2> QED
    BY <2>3, <2>4
<1>10. Logged'
  <2>1. ASSUME NEW T \in SUBSET SinceDay(UtcDay(now'))
        PROVE  T \in SUBSET SinceDay(today)
    <3> PICK y \in Nat : y = UtcDay(now')
      BY <1>0, DayOrder
    <3>1. \A r \in SendRecords : UtcDay(r.at) \in Nat
      BY DayOrder DEF SendRecords, Times
    <3>2. \A r \in SendRecords : UtcDay(r.at) >= y => UtcDay(r.at) >= today
      BY <1>0, <1>1, <3>1
    <3> QED
      BY <3>2 DEF SinceDay
  <2> QED
    BY <1>9, <2>1 DEF Logged, SinceDay, UtcDay
<1>11. ASSUME NEW k \in Clients, NEW d \in Nat, d >= today
       PROVE  /\ IsFiniteSet(Seen(sends', k, d))
              /\ Cardinality(Seen(sends', k, d)) <= MaxDistinctDay
              /\ MailedTo(mail', OfDay(d) \cap From(k)) \subseteq Seen(sends', k, d)
  <2> DEFINE A == Seen(sends, k, d)
  <2>1. /\ IsFiniteSet(A)
        /\ Cardinality(A) <= MaxDistinctDay
        /\ MailedTo(mail, OfDay(d) \cap From(k)) \subseteq A
    BY <1>11 DEF MailInv, Named, today
  <2>2. Seen(sends', k, d) = IF k = c /\ d = today THEN A \cup {e} ELSE A
    BY <1>2, <1>11
  <2>3. CASE k = c /\ d = today
    <3>1. e \in A \/ Cardinality(A) < MaxDistinctDay
      BY <2>3 DEF SendAllowed, SeenToday, Seen, today
    <3>2. /\ IsFiniteSet(A \cup {e})
          /\ Cardinality(A) \in Nat
          /\ e \notin A => Cardinality(A \cup {e}) = Cardinality(A) + 1
          /\ e \in A => A \cup {e} = A
      BY <2>1, FS_AddElement, FS_CardinalityType
    <3>3. MailedTo(mail', OfDay(d) \cap From(k)) \subseteq A \cup {e}
      BY <2>1, OneMore DEF MailInv
    <3>4. Cardinality(A \cup {e}) <= MaxDistinctDay
      BY <1>6, <2>1, <3>1, <3>2
    <3> QED
      BY <2>2, <2>3, <3>2, <3>3, <3>4
  <2>4. CASE ~(k = c /\ d = today)
    <3>1. new \notin OfDay(d) \cap From(k)
      BY <1>3, <1>4, <2>4 DEF From
    <3>2. MailedTo(mail', OfDay(d) \cap From(k)) = MailedTo(mail, OfDay(d) \cap From(k))
      BY <3>1, OneMore DEF MailInv, new, MailedTo
    <3> QED
      BY <2>1, <2>2, <2>4, <3>2
  <2> QED
    BY <2>3, <2>4
<1>12. Named'
  <2> SUFFICES ASSUME NEW k \in Clients, NEW d \in Nat, d >= UtcDay(now')
               PROVE  /\ IsFiniteSet(Seen(sends', k, d))
                      /\ Cardinality(Seen(sends', k, d)) <= MaxDistinctDay
                      /\ MailedTo(mail', OfDay(d) \cap From(k)) \subseteq Seen(sends', k, d)
    BY DEF Named, UtcDay, Seen, MailedTo, MailedIn, Entry, OfDay, From
  <2>1. d >= today
    <3> PICK y \in Nat : y = UtcDay(now')
      BY <1>0, DayOrder
    <3> QED
      BY <1>0, <1>1
  <2> QED
    BY <1>11, <2>1
<1>13. ASSUME NEW T, NEW d \in Nat, NEW n \in Nat,
              d = today => Count(sends, OfDay(today) \cap T) < n \/ new \notin T,
              Cardinality(MailedIn(mail, OfDay(d) \cap T)) <= n
       PROVE  Cardinality(MailedIn(mail', OfDay(d) \cap T)) <= n
  <2> DEFINE U == OfDay(d) \cap T
  <2>1. /\ Cardinality(MailedIn(mail, U)) \in Nat
        /\ Cardinality(MailedIn(mail', U)) \in Nat
        /\ Cardinality(MailedIn(mail', U)) <= Cardinality(MailedIn(mail, U)) + 1
        /\ new \notin U => MailedIn(mail', U) = MailedIn(mail, U)
    BY OneMore DEF MailInv, new
  <2>2. CASE new \notin U
    BY <1>13, <2>1, <2>2
  <2>3. CASE new \in U
    <3>1. d = today /\ Count(sends, U) < n
      BY <1>4, <1>13, <2>3
    <3>2. U \in SUBSET SinceDay(today)
      BY <1>5, <3>1
    <3>3. Cardinality(MailedIn(mail, U)) <= Count(sends, U) /\ Count(sends, U) \in Nat
      BY <1>7, <3>2 DEF MailInv, Logged, today
    <3> HIDE DEF U
    <3>4. Cardinality(MailedIn(mail', U)) <= n
      BY <2>1, <3>1, <3>3
    <3> QED
      BY <3>4 DEF U
  <2> QED
    BY <2>2, <2>3
<1>14. /\ Count(sends, OfDay(today)) < MaxProcessDay
       /\ Count(sends, OfDay(today) \cap To(e)) < MaxEmailDay
       /\ Count(sends, OfDay(today) \cap From(c)) < MaxIpDay
  BY SendHasRoom DEF today
<1>15. ASSUME NEW d \in Nat
       PROVE  Cardinality(MailedIn(mail', OfDay(d))) <= MaxProcessDay
  <2>1. OfDay(d) \cap SendRecords = OfDay(d) /\ OfDay(today) \cap SendRecords = OfDay(today)
    BY DEF OfDay
  <2>2. Cardinality(MailedIn(mail, OfDay(d))) <= MaxProcessDay
    BY DEF MailInv, Capped
  <2> QED
    BY <1>6, <1>13, <1>14, <2>1, <2>2
<1>16. ASSUME NEW d \in Nat, NEW f \in Emails
       PROVE  Cardinality(MailedIn(mail', OfDay(d) \cap To(f))) <= MaxEmailDay
  <2>1. f = e \/ new \notin To(f)
    BY <1>3 DEF To
  <2>2. Cardinality(MailedIn(mail, OfDay(d) \cap To(f))) <= MaxEmailDay
    BY DEF MailInv, Capped
  <2> QED
    BY <1>6, <1>13, <1>14, <2>1, <2>2
<1>17. ASSUME NEW d \in Nat, NEW k \in Clients
       PROVE  Cardinality(MailedIn(mail', OfDay(d) \cap From(k))) <= MaxIpDay
  <2>1. k = c \/ new \notin From(k)
    BY <1>3 DEF From
  <2>2. Cardinality(MailedIn(mail, OfDay(d) \cap From(k))) <= MaxIpDay
    BY DEF MailInv, Capped
  <2> QED
    BY <1>6, <1>13, <1>14, <2>1, <2>2
<1>18. ASSUME NEW d \in Nat, NEW k \in Clients
       PROVE  Cardinality(MailedTo(mail', OfDay(d) \cap From(k))) <= MaxDistinctDay
  <2> DEFINE B == MailedTo(mail', OfDay(d) \cap From(k))
  <2>1. CASE d >= today
    <3>1. /\ IsFiniteSet(Seen(sends', k, d))
          /\ Cardinality(Seen(sends', k, d)) <= MaxDistinctDay
          /\ B \subseteq Seen(sends', k, d)
      BY <1>11, <2>1
    <3>2. /\ Cardinality(B) <= Cardinality(Seen(sends', k, d))
          /\ Cardinality(B) \in Nat /\ Cardinality(Seen(sends', k, d)) \in Nat
      BY <3>1, FS_Subset, FS_CardinalityType
    <3> HIDE DEF B
    <3>3. Cardinality(B) <= MaxDistinctDay
      BY <1>6, <3>1, <3>2
    <3> QED
      BY <3>3 DEF B
  <2>2. CASE ~(d >= today)
    <3>1. new \notin OfDay(d) \cap From(k)
      BY <1>0, <1>4, <2>2
    <3>2. B = MailedTo(mail, OfDay(d) \cap From(k))
      BY <3>1, OneMore DEF MailInv, new, MailedTo
    <3> QED
      BY <3>2 DEF MailInv, Capped
  <2> QED
    BY <2>1, <2>2
<1>19. Capped'
  BY <1>15, <1>16, <1>17, <1>18 DEF Capped, MailedIn, MailedTo, Entry, OfDay, To, From, UtcDay
<1> QED
  BY <1>8, <1>10, <1>12, <1>19 DEF MailInv

(* The sends that a tick forgets are of no day that still counts.          *)
LEMMA TickKeepsMailInv ==
  ASSUME LimitInv, MailInv, Tick
  PROVE  MailInv'
<1>0. /\ now \in Nat /\ now' \in Nat /\ now <= now' /\ sends \in Seq(SendRecords)
      /\ UNCHANGED mail /\ sends' = Kept(sends, DayTo(now'))
  BY DEF LimitInv, LimitTypes, SecretInv, SecretTypes, Times, Tick, mailed, DayTo
<1> PICK n \in Nat : n = now'
  BY <1>0
<1>1. UtcDay(now) <= UtcDay(n) /\ UtcDay(now) \in Nat /\ UtcDay(n) \in Nat
  BY <1>0, DayOrder
<1>2. FinitelyMailed'
  BY <1>0 DEF MailInv, FinitelyMailed
<1>3. Logged'
  <2> SUFFICES ASSUME NEW T \in SUBSET SinceDay(UtcDay(n))
               PROVE  Cardinality(MailedIn(mail, T)) <= Count(sends', T)
    BY <1>0 DEF Logged, SinceDay, UtcDay
  <2>1. \A r \in SendRecords : UtcDay(r.at) \in Nat
    BY DayOrder DEF SendRecords, Times
  <2>2. T \in SUBSET SinceDay(UtcDay(now))
    BY <1>1, <2>1 DEF SinceDay
  <2>3. Count(sends', T) = Count(sends, T)
    BY <1>0, DayCounted
  <2> QED
    BY <2>2, <2>3 DEF MailInv, Logged
<1>4. Named'
  <2> SUFFICES ASSUME NEW k \in Clients, NEW d \in Nat, d >= UtcDay(n)
               PROVE  /\ IsFiniteSet(Seen(sends', k, d))
                      /\ Cardinality(Seen(sends', k, d)) <= MaxDistinctDay
                      /\ MailedTo(mail, OfDay(d) \cap From(k)) \subseteq Seen(sends', k, d)
    BY ZenonT(60), <1>0 DEF Named, UtcDay, Seen, MailedTo, MailedIn, Entry, OfDay, From
  <2>1. d >= UtcDay(now)
    BY <1>1
  <2>2. Seen(sends', k, d) = Seen(sends, k, d)
    BY <1>0, DaySeen
  <2> QED
    BY <2>1, <2>2 DEF MailInv, Named
<1>5. Capped'
  BY ZenonT(60), <1>0 DEF MailInv, Capped, MailedIn, MailedTo, Entry, OfDay, To, From, UtcDay
<1> QED
  BY <1>2, <1>3, <1>4, <1>5 DEF MailInv

LEMMA NextKeepsMailInv ==
  ASSUME LimitInv, MailInv, [Next]_vars
  PROVE  MailInv'
<1> USE DEF LimitInv
<1>k. ASSUME UNCHANGED <<now, sends, mail>> PROVE MailInv'
  <2>1. FinitelyMailed'
    BY <1>k DEF MailInv, FinitelyMailed
  <2>2. Logged'
    BY <1>k DEF MailInv, Logged, SinceDay, UtcDay
  <2>3. Named'
    <3>1. now' = now /\ sends' = sends /\ mail' = mail
      BY <1>k
    <3> SUFFICES ASSUME NEW c \in Clients, NEW d \in Nat, d >= UtcDay(now')
                 PROVE  /\ IsFiniteSet(Seen(sends', c, d))
                        /\ Cardinality(Seen(sends', c, d)) <= MaxDistinctDay
                        /\ MailedTo(mail', OfDay(d) \cap From(c)) \subseteq Seen(sends', c, d)
      BY DEF Named, UtcDay, Seen, MailedTo, MailedIn, Entry, OfDay, From
    <3>2. d >= UtcDay(now)
      BY <3>1
    <3> QED
      BY <3>1, <3>2 DEF MailInv, Named
  <2>4. Capped'
    BY <1>k DEF MailInv, Capped
  <2> QED
    BY <2>1, <2>2, <2>3, <2>4 DEF MailInv
<1>1. CASE Refusal
  BY <1>1, <1>k DEF Refusal, limitVars
<1>2. ASSUME NEW e \in Emails, NEW c \in Clients,
             RequestUnlisted(e, c) \/ RequestSent(e, c) \/ RequestSendFails(e, c)
      PROVE  MailInv'
  <2>1. SendAllowed(e, c) /\ RecordSend(e, c)
    BY <1>2 DEF RequestUnlisted, RequestSent, RequestSendFails, TrySend
  <2>2. now' \in Times /\ now <= now'
    <3>1. now \in Times /\ now \in Nat
      BY DEF SecretInv, SecretTypes, Times
    <3> QED
      BY <1>2, <3>1, SendFindsNoGood DEF RequestUnlisted, RequestSent, RequestSendFails
  <2>3. AtMostOne(e, c)
    <3>1. CASE RequestUnlisted(e, c) \/ RequestSendFails(e, c)
      BY <3>1 DEF RequestUnlisted, RequestSendFails, mailed, AtMostOne
    <3>2. CASE RequestSent(e, c)
      <4>1. issued[e] \in Nat /\ issued[e] + 1 \in 1 .. MaxIssued
        BY <3>2, SendFindsNoGood, AuthAssumption DEF RequestSent, SecretInv, SecretTypes
      <4> PICK n \in Secrets : n = <<e, issued[e] + 1>>
        BY <4>1, SecretPairs
      <4>2. Mailbox(n) = e /\ n[2] = issued[e] + 1
        BY DEF Mailbox
      <4>3. mail[n] = None
        BY <4>1, <4>2 DEF SecretInv, UnissuedInv
      <4>4. mail' = [mail EXCEPT ![n] = [at |-> now, by |-> c]]
        BY <3>2 DEF RequestSent
      <4> QED
        BY <4>2, <4>3, <4>4 DEF AtMostOne
    <3> QED
      BY <1>2, <3>1, <3>2
  <2> QED
    BY <2>1, <2>2, <2>3, RequestKeepsMailInv
<1>3. ASSUME NEW e \in Emails, NEW c \in Clients, NEW g \in 0 .. MaxIssued,
             VerifyRight(e, g, c) \/ VerifyWrong(e, g, c)
      PROVE  MailInv'
  BY <1>3, <1>k DEF VerifyRight, VerifyWrong, SignIn, mailed
<1>4. UNCHANGED <<now, sends, mail>> => MailInv'
  BY <1>k
<1>5. ASSUME NEW c \in Clients, ForeignPost(c) PROVE MailInv'
  BY <1>5, <1>k DEF ForeignPost, mailed
<1>6. CASE Tick
  BY <1>6, TickKeepsMailInv
<1> QED
  BY <1>1, <1>2, <1>3, <1>4, <1>5, <1>6, LimitSteps

LEMMA InitMailInv == Init => MailInv
<1> SUFFICES ASSUME Init PROVE MailInv
  OBVIOUS
<1>1. sends = <<>> /\ \A s \in Secrets : mail[s] = None
  BY DEF Init
<1>2. \A T : MailedIn(mail, T) = {} /\ MailedTo(mail, T) = {}
  BY <1>1 DEF MailedIn, MailedTo
<1>3. \A c, d : Seen(sends, c, d) = {}
  BY <1>1 DEF Seen
<1>4. IsFiniteSet({}) /\ Cardinality({}) = 0
  BY FS_EmptySet
<1>5. FinitelyMailed
  <2>1. {s \in Secrets : mail[s] # None} = {}
    BY <1>1
  <2> QED
    BY <1>4, <2>1 DEF FinitelyMailed
<1>6. Logged
  <2>1. \A T : Cardinality(MailedIn(mail, T)) = 0 /\ Count(sends, T) = 0
    BY <1>1, <1>2, <1>4, CountEmpty
  <2> QED
    BY <2>1 DEF Logged
<1>7. Named
  BY <1>2, <1>3, <1>4, AuthAssumption DEF Named
<1>8. Capped
  BY <1>2, <1>4, AuthAssumption DEF Capped
<1> QED
  BY <1>5, <1>6, <1>7, <1>8 DEF MailInv

(* However requests interleave with the clock, failing sends, and sends    *)
(* that last past midnight, no UTC day sees more mail than the limits of a *)
(* mailbox, a client, its distinct mailboxes and the process allow.        *)
THEOREM MailOfADay == Spec => []DailyMailBounded
<1>1. LimitInv /\ MailInv /\ [Next]_vars => MailInv'
  BY NextKeepsMailInv
<1>2. ASSUME LimitInv, MailInv PROVE DailyMailBounded
  <2> SUFFICES ASSUME NEW t \in Times
               PROVE  LET d == UtcDay(t)
                          mails == {s \in Secrets : mail[s] # None /\ UtcDay(mail[s].at) = d}
                      IN  /\ Cardinality(mails) <= MaxProcessDay
                          /\ \A e \in Emails :
                               Cardinality({s \in mails : Mailbox(s) = e}) <= MaxEmailDay
                          /\ \A c \in Clients :
                               LET mine == {s \in mails : mail[s].by = c}
                               IN  /\ Cardinality(mine) <= MaxIpDay
                                   /\ Cardinality({Mailbox(s) : s \in mine}) <= MaxDistinctDay
    BY ZenonT(60) DEF DailyMailBounded
  <2> DEFINE d == UtcDay(t)
             mails == {s \in Secrets : mail[s] # None /\ UtcDay(mail[s].at) = d}
             mine(c) == {s \in mails : mail[s].by = c}
  <2>1. d \in Nat
    BY DayOrder DEF Times
  <2>2. \A s \in Secrets : mail[s] # None =>
          /\ Entry(mail, s) \in SendRecords
          /\ Entry(mail, s).mail = Mailbox(s)
          /\ Entry(mail, s).by = mail[s].by
          /\ Entry(mail, s).at = mail[s].at
    <3> TAKE s \in Secrets
    <3> HAVE mail[s] # None
    <3>1. mail[s] \in Mails /\ Mailbox(s) \in Emails
      BY <1>2, SecretPairs DEF LimitInv, SecretInv, SecretTypes
    <3> QED
      BY <3>1 DEF Entry, SendRecords, Mails
  <2>3. mails = MailedIn(mail, OfDay(d))
    BY <2>2 DEF MailedIn, OfDay
  <2>4. \A e \in Emails : {s \in mails : Mailbox(s) = e} = MailedIn(mail, OfDay(d) \cap To(e))
    BY <2>2 DEF MailedIn, OfDay, To
  <2>5. \A c \in Clients : mine(c) = MailedIn(mail, OfDay(d) \cap From(c))
    BY <2>2 DEF MailedIn, OfDay, From
  <2>6. \A c \in Clients : {Mailbox(s) : s \in mine(c)} = MailedTo(mail, OfDay(d) \cap From(c))
    BY <2>5 DEF MailedTo
  <2> HIDE DEF d
  <2>7. /\ Cardinality(mails) <= MaxProcessDay
        /\ \A e \in Emails : Cardinality({s \in mails : Mailbox(s) = e}) <= MaxEmailDay
    BY <1>2, <2>1, <2>3, <2>4 DEF MailInv, Capped
  <2>8. \A c \in Clients : /\ Cardinality(mine(c)) <= MaxIpDay
                           /\ Cardinality({Mailbox(s) : s \in mine(c)}) <= MaxDistinctDay
    BY <1>2, <2>1, <2>5, <2>6 DEF MailInv, Capped
  <2> QED
    BY <2>7, <2>8 DEF d
<1> QED
  BY <1>1, <1>2, InitMailInv, AlwaysLimitInv, PTL DEF Spec
=============================================================================
