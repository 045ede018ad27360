------------------------------- MODULE AuthOtp -------------------------------
(***************************************************************************)
(* The mail sign-in (auth/service.py, driven by auth/routes.py): one-time  *)
(* secrets, each a code and, with a public origin, a login link; the limits *)
(* on sends and verifies; and the login-link hops of a browser.            *)
(*                                                                         *)
(* AuthService does each operation under one lock, held while the mail is  *)
(* sent, so an operation is one action; a GET of /auth/link takes the lock *)
(* three times, so it is three.  A client is a browser and its address.  A *)
(* secret is the mailbox and the number of its issue: what it is compared  *)
(* with (code, token, intent nonce) is that pair.                          *)
(***************************************************************************)
EXTENDS Lists, FiniteSets

CONSTANTS
  Emails,        \* normalized mailboxes
  Allowed,       \* those on the allowlist, mail being configured
  Clients,
  None,          \* no cookie, no message, or a token nobody issued
  LinkKey,       \* the throttle key of an unknown token, "link"
  PublicOrigin,  \* whether messages carry a login link
  OtpTtl, MinGap, Minute, Hour, Day, Cooldown,
  MaxMails,      \* the longest a send holds the lock
  MaxFailsOtp, MaxFailsHour,
  MaxEmailMinute, MaxEmailDay, MaxIpDay, MaxDistinctDay, MaxProcessDay,
  MaxIssued,     \* bound: codes generated for one mailbox
  MaxNoted,      \* bound: failures listed for one client
  MaxTime        \* bound: last instant

ASSUME AuthAssumption ==
  /\ Allowed \subseteq Emails
  /\ LinkKey \notin Emails
  /\ PublicOrigin \in BOOLEAN
  /\ {OtpTtl, MaxFailsOtp, Day} \subseteq Nat \ {0}
  /\ {MinGap, Minute, Hour, Cooldown, MaxMails, MaxFailsHour, MaxEmailMinute,
      MaxEmailDay, MaxIpDay, MaxDistinctDay, MaxProcessDay, MaxIssued,
      MaxNoted, MaxTime} \subseteq Nat
  /\ None \notin Emails \X (1 .. MaxIssued)
  /\ None \notin [at : 0 .. MaxTime, by : Clients]
  /\ MinGap <= MaxTime

Secrets == Emails \X (1 .. MaxIssued)
Mailbox(s) == s[1]
Times == 0 .. MaxTime
Mails == [at : Times, by : Clients]
SendRecords == [mail : Emails, by : Clients, at : Times]

VARIABLES
  now,
  live,        \* _otps: the issue held for each mailbox, 0 for none
  expires,     \* its fields, kept as history once it is dropped
  fails,
  linkIndex,   \* _link_index: digests of tokens handed out
  sends,       \* the send log behind the per-mailbox, -ip and -process lists
  verifyFails, \* _verify_fails_ip
  verifyLast,  \* _verify_last_email
  lockout,     \* _ip_lockout
  intent,      \* each browser's intent cookie
  visit,       \* a GET of /auth/link between two of its lock acquisitions
  issued,      \* codes generated for each mailbox (history)
  mail,        \* when a secret was mailed, and on whose request (history)
  grants,      \* sessions each secret has opened (history)
  guesses,     \* wrong codes compared with it (history)
  answered,    \* instants of each client's failed verifies (history)
  compared     \* last time a mailbox's secret was compared or used (history)

otpVars == <<live, expires, fails, linkIndex>>
limitVars == <<sends, verifyFails, verifyLast, lockout>>
cookies == <<intent, visit>>
mailed == <<issued, mail>>
outcomes == <<grants, guesses, answered, compared>>
vars == <<now, otpVars, limitVars, cookies, mailed, outcomes>>

Visits == [token : Secrets, intent : Secrets \cup {None}, matched : BOOLEAN]

SecretTypes ==
  /\ now \in Times
  /\ live \in [Emails -> 0 .. MaxIssued]
  /\ expires \in [Secrets -> Nat]
  /\ fails \in [Secrets -> 0 .. MaxFailsOtp]
  /\ linkIndex \subseteq Secrets
  /\ issued \in [Emails -> 0 .. MaxIssued]
  /\ mail \in [Secrets -> Mails \cup {None}]
  /\ grants \in [Secrets -> Nat]
  /\ guesses \in [Secrets -> Nat]

CookieTypes ==
  /\ intent \in [Clients -> Secrets \cup {None}]
  /\ visit \in [Clients -> Visits \cup {None}]

LimitTypes ==
  /\ sends \in Seq(SendRecords)
  /\ verifyFails \in [Clients -> Seq(Times)]
  /\ verifyLast \in [Emails \cup {LinkKey} -> Times]
  /\ lockout \in [Clients -> Nat]
  /\ answered \in [Clients -> Seq(Times)]
  /\ compared \in [Emails -> Times]

TypeOK == SecretTypes /\ CookieTypes /\ LimitTypes

(* The clock is far from zero, where no list has an entry.                 *)
Init ==
  /\ now = MinGap
  /\ live = [e \in Emails |-> 0]
  /\ expires = [s \in Secrets |-> 0]
  /\ fails = [s \in Secrets |-> 0]
  /\ linkIndex = {}
  /\ sends = <<>>
  /\ verifyFails = [c \in Clients |-> <<>>]
  /\ verifyLast = [k \in Emails \cup {LinkKey} |-> 0]
  /\ lockout = [c \in Clients |-> 0]
  /\ intent = [c \in Clients |-> None]
  /\ visit = [c \in Clients |-> None]
  /\ issued = [e \in Emails |-> 0]
  /\ mail = [s \in Secrets |-> None]
  /\ grants = [s \in Secrets |-> 0]
  /\ guesses = [s \in Secrets |-> 0]
  /\ answered = [c \in Clients |-> <<>>]
  /\ compared = [e \in Emails |-> 0]

-----------------------------------------------------------------------------
(* The limits.  Definitions named Bad... are seeded faults: the one after  *)
(* as a plausible slip would have left it.                                 *)

Fresh(s) == now < expires[s]
Held(e) == <<e, live[e]>>
LiveFor(e) == live[e] # 0 /\ Fresh(Held(e))
LastHour == {t \in Times : now - t < Hour}
RecentFails(c) == Kept(verifyFails[c], LastHour)
SendsIn(window) == Kept(sends, {r \in SendRecords : now - r.at < window})
To(e) == {r \in SendRecords : r.mail = e}
From(c) == {r \in SendRecords : r.by = c}
UtcDay(t) == t \div Day
SeenToday(c) ==
  {sends[i].mail : i \in {j \in DOMAIN sends :
     sends[j].by = c /\ UtcDay(sends[j].at) = UtcDay(now)}}

MinuteAllowed(e) ==
  Len(Kept(SendsIn(Minute), To(e))) < MaxEmailMinute

BadSendAllowed(e, c) ==
  LET today == SendsIn(Day)
  IN  /\ Len(today) < MaxProcessDay
      /\ Cardinality(SeenToday(c)) <= MaxDistinctDay
      /\ MinuteAllowed(e)
      /\ Len(Kept(today, To(e))) < MaxEmailDay
      /\ Len(Kept(today, From(c))) < MaxIpDay

SendAllowed(e, c) ==
  LET today == SendsIn(Day)
  IN  /\ Len(today) < MaxProcessDay
      /\ e \in SeenToday(c) \/ Cardinality(SeenToday(c)) < MaxDistinctDay
      /\ MinuteAllowed(e)
      /\ Len(Kept(today, To(e))) < MaxEmailDay
      /\ Len(Kept(today, From(c))) < MaxIpDay

RecordSend(e, c) ==
  sends' = Append(SendsIn(Day), [mail |-> e, by |-> c, at |-> now])

VerifyAllowed(k, c) ==
  /\ now >= lockout[c]
  /\ now - verifyLast[k] >= MinGap
  /\ Len(RecentFails(c)) < MaxFailsHour

(* The attempt that finds the failures of the hour used up is refused, and *)
(* locks the client out.  A refusal for any other reason changes nothing.  *)
LockOut(k, c) ==
  /\ now >= lockout[c]
  /\ now - verifyLast[k] >= MinGap
  /\ Len(RecentFails(c)) >= MaxFailsHour
  /\ lockout' = [lockout EXCEPT ![c] = now + Cooldown]

BadNoteFail(c) == verifyFails' = [verifyFails EXCEPT ![c] = <<now>>]
NoteFail(c) == verifyFails' = [verifyFails EXCEPT ![c] = Append(RecentFails(c), now)]

BadDrop(s) == linkIndex' = linkIndex \ {s} /\ UNCHANGED live
Drop(s) ==
  /\ live' = [live EXCEPT ![Mailbox(s)] = 0]
  /\ linkIndex' = linkIndex \ {s}

-----------------------------------------------------------------------------
(* request_otp.                                                            *)

RememberIntent(c, s) ==
  intent' = IF PublicOrigin THEN [intent EXCEPT ![c] = s] ELSE intent

(* A mailbox that holds a live secret is mailed nothing and uses no limit. *)
RequestCoalesced(e, c) ==
  /\ LiveFor(e)
  /\ RememberIntent(c, Held(e))
  /\ UNCHANGED <<now, otpVars, limitVars, visit, mailed, outcomes>>

RequestUnlisted(e, c) ==
  /\ ~LiveFor(e)
  /\ SendAllowed(e, c)
  /\ e \notin Allowed
  /\ RecordSend(e, c)
  /\ UNCHANGED <<now, otpVars, verifyFails, verifyLast, lockout, cookies,
                 mailed, outcomes>>

BadTrySend(e, c) ==
  /\ SendAllowed(e, c)
  /\ e \in Allowed
  /\ issued[e] < MaxIssued
  /\ issued' = [issued EXCEPT ![e] = @ + 1]
  /\ RecordSend(e, c)
  /\ now' \in now .. (now + MaxMails) \cap Times

(* The send itself: it takes time with the lock held, and may fail.        *)
TrySend(e, c) ==
  /\ ~LiveFor(e)
  /\ SendAllowed(e, c)
  /\ e \in Allowed
  /\ issued[e] < MaxIssued
  /\ issued' = [issued EXCEPT ![e] = @ + 1]
  /\ RecordSend(e, c)
  /\ now' \in now .. (now + MaxMails) \cap Times

RequestSent(e, c) ==
  LET s == <<e, issued[e] + 1>>
  IN  /\ TrySend(e, c)
      /\ live' = [live EXCEPT ![e] = issued[e] + 1]
      /\ expires' = [expires EXCEPT ![s] = now + OtpTtl]
      /\ fails' = [fails EXCEPT ![s] = 0]
      /\ linkIndex' = IF PublicOrigin THEN linkIndex \cup {s} ELSE linkIndex
      /\ RememberIntent(c, s)
      /\ mail' = [mail EXCEPT ![s] = [at |-> now, by |-> c]]
      /\ UNCHANGED <<verifyFails, verifyLast, lockout, visit, outcomes>>

BadRequestSendFails(e, c) ==
  /\ TrySend(e, c)
  /\ live' = [live EXCEPT ![e] = issued[e] + 1]
  /\ expires' = [expires EXCEPT ![<<e, issued[e] + 1>>] = now + OtpTtl]
  /\ UNCHANGED <<fails, linkIndex, verifyFails, verifyLast, lockout, cookies,
                 mail, outcomes>>

RequestSendFails(e, c) ==
  /\ TrySend(e, c)
  /\ UNCHANGED <<otpVars, verifyFails, verifyLast, lockout, cookies, mail,
                 outcomes>>

-----------------------------------------------------------------------------
(* verify_otp: the code submitted is that of the g-th issue to e, or, for  *)
(* g = 0, of none.                                                         *)

Used(e) ==
  /\ verifyLast' = [verifyLast EXCEPT ![e] = now]
  /\ compared' = [compared EXCEPT ![e] = now]

SignIn(s, c) ==
  /\ Used(Mailbox(s))
  /\ Drop(s)
  /\ grants' = [grants EXCEPT ![s] = @ + 1]
  /\ intent' = [intent EXCEPT ![c] = None]
  /\ UNCHANGED <<now, expires, fails, sends, verifyFails, lockout, mailed,
                 guesses, answered>>

Right(e, g) == LiveFor(e) /\ live[e] = g

VerifyRight(e, g, c) ==
  /\ VerifyAllowed(e, c)
  /\ Right(e, g)
  /\ SignIn(<<e, g>>, c)
  /\ UNCHANGED visit

Answer401(c) ==
  /\ NoteFail(c)
  /\ answered' = [answered EXCEPT ![c] =
                    Append(Kept(@, LastHour), now)]

BadBurn(s) ==
  IF fails[s] + 1 > MaxFailsOtp THEN Drop(s) ELSE UNCHANGED <<live, linkIndex>>
Burn(s) ==
  IF fails[s] + 1 >= MaxFailsOtp THEN Drop(s) ELSE UNCHANGED <<live, linkIndex>>

VerifyWrong(e, g, c) ==
  /\ VerifyAllowed(e, c)
  /\ g <= issued[e]
  /\ ~Right(e, g)
  /\ Used(e)
  /\ Answer401(c)
  /\ IF live[e] = 0 THEN UNCHANGED <<otpVars, guesses>>
     ELSE /\ fails' = [fails EXCEPT ![Held(e)] = @ + 1]
          /\ guesses' = [guesses EXCEPT ![Held(e)] = @ + 1]
          /\ Burn(Held(e))
          /\ UNCHANGED expires
  /\ UNCHANGED <<now, sends, lockout, cookies, mailed, grants>>

VerifyLockOut(e, c) ==
  /\ LockOut(e, c)
  /\ UNCHANGED <<now, otpVars, sends, verifyFails, verifyLast, cookies, mailed,
                 outcomes>>

-----------------------------------------------------------------------------
(* The login link.                                                         *)

(* _lookup_link: the token of s is indexed and s is held and unexpired.    *)
Found(s) ==
  /\ s # None
  /\ s \in linkIndex
  /\ live[Mailbox(s)] = s[2]
  /\ Fresh(s)

(* The token comes in a cookie, where GET /auth/link/{token} puts it and    *)
(* changes nothing else: a browser can present any token that was handed   *)
(* out, or none.                                                           *)
Presentable == {s \in Secrets : PublicOrigin /\ s[2] <= issued[Mailbox(s)]}

(* GET /auth/link: inspect_link, then, on a top-level navigation,          *)
(* intent_matches, then consume_link.  The other answers change nothing.   *)
InspectLink(s, c) ==
  /\ visit[c] = None
  /\ Found(s)
  /\ visit' = [visit EXCEPT ![c] =
                 [token |-> s, intent |-> intent[c], matched |-> FALSE]]
  /\ UNCHANGED <<now, otpVars, limitVars, intent, mailed, outcomes>>

BadIntentMatches(v) == Found(v.token) /\ v.intent # None
IntentMatches(v) == Found(v.token) /\ v.intent = v.token

MatchIntent(c) ==
  /\ visit[c] # None
  /\ ~visit[c].matched
  /\ visit' = IF IntentMatches(visit[c]) THEN [visit EXCEPT ![c].matched = TRUE]
              ELSE [visit EXCEPT ![c] = None]
  /\ UNCHANGED <<now, otpVars, limitVars, intent, mailed, outcomes>>

BadConsumeKey(s) == LinkKey
ConsumeKey(s) == IF Found(s) THEN Mailbox(s) ELSE LinkKey

ConsumeFound(s, c) ==
  /\ Found(s)
  /\ VerifyAllowed(ConsumeKey(s), c)
  /\ SignIn(s, c)

ConsumeUnknown(s, c) ==
  /\ ~Found(s)
  /\ VerifyAllowed(ConsumeKey(s), c)
  /\ verifyLast' = [verifyLast EXCEPT ![LinkKey] = now]
  /\ Answer401(c)
  /\ UNCHANGED <<now, otpVars, sends, lockout, intent, mailed, grants,
                 guesses, compared>>

ConsumeLockOut(s, c) ==
  /\ LockOut(ConsumeKey(s), c)
  /\ UNCHANGED <<now, otpVars, sends, verifyFails, verifyLast, intent,
                 mailed, outcomes>>

(* Refused for its lockout or for the gap.                                 *)
ConsumeRefused(s, c) ==
  /\ now < lockout[c] \/ now - verifyLast[ConsumeKey(s)] < MinGap
  /\ UNCHANGED <<now, otpVars, limitVars, intent, mailed, outcomes>>

ConsumeGet(c) ==
  /\ visit[c] # None
  /\ visit[c].matched
  /\ visit' = [visit EXCEPT ![c] = None]
  /\ LET s == visit[c].token
     IN  \/ ConsumeFound(s, c) \/ ConsumeUnknown(s, c)
         \/ ConsumeLockOut(s, c) \/ ConsumeRefused(s, c)

(* The confirm form posts whatever token the browser has.                  *)
ConsumePost(s, c) ==
  /\ ConsumeFound(s, c) \/ ConsumeUnknown(s, c) \/ ConsumeLockOut(s, c)
  /\ UNCHANGED visit

(* A confirm form from another origin: 403, and note_consume_fail.         *)
ForeignPost(c) ==
  /\ PublicOrigin
  /\ Len(RecentFails(c)) < MaxNoted
  /\ NoteFail(c)
  /\ UNCHANGED <<now, otpVars, sends, verifyLast, lockout, cookies, mailed,
                 outcomes>>

-----------------------------------------------------------------------------

(* As time passes, entries that every reader would prune are forgotten.    *)
Tick ==
  /\ now < MaxTime
  /\ now' = now + 1
  /\ verifyFails' = [c \in Clients |-> Kept(verifyFails[c], LastHour')]
  /\ answered' = [c \in Clients |-> Kept(answered[c], LastHour')]
  /\ sends' = Kept(sends, {r \in SendRecords : now' - r.at < Day})
  /\ UNCHANGED <<otpVars, verifyLast, lockout, cookies, mailed, grants, guesses,
                 compared>>

Request(e, c) ==
  \/ RequestCoalesced(e, c) \/ RequestUnlisted(e, c)
  \/ RequestSent(e, c) \/ RequestSendFails(e, c)

Verify(e, c) ==
  \/ \E g \in 0 .. MaxIssued : VerifyRight(e, g, c) \/ VerifyWrong(e, g, c)
  \/ VerifyLockOut(e, c)

Link(c) ==
  \/ \E s \in Presentable : InspectLink(s, c)
  \/ MatchIntent(c) \/ ConsumeGet(c)
  \/ \E s \in Presentable \cup {None} : ConsumePost(s, c)
  \/ ForeignPost(c)

Next ==
  \/ \E c \in Clients : Link(c) \/ \E e \in Emails : Request(e, c) \/ Verify(e, c)
  \/ Tick

Spec == Init /\ [][Next]_vars
-----------------------------------------------------------------------------
(* Properties.                                                             *)

(* A secret opens one session at most, whichever of its code and its link  *)
(* arrives first and however often each is sent again.                     *)
SingleUse == \A s \in Secrets : grants[s] <= 1

(* A secret is tried MaxFailsOtp times at most, the try that opens a       *)
(* session included, over all clients, wherever the clock stands.          *)
TriesBounded == \A s \in Secrets : guesses[s] + grants[s] <= MaxFailsOtp

(* A mailed secret that is unexpired, unused and not guessed away can      *)
(* still be used, by code and by link: no later request, failed send,      *)
(* guess at another mailbox or unknown token takes it away.                *)
GoodSecretWorks ==
  \A s \in Secrets :
    /\ mail[s] # None
    /\ now < mail[s].at + OtpTtl
    /\ grants[s] = 0
    /\ guesses[s] < MaxFailsOtp
    => Right(Mailbox(s), s[2]) /\ (PublicOrigin => Found(s))

(* Only a secret whose mail went out opens a session, and only before it   *)
(* expires: a send that failed leaves nothing that signs anyone in.        *)
GrantsAreFresh ==
  [][\A s \in Secrets : grants'[s] # grants[s] =>
       mail[s] # None /\ now < mail[s].at + OtpTtl]_vars

(* A GET of the login link signs a browser in only if that browser asked   *)
(* for this secret: it holds the intent cookie of the secret it opened     *)
(* when the visit began, across the three lock acquisitions of the GET.    *)
IntentBound ==
  [][\A c \in Clients, s \in Secrets :
       grants'[s] # grants[s] /\ visit[c] # visit'[c] =>
         visit[c].intent = s]_vars

(* Two uses or comparisons of a mailbox's secret are MinGap apart, by code *)
(* or by link, from one client or several.                                 *)
VerifiesSpaced ==
  [][\A e \in Emails : compared[e] # 0 /\
       (\E s \in Secrets : Mailbox(s) = e /\
          (grants'[s] # grants[s] \/ guesses'[s] # guesses[s])) =>
       now - compared[e] >= MinGap]_vars

(* No UTC day sees more mail than its limits allow, for a mailbox, for a   *)
(* client, for a client's distinct mailboxes, or for the process.          *)
DailyMailBounded ==
  \A d \in {UtcDay(t) : t \in Times} :
    LET mails == {s \in Secrets : mail[s] # None /\ UtcDay(mail[s].at) = d}
    IN  /\ Cardinality(mails) <= MaxProcessDay
        /\ \A e \in Emails :
             Cardinality({s \in mails : Mailbox(s) = e}) <= MaxEmailDay
        /\ \A c \in Clients :
             LET mine == {s \in mails : mail[s].by = c}
             IN  /\ Cardinality(mine) <= MaxIpDay
                 /\ Cardinality({Mailbox(s) : s \in mine}) <= MaxDistinctDay

(* In any hour a client is answered MaxFailsHour failed verifies at most,  *)
(* by code and by link together.                                           *)
FailuresBounded ==
  \A c \in Clients :
    Len(Kept(answered[c], LastHour)) <= MaxFailsHour
=============================================================================
