\* Each limit on mail binds before the others for somebody: two mails to a
\* mailbox, three by a client, two mailboxes of a client, four in all.
SPECIFICATION MCSpec
CONSTANTS
  e1 = e1
  e2 = e2
  e3 = e3
  e4 = e4
  c1 = c1
  c2 = c2
  None = None
  LinkKey = LinkKey
  Emails = {e1, e2, e3, e4}
  Allowed = {e1, e2, e3}
  Clients = {c1, c2}
  PublicOrigin = TRUE
  OtpTtl = 2
  MinGap = 1
  Minute = 1
  Hour = 2
  Day = 6
  Cooldown = 1
  MaxMails = 1
  MaxFailsOtp = 2
  MaxFailsHour = 2
  MaxEmailMinute = 1
  MaxEmailDay = 2
  MaxIpDay = 3
  MaxDistinctDay = 2
  MaxProcessDay = 4
  MaxIssued = 3
  MaxNoted = 2
  MaxTime = 7
  RaceTime = 3
  RaceIssued = 2
  TryTime = 4
  TryIssued = 1
INVARIANTS
  TypeOK
  SingleUse
  TriesBounded
  GoodSecretWorks
  DailyMailBounded
  FailuresBounded
PROPERTIES
  GrantsAreFresh
  IntentBound
  VerifiesSpaced
SYMMETRY Symmetry
\* The clock is bounded.
CHECK_DEADLOCK FALSE
