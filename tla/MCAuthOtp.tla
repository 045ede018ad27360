------------------------------ MODULE MCAuthOtp ------------------------------
(***************************************************************************)
(* A small instance of AuthOtp.  A behaviour is of one of three parts: all  *)
(* clients ask for mail and nobody signs in; all clients sign in to one     *)
(* mailbox; or one client tries what it likes there.  The part bounds who   *)
(* does what; every step is one of AuthOtp's, so that what holds of its     *)
(* Spec has to hold here.                                                   *)
(***************************************************************************)
EXTENDS AuthOtp, TLC

CONSTANTS
  RaceTime,    \* bound: last instant of a race
  RaceIssued,  \* bound: codes generated in a race
  TryTime,     \* bound: last instant of the tries of one client
  TryIssued    \* bound: codes generated for them

VARIABLE part  \* "mail", "race", or the client that tries

partVars == <<vars, part>>

MCInit == Init /\ part \in {"mail", "race"} \cup Clients

(* The allowed mailboxes are alike.  They are first asked for in order.    *)
Order == CHOOSE f \in [1 .. Cardinality(Allowed) -> Allowed] :
           \A i, j \in DOMAIN f : f[i] = f[j] => i = j

InOrder(e) ==
  \A i \in DOMAIN Order : Order[i] = e /\ i > 1 => issued[Order[i - 1]] > 0

(* Mail is asked for at odd instants, when what was mailed at the last one  *)
(* has expired; for a mailbox that is not invited, before any other.        *)
Mailing ==
  /\ part = "mail"
  /\ \/ /\ now % 2 = 1
        /\ \E e \in Emails, c \in Clients :
             \/ sends = <<>> /\ RequestUnlisted(e, c)
             \/ InOrder(e) /\ (RequestSent(e, c) \/ RequestSendFails(e, c))
     \/ Tick

(* Nobody is locked out, and no form is foreign.                            *)
Racing ==
  /\ part = "race"
  /\ \/ \E c \in Clients :
          \/ Request(Order[1], c) \/ Verify(Order[1], c)
          \/ \E s \in Presentable : InspectLink(s, c)
          \/ MatchIntent(c) \/ ConsumeGet(c)
          \/ \E s \in Presentable \cup {None} : ConsumePost(s, c)
     \/ Tick
  /\ UNCHANGED lockout
  /\ now' <= RaceTime /\ issued'[Order[1]] <= RaceIssued

Trying ==
  /\ part \in Clients
  /\ Request(Order[1], part) \/ Verify(Order[1], part) \/ Link(part) \/ Tick
  /\ now' <= TryTime /\ issued'[Order[1]] <= TryIssued

MCNext == (Mailing \/ Racing \/ Trying) /\ UNCHANGED part

MCSpec == MCInit /\ [][MCNext]_partVars

Symmetry == Permutations(Clients)
=============================================================================
