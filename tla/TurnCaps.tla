------------------------------ MODULE TurnCaps ------------------------------
(***************************************************************************)
(* The two gates that count chat turns: a sliding window of requests per   *)
(* client (api/rate_limit.py) and the caps of a UTC day per mailbox and    *)
(* for the process (api/turn_caps.py).                                     *)
(***************************************************************************)
EXTENDS Lists

CONSTANTS
  Window, MaxHits,        \* rate_limit_window_s, rate_limit_requests
  Day, MaxEmail, MaxProcess

ASSUME CapsAssumption ==
  /\ Day \in Nat \ {0}
  /\ {Window, MaxHits, MaxEmail, MaxProcess} \subseteq Nat

UtcDay(t) == t \div Day

Recent(hits, now) == Kept(hits, {t \in Nat : now - t < Window})

(* Definitions named Bad... are seeded faults.                             *)
BadAtCap(email, process) == email > MaxEmail \/ process > MaxProcess
AtCap(email, process) == email >= MaxEmail \/ process >= MaxProcess

Less(n) == IF n > 0 THEN n - 1 ELSE n
=============================================================================
