-------------------------------- MODULE Access --------------------------------
(***************************************************************************)
(* What stands between a request and the session: getting in with a PIN    *)
(* (Admission), the grants of the display (DisplayAccess) and the token    *)
(* buckets (RateLimit).  None of them reads what another one writes.       *)
(***************************************************************************)
EXTENDS Admission

CONSTANTS
  Issues, Revokes, Hour, MaxNow,                  \* DisplayAccess
  Buckets, Checks, Cost, Capacity(_), Refill(_),  \* RateLimit
  MinTtl, Second, StartTime, MaxTime, MaxPassed

\* No time and no request is the absence of one.
ASSUME DisplayAssumption ==
  MaxNow \in Nat /\ None \notin Nat /\ None \notin Issues \cup Revokes

\* A bucket holds at least one token and is refilled by whole units (BucketLimit,
\* core/rate_limit.py 96-140).
ASSUME LimiterAssumption ==
  /\ {Cost, MinTtl, Second, MaxTime} \subseteq Nat /\ StartTime \in 0 .. MaxTime
  /\ MaxPassed \in Nat /\ Second > 0
  /\ \A b \in Buckets : Capacity(b) \in Nat /\ Refill(b) \in Nat \ {0} /\ Cost <= Capacity(b)
  /\ \A check \in Checks : check \subseteq Buckets

VARIABLES
  now, finished_at, grants, session_lock, grant_lock, call,
  redis_time, stored, passed, spent

display == <<now, finished_at, grants, session_lock, grant_lock, call>>
limiter == <<redis_time, stored, passed, spent>>

Display == INSTANCE DisplayAccess
Limiter == INSTANCE RateLimit WITH now <- redis_time, MaxNow <- MaxTime

\* One display at a time, revoked for good and closed for a reason only, however
\* requests to issue and to revoke overlap, are refused or die (views.py 103-193).
DisplaysAreSafe ==
  /\ [](Display!TypeOK /\ Display!OneDisplayAtATime)
  /\ Display!RevokedForGood /\ Display!ClosedOnlyForAReason

\* A bucket gives no more than its rate, the wait it names is enough, and a refusal
\* takes nothing, through keys that expire and a clock that is set back
\* (core/rate_limit.py 22-67, 96-111, 167-197).
LimiterHolds ==
  /\ [](Limiter!TypeOK /\ Limiter!SpentWithinRate /\ Limiter!RetryIsEnough)
  /\ Limiter!RefusalsCostNothing
===============================================================================
