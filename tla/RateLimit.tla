------------------------------ MODULE RateLimit ------------------------------
(***************************************************************************)
(* The token buckets that several server processes share in Redis          *)
(* (backend/apps/core/rate_limit.py; the script that opens a WebSocket     *)
(* computes its bucket in the same way).  One check takes a token from     *)
(* each of its buckets or from none, in one script.                        *)
(*                                                                         *)
(* A bucket is refilled when it is looked at.  Its key expires: a bucket   *)
(* that is not there counts as full.  The clock of Redis may be set.       *)
(***************************************************************************)
EXTENDS Integers, FiniteSets

CONSTANTS
  Buckets,       \* bucket keys (operation, subject)
  Checks,        \* sets of buckets that a request is checked against
  Cost,          \* TOKEN_UNITS
  Capacity(_),   \* capacity_units
  Refill(_),     \* refill_units_per_ms
  MinTtl,        \* the least life of a key (120 000 ms)
  Second,        \* milliseconds in a second
  StartTime, MaxNow, \* the clock starts there and stays within 0..MaxNow
  MaxPassed      \* bound: milliseconds of a behaviour

VARIABLES
  now,     \* TIME of Redis
  stored,  \* buckets whose key exists -> their hash
  passed,  \* milliseconds that really passed
  spent    \* bucket -> units taken since the start

vars == <<now, stored, passed, spent>>

Lower(x, y) == IF x < y THEN x ELSE y
Higher(x, y) == IF x < y THEN y ELSE x
Ceiling(x, y) == (x + y - 1) \div y

Ttl_Bug(b) == MinTtl
Ttl(b) == Higher(MinTtl, 2 * Ceiling(Capacity(b), Refill(b)))

Absent(time) == [tokens |-> 0, last |-> time, expires |-> 0]

\* The hash of a bucket, expired keys and missing ones as full.
Bucket(b, time) ==
  IF b \in DOMAIN stored /\ time < stored[b].expires THEN stored[b]
  ELSE [Absent(time) EXCEPT !.tokens = Capacity(b)]

Tokens(b, time) ==
  LET bucket == Bucket(b, time) IN
    Lower(Capacity(b), bucket.tokens + Higher(0, time - bucket.last) * Refill(b))

Last(b, time) == Higher(Bucket(b, time).last, time)

Short(check, time) == {b \in check : Tokens(b, time) < Cost}

RetryOf_Bug(b, time) == (Cost - Tokens(b, time)) \div Refill(b)
RetryOf(b, time) ==
  Higher(0, Bucket(b, time).last - time) + Ceiling(Cost - Tokens(b, time), Refill(b))

\* The longest wait of the buckets that are short, in whole seconds.
RetryAfter(check, time) ==
  LET longest == CHOOSE r \in {RetryOf(b, time) : b \in Short(check, time)} :
                   \A b \in Short(check, time) : RetryOf(b, time) <= r
  IN Higher(1, Ceiling(longest, Second))

Taken_Bug(check, b) == IF Tokens(b, now) >= Cost THEN Cost ELSE 0
Taken(check, b) == IF Short(check, now) = {} THEN Cost ELSE 0
-----------------------------------------------------------------------------
Init ==
  /\ now = StartTime /\ passed = 0
  /\ stored = [b \in {} |-> Absent(StartTime)]
  /\ spent = [b \in Buckets |-> 0]

Check(check) ==
  /\ stored' = [b \in DOMAIN stored \cup check |->
       IF b \in check
       THEN [tokens |-> Tokens(b, now) - Taken(check, b),
             last |-> Last(b, now), expires |-> now + Ttl(b)]
       ELSE stored[b]]
  /\ spent' = [b \in Buckets |->
       spent[b] + (IF b \in check THEN Taken(check, b) ELSE 0)]
  /\ UNCHANGED <<now, passed>>

\* Redis drops a key when its time has come.
Expire(b) ==
  /\ b \in DOMAIN stored /\ now >= stored[b].expires
  /\ stored' = [d \in DOMAIN stored \ {b} |-> stored[d]]
  /\ UNCHANGED <<now, passed, spent>>

Tick ==
  /\ now < MaxNow /\ passed < MaxPassed
  /\ now' = now + 1 /\ passed' = passed + 1
  /\ UNCHANGED <<stored, spent>>

\* The clock is set back.
SetBack ==
  /\ now' \in 0..(now - 1)
  /\ UNCHANGED <<stored, passed, spent>>

Next ==
  \/ \E check \in Checks : Check(check)
  \/ \E b \in Buckets : Expire(b)
  \/ Tick \/ SetBack

Spec == Init /\ [][Next]_vars
-----------------------------------------------------------------------------
TypeOK ==
  /\ now \in 0..MaxNow
  /\ DOMAIN stored \subseteq Buckets
  /\ \A b \in DOMAIN stored :
       stored[b].tokens \in 0..Capacity(b) /\ stored[b].last \in 0..MaxNow

\* No bucket ever gives more than it held and what the time that passed brought:
\* not through a key that expired, a clock that was set or checks that failed.
SpentWithinRate ==
  \A b \in Buckets : spent[b] <= Capacity(b) + passed * Refill(b)

\* Whoever waits as long as the refusal says, while nobody else asks, is let in.
RetryIsEnough ==
  \A check \in Checks : Short(check, now) # {} =>
    Short(check, now + Second * RetryAfter(check, now)) = {}

\* A refused request takes nothing: whatever was there of any of its buckets at
\* any later time is still there then, unless the key would have been dropped.
RefusalsCostNothing ==
  [][\A check \in Checks : Short(check, now) # {} /\ Check(check) =>
       \A b \in Buckets, time \in now..MaxNow :
         b \in DOMAIN stored /\ time < Lower(stored[b].expires, stored'[b].expires) =>
           Tokens(b, time)' = Tokens(b, time)]_vars
=============================================================================
