------------------------- MODULE SessionConsumerProofs -------------------------
(***************************************************************************)
(* Proofs that the limits of connections hold: for any number of           *)
(* connections, addresses and access records, however their coroutines     *)
(* interleave, leases get lost and processes die.                          *)
(***************************************************************************)
EXTENDS SessionConsumer, FiniteSetTheorems, TLAPS

Pcs == {"idle", "reading", "acquiring", "acquired", "refused", "joining", "event",
        "leaving", "over"}
AccessStates == {"valid", "revoked", "expired"}

\* The states of the consumer of a connection.
Sockets(c) ==
  [net : {"new", "open", "closed", "gone"}, pc : Pcs, read : AccessStates \cup {"none"},
   authorized : BOOLEAN, closing : BOOLEAN, held : BOOLEAN, subject : BOOLEAN,
   tasks : SUBSET Tasks, closer : Tasks \cup {"none", "main", "cut"},
   release : {{}, OpenKeys(c), AccessKeys(c)},
   deadline : 0..AuthTimeout, beat : 0..RefreshEvery]

\* A timer that has time left goes off while the lease lasts.
Outlasts(L, c, keys, left) == \A k \in keys : left < L[k][c]

\* Whoever works has not released its lease, and a timer that will end or renew it
\* runs: until it is authorized the deadline, from then on the heartbeat.  In between
\* no time passes.
InTime(c, s, L) ==
  /\ s.held /\ s.release = {}
  /\ s.pc \in {"reading", "acquiring", "acquired", "refused"} => ~s.authorized
  /\ s.pc = "joining" => s.authorized
  /\ ~s.authorized =>
       /\ "deadline" \in s.tasks /\ "beat" \notin s.tasks
       /\ Outlasts(L, c, OpenKeys(c), s.deadline)
       /\ s.pc = "acquired" => Outlasts(L, c, AccessKeys(c), LeaseTtl - 1)
  /\ s.authorized /\ s.pc = "joining" =>
       "beat" \notin s.tasks /\ Outlasts(L, c, AccessKeys(c), LeaseTtl - 1)
  /\ s.authorized /\ s.pc # "joining" =>
       "beat" \in s.tasks /\ Outlasts(L, c, AccessKeys(c), s.beat)

\* The connection as the consumer and the leases L have it.
ConnFits(c, s, L) ==
  /\ s \in Sockets(c)
  /\ s.net = "new" => s = Fresh
  /\ s.net = "open" /\ ~s.closing => InTime(c, s, L)
  /\ L[AddressOf(c)][c] = L[Stage][c]

Bounded(S, limit) == IsFiniteSet(S) /\ Cardinality(S) <= limit

\* No key counts more leases than its limit.
CountInv ==
  \A c \in Conns :
    /\ Bounded(Holders(Stage), StageLimit)
    /\ Bounded(Holders(AddressOf(c)), IpLimit)
    /\ Bounded(Holders(SubjectOf(c)), AccessLimit)

TypesInv ==
  /\ leases \in [Keys -> [Conns -> 0..LeaseTtl]]
  /\ access \in [Conns -> AccessStates]
  /\ socket = [c \in Conns |-> socket[c]]

LeaseInv ==
  /\ TypesInv /\ CountInv
  /\ \A c \in Conns : ConnFits(c, socket[c], leases)
-----------------------------------------------------------------------------
(* Lemmas about the leases.                                                 *)

\* The keys of a connection are keys.
LEMMA KeysOf ==
  ASSUME NEW c \in Conns
  PROVE  /\ OpenKeys(c) \subseteq AccessKeys(c) /\ AccessKeys(c) \subseteq Keys
         /\ AccessKeys(c) = {AddressOf(c), Stage, SubjectOf(c)}
         /\ Stage \in OpenKeys(c) /\ AddressOf(c) \in OpenKeys(c)
         /\ SubjectOf(c) \in AccessKeys(c)
BY DEF OpenKeys, AccessKeys, Keys

\* A script writes the lease of one connection.
LEMMA WriteIs ==
  ASSUME TypesInv, NEW c \in Conns, NEW keys, NEW left \in 0..LeaseTtl,
         Write(c, keys, left)
  PROVE  /\ leases' \in [Keys -> [Conns -> 0..LeaseTtl]]
         /\ \A k \in Keys \cap keys : leases'[k][c] = left
         /\ \A k \in Keys \ keys : leases'[k][c] = leases[k][c]
         /\ \A k \in Keys, d \in Conns : d # c => leases'[k][d] = leases[k][d]
<1>1. leases \in [Keys -> [Conns -> 0..LeaseTtl]]
  BY DEF TypesInv
<1>2. ASSUME NEW k \in Keys
      PROVE  /\ leases'[k] \in [Conns -> 0..LeaseTtl]
             /\ k \in keys => leases'[k][c] = left
             /\ k \notin keys => leases'[k][c] = leases[k][c]
             /\ \A d \in Conns : d # c => leases'[k][d] = leases[k][d]
  <2>1. leases'[k] = IF k \in keys THEN [leases[k] EXCEPT ![c] = left] ELSE leases[k]
    BY DEF Write
  <2>2. leases[k] \in [Conns -> 0..LeaseTtl]
    BY <1>1
  <2> QED BY <2>1, <2>2
<1>3. leases' = [k \in Keys |-> leases'[k]]
  BY DEF Write
<1> QED BY <1>2, <1>3

\* A subset of a bounded set is bounded.
LEMMA BoundedSubset ==
  ASSUME NEW S, NEW T, NEW limit \in Nat, Bounded(S, limit), T \subseteq S
  PROVE  Bounded(T, limit)
<1>1. IsFiniteSet(T) /\ Cardinality(T) <= Cardinality(S)
  BY FS_Subset DEF Bounded
<1>2. Cardinality(T) \in Nat /\ Cardinality(S) \in Nat
  BY <1>1, FS_CardinalityType DEF Bounded
<1> QED BY <1>1, <1>2 DEF Bounded

\* A set that is not full has room for one more.
LEMMA BoundedAdd ==
  ASSUME NEW S, NEW T, NEW c, NEW limit \in Nat, Bounded(S, limit),
         ~(Cardinality(S) >= limit), T \subseteq S \cup {c}
  PROVE  Bounded(T, limit)
<1>1. IsFiniteSet(S) /\ Cardinality(S) \in Nat
  BY FS_CardinalityType DEF Bounded
<1>2. IsFiniteSet(S \cup {c}) /\ Cardinality(S \cup {c}) \in {Cardinality(S), Cardinality(S) + 1}
  BY <1>1, FS_AddElement
<1>3. Bounded(S \cup {c}, limit)
  BY <1>1, <1>2 DEF Bounded
<1> QED BY <1>3, BoundedSubset

\* The limits are numbers.
LEMMA LimitsAre ==
  /\ LeaseTtl \in Nat \ {0} /\ StageLimit \in Nat \ {0} /\ IpLimit \in Nat \ {0}
  /\ AccessLimit \in Nat \ {0} /\ AuthTimeout \in Nat \ {0} /\ RefreshEvery \in Nat \ {0}
  /\ AuthTimeout < LeaseTtl /\ RefreshEvery < LeaseTtl
BY LimitsAssumption, TimesAssumption, TimersAssumption

\* Nobody is counted who was not.
LEMMA NoMoreHolders ==
  ASSUME CountInv, \A k \in Keys : Holders(k)' \subseteq Holders(k)
  PROVE  CountInv'
<1> SUFFICES ASSUME NEW c \in Conns
             PROVE  /\ Bounded(Holders(Stage)', StageLimit)
                    /\ Bounded(Holders(AddressOf(c))', IpLimit)
                    /\ Bounded(Holders(SubjectOf(c))', AccessLimit)
  BY DEF CountInv
<1>1. Stage \in Keys /\ AddressOf(c) \in Keys /\ SubjectOf(c) \in Keys
  BY KeysOf
<1> QED BY <1>1, LimitsAre, BoundedSubset DEF CountInv

\* A script that gives the lease of c no key that it did not have.
LEMMA SameHolders ==
  ASSUME TypesInv, NEW c \in Conns, NEW keys, NEW left \in 0..LeaseTtl,
         Write(c, keys, left), left # 0 => HoldsAll(c, Keys \cap keys)
  PROVE  \A k \in Keys : Holders(k)' \subseteq Holders(k)
<1> TAKE k \in Keys
<1>1. \A d \in Conns : d # c => leases'[k][d] = leases[k][d]
  BY WriteIs
<1>2. ASSUME leases'[k][c] > 0 PROVE leases[k][c] > 0
  <2>1. CASE k \in keys
    <3>1. left # 0
      BY <1>2, <2>1, WriteIs
    <3> QED BY <2>1, <3>1 DEF HoldsAll, Holders
  <2>2. CASE k \notin keys
    BY <1>2, <2>2, WriteIs
  <2> QED BY <2>1, <2>2
<1> QED BY <1>1, <1>2 DEF Holders

\* OPEN counts a connection where there is room.
LEMMA OpenCounts ==
  ASSUME TypesInv, CountInv, NEW c \in Conns, Open(c)
  PROVE  CountInv'
<1>1. /\ Write(c, OpenKeys(c), LeaseTtl) /\ LeaseTtl \in 0..LeaseTtl
      /\ ~ Full(AddressOf(c), IpLimit) /\ ~ Full(Stage, StageLimit)
  BY LimitsAre DEF Open
<1>2. \A k \in Keys : Holders(k)' \subseteq Holders(k) \cup {c}
  BY <1>1, WriteIs DEF Holders
<1>3. \A k \in Keys \ OpenKeys(c) : Holders(k)' \subseteq Holders(k)
  <2> TAKE k \in Keys \ OpenKeys(c)
  <2>1. \A d \in Conns : leases'[k][d] = leases[k][d]
    BY <1>1, WriteIs
  <2> QED BY <2>1 DEF Holders
<1> SUFFICES ASSUME NEW d \in Conns
             PROVE  /\ Bounded(Holders(Stage)', StageLimit)
                    /\ Bounded(Holders(AddressOf(d))', IpLimit)
                    /\ Bounded(Holders(SubjectOf(d))', AccessLimit)
  BY DEF CountInv
<1>4. Stage \in Keys /\ AddressOf(d) \in Keys /\ SubjectOf(d) \in Keys
  BY KeysOf
<1>5. Bounded(Holders(Stage)', StageLimit)
  BY <1>1, <1>2, <1>4, BoundedAdd, LimitsAre DEF Full, CountInv
<1>6. Bounded(Holders(AddressOf(d))', IpLimit)
  <2>1. CASE AddressOf(d) = AddressOf(c)
    BY <1>1, <1>2, <1>4, <2>1, BoundedAdd, LimitsAre DEF Full, CountInv
  <2>2. CASE AddressOf(d) # AddressOf(c)
    <3>1. AddressOf(d) \notin OpenKeys(c)
      BY <2>2, KeysAssumption DEF OpenKeys
    <3> QED BY <1>3, <1>4, <3>1, BoundedSubset, LimitsAre DEF CountInv
  <2> QED BY <2>1, <2>2
<1>7. Bounded(Holders(SubjectOf(d))', AccessLimit)
  <2>1. SubjectOf(d) \notin OpenKeys(c)
    BY KeysAssumption DEF OpenKeys
  <2> QED BY <1>3, <1>4, <2>1, BoundedSubset, LimitsAre DEF CountInv
<1> QED BY <1>5, <1>6, <1>7

\* ACCESS counts a connection whose lease lasts where there is room.
LEMMA AccessCounts ==
  ASSUME TypesInv, CountInv, NEW c \in Conns, MayAccess(c), Access(c)
  PROVE  CountInv'
<1>1. /\ Write(c, AccessKeys(c), LeaseTtl) /\ LeaseTtl \in 0..LeaseTtl
      /\ HoldsAll(c, OpenKeys(c)) /\ ~ Full(SubjectOf(c), AccessLimit)
  BY LimitsAre DEF Access, MayAccess
<1>2. \A k \in Keys : Holders(k)' \subseteq Holders(k) \cup {c}
  BY <1>1, WriteIs DEF Holders
<1>3. \A k \in Keys : k # SubjectOf(c) => Holders(k)' \subseteq Holders(k)
  <2> SUFFICES ASSUME NEW k \in Keys, k # SubjectOf(c) PROVE Holders(k)' \subseteq Holders(k)
    OBVIOUS
  <2>1. CASE k \in OpenKeys(c)
    <3>1. c \in Holders(k)
      BY <1>1, <2>1 DEF HoldsAll
    <3> QED BY <1>2, <3>1
  <2>2. CASE k \notin OpenKeys(c)
    <3>1. k \notin AccessKeys(c)
      BY <2>2 DEF AccessKeys
    <3>2. \A d \in Conns : leases'[k][d] = leases[k][d]
      BY <1>1, <3>1, WriteIs
    <3> QED BY <3>2 DEF Holders
  <2> QED BY <2>1, <2>2
<1> SUFFICES ASSUME NEW d \in Conns
             PROVE  /\ Bounded(Holders(Stage)', StageLimit)
                    /\ Bounded(Holders(AddressOf(d))', IpLimit)
                    /\ Bounded(Holders(SubjectOf(d))', AccessLimit)
  BY DEF CountInv
<1>4. Stage \in Keys /\ AddressOf(d) \in Keys /\ SubjectOf(d) \in Keys
  BY KeysOf
<1>5. Stage # SubjectOf(c) /\ AddressOf(d) # SubjectOf(c)
  BY KeysAssumption
<1>6. Bounded(Holders(Stage)', StageLimit) /\ Bounded(Holders(AddressOf(d))', IpLimit)
  BY <1>3, <1>4, <1>5, BoundedSubset, LimitsAre DEF CountInv
<1>7. Bounded(Holders(SubjectOf(d))', AccessLimit)
  <2>1. CASE SubjectOf(d) = SubjectOf(c)
    BY <1>1, <1>2, <1>4, <2>1, BoundedAdd, LimitsAre DEF Full, CountInv
  <2>2. CASE SubjectOf(d) # SubjectOf(c)
    BY <1>3, <1>4, <2>2, BoundedSubset, LimitsAre DEF CountInv
  <2> QED BY <2>1, <2>2
<1> QED BY <1>6, <1>7
-----------------------------------------------------------------------------
(* Lemmas about the consumer.                                               *)

\* A step of c leaves the other connections as they are.
LEMMA OneMoves ==
  ASSUME LeaseInv, NEW c \in Conns, NEW s, Is(c, s),
         leases' \in [Keys -> [Conns -> 0..LeaseTtl]], access' \in [Conns -> AccessStates],
         \A k \in Keys, d \in Conns : d # c => leases'[k][d] = leases[k][d],
         CountInv', ConnFits(c, s, leases')
  PROVE  LeaseInv'
<1>1. /\ socket'[c] = s /\ \A d \in Conns : d # c => socket'[d] = socket[d]
      /\ socket' = [d \in Conns |-> socket'[d]]
  <2>1. socket = [d \in Conns |-> socket[d]] /\ socket' = [socket EXCEPT ![c] = s]
    BY DEF LeaseInv, TypesInv, Is
  <2> QED BY <2>1
<1>2. ASSUME NEW d \in Conns, d # c PROVE ConnFits(d, socket'[d], leases')
  <2>1. \A k \in AccessKeys(d) : leases'[k][d] = leases[k][d]
    BY <1>2, KeysOf
  <2>2. ConnFits(d, socket[d], leases) /\ socket'[d] = socket[d]
    BY <1>1, <1>2 DEF LeaseInv
  <2> HIDE DEF LeaseInv
  <2>3. ASSUME InTime(d, socket[d], leases) PROVE InTime(d, socket[d], leases')
    BY <2>1, <2>3, KeysOf DEF InTime, Outlasts
  <2> QED BY <2>1, <2>2, <2>3, KeysOf DEF ConnFits
<1> QED BY <1>1, <1>2 DEF LeaseInv, TypesInv

\* A step of c that leaves the leases alone.
LEMMA QuietMove ==
  ASSUME LeaseInv, NEW c \in Conns, NEW s, Is(c, s), UNCHANGED <<leases, access>>,
         ConnFits(c, s, leases)
  PROVE  LeaseInv'
<1>1. /\ leases' \in [Keys -> [Conns -> 0..LeaseTtl]] /\ access' \in [Conns -> AccessStates]
      /\ \A k \in Keys, d \in Conns : d # c => leases'[k][d] = leases[k][d]
  BY DEF LeaseInv, TypesInv
<1>2. CountInv'
  BY DEF LeaseInv, CountInv, Bounded, Holders
<1> QED BY <1>1, <1>2, OneMoves

\* Whoever does not work owes nothing to the clock.
LEMMA IdleFits ==
  ASSUME NEW c \in Conns, NEW s \in Sockets(c), NEW L, L[AddressOf(c)][c] = L[Stage][c],
         s.net # "new", s.net # "open" \/ s.closing
  PROVE  ConnFits(c, s, L)
BY DEF ConnFits

\* The release of a lease, up to its await.
LEMMA ReleasedIs ==
  ASSUME NEW c \in Conns, NEW s \in Sockets(c)
  PROVE  /\ Released(c, s) \in Sockets(c)
         /\ Released(c, s).net = s.net /\ Released(c, s).closing = s.closing
BY DEF Released, Sockets

\* A connection that is closed with an error has begun to close.
LEMMA ClosedIs ==
  ASSUME NEW c \in Conns, NEW s \in Sockets(c), NEW who \in Tasks \cup {"main"},
         s.net # "new"
  PROVE  Closed(c, s, who) \in Sockets(c) /\ Closed(c, s, who).closing
         /\ Closed(c, s, who).net # "new"
<1>1. CASE s.closing
  BY <1>1 DEF Closed
<1>2. CASE ~s.closing /\ s.held
  <2> DEFINE r == Released(c, s)
  <2>1. r \in Sockets(c) /\ r.net # "new"
    BY ReleasedIs
  <2>2. Closed(c, s, who) = [r EXCEPT !.closing = TRUE, !.closer = who]
    BY <1>2 DEF Closed
  <2> HIDE DEF r
  <2> QED BY <2>1, <2>2 DEF Sockets
<1>3. CASE ~s.closing /\ ~s.held
  BY <1>3 DEF Closed, Sockets
<1> QED BY <1>1, <1>2, <1>3

\* So it fits whatever its leases are.
LEMMA ClosedFits ==
  ASSUME NEW c \in Conns, NEW s \in Sockets(c), NEW who \in Tasks \cup {"main"},
         s.net # "new", NEW L, L[AddressOf(c)][c] = L[Stage][c]
  PROVE  ConnFits(c, Closed(c, s, who), L)
BY ClosedIs, IdleFits

\* Cancelling tasks leaves the rest.
LEMMA CancelledIs ==
  ASSUME NEW c \in Conns, NEW s \in Sockets(c), NEW tasks
  PROVE  LET x == Cancelled(s, tasks) IN
         /\ x \in Sockets(c) /\ x.tasks = s.tasks \ tasks
         /\ x.net = s.net /\ x.pc = s.pc /\ x.read = s.read /\ x.authorized = s.authorized
         /\ x.closing = s.closing /\ x.held = s.held /\ x.subject = s.subject
         /\ x.release = s.release /\ x.deadline = s.deadline /\ x.beat = s.beat
BY DEF Cancelled, Sockets

\* The expiry of the access is scheduled again; no other task is touched.
LEMMA RescheduledIs ==
  ASSUME NEW c \in Conns, NEW s \in Sockets(c)
  PROVE  LET x == Rescheduled(c, s) IN
         /\ x \in Sockets(c) /\ x.tasks \ {"expiry"} = s.tasks \ {"expiry"}
         /\ x.net = s.net /\ x.pc = s.pc /\ x.read = s.read /\ x.authorized = s.authorized
         /\ x.closing = s.closing /\ x.held = s.held /\ x.subject = s.subject
         /\ x.release = s.release /\ x.deadline = s.deadline /\ x.beat = s.beat
<1> DEFINE y == Cancelled(s, {"expiry"})
           more == IF "expired" \in Ends(c) THEN {"expiry"} ELSE {}
<1>1. /\ y \in Sockets(c) /\ y.tasks = s.tasks \ {"expiry"}
      /\ y.net = s.net /\ y.pc = s.pc /\ y.read = s.read /\ y.authorized = s.authorized
      /\ y.closing = s.closing /\ y.held = s.held /\ y.subject = s.subject
      /\ y.release = s.release /\ y.deadline = s.deadline /\ y.beat = s.beat
  BY CancelledIs
<1>2. Rescheduled(c, s) = [y EXCEPT !.tasks = (@ \ {"expiry"}) \cup more]
  BY DEF Rescheduled
<1>3. more \subseteq {"expiry"}
  OBVIOUS
<1>4. "expiry" \in Tasks
  BY DEF Tasks
<1> HIDE DEF y, more
<1> QED BY <1>1, <1>2, <1>3, <1>4 DEF Sockets

\* What the invariant says of one connection.
LEMMA ConnIs ==
  ASSUME LeaseInv, NEW c \in Conns
  PROVE  /\ socket[c] \in Sockets(c) /\ ConnFits(c, socket[c], leases)
         /\ leases[AddressOf(c)][c] = leases[Stage][c]
         /\ socket[c].net = "new" => socket[c] = Fresh
         /\ socket[c].net = "open" /\ ~socket[c].closing => InTime(c, socket[c], leases)
         /\ access[c] \in AccessStates
BY DEF LeaseInv, ConnFits, TypesInv

\* A connection that has not connected does nothing else.
LEMMA FreshIs ==
  /\ Fresh.net = "new" /\ Fresh.pc = "idle" /\ Fresh.read = "none" /\ ~Fresh.authorized
  /\ Fresh.tasks = {} /\ Fresh.closer = "none" /\ Fresh.release = {}
  /\ Fresh.deadline = 0 /\ Fresh.beat = 0 /\ ~Fresh.closing /\ ~Fresh.held
BY DEF Fresh

\* It is a state of the consumer of any connection.
LEMMA FreshFits ==
  ASSUME NEW c \in Conns
  PROVE  Fresh \in Sockets(c)
<1>1. 0 \in 0..AuthTimeout /\ 0 \in 0..RefreshEvery /\ {} \in SUBSET Tasks
  BY LimitsAre
<1>2. {} \in {{}, OpenKeys(c), AccessKeys(c)}
  OBVIOUS
<1> QED BY <1>1, <1>2 DEF Fresh, Sockets, Pcs
-----------------------------------------------------------------------------
(* Every step keeps the invariant.                                          *)

\* A step of c that ends its work, or goes on where there is none.
LEMMA EndingMove ==
  ASSUME LeaseInv, NEW c \in Conns, NEW s \in Sockets(c), Is(c, s),
         UNCHANGED <<leases, access>>, s.net # "new", s.net # "open" \/ s.closing
  PROVE  LeaseInv'
BY ConnIs, IdleFits, QuietMove

\* Or closes with an error.
LEMMA ClosingMove ==
  ASSUME LeaseInv, NEW c \in Conns, NEW s \in Sockets(c), NEW who \in Tasks \cup {"main"},
         s.net # "new", Is(c, Closed(c, s, who)), UNCHANGED <<leases, access>>
  PROVE  LeaseInv'
BY ConnIs, ClosedFits, QuietMove

\* A step that goes on working.
LEMMA WorkingMove ==
  ASSUME LeaseInv, NEW c \in Conns, NEW s \in Sockets(c), Is(c, s),
         UNCHANGED <<leases, access>>, s.net # "new", s.net = socket[c].net,
         s.closing = socket[c].closing,
         InTime(c, socket[c], leases) => InTime(c, s, leases)
  PROVE  LeaseInv'
<1>1. ConnFits(c, s, leases)
  BY ConnIs DEF ConnFits
<1> QED BY <1>1, QuietMove

\* A step of main.
LEMMA ReceiveKeeps ==
  ASSUME LeaseInv, NEW c \in Conns, Receive(c)
  PROVE  LeaseInv'
<1>1. /\ socket[c] \in Sockets(c) /\ socket[c].net # "new" /\ socket[c].pc = "idle"
      /\ UNCHANGED <<leases, access>> /\ "main" \in Tasks \cup {"main"}
  BY ConnIs DEF Receive, Main
<1>2. CASE Is(c, Closed(c, socket[c], "main"))
  BY <1>1, <1>2, ClosingMove
<1>3. CASE ~socket[c].authorized /\ Is(c, [socket[c] EXCEPT !.pc = "reading"])
  <2> DEFINE s == [socket[c] EXCEPT !.pc = "reading"]
  <2>1. s \in Sockets(c)
    BY <1>1 DEF Sockets, Pcs
  <2>2. InTime(c, socket[c], leases) => InTime(c, s, leases)
    BY <1>1, <1>3 DEF InTime, Sockets
  <2>3. s.net = socket[c].net /\ s.closing = socket[c].closing
    BY <1>1 DEF Sockets
  <2> HIDE DEF s
  <2> QED BY <1>1, <1>3, <2>1, <2>2, <2>3, WorkingMove DEF s
<1> QED BY <1>2, <1>3 DEF Receive

\* The read of the state.
LEMMA ReadStateKeeps ==
  ASSUME LeaseInv, NEW c \in Conns, ReadState(c)
  PROVE  LeaseInv'
<1> DEFINE s == [socket[c] EXCEPT !.read = access[c]]
<1>1. socket[c] \in Sockets(c) /\ access[c] \in AccessStates /\ socket[c].pc # "idle"
  BY ConnIs DEF ReadState
<1>2. socket[c].net # "new"
  BY <1>1, ConnIs, FreshIs
<1>3. /\ s \in Sockets(c) /\ s.net = socket[c].net /\ s.closing = socket[c].closing
      /\ InTime(c, socket[c], leases) => InTime(c, s, leases)
  BY <1>1 DEF Sockets, InTime
<1>4. Is(c, s) /\ UNCHANGED <<leases, access>>
  BY DEF ReadState
<1> HIDE DEF s
<1> QED BY <1>2, <1>3, <1>4, WorkingMove

\* The identity of the connection.
LEMMA IdentifyKeeps ==
  ASSUME LeaseInv, NEW c \in Conns, Identify(c)
  PROVE  LeaseInv'
<1> DEFINE s == [socket[c] EXCEPT !.read = "none", !.pc = "idle"]
           t == [s EXCEPT !.pc = "acquiring", !.subject = TRUE]
<1>1. socket[c] \in Sockets(c) /\ socket[c].pc = "reading" /\ "main" \in Tasks \cup {"main"}
  BY ConnIs DEF Identify, Main
<1>2. socket[c].net # "new"
  BY <1>1, ConnIs, FreshIs
<1>3. s \in Sockets(c) /\ s.net = socket[c].net
  BY <1>1 DEF Sockets, Pcs
<1>4. /\ t \in Sockets(c) /\ t.net = socket[c].net /\ t.closing = socket[c].closing
      /\ InTime(c, socket[c], leases) => InTime(c, t, leases)
  BY <1>1 DEF Sockets, Pcs, InTime
<1>5. /\ UNCHANGED <<leases, access>>
      /\ Is(c, Closed(c, s, "main")) \/ Is(c, t)
  BY DEF Identify
<1> HIDE DEF s, t
<1>6. CASE Is(c, Closed(c, s, "main"))
  BY <1>1, <1>2, <1>3, <1>5, <1>6, ClosingMove
<1>7. CASE Is(c, t)
  BY <1>2, <1>4, <1>5, <1>7, WorkingMove
<1> QED BY <1>5, <1>6, <1>7

\* A lease that is written lasts longer than any timer.
LEMMA FullLease ==
  ASSUME LeaseInv, NEW c \in Conns, Write(c, AccessKeys(c), LeaseTtl)
  PROVE  /\ leases' \in [Keys -> [Conns -> 0..LeaseTtl]]
         /\ \A k \in Keys, d \in Conns : d # c => leases'[k][d] = leases[k][d]
         /\ leases'[AddressOf(c)][c] = leases'[Stage][c]
         /\ \A k \in AccessKeys(c) : leases'[k][c] = LeaseTtl
         /\ Outlasts(leases', c, AccessKeys(c), LeaseTtl - 1)
         /\ \A left \in 0..AuthTimeout : Outlasts(leases', c, AccessKeys(c), left)
         /\ \A left \in 0..RefreshEvery : Outlasts(leases', c, AccessKeys(c), left)
<1>1. TypesInv /\ LeaseTtl \in 0..LeaseTtl
  BY LimitsAre DEF LeaseInv
<1>2. /\ leases' \in [Keys -> [Conns -> 0..LeaseTtl]]
      /\ \A k \in Keys \cap AccessKeys(c) : leases'[k][c] = LeaseTtl
      /\ \A k \in Keys, d \in Conns : d # c => leases'[k][d] = leases[k][d]
  BY <1>1, WriteIs
<1>3. \A k \in AccessKeys(c) : leases'[k][c] = LeaseTtl
  BY <1>2, KeysOf
<1>4. leases'[AddressOf(c)][c] = leases'[Stage][c]
  BY <1>3, KeysOf
<1>5. /\ LeaseTtl - 1 < LeaseTtl
      /\ \A left \in 0..AuthTimeout : left < LeaseTtl
      /\ \A left \in 0..RefreshEvery : left < LeaseTtl
  BY LimitsAre
<1> QED BY <1>2, <1>3, <1>4, <1>5 DEF Outlasts

\* The request for a place of the access record.
LEMMA AcquireAccessKeeps ==
  ASSUME LeaseInv, NEW c \in Conns, AcquireAccess(c)
  PROVE  LeaseInv'
<1> DEFINE Goes(pc) == [socket[c] EXCEPT !.pc = pc]
<1>1. /\ socket[c] \in Sockets(c) /\ socket[c].pc = "acquiring"
      /\ access' = access /\ access \in [Conns -> AccessStates]
      /\ ConnFits(c, socket[c], leases)
  BY ConnIs DEF AcquireAccess, Main, LeaseInv, TypesInv
<1>2. socket[c].net # "new"
  BY <1>1, ConnIs, FreshIs
<1>3. \A pc \in {"acquired", "refused"} :
        /\ Goes(pc) \in Sockets(c) /\ Goes(pc).net = socket[c].net
        /\ Goes(pc).closing = socket[c].closing
  BY <1>1 DEF Sockets, Pcs
<1>4. CASE MayAccess(c) /\ Access(c) /\ \E pc \in {"acquired", "refused"} : Is(c, Goes(pc))
  <2>1. PICK pc \in {"acquired", "refused"} : Is(c, Goes(pc))
    BY <1>4
  <2>2. CountInv'
    BY <1>4, AccessCounts DEF LeaseInv
  <2>3. Write(c, AccessKeys(c), LeaseTtl)
    BY <1>4 DEF Access
  <2>4. socket[c].deadline \in 0..AuthTimeout /\ OpenKeys(c) \subseteq AccessKeys(c)
    BY <1>1, KeysOf DEF Sockets
  <2>5. Outlasts(leases', c, OpenKeys(c), socket[c].deadline)
    BY <2>3, <2>4, FullLease DEF Outlasts
  <2>6. Outlasts(leases', c, AccessKeys(c), LeaseTtl - 1)
    BY <2>3, FullLease
  <2>7. InTime(c, socket[c], leases) => InTime(c, Goes(pc), leases')
    BY <1>1, <2>5, <2>6 DEF InTime, Sockets
  <2>8. ConnFits(c, Goes(pc), leases')
    BY <1>1, <1>2, <1>3, <2>3, <2>7, FullLease DEF ConnFits
  <2> HIDE DEF Goes
  <2> QED BY <1>1, <2>1, <2>2, <2>3, <2>8, FullLease, OneMoves
<1>5. CASE UNCHANGED leases /\ Is(c, Goes("refused"))
  <2>1. InTime(c, socket[c], leases) => InTime(c, Goes("refused"), leases)
    BY <1>1 DEF InTime, Sockets
  <2>2. Goes("refused") \in Sockets(c) /\ Goes("refused").net = socket[c].net
        /\ Goes("refused").closing = socket[c].closing
    BY <1>3
  <2> HIDE DEF Goes
  <2> QED BY <1>1, <1>2, <1>5, <2>1, <2>2, WorkingMove
<1> QED BY <1>4, <1>5 DEF AcquireAccess

\* Its refusal.
LEMMA RefusedKeeps ==
  ASSUME LeaseInv, NEW c \in Conns, Refused(c)
  PROVE  LeaseInv'
<1> DEFINE s == [socket[c] EXCEPT !.pc = "idle"]
<1>1. socket[c] \in Sockets(c) /\ socket[c].pc = "refused" /\ "main" \in Tasks \cup {"main"}
  BY ConnIs DEF Refused, Main
<1>2. socket[c].net # "new"
  BY <1>1, ConnIs, FreshIs
<1>3. s \in Sockets(c) /\ s.net = socket[c].net
  BY <1>1 DEF Sockets, Pcs
<1>4. UNCHANGED <<leases, access>> /\ Is(c, Closed(c, s, "main"))
  BY DEF Refused
<1> HIDE DEF s
<1> QED BY <1>1, <1>2, <1>3, <1>4, ClosingMove

\* The connection is authorized while its lease is as good as new.
LEMMA AuthorizeKeeps ==
  ASSUME LeaseInv, NEW c \in Conns, Authorize(c)
  PROVE  LeaseInv'
<1> DEFINE x == Cancelled(socket[c], {"deadline"})
           s == [x EXCEPT !.pc = "joining", !.authorized = TRUE]
<1>1. socket[c] \in Sockets(c) /\ socket[c].pc = "acquired"
  BY ConnIs DEF Authorize, Main
<1>2. socket[c].net # "new"
  BY <1>1, ConnIs, FreshIs
<1>3. /\ x \in Sockets(c) /\ x.tasks = socket[c].tasks \ {"deadline"}
      /\ x.net = socket[c].net /\ x.closing = socket[c].closing
      /\ x.held = socket[c].held /\ x.release = socket[c].release
  BY <1>1, CancelledIs
<1>4. UNCHANGED <<leases, access>> /\ Is(c, s)
  BY DEF Authorize
<1> HIDE DEF x
<1>5. /\ s \in Sockets(c) /\ s.net = socket[c].net /\ s.closing = socket[c].closing
      /\ s.pc = "joining" /\ s.authorized /\ s.tasks = x.tasks
      /\ s.held = x.held /\ s.release = x.release
  BY <1>3 DEF Sockets, Pcs
<1> HIDE DEF s
<1>6. InTime(c, socket[c], leases) => InTime(c, s, leases)
  BY <1>1, <1>3, <1>5 DEF InTime
<1> QED BY <1>2, <1>4, <1>5, <1>6, WorkingMove
\* The first state is sent and the heartbeat starts.
LEMMA JoinedKeeps ==
  ASSUME LeaseInv, NEW c \in Conns, Joined(c)
  PROVE  LeaseInv'
<1> DEFINE s == [socket[c] EXCEPT !.read = "none", !.pc = "idle"]
           x == Rescheduled(c, s)
           t == [x EXCEPT !.tasks = @ \cup {"watch", "beat"}, !.beat = RefreshEvery]
<1>1. socket[c] \in Sockets(c) /\ socket[c].pc = "joining" /\ "main" \in Tasks \cup {"main"}
  BY ConnIs DEF Joined, Main
<1>2. socket[c].net # "new"
  BY <1>1, ConnIs, FreshIs
<1>3. /\ s \in Sockets(c) /\ s.net = socket[c].net /\ s.closing = socket[c].closing
      /\ s.held = socket[c].held /\ s.release = socket[c].release /\ s.pc = "idle"
      /\ s.authorized = socket[c].authorized
  BY <1>1 DEF Sockets, Pcs
<1>4. /\ UNCHANGED <<leases, access>>
      /\ Is(c, Closed(c, s, "main")) \/ Is(c, t)
  BY DEF Joined
<1> HIDE DEF s
<1>5. CASE Is(c, Closed(c, s, "main"))
  BY <1>1, <1>2, <1>3, <1>4, <1>5, ClosingMove
<1>6. CASE Is(c, t)
  <2>1. /\ x \in Sockets(c) /\ x.net = s.net /\ x.closing = s.closing /\ x.pc = "idle"
        /\ x.held = s.held /\ x.release = s.release /\ x.authorized = s.authorized
    BY <1>3, RescheduledIs
  <2> HIDE DEF x
  <2> DEFINE tasks == x.tasks \cup {"watch", "beat"}
  <2>2. tasks \in SUBSET Tasks /\ "beat" \in tasks /\ RefreshEvery \in 0..RefreshEvery
    BY <2>1, LimitsAre DEF Sockets, Tasks
  <2>3. t = [x EXCEPT !.tasks = tasks, !.beat = RefreshEvery]
    BY <2>1 DEF Sockets
  <2> HIDE DEF tasks, t
  <2>4. /\ t \in Sockets(c) /\ t.net = x.net /\ t.closing = x.closing /\ t.pc = "idle"
        /\ t.held = x.held /\ t.release = x.release /\ t.authorized = x.authorized
        /\ "beat" \in t.tasks /\ t.beat = RefreshEvery
    BY <2>1, <2>2, <2>3 DEF Sockets
  <2>5. ASSUME InTime(c, socket[c], leases) PROVE InTime(c, t, leases)
    <3>1. /\ socket[c].held /\ socket[c].release = {} /\ socket[c].authorized
          /\ Outlasts(leases, c, AccessKeys(c), LeaseTtl - 1)
      BY <1>1, <2>5 DEF InTime
    <3>2. leases \in [Keys -> [Conns -> 0..LeaseTtl]] /\ AccessKeys(c) \subseteq Keys
      BY KeysOf DEF LeaseInv, TypesInv
    <3>3. ASSUME NEW k \in AccessKeys(c) PROVE RefreshEvery < leases[k][c]
      <4>1. leases[k][c] \in 0..LeaseTtl /\ LeaseTtl - 1 < leases[k][c]
        BY <3>1, <3>2, <3>3 DEF Outlasts
      <4> QED BY <4>1, LimitsAre
    <3>4. Outlasts(leases, c, AccessKeys(c), RefreshEvery)
      BY <3>3 DEF Outlasts
    <3> QED BY <1>3, <2>1, <2>4, <3>1, <3>4 DEF InTime
  <2> QED BY <1>2, <1>3, <1>4, <1>6, <2>1, <2>4, <2>5, WorkingMove
<1> QED BY <1>4, <1>5, <1>6

\* An event comes in.
LEMMA SessionEventKeeps ==
  ASSUME LeaseInv, NEW c \in Conns, SessionEvent(c)
  PROVE  LeaseInv'
<1> DEFINE s == [socket[c] EXCEPT !.pc = "event"]
<1>1. /\ socket[c] \in Sockets(c) /\ socket[c].pc = "idle" /\ socket[c].authorized
      /\ Is(c, s) /\ UNCHANGED <<leases, access>>
  BY ConnIs DEF SessionEvent, Main
<1>2. socket[c].net # "new"
  BY <1>1, ConnIs, FreshIs
<1>3. /\ s \in Sockets(c) /\ s.net = socket[c].net /\ s.closing = socket[c].closing
      /\ InTime(c, socket[c], leases) => InTime(c, s, leases)
  BY <1>1 DEF Sockets, Pcs, InTime
<1> HIDE DEF s
<1> QED BY <1>1, <1>2, <1>3, WorkingMove

\* And is sent.
LEMMA SendEventKeeps ==
  ASSUME LeaseInv, NEW c \in Conns, SendEvent(c)
  PROVE  LeaseInv'
<1> DEFINE s == [socket[c] EXCEPT !.read = "none", !.pc = "idle"]
           x == Rescheduled(c, s)
<1>1. socket[c] \in Sockets(c) /\ socket[c].pc = "event" /\ "main" \in Tasks \cup {"main"}
  BY ConnIs DEF SendEvent, Main
<1>2. socket[c].net # "new"
  BY <1>1, ConnIs, FreshIs
<1>3. /\ s \in Sockets(c) /\ s.net = socket[c].net /\ s.closing = socket[c].closing
      /\ s.held = socket[c].held /\ s.release = socket[c].release /\ s.pc = "idle"
      /\ s.authorized = socket[c].authorized /\ s.tasks = socket[c].tasks
      /\ s.deadline = socket[c].deadline /\ s.beat = socket[c].beat
  BY <1>1 DEF Sockets, Pcs
<1>4. /\ UNCHANGED <<leases, access>>
      /\ Is(c, Closed(c, s, "main")) \/ Is(c, x)
  BY DEF SendEvent
<1> HIDE DEF s
<1>5. CASE Is(c, Closed(c, s, "main"))
  BY <1>1, <1>2, <1>3, <1>4, <1>5, ClosingMove
<1>6. CASE Is(c, x)
  <2>1. /\ x \in Sockets(c) /\ x.net = s.net /\ x.closing = s.closing /\ x.pc = "idle"
        /\ x.held = s.held /\ x.release = s.release /\ x.authorized = s.authorized
        /\ x.tasks \ {"expiry"} = s.tasks \ {"expiry"}
        /\ x.deadline = s.deadline /\ x.beat = s.beat
    BY <1>3, RescheduledIs
  <2> HIDE DEF x
  <2>2. /\ "deadline" \in x.tasks <=> "deadline" \in s.tasks
        /\ "beat" \in x.tasks <=> "beat" \in s.tasks
    BY <2>1
  <2>3. InTime(c, socket[c], leases) => InTime(c, x, leases)
    BY <1>1, <1>3, <2>1, <2>2 DEF InTime
  <2> QED BY <1>2, <1>3, <1>4, <1>6, <2>1, <2>3, WorkingMove
<1> QED BY <1>4, <1>5, <1>6

\* The client leaves, the end is served, or the process dies.
LEMMA LeavingKeeps ==
  ASSUME LeaseInv, NEW c \in Conns,
         ClientLeaves(c) \/ Disconnect(c) \/ Over(c) \/ Die(c)
  PROVE  LeaseInv'
<1>1. socket[c] \in Sockets(c)
  BY ConnIs
<1>2. CASE ClientLeaves(c)
  <2> DEFINE s == [socket[c] EXCEPT !.net = "gone"]
  <2>1. s \in Sockets(c) /\ s.net = "gone"
    BY <1>1 DEF Sockets
  <2>2. Is(c, s) /\ UNCHANGED <<leases, access>>
    BY <1>2 DEF ClientLeaves
  <2> HIDE DEF s
  <2> QED BY <2>1, <2>2, EndingMove
<1>3. CASE Disconnect(c)
  <2> DEFINE x == Cancelled(socket[c], Tasks)
             s == [x EXCEPT !.pc = "leaving"]
  <2>1. x \in Sockets(c) /\ x.net \in {"closed", "gone"}
    BY <1>1, <1>3, CancelledIs DEF Disconnect
  <2>2. Is(c, IF s.held THEN Released(c, s) ELSE s) /\ UNCHANGED <<leases, access>>
    BY <1>3 DEF Disconnect
  <2> HIDE DEF x
  <2>3. s \in Sockets(c) /\ s.net \in {"closed", "gone"}
    BY <2>1 DEF Sockets, Pcs
  <2> HIDE DEF s
  <2>4. Released(c, s) \in Sockets(c) /\ Released(c, s).net = s.net
    BY <2>3, ReleasedIs
  <2>5. CASE s.held
    BY <2>2, <2>3, <2>4, <2>5, EndingMove
  <2>6. CASE ~s.held
    BY <2>2, <2>3, <2>6, EndingMove
  <2> QED BY <2>5, <2>6
<1>4. CASE Over(c) \/ Die(c)
  <2>1. Is(c, Ended) /\ UNCHANGED <<leases, access>>
    BY <1>4 DEF Over, Die
  <2>2. Ended \in Sockets(c) /\ Ended.net = "gone"
    BY FreshFits DEF Ended, Sockets, Pcs
  <2> QED BY <2>1, <2>2, EndingMove
<1> QED BY <1>2, <1>3, <1>4

\* The deadline: it ends the work of whoever did not authorize.
LEMMA AuthTimedOutKeeps ==
  ASSUME LeaseInv, NEW c \in Conns, AuthTimedOut(c)
  PROVE  LeaseInv'
<1> DEFINE s == [socket[c] EXCEPT !.tasks = @ \ {"deadline"}]
<1>1. socket[c] \in Sockets(c) /\ "deadline" \in socket[c].tasks
  BY ConnIs DEF AuthTimedOut, Wakes
<1>2. socket[c].net # "new"
  BY <1>1, ConnIs, FreshIs
<1>3. /\ s \in Sockets(c) /\ s.net = socket[c].net /\ s.closing = socket[c].closing
      /\ s.authorized = socket[c].authorized
  BY <1>1 DEF Sockets
<1>4. socket[c].authorized /\ InTime(c, socket[c], leases) => InTime(c, s, leases)
  BY <1>1 DEF Sockets, InTime
<1>5. /\ UNCHANGED <<leases, access>>
      /\ Is(c, IF s.authorized THEN s ELSE Closed(c, s, "deadline"))
  BY DEF AuthTimedOut
<1> HIDE DEF s
<1>6. CASE s.authorized
  BY <1>2, <1>3, <1>4, <1>5, <1>6, WorkingMove
<1>7. CASE ~s.authorized
  BY <1>2, <1>3, <1>5, <1>7, ClosingMove DEF Tasks
<1> QED BY <1>6, <1>7

\* A task that ends the work of its connection.
LEMMA TaskEnds ==
  ASSUME LeaseInv, NEW c \in Conns, NEW task \in Tasks, Wakes(c, task),
         Is(c, Closed(c, [socket[c] EXCEPT !.tasks = @ \ {task}], task)),
         UNCHANGED <<leases, access>>
  PROVE  LeaseInv'
<1> DEFINE s == [socket[c] EXCEPT !.tasks = @ \ {task}]
<1>1. socket[c] \in Sockets(c) /\ task \in socket[c].tasks
  BY ConnIs DEF Wakes
<1>2. socket[c].net # "new"
  BY <1>1, ConnIs, FreshIs
<1>3. s \in Sockets(c) /\ s.net = socket[c].net
  BY <1>1 DEF Sockets
<1>4. Is(c, Closed(c, s, task)) /\ task \in Tasks \cup {"main"}
  OBVIOUS
<1> HIDE DEF s
<1> QED BY <1>2, <1>3, <1>4, ClosingMove

\* The expiry and the watch are such tasks.
LEMMA WatchKeeps ==
  ASSUME LeaseInv, NEW c \in Conns, AccessExpires(c) \/ WatchRefuses(c)
  PROVE  LeaseInv'
BY TaskEnds DEF AccessExpires, WatchRefuses, Tasks

\* The heartbeat renews the lease, or ends the work.
LEMMA HeartbeatKeeps ==
  ASSUME LeaseInv, NEW c \in Conns, Heartbeat(c)
  PROVE  LeaseInv'
<1> DEFINE s == [socket[c] EXCEPT !.tasks = @ \ {"beat"}]
           t == [socket[c] EXCEPT !.beat = RefreshEvery]
           over == Is(c, Closed(c, s, "beat"))
<1>1. /\ socket[c] \in Sockets(c) /\ "beat" \in socket[c].tasks /\ Wakes(c, "beat")
      /\ access' = access /\ access' \in [Conns -> AccessStates] /\ "beat" \in Tasks
      /\ ConnFits(c, socket[c], leases)
  BY ConnIs DEF Heartbeat, Wakes, LeaseInv, TypesInv, Tasks
<1>2. socket[c].net # "new"
  BY <1>1, ConnIs, FreshIs
<1>3. CASE UNCHANGED leases /\ over
  BY <1>1, <1>3, TaskEnds
<1>4. ASSUME MayBeat(c), Refresh(c)
      PROVE  CountInv' /\ Write(c, AccessKeys(c), LeaseTtl)
  <2>1. Write(c, AccessKeys(c), LeaseTtl) /\ LeaseTtl \in 0..LeaseTtl
    BY <1>4, LimitsAre DEF Refresh
  <2>2. HoldsAll(c, Keys \cap AccessKeys(c))
    BY <1>4 DEF MayBeat, HoldsAll
  <2>3. \A k \in Keys : Holders(k)' \subseteq Holders(k)
    BY <2>1, <2>2, SameHolders DEF LeaseInv
  <2> QED BY <2>1, <2>3, NoMoreHolders DEF LeaseInv
<1>5. CASE MayBeat(c) /\ Refresh(c) /\ over
  <2>1. s \in Sockets(c) /\ s.net # "new"
    BY <1>1, <1>2 DEF Sockets
  <2> HIDE DEF s
  <2>2. ConnFits(c, Closed(c, s, "beat"), leases')
    BY <1>1, <1>4, <1>5, <2>1, FullLease, ClosedFits
  <2> QED BY <1>1, <1>4, <1>5, <2>2, FullLease, OneMoves
<1>6. CASE MayBeat(c) /\ Refresh(c) /\ Is(c, t)
  <2>1. /\ t \in Sockets(c) /\ t.net = socket[c].net /\ t.closing = socket[c].closing
        /\ t.held = socket[c].held /\ t.release = socket[c].release /\ t.pc = socket[c].pc
        /\ t.authorized = socket[c].authorized /\ t.tasks = socket[c].tasks
        /\ t.beat = RefreshEvery
    BY <1>1, LimitsAre DEF Sockets
  <2> HIDE DEF t
  <2>2. Outlasts(leases', c, AccessKeys(c), RefreshEvery)
    <3>1. RefreshEvery \in 0..RefreshEvery
      BY LimitsAre
    <3> QED BY <1>4, <1>6, <3>1, FullLease
  <2>3. InTime(c, socket[c], leases) => InTime(c, t, leases')
    BY <1>1, <2>1, <2>2 DEF InTime
  <2>4. ConnFits(c, t, leases')
    BY <1>1, <1>2, <1>4, <1>6, <2>1, <2>3, FullLease DEF ConnFits
  <2> QED BY <1>1, <1>4, <1>6, <2>4, FullLease, OneMoves
<1> QED BY <1>3, <1>5, <1>6 DEF Heartbeat

\* The thread that releases a lease.
LEMMA ReleaseInThreadKeeps ==
  ASSUME LeaseInv, NEW c \in Conns, ReleaseInThread(c)
  PROVE  LeaseInv'
<1> DEFINE s == [socket[c] EXCEPT !.release = {}]
<1>1. /\ socket[c] \in Sockets(c) /\ socket[c].release # {} /\ Is(c, s)
      /\ access' = access /\ access' \in [Conns -> AccessStates]
  BY ConnIs DEF ReleaseInThread, LeaseInv, TypesInv
<1>2. socket[c].net # "new" /\ (socket[c].net # "open" \/ socket[c].closing)
  BY <1>1, ConnIs, FreshIs DEF InTime
<1>3. s \in Sockets(c) /\ s.net = socket[c].net /\ s.closing = socket[c].closing
  BY <1>1 DEF Sockets
<1> HIDE DEF s
<1>4. CASE UNCHANGED leases
  BY <1>1, <1>2, <1>3, <1>4, EndingMove
<1>5. CASE Release(c, socket[c].release)
  <2>1. Write(c, socket[c].release, 0) /\ 0 \in 0..LeaseTtl /\ TypesInv
    BY <1>5, LimitsAre DEF Release, LeaseInv
  <2>2. \A k \in Keys : Holders(k)' \subseteq Holders(k)
    BY <2>1, SameHolders
  <2>3. CountInv'
    BY <2>2, NoMoreHolders DEF LeaseInv
  <2>4. socket[c].release \in {OpenKeys(c), AccessKeys(c)}
    BY <1>1 DEF Sockets
  <2>5. leases'[AddressOf(c)][c] = leases'[Stage][c]
    BY <2>1, <2>4, KeysOf, WriteIs
  <2>6. ConnFits(c, s, leases')
    BY <1>2, <1>3, <2>5, IdleFits
  <2> QED BY <1>1, <2>1, <2>3, <2>6, WriteIs, OneMoves
<1> QED BY <1>4, <1>5 DEF ReleaseInThread

\* A close that ends.
LEMMA EndCloseKeeps ==
  ASSUME LeaseInv, NEW c \in Conns, EndClose(c)
  PROVE  LeaseInv'
<1> DEFINE s == [socket[c] EXCEPT !.closer = "none", !.net = IF @ = "open" THEN "closed" ELSE @]
<1>1. /\ socket[c] \in Sockets(c) /\ Is(c, s) /\ UNCHANGED <<leases, access>>
      /\ socket[c].closer \in Tasks \cup {"main"}
  BY ConnIs DEF EndClose
<1>2. socket[c].net # "new"
  BY <1>1, ConnIs, FreshIs DEF Tasks
<1>3. s \in Sockets(c) /\ s.net # "open" /\ s.net # "new"
  BY <1>1, <1>2 DEF Sockets
<1> HIDE DEF s
<1> QED BY <1>1, <1>3, EndingMove

\* The access of a connection ends.
LEMMA AccessEndsKeeps ==
  ASSUME LeaseInv, NEW c \in Conns, AccessEnds(c)
  PROVE  LeaseInv'
<1>1. PICK how \in Ends(c) : access' = [access EXCEPT ![c] = how]
  BY DEF AccessEnds
<1>2. how \in AccessStates
  BY TimesAssumption DEF AccessStates
<1>3. access' \in [Conns -> AccessStates]
  BY <1>1, <1>2 DEF LeaseInv, TypesInv
<1>4. leases' = leases /\ socket' = socket
  BY DEF AccessEnds
<1> HIDE DEF AccessStates
<1>5. CountInv'
  BY <1>4 DEF LeaseInv, CountInv, Bounded, Holders
<1> QED BY <1>3, <1>4, <1>5 DEF LeaseInv, TypesInv
\* A new connection is counted, or turned away.
LEMMA ConnectKeeps ==
  ASSUME LeaseInv, NEW c \in Conns, Connect(c)
  PROVE  LeaseInv'
<1> DEFINE s == [socket[c] EXCEPT !.net = "open"]
           t == [s EXCEPT !.held = TRUE, !.tasks = {"deadline"}, !.deadline = AuthTimeout]
           over == Is(c, Closed(c, s, "main"))
<1>1. /\ socket[c] = Fresh /\ socket[c] \in Sockets(c) /\ "main" \in Tasks \cup {"main"}
      /\ access' = access /\ access' \in [Conns -> AccessStates]
      /\ leases[AddressOf(c)][c] = leases[Stage][c]
  BY ConnIs DEF Connect, LeaseInv, TypesInv
<1>2. s \in Sockets(c) /\ s.net = "open" /\ s.release = {} /\ ~s.authorized /\ s.pc = "idle"
  BY <1>1, FreshIs DEF Sockets
<1>3. \/ Open(c) /\ Is(c, t)
      \/ Open(c) /\ over
      \/ UNCHANGED leases /\ over
  BY DEF Connect
<1> HIDE DEF s
<1>4. CASE UNCHANGED leases /\ over
  BY <1>1, <1>2, <1>4, ClosingMove
<1>5. ASSUME Open(c)
      PROVE  /\ leases' \in [Keys -> [Conns -> 0..LeaseTtl]]
             /\ \A k \in Keys, d \in Conns : d # c => leases'[k][d] = leases[k][d]
             /\ \A k \in OpenKeys(c) : leases'[k][c] = LeaseTtl
             /\ leases'[AddressOf(c)][c] = leases'[Stage][c]
             /\ CountInv'
  <2>1. Write(c, OpenKeys(c), LeaseTtl) /\ LeaseTtl \in 0..LeaseTtl /\ TypesInv /\ CountInv
    BY <1>5, LimitsAre DEF Open, LeaseInv
  <2>2. \A k \in OpenKeys(c) : leases'[k][c] = LeaseTtl
    BY <2>1, KeysOf, WriteIs
  <2> QED BY <1>5, <2>1, <2>2, KeysOf, WriteIs, OpenCounts
<1>6. CASE Open(c) /\ over
  <2>1. ConnFits(c, Closed(c, s, "main"), leases')
    BY <1>1, <1>2, <1>5, <1>6, ClosedFits
  <2> QED BY <1>1, <1>5, <1>6, <2>1, OneMoves
<1>7. CASE Open(c) /\ Is(c, t)
  <2>1. "deadline" \in Tasks /\ AuthTimeout \in 0..AuthTimeout /\ AuthTimeout < LeaseTtl
    BY LimitsAre DEF Tasks
  <2>2. /\ t \in Sockets(c) /\ t.net = "open" /\ t.release = {} /\ ~t.authorized
        /\ t.pc = "idle" /\ t.held /\ t.tasks = {"deadline"} /\ t.deadline = AuthTimeout
    BY <1>2, <2>1 DEF Sockets
  <2> HIDE DEF t
  <2>3. Outlasts(leases', c, OpenKeys(c), AuthTimeout)
    BY <1>5, <1>7, <2>1 DEF Outlasts
  <2>4. InTime(c, t, leases')
    BY <2>2, <2>3 DEF InTime
  <2>5. ConnFits(c, t, leases')
    BY <1>5, <1>7, <2>2, <2>4 DEF ConnFits
  <2> QED BY <1>1, <1>5, <1>7, <2>5, OneMoves
<1> QED BY <1>3, <1>4, <1>6, <1>7

\* A unit of time shortens the leases and the timers alike.
LEMMA TickKeeps ==
  ASSUME LeaseInv, Tick
  PROVE  LeaseInv'
<1> DEFINE After(c) == [socket[c] EXCEPT !.deadline = Less(@), !.beat = Less(@)]
<1>1. /\ leases' = [k \in Keys |-> [c \in Conns |-> Less(leases[k][c])]]
      /\ socket' = [c \in Conns |-> After(c)]
      /\ access' = access /\ access \in [Conns -> AccessStates]
      /\ leases \in [Keys -> [Conns -> 0..LeaseTtl]]
  BY DEF Tick, Elapse, Less, LeaseInv, TypesInv
<1>2. \A n \in Nat : Less(n) \in 0..n /\ (n > 0 => Less(n) = n - 1)
  BY DEF Less
<1>3. /\ leases' \in [Keys -> [Conns -> 0..LeaseTtl]]
      /\ \A k \in Keys, c \in Conns : leases'[k][c] = Less(leases[k][c])
  <2>1. ASSUME NEW k \in Keys, NEW c \in Conns
        PROVE  Less(leases[k][c]) \in 0..LeaseTtl
    <3>1. leases[k][c] \in 0..LeaseTtl
      BY <1>1
    <3> QED BY <1>2, <3>1, LimitsAre
  <2> QED BY <1>1, <2>1
<1>4. \A k \in Keys : Holders(k)' \subseteq Holders(k)
  <2> SUFFICES ASSUME NEW k \in Keys, NEW c \in Conns, leases'[k][c] > 0
               PROVE  leases[k][c] > 0
    BY DEF Holders
  <2>1. leases[k][c] \in 0..LeaseTtl /\ leases'[k][c] = Less(leases[k][c])
    BY <1>1, <1>3
  <2> QED BY <2>1 DEF Less
<1>5. CountInv'
  BY <1>4, NoMoreHolders DEF LeaseInv
<1>6. ASSUME NEW c \in Conns PROVE ConnFits(c, socket'[c], leases')
  <2> DEFINE s == socket[c]
             t == After(c)
  <2>1. /\ s \in Sockets(c) /\ socket'[c] = t
        /\ leases[AddressOf(c)][c] = leases[Stage][c]
        /\ s.net = "new" => s = Fresh
        /\ s.net = "open" /\ ~s.closing => InTime(c, s, leases)
        /\ ~Busy(s, access[c] = "expired")
    BY <1>1, ConnIs DEF Tick
  <2>2. /\ s.deadline \in Nat /\ s.deadline \in 0..AuthTimeout
        /\ s.beat \in Nat /\ s.beat \in 0..RefreshEvery
    BY <2>1, LimitsAre DEF Sockets
  <2>3. Less(s.deadline) \in 0..AuthTimeout /\ Less(s.beat) \in 0..RefreshEvery
    BY <1>2, <2>2, LimitsAre
  <2>4. /\ t \in Sockets(c) /\ t.net = s.net /\ t.closing = s.closing /\ t.held = s.held
        /\ t.release = s.release /\ t.pc = s.pc /\ t.authorized = s.authorized
        /\ t.tasks = s.tasks
        /\ t.deadline = Less(s.deadline) /\ t.beat = Less(s.beat)
    BY <2>1, <2>3 DEF Sockets
  <2>5. ASSUME s = Fresh PROVE t = Fresh
    <3>1. s.deadline = 0 /\ s.beat = 0
      BY <2>5, FreshIs
    <3>2. t = [s EXCEPT !.deadline = 0, !.beat = 0]
      BY <3>1 DEF Less
    <3>3. [s EXCEPT !.deadline = 0, !.beat = 0] = s
      BY <2>1, <3>1 DEF Sockets
    <3> QED BY <2>5, <3>2, <3>3
  <2> HIDE DEF s, t
  <2>6. leases'[AddressOf(c)][c] = leases'[Stage][c]
    BY <1>3, <2>1, KeysOf
  <2>7. \A keys \in SUBSET Keys, n \in Nat :
          n > 0 /\ Outlasts(leases, c, keys, n) => Outlasts(leases', c, keys, Less(n))
    <3> SUFFICES ASSUME NEW keys \in SUBSET Keys, NEW n \in Nat, n > 0,
                        Outlasts(leases, c, keys, n), NEW k \in keys
                 PROVE  Less(n) < leases'[k][c]
      BY DEF Outlasts
    <3>1. leases[k][c] \in 0..LeaseTtl /\ n < leases[k][c]
      BY <1>1 DEF Outlasts
    <3>2. leases'[k][c] = Less(leases[k][c])
      BY <1>3
    <3> QED BY <3>1, <3>2, LimitsAre DEF Less
  <2>8. ASSUME InTime(c, s, leases) PROVE InTime(c, t, leases')
    <3>1. /\ s.pc \in {"idle", "over"}
          /\ "deadline" \in s.tasks => s.deadline > 0
          /\ "beat" \in s.tasks => s.beat > 0
      BY <2>1, <2>2 DEF Busy
    <3>2. OpenKeys(c) \in SUBSET Keys /\ AccessKeys(c) \in SUBSET Keys
      BY KeysOf
    <3>3. CASE s.authorized
      <4>1. "beat" \in s.tasks /\ Outlasts(leases, c, AccessKeys(c), s.beat)
        BY <2>8, <3>1, <3>3 DEF InTime
      <4>2. Outlasts(leases', c, AccessKeys(c), t.beat)
        BY <2>2, <2>4, <2>7, <3>1, <3>2, <4>1
      <4> QED BY <2>4, <2>8, <3>1, <3>3, <4>1, <4>2 DEF InTime
    <3>4. CASE ~s.authorized
      <4>1. "deadline" \in s.tasks /\ Outlasts(leases, c, OpenKeys(c), s.deadline)
        BY <2>8, <3>4 DEF InTime
      <4>2. Outlasts(leases', c, OpenKeys(c), t.deadline)
        BY <2>2, <2>4, <2>7, <3>1, <3>2, <4>1
      <4> QED BY <2>4, <2>8, <3>1, <3>4, <4>1, <4>2 DEF InTime
    <3> QED BY <3>3, <3>4
  <2> QED BY <2>1, <2>4, <2>5, <2>6, <2>8 DEF ConnFits
<1>7. access' \in [Conns -> AccessStates] /\ socket' = [c \in Conns |-> socket'[c]]
  BY <1>1
<1> QED BY <1>3, <1>5, <1>6, <1>7 DEF LeaseInv, TypesInv

\* Nobody has connected yet.
LEMMA InitLeases == Init => LeaseInv
<1> SUFFICES ASSUME Init PROVE LeaseInv
  OBVIOUS
<1>1. /\ leases = [k \in Keys |-> [c \in Conns |-> 0]]
      /\ socket = [c \in Conns |-> Fresh] /\ access = [c \in Conns |-> "valid"]
  BY DEF Init, NoLeases
<1>2. 0 \in 0..LeaseTtl
  BY LimitsAre
<1>3. TypesInv
  <2>1. [c \in Conns |-> 0] \in [Conns -> 0..LeaseTtl]
    BY <1>2
  <2> QED BY <1>1, <2>1 DEF TypesInv, AccessStates
<1>4. \A k \in Keys : Holders(k) = {}
  BY <1>1 DEF Holders
<1>5. \A limit \in Nat : Bounded({}, limit)
  BY FS_EmptySet DEF Bounded
<1>6. CountInv
  BY <1>4, <1>5, KeysOf, LimitsAre DEF CountInv
<1>7. ASSUME NEW c \in Conns PROVE ConnFits(c, socket[c], leases)
  BY <1>1, FreshFits, FreshIs, KeysOf DEF ConnFits
<1> QED BY <1>3, <1>6, <1>7 DEF LeaseInv

\* Every step keeps the invariant.
LEMMA NextLeases == LeaseInv /\ [Next]_vars => LeaseInv'
<1> SUFFICES ASSUME LeaseInv, [Next]_vars PROVE LeaseInv'
  OBVIOUS
<1>1. ASSUME NEW c \in Conns, MainStep(c) PROVE LeaseInv'
  BY <1>1, ReadStateKeeps, IdentifyKeeps, AcquireAccessKeeps, RefusedKeeps, AuthorizeKeeps,
     JoinedKeeps, SendEventKeeps, LeavingKeeps DEF MainStep
<1>2. ASSUME NEW c \in Conns, TimerStep(c) PROVE LeaseInv'
  BY <1>2, AuthTimedOutKeeps, WatchKeeps, HeartbeatKeeps DEF TimerStep
<1>3. ASSUME NEW c \in Conns,
             \/ ReleaseInThread(c) \/ EndClose(c) \/ Connect(c) \/ Receive(c)
             \/ SessionEvent(c) \/ WatchRefuses(c) \/ ClientLeaves(c) \/ Disconnect(c)
             \/ Die(c) \/ AccessEnds(c)
      PROVE  LeaseInv'
  BY <1>3, ReleaseInThreadKeeps, EndCloseKeeps, ConnectKeeps, ReceiveKeeps, SessionEventKeeps,
     WatchKeeps, LeavingKeeps, AccessEndsKeeps
<1>4. CASE Tick
  BY <1>4, TickKeeps
<1>5. CASE UNCHANGED vars
  BY <1>5 DEF vars, LeaseInv, TypesInv, CountInv, Bounded, Holders
<1> QED BY <1>1, <1>2, <1>3, <1>4, <1>5 DEF Next
-----------------------------------------------------------------------------
(* What the invariant says of the limits.                                   *)

\* Whoever works holds a lease of every key it is entitled to.
LEMMA WorkingHold ==
  ASSUME LeaseInv, NEW c \in Conns, Working(c)
  PROVE  /\ HoldsAll(c, OpenKeys(c))
         /\ socket[c].authorized => HoldsAll(c, AccessKeys(c))
<1> DEFINE s == socket[c]
<1>1. s \in Sockets(c) /\ InTime(c, s, leases)
  BY ConnIs DEF Working
<1>2. s.deadline \in 0..AuthTimeout /\ s.beat \in 0..RefreshEvery
  BY <1>1 DEF Sockets
<1>3. \A k \in AccessKeys(c) : leases[k][c] \in 0..LeaseTtl
  BY KeysOf DEF LeaseInv, TypesInv
<1>4. \A n \in Nat, keys \in SUBSET AccessKeys(c) :
        Outlasts(leases, c, keys, n) => HoldsAll(c, keys)
  <2> SUFFICES ASSUME NEW n \in Nat, NEW keys \in SUBSET AccessKeys(c),
                      Outlasts(leases, c, keys, n), NEW k \in keys
               PROVE  leases[k][c] > 0
    BY DEF HoldsAll, Holders
  <2>1. leases[k][c] \in 0..LeaseTtl /\ n < leases[k][c]
    BY <1>3 DEF Outlasts
  <2> QED BY <2>1, LimitsAre
<1>5. OpenKeys(c) \in SUBSET AccessKeys(c) /\ AccessKeys(c) \in SUBSET AccessKeys(c)
  BY KeysOf
<1>6. s.deadline \in Nat /\ s.beat \in Nat /\ LeaseTtl - 1 \in Nat
  BY <1>2, LimitsAre
<1> HIDE DEF s
<1>7. CASE s.authorized
  <2>1. \/ Outlasts(leases, c, AccessKeys(c), LeaseTtl - 1)
        \/ Outlasts(leases, c, AccessKeys(c), s.beat)
    BY <1>1, <1>7 DEF InTime
  <2>2. HoldsAll(c, AccessKeys(c))
    BY <1>4, <1>5, <1>6, <2>1
  <2> QED BY <2>2, <1>5 DEF HoldsAll, s
<1>8. CASE ~s.authorized
  <2>1. Outlasts(leases, c, OpenKeys(c), s.deadline)
    BY <1>1, <1>8 DEF InTime
  <2> QED BY <1>4, <1>5, <1>6, <1>8, <2>1 DEF s
<1> QED BY <1>7, <1>8

\* So no more work than the limits allow.
LEMMA LimitsBind ==
  ASSUME LeaseInv
  PROVE  LimitsBindTheOpen
<1>1. ASSUME NEW S, NEW T, NEW limit \in Nat, Bounded(S, limit), T \subseteq S
      PROVE  Cardinality(T) <= limit
  BY <1>1, BoundedSubset DEF Bounded
<1>2. At(Stage) \subseteq Holders(Stage)
  BY WorkingHold DEF At, HoldsAll, OpenKeys
<1>3. Cardinality(At(Stage)) <= StageLimit
  <2>1. CASE Conns = {}
    <3>1. At(Stage) = {}
      BY <2>1 DEF At
    <3> QED BY <3>1, FS_EmptySet, LimitsAre
  <2>2. CASE Conns # {}
    <3>1. Bounded(Holders(Stage), StageLimit)
      BY <2>2 DEF LeaseInv, CountInv
    <3> QED BY <1>1, <1>2, <3>1, LimitsAre
  <2> QED BY <2>1, <2>2
<1>4. ASSUME NEW c \in Conns
      PROVE  /\ Cardinality(At(AddressOf(c))) <= IpLimit
             /\ Cardinality(Entitled(SubjectOf(c))) <= AccessLimit
  <2>1. At(AddressOf(c)) \subseteq Holders(AddressOf(c))
    BY WorkingHold, KeysAssumption DEF At, HoldsAll, OpenKeys
  <2>2. Entitled(SubjectOf(c)) \subseteq Holders(SubjectOf(c))
    BY WorkingHold DEF Entitled, HoldsAll, AccessKeys
  <2>3. /\ Bounded(Holders(AddressOf(c)), IpLimit)
        /\ Bounded(Holders(SubjectOf(c)), AccessLimit)
    BY DEF LeaseInv, CountInv
  <2> QED BY <1>1, <2>1, <2>2, <2>3, LimitsAre
<1> QED BY <1>3, <1>4 DEF LimitsBindTheOpen

\* The type invariant, and that the working are counted.
LEMMA LeasesAreTyped ==
  ASSUME LeaseInv
  PROVE  TypeOK /\ TheWorkingAreCounted
<1>1. ASSUME NEW c \in Conns
      PROVE  /\ socket[c].net \in {"new", "open", "closed", "gone"}
             /\ socket[c].tasks \subseteq Tasks
             /\ socket[c].closer \in Tasks \cup {"none", "main", "cut"}
             /\ socket[c].release \subseteq Keys
  <2>1. socket[c] \in Sockets(c)
    BY ConnIs
  <2>2. socket[c].release \in {{}, OpenKeys(c), AccessKeys(c)}
    BY <2>1 DEF Sockets
  <2> QED BY <2>1, <2>2, KeysOf DEF Sockets
<1>2. TypeOK
  BY <1>1 DEF TypeOK, LeaseInv, TypesInv, AccessStates
<1>3. TheWorkingAreCounted
  BY WorkingHold DEF TheWorkingAreCounted
<1> QED BY <1>2, <1>3

\* A step that writes a lease is one of four.
LEMMA WhoWrites ==
  ASSUME Next, NEW c \in Conns, TypesInv
  PROVE  \/ Connect(c) \/ AcquireAccess(c) \/ Heartbeat(c) \/ ReleaseInThread(c) \/ Tick
         \/ \A k \in Keys : leases'[k][c] = leases[k][c]
<1>1. ASSUME NEW d \in Conns, d # c,
             Connect(d) \/ AcquireAccess(d) \/ Heartbeat(d) \/ ReleaseInThread(d)
      PROVE  \A k \in Keys : leases'[k][c] = leases[k][c]
  <2>1. \/ UNCHANGED leases
        \/ \E keys \in {OpenKeys(d), AccessKeys(d), socket[d].release}, left \in 0..LeaseTtl :
             Write(d, keys, left)
    BY <1>1, LimitsAre
    DEF Connect, AcquireAccess, Heartbeat, ReleaseInThread, Open, Access, Refresh, Release
  <2> QED BY <1>1, <2>1, WriteIs
<1>2. ASSUME NEW d \in Conns,
             \/ ReadState(d) \/ Identify(d) \/ Refused(d) \/ Authorize(d) \/ Joined(d)
             \/ SendEvent(d) \/ Over(d) \/ AuthTimedOut(d) \/ AccessExpires(d) \/ EndClose(d)
             \/ Receive(d) \/ SessionEvent(d) \/ WatchRefuses(d) \/ ClientLeaves(d)
             \/ Disconnect(d) \/ Die(d) \/ AccessEnds(d)
      PROVE  leases' = leases
  BY <1>2 DEF ReadState, Identify, Refused, Authorize, Joined, SendEvent, Over, AuthTimedOut,
     AccessExpires, EndClose, Receive, SessionEvent, WatchRefuses, ClientLeaves, Disconnect,
     Die, AccessEnds
<1>3. \/ Tick
      \/ \E d \in Conns :
           \/ Connect(d) \/ AcquireAccess(d) \/ Heartbeat(d) \/ ReleaseInThread(d)
           \/ ReadState(d) \/ Identify(d) \/ Refused(d) \/ Authorize(d) \/ Joined(d)
           \/ SendEvent(d) \/ Over(d) \/ AuthTimedOut(d) \/ AccessExpires(d) \/ EndClose(d)
           \/ Receive(d) \/ SessionEvent(d) \/ WatchRefuses(d) \/ ClientLeaves(d)
           \/ Disconnect(d) \/ Die(d) \/ AccessEnds(d)
  BY DEF Next, MainStep, TimerStep
<1> QED BY <1>1, <1>2, <1>3

\* A lease that is gone does not come back.
LEMMA LostStayLost ==
  ASSUME LeaseInv, [Next]_vars, NEW c \in Conns, socket[c].net # "new", c \notin Holders(Stage)
  PROVE  leases'[Stage][c] = 0 /\ leases'[AddressOf(c)][c] = 0
<1>1. TypesInv /\ Stage \in Keys /\ AddressOf(c) \in Keys
  BY KeysOf DEF LeaseInv
<1>2. leases[Stage][c] = 0 /\ leases[AddressOf(c)][c] = 0
  <2>1. leases[Stage][c] \in 0..LeaseTtl /\ ~(leases[Stage][c] > 0)
    BY <1>1 DEF TypesInv, Holders
  <2> QED BY <2>1, ConnIs, LimitsAre
<1>3. ~HoldsAll(c, OpenKeys(c)) /\ ~HoldsAll(c, AccessKeys(c))
  BY KeysOf DEF HoldsAll
<1>4. ~Connect(c)
  BY DEF Connect
<1>5. CASE \A k \in Keys : leases'[k][c] = leases[k][c]
  BY <1>1, <1>2, <1>5
<1>6. CASE AcquireAccess(c)
  BY <1>2, <1>3, <1>6 DEF AcquireAccess, MayAccess
<1>7. CASE Heartbeat(c)
  BY <1>2, <1>3, <1>7 DEF Heartbeat, MayBeat
<1>8. CASE ReleaseInThread(c)
  <2>1. CASE Release(c, socket[c].release)
    <3>1. 0 \in 0..LeaseTtl
      BY LimitsAre
    <3> QED BY <1>1, <1>2, <2>1, <3>1, WriteIs DEF Release
  <2>2. CASE UNCHANGED leases
    BY <1>2, <2>2
  <2> QED BY <1>8, <2>1, <2>2 DEF ReleaseInThread
<1>9. CASE Tick
  BY <1>1, <1>2, <1>9 DEF Tick, Elapse
<1>10. CASE UNCHANGED vars
  BY <1>2, <1>10 DEF vars
<1> QED BY <1>1, <1>4, <1>5, <1>6, <1>7, <1>8, <1>9, <1>10, WhoWrites

\* The limits of connections hold with leases that mean what they say: no more work
\* than the limits allow, whoever works is counted by every key it entitles it to, and
\* a lost lease stays lost (consumers.py:108-306, websocket_limits.py:86-175).
THEOREM LimitsAlwaysHold == Spec => LimitsHold
<1>1. Init => LeaseInv
  BY InitLeases
<1>2. LeaseInv /\ [Next]_vars => LeaseInv'
  BY NextLeases
<1>3. LeaseInv => TypeOK /\ LimitsBindTheOpen /\ TheWorkingAreCounted
  BY LimitsBind, LeasesAreTyped
<1>4. LeaseInv /\ [Next]_vars =>
        [\A c \in Conns : socket[c].net # "new" /\ c \notin Holders(Stage) =>
           leases'[Stage][c] = 0 /\ leases'[AddressOf(c)][c] = 0]_vars
  BY LostStayLost
<1> QED BY <1>1, <1>2, <1>3, <1>4, PTL DEF Spec, LimitsHold, LostLeasesStayLost
=============================================================================
