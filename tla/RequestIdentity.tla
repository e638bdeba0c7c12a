---------------------------- MODULE RequestIdentity ----------------------------
(***************************************************************************)
(* The address that the limits count a request under                       *)
(* (core/request_identity.py), for every chain of addresses that proxies   *)
(* and clients can leave in the headers.  X-Forwarded-For is read from its *)
(* right end, where the nearest proxy has written; a client can only put   *)
(* something to the left of that.                                          *)
(***************************************************************************)
EXTENDS Naturals, Sequences

CONSTANTS
  Trusted,    \* addresses within TRUSTED_PROXY_CIDRS
  Outer,      \* other addresses
  Malformed,  \* a value that is no address
  MaxHops     \* bound: the values of the header

VARIABLES
  peer,       \* REMOTE_ADDR, or the client of an ASGI scope
  forwarded,  \* the values of X-Forwarded-For
  real_ip     \* X-Real-IP, as no value or one

vars == <<peer, forwarded, real_ip>>

Values == Trusted \cup Outer \cup {Malformed}

\* The loop from the right: on while the address it stands at is trusted.
Walk_Bug(start, values) ==
  LET seen[i \in 0..Len(values)] ==
        IF i = 0 THEN start ELSE values[Len(values) + 1 - i]
  IN  seen[Len(values)]
Walk(start, values) ==
  LET seen[i \in 0..Len(values)] ==
        IF i = 0 THEN start
        ELSE LET current == seen[i - 1] IN
             IF current \in Trusted THEN values[Len(values) + 1 - i] ELSE current
  IN  IF \E i \in 0..Len(values) : seen[i] = Malformed THEN start ELSE seen[Len(values)]

ClientAddress_Bug ==
  IF peer = Malformed THEN "unknown"
  ELSE Walk(peer, real_ip \o forwarded)
ClientAddress ==
  IF peer = Malformed THEN "unknown"
  ELSE IF peer \notin Trusted THEN peer
  ELSE Walk(peer, IF forwarded # <<>> THEN forwarded ELSE real_ip)

RealIps == {<<>>} \cup {<<v>> : v \in Values}

Init == peer \in Values /\ forwarded = <<>> /\ real_ip \in RealIps

\* What stands in front of the header: by an earlier proxy, or by the client.
Prepend ==
  /\ Len(forwarded) < MaxHops
  /\ \E v \in Values : forwarded' = <<v>> \o forwarded
  /\ UNCHANGED <<peer, real_ip>>

\* Another request, whose headers start empty.
AnotherRequest == peer' \in Values /\ forwarded' = <<>> /\ real_ip' \in RealIps

Next == Prepend \/ AnotherRequest

Spec == Init /\ [][Next]_vars
-----------------------------------------------------------------------------
\* The address is the first from the right that is not a trusted proxy, or the
\* leftmost when all are; anything malformed on the way leaves the peer alone.
AddressIsTheNearestStranger ==
  LET chain == (IF forwarded # <<>> THEN forwarded ELSE real_ip) \o <<peer>>
      stranger(i) == chain[i] \notin Trusted
      last == {i \in DOMAIN chain : stranger(i) /\ \A j \in DOMAIN chain : j > i => ~ stranger(j)}
  IN  CASE peer = Malformed -> ClientAddress = "unknown"
        [] peer # Malformed /\ last = {} -> ClientAddress = chain[1]
        [] OTHER -> \A i \in last :
             ClientAddress = IF chain[i] = Malformed THEN peer ELSE chain[i]

\* Once the header shows a stranger, nothing put in front of it changes under
\* which address the request is counted.
FrontChangesNothing ==
  [][forwarded # <<>> /\ forwarded' # <<>> /\ ClientAddress \notin Trusted
       => ClientAddress' = ClientAddress]_vars
=============================================================================
