---------------------------- MODULE WebSocketGuard ----------------------------
(***************************************************************************)
(* The leases of WebSocket connections in Redis                            *)
(* (backend/apps/core/websocket_limits.py).  Each Lua script is one        *)
(* action.  A sorted set holds a lease with the time it expires at; here   *)
(* leases[k][c] is the time that is left, and no time left is an absent    *)
(* entry, as every script first removes what has expired.                  *)
(*                                                                         *)
(* A lease is named by its connection, which draws a new lease_id.  The    *)
(* token bucket of OPEN is a possible refusal.                             *)
(***************************************************************************)
EXTENDS Integers, FiniteSets

CONSTANTS
  Conns,         \* connections
  Stage,         \* the key that all leases share
  AddressOf(_),  \* the key of the canonical address of a connection
  SubjectOf(_),  \* the key of the access record of a connection
  LeaseTtl, StageLimit, IpLimit, AccessLimit

ASSUME LimitsAssumption ==
  {LeaseTtl, StageLimit, IpLimit, AccessLimit} \subseteq Nat \ {0}

\* The names of the keys tell what they count (ws_lease_stage, ws_lease_ip,
\* ws_lease_access).
ASSUME KeysAssumption ==
  \A c, d \in Conns :
    Stage \notin {AddressOf(c), SubjectOf(c)} /\ AddressOf(c) # SubjectOf(d)

VARIABLE leases  \* key -> connection -> time left, 0 for no lease

OpenKeys(c) == {AddressOf(c), Stage}
AccessKeys(c) == OpenKeys(c) \cup {SubjectOf(c)}
Keys == UNION {AccessKeys(c) : c \in Conns}

NoLeases == leases = [k \in Keys |-> [c \in Conns |-> 0]]

Holders(k) == {c \in Conns : leases[k][c] > 0}
HoldsAll(c, keys) == \A k \in keys : c \in Holders(k)
Full(k, limit) == Cardinality(Holders(k)) >= limit

\* ZADD of the same expiry, or ZREM (no time left), to each of the keys.
Write(c, keys, left) ==
  leases' = [k \in Keys |-> IF k \in keys THEN [leases[k] EXCEPT ![c] = left]
                            ELSE leases[k]]

Open(c) ==
  /\ ~Full(AddressOf(c), IpLimit)
  /\ ~Full(Stage, StageLimit)
  /\ Write(c, OpenKeys(c), LeaseTtl)

MayAccess(c) == HoldsAll(c, OpenKeys(c)) /\ ~Full(SubjectOf(c), AccessLimit)
Access_Bug(c) == Write(c, {SubjectOf(c)}, LeaseTtl)
Access(c) == Write(c, AccessKeys(c), LeaseTtl)

MayBeat_Bug(c) == TRUE
MayBeat(c) == HoldsAll(c, AccessKeys(c))
Refresh_Bug(c) == leases' = leases
Refresh(c) == Write(c, AccessKeys(c), LeaseTtl)

Release(c, keys) == Write(c, keys, 0)

Elapse_Bug == leases' = leases
Elapse ==
  leases' = [k \in Keys |-> [c \in Conns |->
               IF leases[k][c] = 0 THEN 0 ELSE leases[k][c] - 1]]
=============================================================================
