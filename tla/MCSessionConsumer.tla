-------------------------- MODULE MCSessionConsumer --------------------------
(***************************************************************************)
(* Two instances of SessionConsumer: connections a and b compete for one   *)
(* place of their access; the whole life of c is followed to its end.      *)
(***************************************************************************)
EXTENDS SessionConsumer

CONSTANTS a, b, c, ip, subject

MCAddressOf(conn) == ip
MCSubjectOf(conn) == subject
AnyEnd(conn) == {"revoked", "expired"}
NoEnd(conn) == {}

\* One connection, whose access may end in either way, and whose leases last for
\* three heartbeats.
VARIABLES one_leases, one_socket, one_access, scenario
one == <<one_leases, one_socket, one_access>>

Life == INSTANCE SessionConsumer WITH
  Conns <- {c}, LeaseTtl <- 3, Ends <- AnyEnd,
  leases <- one_leases, socket <- one_socket, access <- one_access

\* Nothing but their names tells a and b apart, so a connects first.
AFirst == socket'[b].net = "new" \/ socket'[a].net # "new"

ScenarioNext ==
  \/ scenario = "limits" /\ Next /\ AFirst /\ UNCHANGED <<one, scenario>>
  \/ scenario = "life" /\ Life!Next /\ UNCHANGED <<vars, scenario>>

ScenarioInit == Init /\ Life!Init /\ scenario \in {"limits", "life"}

ScenarioSpec ==
  /\ ScenarioInit
  /\ [][ScenarioNext]_<<vars, one, scenario>>
  /\ Life!Fairness

\* The liveness properties, for the connection of Life: the places of a connection
\* become free, it is closed unless it is confirmed, and what began to close ends
\* (SessionConsumer; consumers.py:108-306, websocket_limits.py:152-175).
ConnectionsEnd ==
  Life!PlacesAreFreed /\ Life!TheUnconfirmedAreClosed /\ Life!ClosingEnds
=============================================================================
