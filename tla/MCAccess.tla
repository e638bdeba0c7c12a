------------------------------- MODULE MCAccess -------------------------------
(***************************************************************************)
(* What stands between a request and the session, a scenario each: getting *)
(* in with a PIN (Admission), the grants of the display (DisplayAccess),   *)
(* the token buckets (RateLimit) and the address they count under          *)
(* (RequestIdentity).  None of them reads what another one writes.         *)
(***************************************************************************)
EXTENDS Access

CONSTANTS
  user, guest, c1, c2, c3, s1, s2,   \* Admission
  i1, i2, i3, r1,                    \* DisplayAccess
  pin, create,                       \* RateLimit
  Scenarios

VARIABLES
  peer, forwarded, real_ip,
  scenario

headers == <<peer, forwarded, real_ip>>

MCPersonOf(c) == IF c = c3 THEN guest ELSE user

\* One bucket that holds two tokens, and a slower one that holds one.
MCCapacity(bucket) == IF bucket = pin THEN 6 ELSE 3
MCRefill(bucket) == IF bucket = pin THEN 2 ELSE 4

Identity == INSTANCE RequestIdentity WITH
  Trusted <- {"proxy1", "proxy2"}, Outer <- {"client1", "client2"}, Malformed <- "malformed",
  MaxHops <- 3

ScenarioInit ==
  /\ Init /\ Display!Init /\ Limiter!Init
  /\ scenario \in Scenarios
  /\ IF scenario = "identity" THEN Identity!Init
     ELSE peer = "client1" /\ forwarded = <<>> /\ real_ip = <<>>

ScenarioNext ==
  \/ scenario = "admission" /\ Next /\ UNCHANGED <<display, limiter, headers, scenario>>
  \/ scenario = "display" /\ Display!Next /\ UNCHANGED <<vars, limiter, headers, scenario>>
  \/ scenario = "limiter" /\ Limiter!Next /\ UNCHANGED <<vars, display, headers, scenario>>
  \/ scenario = "identity" /\ Identity!Next /\ UNCHANGED <<vars, display, limiter, scenario>>

ScenarioSpec ==
  /\ ScenarioInit
  /\ [][ScenarioNext]_<<vars, display, limiter, headers, scenario>>
  /\ Display!Fairness

\* Whoever holds the session row or a grant gives it back (DisplayAccess; views.py
\* 103-193).
LocksAreReturned == Display!LocksAreReturned

\* The properties of RequestIdentity: the address is one that a trusted proxy has
\* seen, and what a client writes in front changes nothing (core/request_identity.py).
AddressIsTrusted ==
  /\ [](scenario = "identity" => Identity!AddressIsTheNearestStranger)
  /\ Identity!FrontChangesNothing
=============================================================================
