----------------------------- MODULE TeacherScreen -----------------------------
(***************************************************************************)
(* The teacher's screen (teacher_panel.dart): the commands it sends and   *)
(* the socket it listens on.  The two share nothing but the token, which   *)
(* each of their modules has for itself; a behaviour of the socket is one  *)
(* of Sup!Spec.                                                            *)
(***************************************************************************)
EXTENDS CommandController

CONSTANTS HttpRequests, Budget(_), MaxToken, MaxOpens, MaxEras

ASSUME ScreenAssumption ==
  /\ MaxToken \in Nat \ {0} /\ MaxOpens \in Nat /\ MaxEras \in Nat
  /\ \A f \in {"limit", "unavailable", "network"} : Budget(f) \in Nat

VARIABLES sup, sockets, tasks, token, made, expired, flight, http, opens, renewals, refused

Sup == INSTANCE SocketSupervisor WITH Requests <- HttpRequests

\* The properties of SocketSupervisor: one socket at a time, a token renewed
\* once, and none used after it was refused (live_socket_supervisor.dart).
OneSocketOneRenewal ==
  [](Sup!TypeOK /\ Sup!OneSocket /\ Sup!RenewedOnce) /\ Sup!NoRefusedTokenAgain
=============================================================================
