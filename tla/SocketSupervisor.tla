---------------------------- MODULE SocketSupervisor ----------------------------
(***************************************************************************)
(* The teacher's side of a WebSocket: when it is opened again and with     *)
(* which token (frontend/lib/core/live_socket_supervisor.dart), composed   *)
(* with the renewal of the token that the socket shares with the requests  *)
(* over HTTP (SingleFlightTokenRefresh, teacher_panel.dart).               *)
(*                                                                         *)
(* Every connection of the screen is a LiveSocketSupervisor of its own;    *)
(* `era' numbers them together with the generations within one.  What      *)
(* follows the end of a socket is an asynchronous function; its awaits are *)
(* the members of `tasks', and each action is what runs between two awaits.*)
(***************************************************************************)
EXTENDS Naturals, FiniteSets

CONSTANTS
  Requests,  \* HTTP requests that may run at a time
  Budget(_), \* kind of failure -> how often it is retried
  MaxToken,  \* bound: renewals of the token
  MaxOpens,  \* bound: sockets opened, which ends what the screen and server start
  MaxEras    \* bound: connections and stops of the screen

VARIABLES
  sup,      \* the supervisor in charge
  sockets,  \* sockets that are subscribed
  tasks,    \* awaits of functions that follow the end of a socket
  token,    \* the access token of the screen: its number, 0 after the logout
  made,     \* tokens made so far
  expired,  \* the numbers up to this one are expired for the server
  flight,   \* the renewal in flight
  http,     \* request -> where it is
  opens,    \* sockets opened so far
  renewals, \* token -> renewals begun with it and not given up, for RenewedOnce
  refused   \* tokens that were refused on a socket, for NoRefusedTokenAgain

vars == <<sup, sockets, tasks, token, made, expired, flight, http, opens, renewals, refused>>
screen == <<token, made, flight, http, renewals>>

Failures == {"limit", "unavailable", "network"}
NoFailures == [f \in Failures |-> 0]
NoFlight == "none"

Init ==
  /\ sup = [stopped |-> TRUE, era |-> 0, auth |-> 0, tries |-> NoFailures]
  /\ sockets = {} /\ tasks = {} /\ opens = 0
  /\ token = 1 /\ made = 1 /\ expired = 0 /\ refused = {}
  /\ flight = NoFlight /\ http = [r \in Requests |-> [pc |-> "idle", used |-> 0]]
  /\ renewals = [t \in 1..MaxToken |-> 0]
-----------------------------------------------------------------------------
(* Opening and stopping.                                                    *)

\* The supervisor s opens a socket, and a task may have ended.
Opens(s, others, left) ==
  /\ sup' = s /\ tasks' = left /\ opens' = opens + 1
  /\ sockets' = others \cup {[id |-> opens + 1, era |-> s.era, used |-> s.auth]}

Stops(s) == [s EXCEPT !.stopped = TRUE, !.era = @ + 1]
Ours == {s \in sockets : s.era = sup.era}

\* _connectSessionSocket: the old supervisor is stopped, a new one started.
Connect ==
  /\ token # 0 /\ sup.era < MaxEras /\ opens < MaxOpens
  /\ Opens([stopped |-> FALSE, era |-> sup.era + 1, auth |-> token, tries |-> NoFailures],
           sockets \ Ours, tasks)
  /\ UNCHANGED <<screen, expired, refused>>

Stop ==
  /\ ~sup.stopped /\ sup.era < MaxEras
  /\ sup' = Stops(sup) /\ sockets' = sockets \ Ours
  /\ UNCHANGED <<tasks, screen, expired, opens, refused>>
-----------------------------------------------------------------------------
(* _handleMessage and _handleClosed.                                        *)

Hears(s) ==
  /\ s.era = sup.era /\ s.used > expired
  /\ sup' = [sup EXCEPT !.tries = NoFailures]
  /\ sup' # sup
  /\ UNCHANGED <<sockets, tasks, screen, expired, opens, refused>>

Current(era) == ~sup.stopped /\ era = sup.era

Waits(s) == tasks' = tasks \cup {[id |-> s.id, era |-> s.era, pc |-> "waits"]}

\* Closed for a reason that is retried, after a wait, while the budget lasts.
Failed(s, f) ==
  /\ sockets' = sockets \ {s}
  /\ IF ~Current(s.era) THEN UNCHANGED <<sup, tasks>>
     ELSE IF sup.tries[f] >= Budget(f) THEN sup' = Stops(sup) /\ UNCHANGED tasks
     ELSE sup' = [sup EXCEPT !.tries[f] = @ + 1] /\ Waits(s)
  /\ UNCHANGED <<screen, expired, opens, refused>>

\* Closed for good: another reason than those that are retried.
Finished(s) ==
  /\ sockets' = sockets \ {s}
  /\ sup' = IF Current(s.era) THEN Stops(sup) ELSE sup
  /\ UNCHANGED <<tasks, screen, expired, opens, refused>>

\* The bug: the generation is not looked at after the wait.
WaitOver_Bug(t) ==
  /\ t.pc = "waits"
  /\ Opens(sup, sockets, tasks \ {t})
  /\ UNCHANGED <<screen, expired, refused>>
\* _waitAndOpen after the delay, or after stop has cut it short.
WaitOver(t) ==
  /\ t.pc = "waits"
  /\ IF Current(t.era) THEN Opens(sup, sockets, tasks \ {t})
     ELSE tasks' = tasks \ {t} /\ UNCHANGED <<sup, sockets, opens>>
  /\ UNCHANGED <<screen, expired, refused>>
-----------------------------------------------------------------------------
(* SingleFlightTokenRefresh.recover and _refreshAccessToken.                *)

\* What recover answers at once to whoever used another token than the current.
Known(used) == IF token = used THEN "joined" ELSE IF token # 0 THEN "yes" ELSE "no"

\* The bug: everyone renews for himself.
Joins_Bug(used) ==
  IF token = used
  THEN flight' = "asks" /\ renewals' = [renewals EXCEPT ![used] = @ + 1]
  ELSE UNCHANGED <<flight, renewals>>
\* Whoever used the current token waits for the renewal in flight, or begins it.
Joins(used) ==
  IF token = used /\ flight = NoFlight
  THEN flight' = "asks" /\ renewals' = [renewals EXCEPT ![used] = @ + 1]
  ELSE UNCHANGED <<flight, renewals>>

\* access_expired: the token is renewed and the socket opened again, at once.
Expired(s) ==
  /\ s.used <= expired
  /\ sockets' = sockets \ {s} /\ refused' = refused \cup {s.used}
  /\ IF ~Current(s.era) THEN UNCHANGED <<tasks, flight, renewals>>
     ELSE /\ tasks' = tasks \cup {[id |-> s.id, era |-> s.era, pc |-> Known(s.used)]}
          /\ Joins(s.used)
  /\ UNCHANGED <<sup, token, made, http, expired, opens>>

\* The bug: the socket keeps the token it was opened with.
Recovered_Bug(t) ==
  /\ t.pc \in {"yes", "no"}
  /\ IF ~Current(t.era) THEN tasks' = tasks \ {t} /\ UNCHANGED <<sup, sockets, opens>>
     ELSE IF t.pc = "yes" /\ token # 0
     THEN Opens(sup, sockets, tasks \ {t})
     ELSE sup' = Stops(sup) /\ tasks' = tasks \ {t} /\ UNCHANGED <<sockets, opens>>
  /\ UNCHANGED <<screen, expired, refused>>
\* recoverAuthentication has answered; the token it returns is the current one.
Recovered(t) ==
  /\ t.pc \in {"yes", "no"}
  /\ IF ~Current(t.era) THEN tasks' = tasks \ {t} /\ UNCHANGED <<sup, sockets, opens>>
     ELSE IF t.pc = "yes" /\ token # 0
     THEN Opens([sup EXCEPT !.auth = token], sockets, tasks \ {t})
     ELSE sup' = Stops(sup) /\ tasks' = tasks \ {t} /\ UNCHANGED <<sockets, opens>>
  /\ UNCHANGED <<screen, expired, refused>>

\* The new token is set, then stored, before the flight is over for who joined it.
Renewed ==
  /\ flight = "asks" /\ made < MaxToken
  /\ made' = made + 1 /\ token' = made + 1 /\ flight' = "stores"
  /\ UNCHANGED <<sup, sockets, tasks, expired, http, opens, renewals, refused>>

\* The bug: only the requests over HTTP are told.
Lands_Bug(answer) ==
  /\ flight' = NoFlight /\ UNCHANGED tasks
  /\ http' = [r \in Requests |-> [http[r] EXCEPT !.pc = IF @ = "joined" THEN answer ELSE @]]
Lands(answer) ==
  /\ flight' = NoFlight
  /\ tasks' = {[t EXCEPT !.pc = IF @ = "joined" THEN answer ELSE @] : t \in tasks}
  /\ http' = [r \in Requests |-> [http[r] EXCEPT !.pc = IF @ = "joined" THEN answer ELSE @]]

Stored ==
  /\ flight = "stores" /\ Lands("yes")
  /\ UNCHANGED <<sup, sockets, token, made, expired, opens, renewals, refused>>

\* A renewal that fails, or whose token cannot be stored, logs the teacher out, and
\* stops the socket.
NotRenewed ==
  /\ flight # NoFlight /\ Lands("no") /\ token' = 0
  /\ sup' = IF sup.stopped THEN sup ELSE Stops(sup)
  /\ sockets' = IF sup.stopped THEN sockets ELSE sockets \ Ours
  /\ UNCHANGED <<made, expired, opens, renewals, refused>>

\* No token to renew with, an answer without one, or a screen that is gone: nothing
\* changes but that who waits is told no, and the token may be renewed again.
GivenUp ==
  /\ flight = "asks" /\ Lands("no")
  /\ renewals' = IF token = 0 THEN renewals ELSE [renewals EXCEPT ![token] = 0]
  /\ UNCHANGED <<sup, sockets, token, made, expired, opens, refused>>
-----------------------------------------------------------------------------
(* _runTeacherRequest: a request that was refused is sent once more.        *)

Goes(r, pc, used) ==
  /\ http' = [http EXCEPT ![r] = [pc |-> pc, used |-> used]]
  /\ UNCHANGED <<sup, sockets, tasks, token, made, expired, opens, refused>>

Send(r) == http[r].pc = "idle" /\ token # 0 /\ Goes(r, "sent", token) /\ UNCHANGED <<flight, renewals>>

Unauthorized(r) ==
  /\ http[r].pc = "sent" /\ http[r].used <= expired
  /\ Joins(http[r].used) /\ Goes(r, Known(http[r].used), http[r].used)

SentAgain(r) == http[r].pc = "yes" /\ Goes(r, "again", token) /\ UNCHANGED <<flight, renewals>>

\* The request has succeeded or failed.
Answered(r) ==
  /\ \/ http[r].pc = "sent" /\ http[r].used > expired
     \/ http[r].pc \in {"no", "again"}
  /\ Goes(r, "idle", 0) /\ UNCHANGED <<flight, renewals>>
-----------------------------------------------------------------------------
(* The teacher and the server.                                              *)

Login ==
  /\ token = 0 /\ made < MaxToken /\ made' = made + 1 /\ token' = made + 1
  /\ UNCHANGED <<sup, sockets, tasks, expired, flight, http, opens, renewals, refused>>

\* _logout; a renewal in flight is not called back.
Logout ==
  /\ token # 0 /\ token' = 0
  /\ sup' = IF sup.stopped THEN sup ELSE Stops(sup)
  /\ sockets' = IF sup.stopped THEN sockets ELSE sockets \ Ours
  /\ UNCHANGED <<tasks, made, expired, flight, http, opens, renewals, refused>>

\* A token expires; the server tells so on the sockets that use it.  A token lives
\* for minutes, so none expires while the screen is still storing it.
Expires ==
  /\ flight # "stores" /\ expired < made /\ expired' = expired + 1
  /\ UNCHANGED <<sup, sockets, tasks, screen, opens, refused>>
-----------------------------------------------------------------------------
Ends(s) == Finished(s) \/ Expired(s) \/ \E f \in Failures : Failed(s, f)
Resumes(t) == WaitOver(t) \/ Recovered(t)
Flies == Renewed \/ Stored \/ NotRenewed \/ GivenUp

Next ==
  \/ Connect \/ Stop \/ Login \/ Logout \/ Expires \/ Flies
  \/ \E s \in sockets : opens < MaxOpens /\ (Ends(s) \/ Hears(s))
  \/ \E t \in tasks : Resumes(t)
  \/ \E r \in Requests : Send(r) \/ Unauthorized(r) \/ SentAgain(r) \/ Answered(r)

Spec == Init /\ [][Next]_vars

\* A delay ends and the request that renews the token is answered or fails.
Fairness == WF_vars(\E t \in tasks : Resumes(t)) /\ WF_vars(Flies)
-----------------------------------------------------------------------------
TypeOK ==
  /\ sup \in [stopped : BOOLEAN, era : 0..(MaxEras + 1), auth : 0..MaxToken,
              tries : [Failures -> Nat]]
  /\ \A f \in Failures : sup.tries[f] <= Budget(f)
  /\ \A s \in sockets : s.id \in 1..opens /\ s.used \in 1..made
  /\ \A t \in tasks : t.pc \in {"waits", "joined", "yes", "no"}
  /\ made \in 1..MaxToken /\ token \in {0, made} /\ expired \in 0..made
  /\ flight \in {NoFlight, "asks", "stores"}
  /\ \A r \in Requests : http[r].pc \in {"idle", "sent", "joined", "yes", "no", "again"}
  /\ renewals \in [1..MaxToken -> Nat] /\ refused \subseteq 1..expired

\* One socket at a time, and none of a supervisor that was stopped; and where a
\* socket has ended, one retry and not two is on its way (live_socket_supervisor.dart:66-136).
OneSocket ==
  /\ \A s \in sockets : Current(s.era)
  /\ Cardinality(sockets) + Cardinality({t \in tasks : Current(t.era)}) <= 1

\* However sockets and requests are refused, a token has one renewal at a time, and
\* none after the one that replaced it (docs/frontend.md:89; SingleFlightTokenRefresh).
RenewedOnce == \A t \in 1..MaxToken : renewals[t] <= 1

\* What follows a recovery is a socket with a newer token than any that was refused
\* (block-1-stage-v-handoff.md:156; a retry after a network failure may repeat one).
NoRefusedTokenAgain ==
  [][\A t \in tasks \ tasks' : t.pc = "yes" =>
       \A s \in sockets' \ sockets : s.used \notin refused]_vars

\* A supervisor that lost its socket opens another one or says that it stopped;
\* whoever waits for a renewal gets its end.
NeverSilent == (~sup.stopped /\ sockets = {}) ~> (sup.stopped \/ sockets # {})
=============================================================================
