---------------------------- MODULE MCTeacherClient ----------------------------
(***************************************************************************)
(* The teacher's screen: its commands and, in a behaviour of its own, its  *)
(* socket.  The two share nothing but the token, which each of the modules *)
(* has for itself.                                                         *)
(***************************************************************************)
EXTENDS TeacherScreen

CONSTANTS Scenarios

VARIABLES scenario

screen == <<sup, sockets, tasks, token, made, expired, flight, http, opens, renewals, refused>>

TwoPresses == 1..2

\* Two of the budgets of 3, 3 and 6, made small enough to be used up.
SmallBudget(f) == IF f = "network" THEN 2 ELSE 1

\* Two presses without automatic repeats, whose token may have to be renewed,
\* followed into the second question (bound: MaxRevision).  They are presses that
\* the screen offers for what it shows (teacher_live_session_card.dart 92-103).
Tokens == INSTANCE CommandController WITH MaxRetries <- 0, Busy <- {"unauthorized"}
MaxRevision == 3
Offered(e) == run'[e].pc = "unused" \/ Legal(run'[e].kind, run'[e].context, FALSE)
Followed == game'.revision <= MaxRevision /\ \A e \in Presses : Offered(e)

\* One press with all its automatic repeats, in a game whose question is the last one.
Repeats == INSTANCE CommandController WITH Questions <- 1
OnePress == run'[2].pc = "unused"

ScenarioInit == Init /\ Sup!Init /\ scenario \in Scenarios

ScenarioNext ==
  \/ scenario = "tokens" /\ Tokens!Next /\ Followed /\ UNCHANGED <<screen, scenario>>
  \/ scenario = "repeats" /\ Repeats!Next /\ OnePress /\ UNCHANGED <<screen, scenario>>
  \/ scenario = "socket" /\ Sup!Next /\ UNCHANGED <<vars, scenario>>

\* The timers of the scenario at hand.
Timers(e) ==
  \/ scenario = "tokens" /\ Tokens!Step(e) /\ Followed /\ UNCHANGED <<screen, scenario>>
  \/ scenario = "repeats" /\ Repeats!Step(e) /\ OnePress /\ UNCHANGED <<screen, scenario>>

ScenarioSpec ==
  /\ ScenarioInit /\ [][ScenarioNext]_<<vars, screen, scenario>>
  /\ \A e \in Presses : WF_vars(Timers(e))
  /\ Sup!Fairness

NeverSilent == Sup!NeverSilent
=============================================================================
