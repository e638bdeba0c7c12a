------------------------------- MODULE QuizGame -------------------------------
(***************************************************************************)
(* What a live session promises to those who play it, without clocks,      *)
(* locks, processes and repeated requests: questions are played in order,  *)
(* a press that counts is a press on the question that is played, closing  *)
(* the answers early takes back only the latest presses, results are given *)
(* once and are those of the presses that count, and the end is the end.   *)
(***************************************************************************)
EXTENDS Naturals

CONSTANTS
  NumQuestions,
  NoChoice      \* the result of a player who pressed nothing

VARIABLES
  phase,
  question,     \* the number of questions shown so far
  players,
  counted,      \* presses that count so far
  results       \* what was shown: the choice of each player in each question

vars == <<phase, question, players, counted, results>>

Later(a, b) ==
  a.admitted_at > b.admitted_at \/ (a.admitted_at = b.admitted_at /\ a.id > b.id)

Presses(p) == {a \in counted : a.run = question /\ a.session_participant = p}

Result(p) ==
  [question |-> question, player |-> p,
   choice |-> IF Presses(p) = {} THEN NoChoice
              ELSE (CHOOSE a \in Presses(p) :
                      \A b \in Presses(p) \ {a} : Later(a, b)).choice]

Init == /\ phase = "lobby"
        /\ question = 0
        /\ players = {}
        /\ counted = {}
        /\ results = {}

Join == /\ phase = "lobby"
        /\ players \subseteq players'
        /\ UNCHANGED <<phase, question, counted, results>>

OpenQuestion ==
  /\ phase \in {"lobby", "results"}
  /\ question < NumQuestions
  /\ phase' = "reading"
  /\ question' = question + 1
  /\ UNCHANGED <<players, counted, results>>

Answer == /\ phase = "reading"
          /\ phase' = "answering"
          /\ UNCHANGED <<question, players, counted, results>>

Press == /\ phase \in {"answering", "delivery"}
         /\ counted \subseteq counted'
         /\ \A a \in counted' \ counted :
              a.run = question /\ a.session_participant \in players
         /\ UNCHANGED <<phase, question, players, results>>

\* Presses that are taken back are later than all of this question that stay.
Close == /\ phase = "answering"
         /\ phase' = "delivery"
         /\ counted' \subseteq counted
         /\ \A a \in counted \ counted' :
              /\ a.run = question
              /\ \A b \in counted' : b.run = question => Later(a, b)
         /\ UNCHANGED <<question, players, results>>

\* A session whose server was down may go from any phase of a question.
Reveal == /\ phase \in {"reading", "answering", "delivery"}
          /\ phase' = "results"
          /\ results' = results \cup {Result(p) : p \in players}
          /\ UNCHANGED <<question, players, counted>>

EndGame == /\ phase # "final"
           /\ phase' = "final"
           /\ UNCHANGED <<question, players, counted, results>>

Next == Join \/ OpenQuestion \/ Answer \/ Press \/ Close \/ Reveal \/ EndGame

Spec == Init /\ [][Next]_vars
=============================================================================
