------------------------------ MODULE MCGameplay ------------------------------
(***************************************************************************)
(* Small instances of Gameplay for TLC.  The teacher's requests are model  *)
(* values with a fixed kind and command_id; a configuration says which of  *)
(* them the teacher sends.  AbortAsEnd uses the identifier of End again.    *)
(***************************************************************************)
EXTENDS Gameplay, TLC

CONSTANTS
  Start, Begin, End, AbortAsEnd, Open, Abort,  \* requests
  k1, k2, k3, k4, k5                           \* identifiers

MCKindOf(c) ==
  CASE c = Start -> "start_session"
    [] c = Begin -> "start_quiz"
    [] c = End -> "end_question"
    [] c = Open -> "next_question"
    [] c \in {Abort, AbortAsEnd} -> "abort_session"

MCCommandIdOf(c) ==
  CASE c = Start -> k1
    [] c = Begin -> k2
    [] c \in {End, AbortAsEnd} -> k3
    [] c = Open -> k4
    [] c = Abort -> k5

\* Processes and values that nothing names are interchangeable.
Symmetry ==
  Permutations(Participants) \cup Permutations(Submissions)
    \cup Permutations(Workers) \cup Permutations(AnswerCalls)
=============================================================================
