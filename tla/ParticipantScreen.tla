--------------------------- MODULE ParticipantScreen ---------------------------
(***************************************************************************)
(* A participant's screen (participant_panel.dart): what it shows of the   *)
(* session (SessionViews) and, in a behaviour of its own, the answer that  *)
(* is pressed in one run (AnswerController), a behaviour of Page!Spec.     *)
(* The page has a server of its own, since a press is one action of the    *)
(* game that SessionViews shows.                                           *)
(***************************************************************************)
EXTENDS SessionViews

CONSTANTS
  Choices, Presses, MaxRetries, None,
  Room   \* attempts of a participant in the run of the page

ASSUME PageAssumption ==
  /\ IsFiniteSet(Presses) /\ Presses = 1 .. Cardinality(Presses)
  /\ MaxRetries \in Nat /\ Room \in Nat
  /\ None \notin Choices \cup Nat \cup {"ok", "conflict", "unavailable", "error"}
  /\ None \notin [submission : Presses, choice : Choices, minimum : Nat, acknowledged : BOOLEAN]

VARIABLES
  rows, stage, net, replies, shown, execution, current, retained, local, issued

page == <<rows, stage, net, replies, shown, execution, current, retained, local, issued>>

Page == INSTANCE AnswerController WITH
  MaxAttempts <- Room, attempts <- rows, phase <- stage, run <- execution

\* While answers are taken, what was pressed stays on the screen until a snapshot
\* must contain it or tells the final answer, which nothing covers, and what is
\* reported as recorded is stored (AnswerController;
\* participant_answer_controller.dart).
PressesStayShown ==
  [](Page!TypeOK /\ Page!RecordedIsStored) /\ Page!ReplacedOnlyWhenCounted
=============================================================================
