-------------------------- MODULE FinalSelectionCheck --------------------------
(***************************************************************************)
(* The loop of _select_final_attempts against FinalSelection, for every    *)
(* set of attempts that overlapping requests of one participant can leave. *)
(* Identifiers grow in the order of insertion; the times need not, because *)
(* a request takes its time before it waits for the participant's row.     *)
(***************************************************************************)
EXTENDS FinalSelection, Sequences, FiniteSets

CONSTANTS
  Choices,
  MaxTime,   \* bound: the times are 0..MaxTime
  MaxRows    \* bound: the attempts of one participant, 20 in the code

VARIABLE attempts

Seqs == INSTANCE SequencesExt

\* The rows as the query returns them.
Ordered(S) == Seqs!SetToSortSeq(S, Precedes)

\* The loop: from the last attempt back while the choice stays the same.
SelectFinalAttempts(list) ==
  LET selected == list[Len(list)]
      back[i \in 1..Len(list)] ==
        IF i > 1 /\ list[i - 1].choice = selected.choice THEN back[i - 1]
        ELSE list[i]
  IN  [selected |-> selected, timing |-> back[Len(list)]]

Insert ==
  /\ Cardinality(attempts) < MaxRows
  /\ \E t \in 0..MaxTime, ch \in Choices :
       attempts' = attempts \cup
         {[id |-> Cardinality(attempts) + 1, admitted_at |-> t, choice |-> ch]}

Full == Cardinality(attempts) = MaxRows /\ UNCHANGED attempts

Init == attempts = {}
Next == Insert \/ Full
Spec == Init /\ [][Next]_attempts
-----------------------------------------------------------------------------
\* The loop and the definition by the order of the attempts select the same
\* rows, also when rows were inserted out of the order of their times.
LoopMatchesDefinition ==
  attempts # {} =>
    LET result == SelectFinalAttempts(Ordered(attempts))
    IN  /\ result.selected = SelectedAttempt(attempts)
        /\ result.timing = TimingAttempt(attempts)

\* A press that becomes the latest decides the choice; it keeps the time that
\* counted when it repeats the choice and takes its own when it changes it.
RepeatKeepsTheTime ==
  [][\A a \in attempts' \ attempts :
       attempts # {} /\ (\A b \in attempts : Precedes(b, a)) =>
         LET old == SelectedAttempt(attempts)
         IN  /\ SelectedAttempt(attempts') = a
             /\ TimingAttempt(attempts') =
                  IF a.choice = old.choice THEN TimingAttempt(attempts) ELSE a]_attempts

\* Nobody gains time by pressing more often: no press of the selected choice
\* that lies after a different choice is earlier than the time that counts.
TimeIsOfTheLastChange ==
  attempts # {} =>
    LET timing == TimingAttempt(attempts)
        chosen == SelectedAttempt(attempts).choice
    IN  \A b \in attempts :
          IF b = timing \/ Precedes(timing, b) THEN b.choice = chosen
          ELSE \E c \in attempts : /\ c.choice # chosen
                                   /\ c = b \/ Precedes(b, c)
                                   /\ Precedes(c, timing)
=============================================================================
