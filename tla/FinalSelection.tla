---------------------------- MODULE FinalSelection ----------------------------
(***************************************************************************)
(* The choice of a participant's final answer among the timely attempts of *)
(* one question run (gameplay.py, _select_final_attempts and the arithmetic *)
(* of _finalize_locked).  An attempt is a record; a set S of attempts here  *)
(* always belongs to one participant and one run.  The order is the one of  *)
(* the query, ORDER BY admitted_at, id.                                     *)
(***************************************************************************)
EXTENDS Integers

Precedes(a, b) ==
  \/ a.admitted_at < b.admitted_at
  \/ a.admitted_at = b.admitted_at /\ a.id < b.id

\* The last press decides the choice.
SelectedAttempt(S) == CHOOSE a \in S : \A b \in S \ {a} : Precedes(b, a)

LastSeries_Bug(S) == {a \in S : a.choice = SelectedAttempt(S).choice}
\* The unbroken run of presses of the selected choice that ends the list.
LastSeries(S) ==
  {a \in S : \A b \in S : b = a \/ Precedes(a, b)
                            => b.choice = SelectedAttempt(S).choice}

TimingAttempt_Bug(S) == SelectedAttempt(S)
\* The first press of that series decides the time.
TimingAttempt(S) ==
  LET series == LastSeries(S)
  IN  CHOOSE a \in series : \A b \in series \ {a} : Precedes(a, b)

AtLeastZero(n) == IF n < 0 THEN 0 ELSE n

Smaller(m, n) == IF m < n THEN m ELSE n

\* Presses made inside the delivery window cost at most the answer window.
ActualElapsed(S, started) == AtLeastZero(TimingAttempt(S).admitted_at - started)

RankingElapsed(S, started, deadline) ==
  Smaller(ActualElapsed(S, started), AtLeastZero(deadline - started))
=============================================================================
