----------------------------- MODULE StateReducer -----------------------------
(***************************************************************************)
(* How a screen takes a state in                                           *)
(* (frontend/lib/core/session_state_reducer.dart).                         *)
(*                                                                         *)
(* A state is a function on the keys it has, as the maps of the client     *)
(* are; NoState has none.  Every run has its own question, so "run" stands *)
(* for the run and its question.  Schema and UUID are always the expected  *)
(* ones.                                                                   *)
(***************************************************************************)
EXTENDS Naturals

NoState == [k \in {} |-> 0]
Empty(state) == DOMAIN state = {}

Has(state, key) == key \in DOMAIN state
Without(state, keys) == [k \in DOMAIN state \ keys |-> state[k]]

\* {...g, ...f}: the entries of f, and those of g for the keys that f does not have.
f ++ g == [k \in DOMAIN f \cup DOMAIN g |-> IF k \in DOMAIN f THEN f[k] ELSE g[k]]

Later(a, b) == IF a >= b THEN a ELSE b

SameStableContext(a, b) == a.status = b.status /\ a.phase = b.phase /\ a.run = b.run

IsFinal(state) == Has(state, "answer") /\ state.revealed /\ Has(state.answer, "final")

\* The counters never go back among the states of one revision.
KeepCounters(next, state) ==
  [k \in DOMAIN next |->
     IF k \in {"joined", "answered"} /\ Has(state, k) THEN Later(next[k], state[k])
     ELSE next[k]]

FinalKept(next, state) ==
  [answer |-> state.answer, revealed |-> TRUE]
    ++ (IF Has(state, "reveal") THEN [reveal |-> state.reveal] ELSE NoState) ++ next

\* The participant's own answer; the other roles never get one.
KeepAnswer_Bug(next, state, candidate, participant, preserve) ==
  IF ~ participant THEN Without(next, {"answer"})
  ELSE IF ~ (preserve /\ Has(state, "answer")) \/ IsFinal(candidate) THEN next
  ELSE IF candidate.answer.version < state.answer.version
       THEN [answer |-> state.answer] ++ next
  ELSE next
KeepAnswer_Versions_Bug(next, state, candidate, participant, preserve) ==
  IF ~ participant THEN Without(next, {"answer"})
  ELSE IF ~ (preserve /\ Has(state, "answer")) \/ IsFinal(candidate) THEN next
  ELSE IF IsFinal(state) THEN FinalKept(next, state)
  ELSE next
KeepAnswer(next, state, candidate, participant, preserve) ==
  IF ~ participant THEN Without(next, {"answer"})
  ELSE IF ~ (preserve /\ Has(state, "answer")) \/ IsFinal(candidate) THEN next
  ELSE IF IsFinal(state) THEN FinalKept(next, state)
  ELSE IF candidate.answer.version < state.answer.version
       THEN [answer |-> state.answer] ++ next
  ELSE next

SameRevision(state, candidate, participant) ==
  IF ~ SameStableContext(state, candidate) THEN state
  ELSE KeepAnswer(KeepCounters(candidate ++ state, state), state, candidate, participant, TRUE)

NewRevision_Bug(state, candidate, participant) ==
  KeepAnswer(candidate ++ state, state, candidate, participant, state.run = candidate.run)
NewRevision(state, candidate, participant) ==
  KeepAnswer(candidate ++ Without(state, {"reveal", "leaderboard"}),
             state, candidate, participant, state.run = candidate.run)

Apply(state, candidate, participant) ==
  CASE Empty(state) ->
         IF participant THEN candidate ELSE Without(candidate, {"answer"})
    [] ~ Empty(state) /\ candidate.revision < state.revision -> state
    [] ~ Empty(state) /\ candidate.revision = state.revision ->
         SameRevision(state, candidate, participant)
    [] OTHER -> NewRevision(state, candidate, participant)
===============================================================================
