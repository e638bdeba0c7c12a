------------------------------ MODULE Leaderboard ------------------------------
(***************************************************************************)
(* The table of places (results.py) over every set of results a session    *)
(* can hold.  Its rows are computed from the answers each time it is read, *)
(* so the module keeps the answers and asks what a finalized run does to   *)
(* the places.  Registration ends before the first run.  A session of the  *)
(* first game keeps the answers it was archived with; nothing writes that  *)
(* table any more.                                                         *)
(***************************************************************************)
EXTENDS Integers, Sequences, FiniteSets, TLC

CONSTANTS
  Times,        \* elapsed milliseconds of an answer
  Points,       \* points of an answer of the first game
  MaxMembers,   \* bound: the participants of the session
  MaxRuns       \* bound: its questions, each with one finalized run

VARIABLES
  schema,     \* the gameplay_schema of the session
  members,    \* the ids of its participants, in the order of joining
  finalized,  \* the number of finalized runs
  answers     \* rows of the final answers, or of the answers of the first game

vars == <<schema, members, finalized, answers>>

Sets == INSTANCE FiniteSetsExt

\* A final answer.  Without an attempt it is wrong and has no time.
Outcomes == [correct : BOOLEAN, ms : Times] \cup {[correct |-> FALSE, ms |-> 0]}

Count(rows) == Cardinality({a \in rows : a.correct})
SumMs(rows) == Sets!MapThenSumSet(LAMBDA a : a.ms, rows)
SumPoints(rows) == Sets!MapThenSumSet(LAMBDA a : a.points, rows)

\* Dense places, as if a tie did not skip the places it takes.
WithPlaces_Bug(rows) ==
  LET rank[i \in DOMAIN rows] ==
        IF i = 1 THEN 1
        ELSE IF rows[i - 1].key = rows[i].key THEN rank[i - 1] ELSE rank[i - 1] + 1
  IN  [i \in DOMAIN rows |->
         [id |-> rows[i].id, key |-> rows[i].key,
          rank |-> rank[i], is_podium |-> rank[i] <= 3]]

\* The places of sorted rows: a row takes the place of the row before it while
\* their results are equal, and its own index otherwise.
WithPlaces(rows) ==
  LET rank[i \in DOMAIN rows] ==
        IF i > 1 /\ rows[i - 1].key = rows[i].key THEN rank[i - 1] ELSE i
  IN  [i \in DOMAIN rows |->
         [id |-> rows[i].id, key |-> rows[i].key,
          rank |-> rank[i], is_podium |-> rank[i] <= 3]]

\* <<correct answers, time>>: more correct answers first, then less time.
StageBBetter(k, l) == k[1] > l[1] \/ (k[1] = l[1] /\ k[2] < l[2])

\* The time of the wrong answers counts as well.
BuildStageB_Bug(ids, rows) ==
  LET Of(p) == {a \in rows : a.id = p}
      records == [p \in ids |-> [id |-> p, key |-> <<Count(Of(p)), SumMs(Of(p))>>]]
      Before(r, s) == StageBBetter(r.key, s.key) \/ (r.key = s.key /\ r.id < s.id)
  IN  WithPlaces(SortSeq(records, Before))

BuildStageB(ids, rows) ==
  LET Right(p) == {a \in rows : a.id = p /\ a.correct}
      records == [p \in ids |-> [id |-> p, key |-> <<Count(Right(p)), SumMs(Right(p))>>]]
      Before(r, s) == StageBBetter(r.key, s.key) \/ (r.key = s.key /\ r.id < s.id)
  IN  WithPlaces(SortSeq(records, Before))

\* <<points, correct answers, time of all answers>>.
LegacyBetter(k, l) ==
  \/ k[1] > l[1]
  \/ k[1] = l[1] /\ k[2] > l[2]
  \/ k[1] = l[1] /\ k[2] = l[2] /\ k[3] < l[3]

\* Sorted by points and then by time alone.
BuildLegacy_Bug(ids, rows) ==
  LET Of(p) == {a \in rows : a.id = p}
      records == [p \in ids |->
        [id |-> p, key |-> <<SumPoints(Of(p)), Count(Of(p)), SumMs(Of(p))>>]]
      Key(r) == <<r.key[1], 0, r.key[3]>>
      Before(r, s) == LegacyBetter(Key(r), Key(s)) \/ (Key(r) = Key(s) /\ r.id < s.id)
      sorted == SortSeq(records, Before)
  IN  [i \in DOMAIN sorted |->
         [id |-> sorted[i].id, key |-> sorted[i].key, rank |-> i, is_podium |-> i <= 3]]

BuildLegacy(ids, rows) ==
  LET Of(p) == {a \in rows : a.id = p}
      records == [p \in ids |->
        [id |-> p, key |-> <<SumPoints(Of(p)), Count(Of(p)), SumMs(Of(p))>>]]
      Before(r, s) == LegacyBetter(r.key, s.key) \/ (r.key = s.key /\ r.id < s.id)
      sorted == SortSeq(records, Before)
  IN  [i \in DOMAIN sorted |->
         [id |-> sorted[i].id, key |-> sorted[i].key, rank |-> i, is_podium |-> i <= 3]]

BuildLeaderboard(ids, rows) ==
  IF schema = "legacy" THEN BuildLegacy(ids, rows) ELSE BuildStageB(ids, rows)
-----------------------------------------------------------------------------
\* A run is finalized: one row for every participant, answered or not.
Finalize ==
  /\ schema = "stage_b" /\ finalized < MaxRuns
  /\ finalized' = finalized + 1
  /\ \E f \in [members -> Outcomes] :
       answers' = answers \cup
         {[id |-> p, run |-> finalized + 1, correct |-> f[p].correct, ms |-> f[p].ms,
           points |-> 0] : p \in members}
  /\ UNCHANGED <<schema, members>>

Read == UNCHANGED vars

Init ==
  /\ members \in {1..n : n \in 0..MaxMembers} /\ finalized = 0
  /\ \/ schema = "stage_b" /\ answers = {}
     \/ /\ schema = "legacy"
        /\ \E asked \in SUBSET (members \X (1..MaxRuns)) :
             \E f \in [asked -> [correct : BOOLEAN, ms : Times, points : Points]] :
               answers = {[id |-> q[1], run |-> q[2], correct |-> f[q].correct,
                           ms |-> f[q].ms, points |-> f[q].points] : q \in asked}

Next == Finalize \/ Read

Spec == Init /\ [][Next]_vars
-----------------------------------------------------------------------------
Board == BuildLeaderboard(members, answers)
Places == LET board == Board IN
  [p \in members |-> board[CHOOSE i \in DOMAIN board : board[i].id = p].rank]

TypeOK ==
  /\ schema \in {"stage_b", "legacy"} /\ finalized \in 0..MaxRuns
  /\ \E n \in 0..MaxMembers : members = 1..n
  /\ \A a \in answers : a.id \in members /\ a.run \in 1..MaxRuns
  /\ \A a, b \in answers : a.id = b.id /\ a.run = b.run => a = b

\* Everybody who joined is in the table once, answered or not, and the place of
\* a row is one more than the number of those with a strictly better result:
\* equal results share a place, the next places are skipped, and the podium is
\* everybody that fewer than three are better than.
PlacesAreFair ==
  LET board == Board IN
  /\ Len(board) = Cardinality(members)
  /\ \A p \in members : \E i \in DOMAIN board : board[i].id = p
  /\ schema = "stage_b" =>
       \A i \in DOMAIN board :
         LET better == {j \in DOMAIN board : StageBBetter(board[j].key, board[i].key)}
         IN  /\ board[i].rank = Cardinality(better) + 1
             /\ (board[i].is_podium <=> Cardinality(better) < 3)

\* The places of the first game are all different and agree with the results;
\* equal results are told apart by the order of joining alone.
LegacyPlacesDiffer ==
  LET board == Board IN
  schema = "legacy" =>
    \A i, j \in DOMAIN board :
      board[i].rank < board[j].rank =>
        \/ LegacyBetter(board[i].key, board[j].key)
        \/ board[i].key = board[j].key /\ board[i].id < board[j].id

\* What a run may do to two participants: two wrong answers, fast, slow or none,
\* leave them as they stood, and who was not behind and alone is right, however
\* slowly, stands strictly before the other.
RunsCompareFairly ==
  [][\A now \in {Places}, next \in {Places'} :
       \A a, b \in answers' \ answers :
         LET p == a.id  q == b.id IN
         /\ ~a.correct /\ ~b.correct => (now[p] < now[q] <=> next[p] < next[q])
         /\ a.correct /\ ~b.correct /\ now[p] <= now[q] => next[p] < next[q]]_vars
=============================================================================
