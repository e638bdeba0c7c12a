---------------------------- MODULE RecordsProofs ----------------------------
(***************************************************************************)
(* The properties of Records for all values of its constants.              *)
(*                                                                         *)
(*   The saves that the guards let through                                 *)
(*   The command that empties the tables                                   *)
(*   The migrations                                                        *)
(***************************************************************************)
EXTENDS Records, Sequences, SequenceTheorems, TLAPS
-----------------------------------------------------------------------------
(* The saves.  The checks of each save are local to its row; what has to be *)
(* shown is that no save of a row takes away what the save of another one   *)
(* has relied on.                                                           *)

\* An ended session has its time, so that a save which changes nothing does not
\* give it another one.
EndedIsStamped ==
  \A s \in Sessions : session[s] # NoRow /\ session[s].status \in Ended =>
    session[s].finished # Null

\* Whoever takes part in a session takes part in one that exists.
MembersHaveSessions ==
  \A p \in Participants : participant[p] # NoRow =>
    session[participant[p].session] # NoRow

\* The columns of a run that no save may change.
SamePlace(old, row) ==
  /\ row.session = old.session /\ row.question = old.question
  /\ row.ordinal = old.ordinal /\ row.planned = old.planned

\* What a save of a run has read of the columns that never change is still so.
SavesKnowTheirRun ==
  \A w \in Saves : previous[w] # NoRow =>
    /\ run[previous[w].key] # NoRow
    /\ SamePlace(run[previous[w].key], previous[w].row)

\* The properties that are proved, and what they rest on.
IndInv ==
  /\ TypeOK
  /\ CurrentRunMatches
  /\ AttemptsFitTheirRun
  /\ FinalsFitTheirRun
  /\ OpenPinsDiffer
  /\ EndedIsStamped
  /\ MembersHaveSessions
  /\ SavesKnowTheirRun

\* The invariant holds of empty tables.
LEMMA InitInv == Init => IndInv
  BY DEF Init, IndInv, TypeOK, CurrentRunMatches, AttemptsFitTheirRun, FinalsFitTheirRun,
         OpenPinsDiffer, EndedIsStamped, MembersHaveSessions, SavesKnowTheirRun
-----------------------------------------------------------------------------
(* Stamping a row changes nothing but its times.                            *)

\* Stamping keeps the version, the PIN and the status of a session.
LEMMA StampedRow ==
  ASSUME NEW row \in SessionRow, NEW now \in Times
  PROVE  /\ Stamped(row, now) \in SessionRow
         /\ Stamped(row, now).version = row.version /\ Stamped(row, now).pin = row.pin
         /\ Stamped(row, now).status = row.status
         /\ Stamped(row, now).question = row.question /\ Stamped(row, now).run = row.run
         /\ row.status \in Ended => Stamped(row, now).finished # Null
         /\ row.status \in Ended /\ row.finished # Null => Stamped(row, now) = row
  BY NoRowAssumption DEF Stamped, SessionRow, Ended
-----------------------------------------------------------------------------
(* What a save of each kind keeps of the invariant.                         *)

\* What the rows of the sessions are asked for by the others.
SessionsKeep ==
  \A s \in Sessions : session[s] # NoRow =>
    session'[s] # NoRow /\ session'[s].version = session[s].version

\* What the rows of the runs are asked for by the others.
RunsKeep ==
  \A r \in Runs : run[r] # NoRow =>
    /\ run'[r] # NoRow
    /\ run'[r].session = run[r].session /\ run'[r].question = run[r].question

\* A step that leaves the runs and their saves alone.
LEMMA SavesUntouched ==
  ASSUME IndInv, UNCHANGED <<run, previous>>
  PROVE  SavesKnowTheirRun'
BY DEF IndInv, SavesKnowTheirRun, SamePlace

\* Where the references of a row lead, which their columns say.
LEMMA References ==
  ASSUME TypeOK
  PROVE  /\ \A s \in Sessions : session[s] # NoRow => session[s] \in SessionRow
         /\ \A r \in Runs : run[r] # NoRow =>
              run[r] \in RunRow /\ run[r].session \in Sessions
         /\ \A p \in Participants : participant[p] # NoRow =>
              participant[p].session \in Sessions
         /\ \A a \in Attempts : attempt[a] # NoRow =>
              attempt[a].run \in Runs /\ attempt[a].participant \in Participants
         /\ \A f \in Finals : final[f] # NoRow =>
              /\ final[f].run \in Runs /\ final[f].participant \in Participants
              /\ {final[f].selected, final[f].timing} \ {Null} \subseteq Attempts
         /\ \A l \in Legacy : legacy[l] # NoRow => legacy[l].participant \in Participants
<1>1. \A s \in Sessions : session[s] # NoRow => session[s] \in SessionRow
  BY DEF TypeOK
<1>2. \A r \in Runs : run[r] # NoRow => run[r] \in RunRow /\ run[r].session \in Sessions
  BY DEF TypeOK, RunRow
<1>3. \A p \in Participants : participant[p] # NoRow => participant[p].session \in Sessions
  BY DEF TypeOK, ParticipantRow
<1>4. \A a \in Attempts : attempt[a] # NoRow =>
        attempt[a].run \in Runs /\ attempt[a].participant \in Participants
  BY DEF TypeOK, AttemptRow
<1>5. \A f \in Finals : final[f] # NoRow =>
        /\ final[f].run \in Runs /\ final[f].participant \in Participants
        /\ {final[f].selected, final[f].timing} \ {Null} \subseteq Attempts
  BY DEF TypeOK, FinalRow
<1>6. \A l \in Legacy : legacy[l] # NoRow => legacy[l].participant \in Participants
  BY DEF TypeOK, LegacyRow
<1> QED
  BY <1>1, <1>2, <1>3, <1>4, <1>5, <1>6

\* A step that keeps what sessions and runs are asked for, and touches no other
\* row, keeps what the other rows say of them.
LEMMA OthersFit ==
  ASSUME IndInv, SessionsKeep, RunsKeep,
         \A r \in Runs : run'[r] # NoRow =>
           /\ run'[r].session \in Sessions
           /\ session'[run'[r].session] # NoRow
           /\ VersionOf[run'[r].question] = session'[run'[r].session].version,
         UNCHANGED <<participant, attempt, final, legacy>>
  PROVE  AttemptsFitTheirRun' /\ FinalsFitTheirRun' /\ MembersHaveSessions'
<1>1. TypeOK
  BY DEF IndInv
<1>2. MembersHaveSessions'
  BY <1>1, References DEF IndInv, MembersHaveSessions, SessionsKeep
<1>3. FinalsFitTheirRun'
  BY <1>1, References DEF IndInv, FinalsFitTheirRun, RunsKeep
<1>4. ASSUME NEW a \in Attempts, attempt[a] # NoRow
      PROVE  /\ run'[attempt[a].run] # NoRow /\ participant[attempt[a].participant] # NoRow
             /\ participant[attempt[a].participant].session = run'[attempt[a].run].session
             /\ QuestionOf[attempt[a].choice] = run'[attempt[a].run].question
  BY <1>1, <1>4, References DEF IndInv, AttemptsFitTheirRun, RunsKeep
<1>5. ASSUME NEW l \in Legacy, legacy[l] # NoRow
      PROVE  /\ participant[legacy[l].participant] # NoRow
             /\ VersionOf[legacy[l].question] =
                  session'[participant[legacy[l].participant].session].version
  <2>1. /\ legacy[l].participant \in Participants
        /\ participant[legacy[l].participant] # NoRow
        /\ VersionOf[legacy[l].question] =
             session[participant[legacy[l].participant].session].version
    BY <1>1, <1>5, References DEF IndInv, AttemptsFitTheirRun
  <2>2. /\ participant[legacy[l].participant].session \in Sessions
        /\ session[participant[legacy[l].participant].session] # NoRow
    BY <1>1, <2>1, References DEF IndInv, MembersHaveSessions
  <2> QED
    BY <2>1, <2>2 DEF SessionsKeep
<1> QED
  BY <1>2, <1>3, <1>4, <1>5 DEF AttemptsFitTheirRun

\* A session is created with a PIN that no open session has.
LEMMA CreateSessionInv ==
  ASSUME IndInv, NEW s \in Sessions, NEW v \in Versions, NEW pin \in Pins,
         CreateSession(s, v, pin)
  PROVE  IndInv'
<1> DEFINE new == [version |-> v, pin |-> pin, status |-> "waiting", started |-> Null,
                   finished |-> Null, question |-> Null, run |-> Null]
<1>1. /\ new \in SessionRow /\ new.pin = pin /\ new.status = "waiting"
      /\ new.question = Null /\ new.run = Null
  BY DEF SessionRow, Statuses
<1>2. /\ session[s] = NoRow /\ session' = [session EXCEPT ![s] = new]
      /\ \A t \in Sessions : session[t] # NoRow /\ session[t].status \in Open =>
           session[t].pin # pin
      /\ UNCHANGED <<run, participant, attempt, final, legacy, grant, previous>>
  BY DEF CreateSession
<1> HIDE DEF new
<1>3. TypeOK /\ session \in [Sessions -> SessionRow \cup {NoRow}]
  BY DEF IndInv, TypeOK
<1>4. session'[s] = new /\ \A t \in Sessions \ {s} : session'[t] = session[t]
  BY <1>2, <1>3
<1>5. TypeOK'
  BY <1>1, <1>2, <1>3 DEF TypeOK
<1>6. SessionsKeep
  BY <1>2, <1>4 DEF SessionsKeep
<1>7. CurrentRunMatches'
  BY <1>1, <1>2, <1>4 DEF IndInv, CurrentRunMatches, PointsWell
<1>8. RunsKeep
  BY <1>2 DEF RunsKeep
<1>9. AttemptsFitTheirRun' /\ FinalsFitTheirRun' /\ MembersHaveSessions'
  <2>1. \A r \in Runs : run'[r] # NoRow =>
          /\ run'[r].session \in Sessions
          /\ session'[run'[r].session] # NoRow
          /\ VersionOf[run'[r].question] = session'[run'[r].session].version
    BY <1>2, <1>3, <1>6, References DEF IndInv, AttemptsFitTheirRun, SessionsKeep
  <2> QED
    BY <1>2, <1>6, <1>8, <2>1, OthersFit
<1>10. OpenPinsDiffer'
  BY <1>1, <1>2, <1>4 DEF IndInv, OpenPinsDiffer, Open
<1>11. EndedIsStamped'
  BY <1>1, <1>4 DEF IndInv, EndedIsStamped, Ended
<1> QED
  BY <1>2, <1>5, <1>7, <1>9, <1>10, <1>11, SavesUntouched DEF IndInv

\* A saved session keeps the runs, attempts and participants that refer to it right.
LEMMA SaveSessionInv ==
  ASSUME IndInv, NEW s \in Sessions, NEW row \in SessionRow, NEW now \in Times,
         SaveSession(s, row, now)
  PROVE  IndInv'
<1> DEFINE new == Stamped(row, now)
<1>1. /\ new \in SessionRow
      /\ new.version = row.version /\ new.pin = row.pin /\ new.status = row.status
      /\ new.question = row.question /\ new.run = row.run
      /\ row.status \in Ended => new.finished # Null
  BY StampedRow
<1>2. /\ session[s] # NoRow /\ session' = [session EXCEPT ![s] = new]
      /\ PointsWell(s, row) /\ KeepsHistory(session[s], row)
      /\ UNCHANGED <<run, participant, attempt, final, legacy, grant, previous>>
  BY DEF SaveSession
<1> HIDE DEF new
<1>3. TypeOK /\ session \in [Sessions -> SessionRow \cup {NoRow}]
  BY DEF IndInv, TypeOK
<1>4. session'[s] = new /\ \A t \in Sessions \ {s} : session'[t] = session[t]
  BY <1>2, <1>3
<1>5. new # NoRow /\ new.version = session[s].version /\ new.pin = session[s].pin
  BY <1>1, <1>2, NoRowAssumption DEF KeepsHistory
<1>6. TypeOK'
  BY <1>1, <1>2, <1>3 DEF TypeOK
<1>7. SessionsKeep
  BY <1>4, <1>5 DEF SessionsKeep
<1>8. RunsKeep
  BY <1>2 DEF RunsKeep
<1>9. CurrentRunMatches'
  BY <1>1, <1>2, <1>4, <1>5 DEF IndInv, CurrentRunMatches, PointsWell
<1>10. AttemptsFitTheirRun' /\ FinalsFitTheirRun' /\ MembersHaveSessions'
  <2>1. \A r \in Runs : run'[r] # NoRow =>
          /\ run'[r].session \in Sessions
          /\ session'[run'[r].session] # NoRow
          /\ VersionOf[run'[r].question] = session'[run'[r].session].version
    BY <1>2, <1>3, <1>7, References DEF IndInv, AttemptsFitTheirRun, SessionsKeep
  <2> QED
    BY <1>2, <1>7, <1>8, <2>1, OthersFit
<1>11. OpenPinsDiffer'
  <2>1. new.status \in Open => session[s].status \in Open
    <3>1. session[s] \in SessionRow
      BY <1>2, <1>3
    <3>2. session[s].status \in Ended => row.status = session[s].status
      BY <1>2 DEF KeepsHistory
    <3> QED
      BY <1>1, <3>1, <3>2 DEF SessionRow, Statuses, Open, Ended
  <2> QED
    BY <1>2, <1>4, <1>5, <2>1 DEF IndInv, OpenPinsDiffer
<1>12. EndedIsStamped'
  BY <1>1, <1>4 DEF IndInv, EndedIsStamped
<1> QED
  BY <1>2, <1>6, <1>9, <1>10, <1>11, <1>12, SavesUntouched DEF IndInv

\* A stored run of the version that its session plays, under the key of a run with
\* the same place or under a free one, keeps the invariant.
LEMMA StoredRun ==
  ASSUME IndInv, NEW r \in Runs, NEW row \in RunRow, OfTheQuiz(row),
         run[r] # NoRow => SamePlace(run[r], row),
         run' = [run EXCEPT ![r] = row],
         previous' = previous \/ \E w \in Saves : previous' = [previous EXCEPT ![w] = NoRow],
         UNCHANGED <<session, participant, attempt, final, legacy, grant>>
  PROVE  IndInv'
<1>1. /\ session[row.session] # NoRow
      /\ VersionOf[row.question] = session[row.session].version
      /\ run[r] # NoRow => row.session = run[r].session /\ row.question = run[r].question
  BY DEF OfTheQuiz, SamePlace
<1>2. /\ TypeOK /\ run \in [Runs -> RunRow \cup {NoRow}]
      /\ previous \in [Saves -> Reading \cup {NoRow}]
  BY DEF IndInv, TypeOK
<1>3. run'[r] = row /\ \A o \in Runs \ {r} : run'[o] = run[o]
  BY <1>2
<1>4. row # NoRow /\ row.session \in Sessions
  BY NoRowAssumption DEF RunRow
<1>5. TypeOK'
  <2>1. run' \in [Runs -> RunRow \cup {NoRow}]
    BY <1>2
  <2>2. previous' \in [Saves -> Reading \cup {NoRow}]
    BY <1>2
  <2> QED
    BY <1>2, <2>1, <2>2 DEF TypeOK
<1>6. RunsKeep
  BY <1>1, <1>3, <1>4 DEF RunsKeep
<1>7. SessionsKeep
  BY DEF SessionsKeep
<1>8. AttemptsFitTheirRun' /\ FinalsFitTheirRun' /\ MembersHaveSessions'
  <2>1. \A o \in Runs : run'[o] # NoRow =>
          /\ run'[o].session \in Sessions
          /\ session'[run'[o].session] # NoRow
          /\ VersionOf[run'[o].question] = session'[run'[o].session].version
    BY <1>1, <1>2, <1>3, <1>4, References DEF IndInv, AttemptsFitTheirRun
  <2> QED
    BY <1>6, <1>7, <2>1, OthersFit
<1>9. CurrentRunMatches'
  <2>1. ASSUME NEW s \in Sessions, session[s] # NoRow
        PROVE  PointsWell(s, session[s])'
    <3>1. session[s].run # Null => session[s].run \in Runs
      BY <1>2, <2>1, References DEF SessionRow
    <3>2. PointsWell(s, session[s])
      BY <2>1 DEF IndInv, CurrentRunMatches
    <3> QED
      BY <1>6, <3>1, <3>2 DEF PointsWell, RunsKeep
  <2> QED
    BY <2>1 DEF CurrentRunMatches
<1>10. OpenPinsDiffer' /\ EndedIsStamped'
  BY DEF IndInv, OpenPinsDiffer, EndedIsStamped
<1>11. SavesKnowTheirRun'
  <2>1. \A w \in Saves : previous'[w] # NoRow => previous'[w] = previous[w]
    BY <1>2
  <2>2. ASSUME NEW w \in Saves, previous[w] # NoRow
        PROVE  /\ run'[previous[w].key] # NoRow
               /\ SamePlace(run'[previous[w].key], previous[w].row)
    <3>1. /\ run[previous[w].key] # NoRow
          /\ SamePlace(run[previous[w].key], previous[w].row)
      BY <2>2 DEF IndInv, SavesKnowTheirRun
    <3>2. previous[w].key \in Runs
      BY <1>2, <2>2 DEF Reading
    <3>3. CASE previous[w].key = r
      BY <1>3, <1>4, <3>1, <3>3 DEF SamePlace
    <3>4. CASE previous[w].key # r
      BY <1>3, <3>1, <3>2, <3>4
    <3> QED
      BY <3>3, <3>4
  <2> QED
    BY <2>1, <2>2 DEF SavesKnowTheirRun
<1> QED
  BY <1>5, <1>8, <1>9, <1>10, <1>11 DEF IndInv

\* A run is inserted under a free key.
LEMMA InsertRunInv ==
  ASSUME IndInv, NEW r \in Runs, NEW row \in RunRow, InsertRun(r, row)
  PROVE  IndInv'
BY StoredRun DEF InsertRun

\* What a save has read of a run lets it keep the place of the stored one.
LEMMA WhatWasRead ==
  ASSUME IndInv, NEW w \in Saves, NEW row \in RunRow, WriteRun(w, row)
  PROVE  /\ previous[w].key \in Runs
         /\ run[previous[w].key] # NoRow
         /\ SamePlace(run[previous[w].key], row)
<1>1. previous[w] # NoRow /\ RunKeepsHistory(previous[w].row, row)
  BY DEF WriteRun
<1>2. previous[w] \in Reading
  BY <1>1 DEF IndInv, TypeOK
<1>3. run[previous[w].key] # NoRow /\ SamePlace(run[previous[w].key], previous[w].row)
  BY <1>1 DEF IndInv, SavesKnowTheirRun
<1> QED
  BY <1>1, <1>2, <1>3 DEF Reading, SamePlace, RunKeepsHistory

\* A run is written over the one that its save has read, or over a later one.
LEMMA WriteRunInv ==
  ASSUME IndInv, NEW w \in Saves, NEW row \in RunRow, WriteRun(w, row)
  PROVE  IndInv'
<1>1. /\ previous[w].key \in Runs /\ SamePlace(run[previous[w].key], row)
  BY WhatWasRead
<1>2. /\ OfTheQuiz(row)
      /\ run' = [run EXCEPT ![previous[w].key] = row]
      /\ previous' = [previous EXCEPT ![w] = NoRow]
      /\ UNCHANGED <<session, participant, attempt, final, legacy, grant>>
  BY DEF WriteRun
<1> QED
  BY <1>1, <1>2, StoredRun

\* A save that reads, or gives up, touches no row.
LEMMA OnlySavesMove ==
  ASSUME IndInv, NEW w \in Saves,
         previous' = [previous EXCEPT ![w] = NoRow] \/ \E r \in Runs : ReadRun(w, r),
         UNCHANGED <<session, run, participant, attempt, final, legacy, grant>>
  PROVE  IndInv'
<1>1. TypeOK /\ run \in [Runs -> RunRow \cup {NoRow}] /\ previous \in [Saves -> Reading \cup {NoRow}]
  BY DEF IndInv, TypeOK
<1>2. /\ CurrentRunMatches' /\ OpenPinsDiffer' /\ EndedIsStamped' /\ MembersHaveSessions'
      /\ FinalsFitTheirRun' /\ AttemptsFitTheirRun'
  BY DEF IndInv, CurrentRunMatches, PointsWell, OpenPinsDiffer, EndedIsStamped,
         MembersHaveSessions, FinalsFitTheirRun, AttemptsFitTheirRun
<1>3. CASE previous' = [previous EXCEPT ![w] = NoRow]
  <2>1. previous' \in [Saves -> Reading \cup {NoRow}]
        /\ \A x \in Saves : previous'[x] # NoRow => previous'[x] = previous[x]
    BY <1>1, <1>3
  <2>2. TypeOK'
    BY <1>1, <2>1 DEF TypeOK
  <2>3. SavesKnowTheirRun'
    BY <2>1 DEF IndInv, SavesKnowTheirRun, SamePlace
  <2> QED
    BY <1>2, <2>2, <2>3 DEF IndInv
<1>4. ASSUME NEW r \in Runs, ReadRun(w, r) PROVE IndInv'
  <2> DEFINE new == [key |-> r, row |-> run[r]]
  <2>1. run[r] # NoRow /\ previous' = [previous EXCEPT ![w] = new]
    BY <1>4 DEF ReadRun
  <2>2. new \in Reading /\ new.key = r /\ new.row = run[r]
    BY <1>1, <2>1 DEF Reading
  <2> HIDE DEF new
  <2>3. previous' \in [Saves -> Reading \cup {NoRow}]
        /\ previous'[w] = new /\ \A x \in Saves \ {w} : previous'[x] = previous[x]
    BY <1>1, <2>1, <2>2
  <2>4. TypeOK'
    BY <1>1, <2>3 DEF TypeOK
  <2>5. SavesKnowTheirRun'
    BY <2>1, <2>2, <2>3 DEF IndInv, SavesKnowTheirRun, SamePlace
  <2> QED
    BY <1>2, <2>4, <2>5 DEF IndInv
<1> QED
  BY <1>3, <1>4

\* A participant is added to a session that exists.
LEMMA SaveParticipantInv ==
  ASSUME IndInv, NEW p \in Participants, NEW row \in ParticipantRow, SaveParticipant(p, row)
  PROVE  IndInv'
<1>1. /\ participant[p] = NoRow /\ session[row.session] # NoRow
      /\ participant' = [participant EXCEPT ![p] = row]
      /\ UNCHANGED <<session, run, attempt, final, legacy, grant, previous>>
  BY DEF SaveParticipant
<1>2. TypeOK /\ participant \in [Participants -> ParticipantRow \cup {NoRow}]
  BY DEF IndInv, TypeOK
<1>3. participant'[p] = row /\ \A o \in Participants \ {p} : participant'[o] = participant[o]
  BY <1>1, <1>2
<1>4. TypeOK'
  BY <1>1, <1>2 DEF TypeOK
<1>5. \A o \in Participants : participant[o] # NoRow => participant'[o] = participant[o]
  BY <1>1, <1>3
<1>6. MembersHaveSessions'
  BY <1>1, <1>3 DEF IndInv, MembersHaveSessions
<1>7. FinalsFitTheirRun'
  BY <1>1, <1>2, <1>5, References DEF IndInv, FinalsFitTheirRun
<1>8. AttemptsFitTheirRun'
  BY <1>1, <1>2, <1>5, References DEF IndInv, AttemptsFitTheirRun
<1>9. CurrentRunMatches' /\ OpenPinsDiffer' /\ EndedIsStamped'
  BY <1>1 DEF IndInv, CurrentRunMatches, PointsWell, OpenPinsDiffer, EndedIsStamped
<1> QED
  BY <1>1, <1>4, <1>6, <1>7, <1>8, <1>9, SavesUntouched DEF IndInv

\* An attempt is added to a run of its participant's session.
LEMMA SaveAttemptInv ==
  ASSUME IndInv, NEW a \in Attempts, NEW row \in AttemptRow, SaveAttempt(a, row)
  PROVE  IndInv'
<1>1. /\ attempt[a] = NoRow
      /\ run[row.run] # NoRow /\ participant[row.participant] # NoRow
      /\ participant[row.participant].session = run[row.run].session
      /\ QuestionOf[row.choice] = run[row.run].question
      /\ attempt' = [attempt EXCEPT ![a] = row]
      /\ UNCHANGED <<session, run, participant, final, legacy, grant, previous>>
  BY DEF SaveAttempt
<1>2. TypeOK /\ attempt \in [Attempts -> AttemptRow \cup {NoRow}]
  BY DEF IndInv, TypeOK
<1>3. attempt'[a] = row /\ \A o \in Attempts \ {a} : attempt'[o] = attempt[o]
  BY <1>1, <1>2
<1>4. TypeOK'
  BY <1>1, <1>2 DEF TypeOK
<1>5. \A o \in Attempts : attempt[o] # NoRow => attempt'[o] = attempt[o]
  BY <1>1, <1>3
<1>6. FinalsFitTheirRun'
  BY <1>1, <1>2, <1>5, References DEF IndInv, FinalsFitTheirRun
<1>7. AttemptsFitTheirRun'
  BY <1>1, <1>3 DEF IndInv, AttemptsFitTheirRun
<1>8. CurrentRunMatches' /\ OpenPinsDiffer' /\ EndedIsStamped' /\ MembersHaveSessions'
  BY <1>1 DEF IndInv, CurrentRunMatches, PointsWell, OpenPinsDiffer, EndedIsStamped,
              MembersHaveSessions
<1> QED
  BY <1>1, <1>4, <1>6, <1>7, <1>8, SavesUntouched DEF IndInv

\* A final answer is of a run and a participant of one session.
LEMMA SaveFinalInv ==
  ASSUME IndInv, NEW f \in Finals, NEW row \in FinalRow, SaveFinal(f, row)
  PROVE  IndInv'
<1>1. /\ run[row.run] # NoRow /\ participant[row.participant] # NoRow
      /\ participant[row.participant].session = run[row.run].session
      /\ OwnAttempts(row) /\ OutcomeMatches(row)
      /\ final' = [final EXCEPT ![f] = row]
      /\ UNCHANGED <<session, run, participant, attempt, legacy, grant, previous>>
  BY DEF SaveFinal
<1>2. TypeOK /\ final \in [Finals -> FinalRow \cup {NoRow}]
  BY DEF IndInv, TypeOK
<1>3. final'[f] = row /\ \A o \in Finals \ {f} : final'[o] = final[o]
  BY <1>1, <1>2
<1>4. TypeOK'
  BY <1>1, <1>2 DEF TypeOK
<1>5. /\ (row.outcome = "answered") = (row.selected # Null)
      /\ (row.outcome = "answered") = (row.timing # Null)
  BY <1>1 DEF OutcomeMatches
<1>6. FinalsFitTheirRun'
  BY <1>1, <1>3, <1>5 DEF IndInv, FinalsFitTheirRun, OwnAttempts
<1>7. /\ CurrentRunMatches' /\ OpenPinsDiffer' /\ EndedIsStamped' /\ MembersHaveSessions'
      /\ AttemptsFitTheirRun'
  BY <1>1 DEF IndInv, CurrentRunMatches, PointsWell, OpenPinsDiffer, EndedIsStamped,
              MembersHaveSessions, AttemptsFitTheirRun
<1> QED
  BY <1>1, <1>4, <1>6, <1>7, SavesUntouched DEF IndInv

\* A saved answer of the older kind touches no other row.
LEMMA SaveLegacyInv ==
  ASSUME IndInv, NEW l \in Legacy, NEW row \in LegacyRow, SaveLegacy(l, row)
  PROVE  IndInv'
<1>1. /\ participant[row.participant] # NoRow
      /\ VersionOf[row.question] = session[participant[row.participant].session].version
      /\ legacy' = [legacy EXCEPT ![l] = row]
      /\ UNCHANGED <<session, run, participant, attempt, final, grant, previous>>
  BY DEF SaveLegacy
<1>2. TypeOK /\ legacy \in [Legacy -> LegacyRow \cup {NoRow}]
  BY DEF IndInv, TypeOK
<1>3. legacy'[l] = row /\ \A o \in Legacy \ {l} : legacy'[o] = legacy[o]
  BY <1>1, <1>2
<1>4. TypeOK'
  BY <1>1, <1>2 DEF TypeOK
<1>5. AttemptsFitTheirRun'
  BY <1>1, <1>3 DEF IndInv, AttemptsFitTheirRun
<1>6. /\ CurrentRunMatches' /\ OpenPinsDiffer' /\ EndedIsStamped' /\ MembersHaveSessions'
      /\ FinalsFitTheirRun'
  BY <1>1 DEF IndInv, CurrentRunMatches, PointsWell, OpenPinsDiffer, EndedIsStamped,
              MembersHaveSessions, FinalsFitTheirRun
<1> QED
  BY <1>1, <1>4, <1>5, <1>6, SavesUntouched DEF IndInv

\* A saved or deleted grant touches no row of the game.
LEMMA GrantInv ==
  ASSUME IndInv, NEW g \in Grants,
         (\E row \in GrantRow : SaveGrant(g, row)) \/ DeleteGrant(g)
  PROVE  IndInv'
<1>1. /\ \E row \in GrantRow \cup {NoRow} : grant' = [grant EXCEPT ![g] = row]
      /\ UNCHANGED <<session, run, participant, attempt, final, legacy, previous>>
  BY DEF SaveGrant, DeleteGrant
<1>2. TypeOK'
  BY <1>1 DEF IndInv, TypeOK
<1>3. /\ CurrentRunMatches' /\ OpenPinsDiffer' /\ EndedIsStamped' /\ MembersHaveSessions'
      /\ FinalsFitTheirRun' /\ AttemptsFitTheirRun'
  BY <1>1 DEF IndInv, CurrentRunMatches, PointsWell, OpenPinsDiffer, EndedIsStamped,
              MembersHaveSessions, FinalsFitTheirRun, AttemptsFitTheirRun
<1> QED
  BY <1>1, <1>2, <1>3, SavesUntouched DEF IndInv
-----------------------------------------------------------------------------
\* Every step keeps the invariant.
LEMMA NextInv == IndInv /\ [Next]_vars => IndInv'
<1> SUFFICES ASSUME IndInv, [Next]_vars PROVE IndInv'
  OBVIOUS
<1>1. ASSUME NEW s \in Sessions, NEW v \in Versions, NEW pin \in Pins, CreateSession(s, v, pin)
      PROVE  IndInv'
  BY <1>1, CreateSessionInv
<1>2. ASSUME NEW s \in Sessions, NEW row \in SessionRow, NEW now \in Times,
             SaveSession(s, row, now)
      PROVE  IndInv'
  BY <1>2, SaveSessionInv
<1>3. ASSUME NEW r \in Runs, NEW row \in RunRow, InsertRun(r, row)
      PROVE  IndInv'
  BY <1>3, InsertRunInv
<1>10. ASSUME NEW w \in Saves, NEW r \in Runs, ReadRun(w, r)
       PROVE  IndInv'
  BY <1>10, OnlySavesMove DEF ReadRun
<1>11. ASSUME NEW w \in Saves, NEW row \in RunRow, WriteRun(w, row)
       PROVE  IndInv'
  BY <1>11, WriteRunInv
<1>12. ASSUME NEW w \in Saves, DropSave(w)
       PROVE  IndInv'
  BY <1>12, OnlySavesMove DEF DropSave
<1>4. ASSUME NEW p \in Participants, NEW row \in ParticipantRow, SaveParticipant(p, row)
      PROVE  IndInv'
  BY <1>4, SaveParticipantInv
<1>5. ASSUME NEW a \in Attempts, NEW row \in AttemptRow, SaveAttempt(a, row)
      PROVE  IndInv'
  BY <1>5, SaveAttemptInv
<1>6. ASSUME NEW f \in Finals, NEW row \in FinalRow, SaveFinal(f, row)
      PROVE  IndInv'
  BY <1>6, SaveFinalInv
<1>7. ASSUME NEW l \in Legacy, NEW row \in LegacyRow, SaveLegacy(l, row)
      PROVE  IndInv'
  BY <1>7, SaveLegacyInv
<1>8. ASSUME NEW g \in Grants, NEW row \in GrantRow, SaveGrant(g, row)
      PROVE  IndInv'
  BY <1>8, GrantInv
<1>13. ASSUME NEW g \in Grants, DeleteGrant(g) PROVE IndInv'
  BY <1>13, GrantInv
<1>9. CASE UNCHANGED vars
  BY <1>9 DEF vars, IndInv, TypeOK, CurrentRunMatches, PointsWell, OpenPinsDiffer,
              EndedIsStamped, MembersHaveSessions, FinalsFitTheirRun, AttemptsFitTheirRun,
              SavesKnowTheirRun, SamePlace
<1> QED
  BY <1>1, <1>2, <1>3, <1>4, <1>5, <1>6, <1>7, <1>8, <1>9, <1>10, <1>11, <1>12, <1>13 DEF Next

\* So it holds in every state.
LEMMA Invariance == Spec => []IndInv
  BY InitInv, NextInv, PTL DEF Spec

\* Whoever saves whatever row, and in whatever order: the rows of the game fit
\* each other (the checks of models.py are enough for one another).
THEOREM RowsAlwaysFit == Spec => []RowsFit
<1>1. IndInv => RowsFit
  BY DEF IndInv, RowsFit
<1> QED
  BY <1>1, Invariance, PTL
-----------------------------------------------------------------------------
(* What a step may never do to a row that is there.                         *)

\* A row that equals an ended one is stamped already.
LEMMA EndedStays ==
  ASSUME IndInv, NEW s \in Sessions, NEW row \in SessionRow, NEW now \in Times,
         SaveSession(s, row, now)
  PROVE  SessionsStay
<1>1. /\ session[s] # NoRow /\ KeepsHistory(session[s], row)
      /\ session' = [session EXCEPT ![s] = Stamped(row, now)]
  BY DEF SaveSession
<1>2. TypeOK /\ session \in [Sessions -> SessionRow \cup {NoRow}]
  BY DEF IndInv, TypeOK
<1>3. session'[s] = Stamped(row, now) /\ \A t \in Sessions \ {s} : session'[t] = session[t]
  BY <1>1, <1>2
<1>4. Stamped(row, now) # NoRow /\ Stamped(row, now).version = session[s].version
  BY <1>1, StampedRow, NoRowAssumption DEF KeepsHistory
<1>5. session[s].status \in Ended => Stamped(row, now) = session[s]
  BY <1>1, StampedRow DEF IndInv, EndedIsStamped, KeepsHistory
<1>6. session[s].status # "waiting" => Stamped(row, now).status # "waiting"
  BY <1>1, StampedRow DEF KeepsHistory
<1> QED
  BY <1>3, <1>4, <1>5, <1>6 DEF SessionsStay

\* A run that is written again keeps its place, and its results if its save has
\* read the run that is stored.
LEMMA RunsStayRuns ==
  ASSUME IndInv, NEW w \in Saves, NEW row \in RunRow, WriteRun(w, row)
  PROVE  RunsStay
<1> DEFINE r == previous[w].key
<1>1. r \in Runs /\ run[r] # NoRow /\ SamePlace(run[r], row)
  BY WhatWasRead
<1>2. /\ previous[w] # NoRow /\ RunKeepsHistory(previous[w].row, row)
      /\ run' = [run EXCEPT ![r] = row]
  BY DEF WriteRun
<1>3. previous[w].row # run[r] => Outdated(r)
  BY <1>2 DEF Outdated
<1> HIDE DEF r
<1>4. run \in [Runs -> RunRow \cup {NoRow}] /\ row # NoRow
  BY NoRowAssumption DEF IndInv, TypeOK
<1>5. run[r].finalized # Null /\ ~ Outdated(r) => row = run[r]
  <2>1. run[r] \in RunRow
    BY <1>1, <1>4
  <2> QED
    BY <1>2, <1>3, <2>1 DEF RunKeepsHistory, RunRow
<1>6. run'[r] = row /\ \A o \in Runs \ {r} : run'[o] = run[o]
  BY <1>1, <1>2, <1>4
<1> QED
  BY <1>1, <1>4, <1>5, <1>6 DEF RunsStay, SamePlace

\* No row of what has happened is rewritten, by whatever save of whatever row; but
\* for the results of a run, by a save that overlaps with the one that stored them.
THEOREM HistoryStays == Spec => HistoryIsKept
<1> DEFINE Kept == AnswersStay /\ GrantsStay /\ LegacyStays /\ RunsStay /\ SessionsStay
<1>1. ASSUME IndInv, Next PROVE Kept
  <2>0. TypeOK
    BY <1>1 DEF IndInv
  <2>1. ASSUME NEW s \in Sessions, NEW v \in Versions, NEW pin \in Pins,
               CreateSession(s, v, pin)
        PROVE  Kept
    <3>1. /\ session[s] = NoRow /\ \A t \in Sessions \ {s} : session'[t] = session[t]
          /\ UNCHANGED <<run, participant, attempt, final, legacy, grant, previous>>
      BY <2>0, <2>1 DEF CreateSession, TypeOK
    <3> QED
      BY <3>1 DEF AnswersStay, Stays, GrantsStay, LegacyStays, RunsStay, SessionsStay
  <2>2. ASSUME NEW s \in Sessions, NEW row \in SessionRow, NEW now \in Times,
               SaveSession(s, row, now)
        PROVE  Kept
    <3>1. SessionsStay
      BY <1>1, <2>2, EndedStays
    <3>2. UNCHANGED <<run, participant, attempt, final, legacy, grant, previous>>
      BY <2>2 DEF SaveSession
    <3> QED
      BY <3>1, <3>2 DEF AnswersStay, Stays, GrantsStay, LegacyStays, RunsStay
  <2>3. ASSUME NEW r \in Runs, NEW row \in RunRow, InsertRun(r, row)
        PROVE  Kept
    <3>1. /\ run[r] = NoRow /\ \A o \in Runs \ {r} : run'[o] = run[o]
          /\ UNCHANGED <<session, participant, attempt, final, legacy, grant, previous>>
      BY <2>0, <2>3 DEF InsertRun, TypeOK
    <3> QED
      BY <3>1 DEF AnswersStay, Stays, GrantsStay, LegacyStays, RunsStay, SessionsStay
  <2>9. ASSUME NEW w \in Saves, NEW row \in RunRow, WriteRun(w, row)
        PROVE  Kept
    <3>1. RunsStay
      BY <1>1, <2>9, RunsStayRuns
    <3>2. UNCHANGED <<session, participant, attempt, final, legacy, grant>>
      BY <2>9 DEF WriteRun
    <3> QED
      BY <3>1, <3>2 DEF AnswersStay, Stays, GrantsStay, LegacyStays, SessionsStay
  <2>10. ASSUME NEW w \in Saves, DropSave(w) \/ \E r \in Runs : ReadRun(w, r)
         PROVE  Kept
    <3>1. UNCHANGED <<session, run, participant, attempt, final, legacy, grant>>
      BY <2>10 DEF DropSave, ReadRun
    <3> QED
      BY <3>1 DEF AnswersStay, Stays, GrantsStay, LegacyStays, RunsStay, SessionsStay
  <2>4. ASSUME NEW p \in Participants, NEW row \in ParticipantRow, SaveParticipant(p, row)
        PROVE  Kept
    <3>1. /\ participant[p] = NoRow
          /\ \A o \in Participants \ {p} : participant'[o] = participant[o]
          /\ UNCHANGED <<session, run, attempt, final, legacy, grant, previous>>
      BY <2>0, <2>4 DEF SaveParticipant, TypeOK
    <3> QED
      BY <3>1 DEF AnswersStay, Stays, GrantsStay, LegacyStays, RunsStay, SessionsStay
  <2>5. ASSUME NEW a \in Attempts, NEW row \in AttemptRow, SaveAttempt(a, row)
        PROVE  Kept
    <3>1. /\ attempt[a] = NoRow /\ \A o \in Attempts \ {a} : attempt'[o] = attempt[o]
          /\ UNCHANGED <<session, run, participant, final, legacy, grant, previous>>
      BY <2>0, <2>5 DEF SaveAttempt, TypeOK
    <3> QED
      BY <3>1 DEF AnswersStay, Stays, GrantsStay, LegacyStays, RunsStay, SessionsStay
  <2>6. ASSUME NEW f \in Finals, NEW row \in FinalRow, SaveFinal(f, row)
        PROVE  Kept
    <3>1. /\ final[f] = NoRow /\ \A o \in Finals \ {f} : final'[o] = final[o]
          /\ UNCHANGED <<session, run, participant, attempt, legacy, grant, previous>>
      BY <2>0, <2>6 DEF SaveFinal, TypeOK
    <3> QED
      BY <3>1 DEF AnswersStay, Stays, GrantsStay, LegacyStays, RunsStay, SessionsStay
  <2>7. ASSUME NEW l \in Legacy, NEW row \in LegacyRow, SaveLegacy(l, row)
        PROVE  Kept
    <3>1. /\ session[participant[row.participant].session].status = "live"
          /\ legacy[l] # NoRow => row.participant = legacy[l].participant
          /\ \A o \in Legacy \ {l} : legacy'[o] = legacy[o]
          /\ UNCHANGED <<session, run, participant, attempt, final, grant, previous>>
      BY <2>0, <2>7 DEF SaveLegacy, TypeOK
    <3>2. LegacyStays
      BY <3>1 DEF LegacyStays, Ended
    <3> QED
      BY <3>1, <3>2 DEF AnswersStay, Stays, GrantsStay, RunsStay, SessionsStay
  <2>8. ASSUME NEW g \in Grants, NEW row \in GrantRow, SaveGrant(g, row)
        PROVE  Kept
    <3>1. /\ grant[g] # NoRow =>
               /\ row.session = grant[g].session
               /\ grant[g].revoked # Null => row.revoked = grant[g].revoked
          /\ grant'[g] = row /\ \A o \in Grants \ {g} : grant'[o] = grant[o]
          /\ UNCHANGED <<session, run, participant, attempt, final, legacy, previous>>
      BY <2>0, <2>8 DEF SaveGrant, TypeOK
    <3>2. GrantsStay
      BY <3>1 DEF GrantsStay
    <3> QED
      BY <3>1, <3>2 DEF AnswersStay, Stays, LegacyStays, RunsStay, SessionsStay
  <2>11. ASSUME NEW g \in Grants, DeleteGrant(g)
         PROVE  Kept
    <3>1. /\ grant'[g] = NoRow /\ \A o \in Grants \ {g} : grant'[o] = grant[o]
          /\ UNCHANGED <<session, run, participant, attempt, final, legacy, previous>>
      BY <2>0, <2>11 DEF DeleteGrant, TypeOK
    <3> QED
      BY <3>1 DEF AnswersStay, Stays, GrantsStay, LegacyStays, RunsStay, SessionsStay
  <2> QED
    BY <1>1, <2>1, <2>2, <2>3, <2>4, <2>5, <2>6, <2>7, <2>8, <2>9, <2>10, <2>11 DEF Next
<1>2. IndInv /\ [Next]_vars => [Kept]_vars
  BY <1>1
<1> QED
  BY <1>2, Invariance, PTL DEF Spec, HistoryIsKept
-----------------------------------------------------------------------------
(* The command that empties the tables.                                     *)

Commands ==
  [mode : {"rollback_test", "apply"}, pc : Reset!CommandPcs, held : SUBSET Reset!Game,
   before : Reset!Counts, deleted : Reset!Counts, after : Reset!Counts,
   outcome : {"none", "error", "late error", "committed", "rolled_back", "dead"}]
Transactions ==
  [kind : Reset!Kinds \cup {"none"}, left : Seq(Reset!Tables), held : SUBSET Reset!Tables]

ResetTypes ==
  /\ rows \in [Reset!Tables -> 0 .. MaxRows]
  /\ app \in [Requests -> Transactions]
  /\ cmd \in Commands /\ writes \in 0 .. Writes

\* The table whose rows become more or fewer.
Changed(kind) ==
  CASE kind = "open_session" -> "sessions"
    [] kind = "login" -> "accounts"
    [] OTHER -> "quizzes"

\* A transaction touches the table before it changes rows, and nothing is locked twice.
PathInv ==
  \A r \in Requests :
    /\ app[r].kind = "none" => app[r].left = << >>
    /\ app[r].kind # "none" =>
         \/ Changed(app[r].kind) \in app[r].held
         \/ \E i \in 1 .. Len(app[r].left) : app[r].left[i] = Changed(app[r].kind)

LocksInv ==
  /\ \A r \in Requests : app[r].held \cap cmd.held = {}
  /\ cmd.pc = "before" => cmd.held = {}
  /\ cmd.pc = "lock" => cmd.held \in {{}, {"sessions"}}
  /\ cmd.pc \in {"locked", "deleted"} => cmd.held = Reset!Game

\* The rows that are deleted are those of the first count.
CountsInv ==
  /\ cmd.pc \in {"lock", "locked", "deleted", "after", "judge"} =>
       DOMAIN cmd.before = Reset!Tables
  /\ cmd.pc = "deleted" => \A t \in Reset!Game : rows[t] = cmd.before[t]
  /\ cmd.pc \in {"deleted", "after", "judge"} \/ cmd.outcome = "committed" =>
       \A t \in Reset!Game : cmd.deleted[t] = cmd.before[t]
  /\ cmd.pc = "judge" => DOMAIN cmd.after = Reset!Tables
  /\ cmd.pc # "done" => cmd.outcome = "none"
  /\ cmd.pc \in {"before", "lock", "locked", "deleted"} => cmd.after = Reset!NoCounts

\* Where the rows are while nobody writes.
QuietInv ==
  writes = 0 =>
    /\ \A r \in Requests : app[r].kind = "none" /\ app[r].held = {}
    /\ cmd.pc \in {"before", "lock", "locked", "deleted"} =>
         \A t \in DOMAIN cmd.before : cmd.before[t] = rows[t]
    /\ cmd.pc \in {"after", "judge"} =>
         /\ \A t \in DOMAIN cmd.after : cmd.after[t] = rows[t]
         /\ cmd.mode = "rollback_test" => \A t \in Reset!Tables : rows[t] = cmd.before[t]
         /\ cmd.mode = "apply" => /\ \A t \in Reset!Game : rows[t] = 0
                                  /\ rows["accounts"] = cmd.before["accounts"]
    /\ cmd.pc = "done" => cmd.outcome \in {"committed", "rolled_back", "dead"}

ResetInv == ResetTypes /\ PathInv /\ LocksInv /\ CountsInv /\ QuietInv

\* Numbers of rows of some tables.
LEMMA CountsAre ==
  ASSUME NEW counts
  PROVE  counts \in Reset!Counts <=>
           \E D \in SUBSET Reset!Tables : counts \in [D -> 0 .. MaxRows]
BY DEF Reset!Counts

\* One more table is counted.
LEMMA FillIs ==
  ASSUME ResetTypes, NEW counts \in Reset!Counts, NEW t \in Reset!Tables
  PROVE  /\ Reset!Fill(counts, t) \in Reset!Counts
         /\ DOMAIN Reset!Fill(counts, t) = DOMAIN counts \cup {t}
         /\ Reset!Fill(counts, t)[t] = rows[t]
         /\ \A u \in DOMAIN counts : u # t => Reset!Fill(counts, t)[u] = counts[u]
<1>1. PICK D \in SUBSET Reset!Tables : counts \in [D -> 0 .. MaxRows]
  BY CountsAre
<1>2. /\ DOMAIN Reset!Fill(counts, t) = D \cup {t}
      /\ \A u \in D \cup {t} : Reset!Fill(counts, t)[u] = IF u = t THEN rows[t] ELSE counts[u]
  BY <1>1 DEF Reset!Fill
<1>3. Reset!Fill(counts, t) \in [D \cup {t} -> 0 .. MaxRows]
  BY <1>1 DEF Reset!Fill, ResetTypes
<1>4. D \cup {t} \in SUBSET Reset!Tables
  OBVIOUS
<1> QED BY <1>1, <1>2, <1>3, <1>4, CountsAre

\* A sequence of two with one more.
LEMMA ThirdIs ==
  ASSUME NEW S, NEW s \in Seq(S), Len(s) = 2, NEW e \in S
  PROVE  /\ Len(Append(s, e)) = 3
         /\ Append(s, e)[1] = s[1] /\ Append(s, e)[2] = s[2] /\ Append(s, e)[3] = e
<1>1. Len(Append(s, e)) = Len(s) + 1
  BY AppendProperties
<1>2. Append(s, e)[Len(s) + 1] = e
  BY AppendProperties
<1>3. \A i \in 1 .. Len(s) : Append(s, e)[i] = s[i]
  BY AppendProperties
<1>4. 1 \in 1 .. Len(s) /\ 2 \in 1 .. Len(s) /\ Len(s) + 1 = 3
  OBVIOUS
<1> QED BY <1>1, <1>2, <1>3, <1>4

\* The tables are counted in one order, the preserved one last.
LEMMA OrderIs ==
  /\ Reset!Targets[1] = "sessions" /\ Reset!Targets[2] = "quizzes"
  /\ Len(Reset!Order) = 3 /\ \A i \in 1 .. 3 : Reset!Order[i] \in Reset!Tables
  /\ Reset!Order[1] = "sessions" /\ Reset!Order[2] = "quizzes" /\ Reset!Order[3] = "accounts"
<1>1. Reset!Targets[1] = "sessions" /\ Reset!Targets[2] = "quizzes"
  BY DEF Reset!Targets
<1>2. Len(Reset!Targets) = 2 /\ Reset!Targets \in Seq(Reset!Tables)
  <2>1. Len(Reset!Targets) = 2
    BY DEF Reset!Targets
  <2>2. Reset!Targets \in Seq(Reset!Tables)
    BY DEF Reset!Targets, Reset!Tables, Reset!Game
  <2> QED BY <2>1, <2>2
<1>3. PICK last \in Reset!Tables : last = "accounts"
  BY DEF Reset!Tables
<1>4. Reset!Order = Reset!Targets \o <<last>>
  BY <1>3 DEF Reset!Order
<1>5. Append(Reset!Targets, last) = Reset!Targets \o <<last>>
  BY <1>2, <1>3, AppendIsConcat
<1>6. Reset!Order = Append(Reset!Targets, last)
  BY <1>4, <1>5
<1>7. Len(Reset!Order) = 3 /\ Reset!Order[1] = Reset!Targets[1]
      /\ Reset!Order[2] = Reset!Targets[2] /\ Reset!Order[3] = last
  BY <1>2, <1>3, <1>6, ThirdIs
<1> QED BY <1>1, <1>3, <1>7 DEF Reset!Tables, Reset!Game

\* What is counted next.
LEMMA UncountedIs ==
  ASSUME NEW counts \in Reset!Counts, NEW i \in Reset!Uncounted(counts)
  PROVE  /\ i \in 1 .. 3 /\ Reset!Order[i] \in Reset!Tables
         /\ i = Len(Reset!Order) => DOMAIN counts \cup {Reset!Order[i]} = Reset!Tables
<1>1. /\ i \in 1 .. 3
      /\ \A j \in 1 .. (i - 1) : Reset!Order[j] \in DOMAIN counts
  BY OrderIs DEF Reset!Uncounted
<1>2. DOMAIN counts \subseteq Reset!Tables
  BY CountsAre
<1>3. CASE i = 3
  <2>1. Reset!Order[1] \in DOMAIN counts /\ Reset!Order[2] \in DOMAIN counts
    BY <1>1, <1>3
  <2> QED BY <1>2, <1>3, <2>1, OrderIs DEF Reset!Tables, Reset!Game
<1> QED BY <1>1, <1>3, OrderIs

\* The fields of the command.
LEMMA CommandIs ==
  ASSUME ResetTypes
  PROVE  /\ cmd.mode \in {"rollback_test", "apply"} /\ cmd.pc \in Reset!CommandPcs
         /\ cmd.held \in SUBSET Reset!Game
         /\ cmd.before \in Reset!Counts /\ cmd.deleted \in Reset!Counts /\ cmd.after \in Reset!Counts
         /\ cmd.outcome \in {"none", "error", "late error", "committed", "rolled_back", "dead"}
         /\ rows \in [Reset!Tables -> 0 .. MaxRows] /\ app \in [Requests -> Transactions]
BY DEF ResetTypes, Commands

\* The command ends, with an error or without one.
LEMMA EndKeeps ==
  ASSUME ResetInv, UNCHANGED <<rows, app, writes>>,
         NEW o \in {"error", "late error", "committed", "rolled_back", "dead"}, Reset!Ended(o),
         o = "committed" => \A t \in Reset!Game : cmd.deleted[t] = cmd.before[t],
         writes = 0 => o \in {"committed", "rolled_back", "dead"}
  PROVE  ResetInv'
<1>1. cmd \in Commands
  BY DEF ResetInv, ResetTypes
<1>2. cmd' \in Commands
  BY <1>1 DEF Reset!Ended, Commands, Reset!CommandPcs
<1>3. /\ cmd'.pc = "done" /\ cmd'.held = {} /\ cmd'.outcome = o
      /\ cmd'.before = cmd.before /\ cmd'.deleted = cmd.deleted
  BY <1>1 DEF Reset!Ended, Commands
<1>4. ResetTypes'
  BY <1>2 DEF ResetInv, ResetTypes
<1>5. PathInv'
  BY DEF ResetInv, PathInv
<1>6. LocksInv'
  BY <1>3 DEF LocksInv
<1>7. CountsInv'
  BY <1>3 DEF CountsInv
<1>8. QuietInv'
  <2>1. SUFFICES ASSUME writes = 0 PROVE QuietInv'
    BY DEF QuietInv
  <2>2. \A r \in Requests : app[r].kind = "none" /\ app[r].held = {}
    BY <2>1 DEF ResetInv, QuietInv
  <2> QED BY <1>3, <2>1, <2>2 DEF QuietInv
<1> QED BY <1>4, <1>5, <1>6, <1>7, <1>8 DEF ResetInv

\* The first count of one more table.
LEMMA CountBeforeKeeps == ResetInv /\ Reset!CountBefore => ResetInv'
<1> SUFFICES ASSUME ResetInv, Reset!CountBefore PROVE ResetInv'
  OBVIOUS
<1>1. PICK i \in Reset!Uncounted(cmd.before) :
        cmd' = [cmd EXCEPT !.before = Reset!Fill(cmd.before, Reset!Order[i]),
                           !.pc = IF i = Len(Reset!Order) THEN "lock" ELSE cmd.pc]
  BY DEF Reset!CountBefore
<1>2. /\ cmd.pc = "before" /\ UNCHANGED <<rows, app, writes>>
  BY DEF Reset!CountBefore
<1> DEFINE counts == Reset!Fill(cmd.before, Reset!Order[i])
           pc == IF i = Len(Reset!Order) THEN "lock" ELSE cmd.pc
<1>3. /\ ResetTypes /\ cmd \in Commands /\ cmd.before \in Reset!Counts
  BY CommandIs DEF ResetInv, ResetTypes
<1>4. /\ Reset!Order[i] \in Reset!Tables
      /\ i = Len(Reset!Order) => DOMAIN cmd.before \cup {Reset!Order[i]} = Reset!Tables
  BY <1>3, UncountedIs
<1>5. /\ counts \in Reset!Counts
      /\ DOMAIN counts = DOMAIN cmd.before \cup {Reset!Order[i]}
      /\ counts[Reset!Order[i]] = rows[Reset!Order[i]]
      /\ \A u \in DOMAIN cmd.before : u # Reset!Order[i] => counts[u] = cmd.before[u]
  BY <1>3, <1>4, FillIs
<1>6. pc \in {"before", "lock"} /\ (pc = "lock" => DOMAIN counts = Reset!Tables)
  BY <1>2, <1>4, <1>5
<1>7. cmd' = [cmd EXCEPT !.before = counts, !.pc = pc]
  BY <1>1
<1> HIDE DEF counts, pc
<1>8. cmd' \in Commands
  BY <1>3, <1>5, <1>6, <1>7 DEF Commands, Reset!CommandPcs
<1>9. /\ cmd'.pc = pc /\ cmd'.before = counts /\ cmd'.held = cmd.held
      /\ cmd'.outcome = cmd.outcome /\ cmd'.deleted = cmd.deleted /\ cmd'.after = cmd.after
  BY <1>3, <1>7 DEF Commands
<1>10. ResetTypes'
  BY <1>2, <1>8 DEF ResetInv, ResetTypes
<1>11. PathInv'
  BY <1>2 DEF ResetInv, PathInv
<1>12. LocksInv'
  BY <1>2, <1>6, <1>9 DEF ResetInv, LocksInv
<1>13. CountsInv'
  BY <1>2, <1>6, <1>9 DEF ResetInv, CountsInv
<1>14. QuietInv'
  <2>1. SUFFICES ASSUME writes = 0 PROVE QuietInv'
    BY <1>2 DEF QuietInv
  <2>2. /\ \A r \in Requests : app[r].kind = "none" /\ app[r].held = {}
        /\ \A t \in DOMAIN cmd.before : cmd.before[t] = rows[t]
    BY <1>2, <2>1 DEF ResetInv, QuietInv
  <2>3. \A t \in DOMAIN counts : counts[t] = rows[t]
    BY <1>5, <2>2
  <2> QED BY <1>2, <1>6, <1>9, <2>2, <2>3 DEF QuietInv
<1> QED BY <1>10, <1>11, <1>12, <1>13, <1>14 DEF ResetInv

\* The last count of one more table.
LEMMA CountAfterKeeps == ResetInv /\ Reset!CountAfter => ResetInv'
<1> SUFFICES ASSUME ResetInv, Reset!CountAfter PROVE ResetInv'
  OBVIOUS
<1>1. PICK i \in Reset!Uncounted(cmd.after) :
        cmd' = [cmd EXCEPT !.after = Reset!Fill(cmd.after, Reset!Order[i]),
                           !.pc = IF i = Len(Reset!Order) THEN "judge" ELSE cmd.pc]
  BY DEF Reset!CountAfter
<1>2. /\ cmd.pc = "after" /\ UNCHANGED <<rows, app, writes>>
  BY DEF Reset!CountAfter
<1> DEFINE counts == Reset!Fill(cmd.after, Reset!Order[i])
           pc == IF i = Len(Reset!Order) THEN "judge" ELSE cmd.pc
<1>3. /\ ResetTypes /\ cmd \in Commands /\ cmd.after \in Reset!Counts
  BY CommandIs DEF ResetInv, ResetTypes
<1>4. /\ Reset!Order[i] \in Reset!Tables
      /\ i = Len(Reset!Order) => DOMAIN cmd.after \cup {Reset!Order[i]} = Reset!Tables
  BY <1>3, UncountedIs
<1>5. /\ counts \in Reset!Counts
      /\ DOMAIN counts = DOMAIN cmd.after \cup {Reset!Order[i]}
      /\ counts[Reset!Order[i]] = rows[Reset!Order[i]]
      /\ \A u \in DOMAIN cmd.after : u # Reset!Order[i] => counts[u] = cmd.after[u]
  BY <1>3, <1>4, FillIs
<1>6. pc \in {"after", "judge"} /\ (pc = "judge" => DOMAIN counts = Reset!Tables)
  BY <1>2, <1>4, <1>5
<1>7. cmd' = [cmd EXCEPT !.after = counts, !.pc = pc]
  BY <1>1
<1> HIDE DEF counts, pc
<1>8. cmd' \in Commands
  BY <1>3, <1>5, <1>6, <1>7 DEF Commands, Reset!CommandPcs
<1>9. /\ cmd'.pc = pc /\ cmd'.after = counts /\ cmd'.held = cmd.held /\ cmd'.mode = cmd.mode
      /\ cmd'.outcome = cmd.outcome /\ cmd'.deleted = cmd.deleted /\ cmd'.before = cmd.before
  BY <1>3, <1>7 DEF Commands
<1>10. ResetTypes'
  BY <1>2, <1>8 DEF ResetInv, ResetTypes
<1>11. PathInv'
  BY <1>2 DEF ResetInv, PathInv
<1>12. LocksInv'
  BY <1>2, <1>6, <1>9 DEF ResetInv, LocksInv
<1>13. CountsInv'
  BY <1>2, <1>6, <1>9 DEF ResetInv, CountsInv
<1>14. QuietInv'
  <2>1. SUFFICES ASSUME writes = 0 PROVE QuietInv'
    BY <1>2 DEF QuietInv
  <2>2. /\ \A r \in Requests : app[r].kind = "none" /\ app[r].held = {}
        /\ \A t \in DOMAIN cmd.after : cmd.after[t] = rows[t]
        /\ cmd.mode = "rollback_test" => \A t \in Reset!Tables : rows[t] = cmd.before[t]
        /\ cmd.mode = "apply" => /\ \A t \in Reset!Game : rows[t] = 0
                                 /\ rows["accounts"] = cmd.before["accounts"]
    BY <1>2, <2>1 DEF ResetInv, QuietInv
  <2>3. \A t \in DOMAIN counts : counts[t] = rows[t]
    BY <1>5, <2>2
  <2> QED BY <1>2, <1>6, <1>9, <2>2, <2>3 DEF QuietInv
<1> QED BY <1>10, <1>11, <1>12, <1>13, <1>14 DEF ResetInv

\* The next table is locked.
LEMMA LockNextKeeps == ResetInv /\ Reset!LockNext => ResetInv'
<1> SUFFICES ASSUME ResetInv, Reset!LockNext PROVE ResetInv'
  OBVIOUS
<1> DEFINE t == Reset!Wanted
           pc == IF t = Reset!Targets[2] THEN "locked" ELSE cmd.pc
<1>1. /\ cmd.pc = "lock" /\ ~ Reset!InUse(t) /\ UNCHANGED <<rows, app, writes>>
      /\ cmd' = [cmd EXCEPT !.held = cmd.held \cup {t}, !.pc = pc]
  BY DEF Reset!LockNext
<1>2. ResetTypes /\ cmd \in Commands
  BY DEF ResetInv, ResetTypes
<1>3. cmd.held \in {{}, {"sessions"}}
  BY <1>1 DEF ResetInv, LocksInv
<1>4. \/ cmd.held = {} /\ t = "sessions" /\ pc = "lock"
      \/ cmd.held = {"sessions"} /\ t = "quizzes" /\ pc = "locked"
  BY <1>1, <1>3, OrderIs DEF Reset!Wanted
<1>5. \A r \in Requests : t \notin app[r].held
  BY <1>1 DEF Reset!InUse
<1> HIDE DEF t, pc
<1> DEFINE held == cmd.held \cup {t}
<1>6. /\ held \in SUBSET Reset!Game /\ pc \in {"lock", "locked"}
      /\ pc = "lock" => held \in {{}, {"sessions"}}
      /\ pc = "locked" => held = Reset!Game
  BY <1>4 DEF Reset!Game
<1>7. \A r \in Requests : app[r].held \cap held = {}
  BY <1>5 DEF ResetInv, LocksInv
<1>8. cmd' = [cmd EXCEPT !.held = held, !.pc = pc]
  BY <1>1
<1> HIDE DEF held
<1>9. cmd' \in Commands
  BY <1>2, <1>6, <1>8 DEF Commands, Reset!CommandPcs
<1>10. /\ cmd'.pc = pc /\ cmd'.held = held /\ cmd'.before = cmd.before
       /\ cmd'.outcome = cmd.outcome /\ cmd'.deleted = cmd.deleted /\ cmd'.after = cmd.after
  BY <1>2, <1>8 DEF Commands
<1>11. ResetTypes'
  BY <1>1, <1>9 DEF ResetInv, ResetTypes
<1>12. PathInv'
  BY <1>1 DEF ResetInv, PathInv
<1>13. LocksInv'
  BY <1>1, <1>6, <1>7, <1>10 DEF LocksInv
<1>14. CountsInv'
  BY <1>1, <1>6, <1>10 DEF ResetInv, CountsInv
<1>15. QuietInv'
  BY <1>1, <1>6, <1>10 DEF ResetInv, QuietInv
<1> QED BY <1>11, <1>12, <1>13, <1>14, <1>15 DEF ResetInv

\* It is in use for too long.
LEMMA LockTimeoutKeeps == ResetInv /\ Reset!LockTimeout => ResetInv'
<1> SUFFICES ASSUME ResetInv, Reset!LockTimeout PROVE ResetInv'
  OBVIOUS
<1>1. Reset!InUse(Reset!Wanted) /\ Reset!Ended("error") /\ UNCHANGED <<rows, app, writes>>
  BY DEF Reset!LockTimeout
<1>2. writes # 0
  BY <1>1 DEF ResetInv, QuietInv, Reset!InUse
<1> QED BY <1>1, <1>2, EndKeeps

\* Numbers of rows of all tables are the same when they are the same for each table.
LEMMA SameCounts ==
  ASSUME NEW c \in Reset!Counts, DOMAIN c = Reset!Tables,
         NEW d, d \in [Reset!Tables -> 0 .. MaxRows],
         \A t \in Reset!Tables : c[t] = d[t]
  PROVE  d = c
BY CountsAre

\* What was counted before the locks is still there, and is deleted.
LEMMA DeleteKeeps == ResetInv /\ Reset!Delete => ResetInv'
<1> SUFFICES ASSUME ResetInv, Reset!Delete PROVE ResetInv'
  OBVIOUS
<1>1. cmd.pc = "locked" /\ UNCHANGED <<rows, app, writes>>
  BY DEF Reset!Delete
<1>2. /\ ResetTypes /\ cmd \in Commands /\ cmd.before \in Reset!Counts
      /\ rows \in [Reset!Tables -> 0 .. MaxRows]
  BY CommandIs DEF ResetInv, ResetTypes
<1>3. CASE rows = cmd.before
  <2> DEFINE gone == [t \in Reset!Game |-> rows[t]]
  <2>1. cmd' = [cmd EXCEPT !.pc = "deleted", !.deleted = gone]
    BY <1>3 DEF Reset!Delete
  <2>2. gone \in Reset!Counts
    <3>1. Reset!Game \in SUBSET Reset!Tables
      BY DEF Reset!Tables
    <3>2. gone \in [Reset!Game -> 0 .. MaxRows]
      BY <1>2, <3>1
    <3> QED BY <3>1, <3>2, CountsAre
  <2>3. \A t \in Reset!Game : gone[t] = rows[t] /\ rows[t] = cmd.before[t]
    BY <1>3
  <2> HIDE DEF gone
  <2>4. cmd' \in Commands
    BY <1>2, <2>1, <2>2 DEF Commands, Reset!CommandPcs
  <2>5. /\ cmd'.pc = "deleted" /\ cmd'.deleted = gone /\ cmd'.held = cmd.held
        /\ cmd'.before = cmd.before /\ cmd'.outcome = cmd.outcome /\ cmd'.after = cmd.after
    BY <1>2, <2>1 DEF Commands
  <2>6. ResetTypes'
    BY <1>1, <2>4 DEF ResetInv, ResetTypes
  <2>7. PathInv'
    BY <1>1 DEF ResetInv, PathInv
  <2>8. LocksInv'
    BY <1>1, <2>5 DEF ResetInv, LocksInv
  <2>9. CountsInv'
    BY <1>1, <2>3, <2>5 DEF ResetInv, CountsInv
  <2>10. QuietInv'
    BY <1>1, <2>5 DEF ResetInv, QuietInv
  <2> QED BY <2>6, <2>7, <2>8, <2>9, <2>10 DEF ResetInv
<1>4. CASE rows # cmd.before
  <2>1. Reset!Ended("error")
    BY <1>4 DEF Reset!Delete
  <2>2. writes # 0
    <3>1. SUFFICES ASSUME writes = 0 PROVE FALSE
      OBVIOUS
    <3>2. /\ DOMAIN cmd.before = Reset!Tables
          /\ \A t \in DOMAIN cmd.before : cmd.before[t] = rows[t]
      BY <1>1, <3>1 DEF ResetInv, CountsInv, QuietInv
    <3> QED BY <1>2, <1>4, <3>2, SameCounts
  <2> QED BY <1>1, <2>1, <2>2, EndKeeps
<1> QED BY <1>3, <1>4

\* The transaction ends: the deletion is committed, or taken back.
LEMMA EndTransactionKeeps == ResetInv /\ Reset!EndTransaction => ResetInv'
<1> SUFFICES ASSUME ResetInv, Reset!EndTransaction PROVE ResetInv'
  OBVIOUS
<1>1. cmd.pc = "deleted" /\ UNCHANGED <<app, writes>>
  BY DEF Reset!EndTransaction
<1>2. /\ ResetTypes /\ cmd \in Commands /\ cmd.before \in Reset!Counts
      /\ rows \in [Reset!Tables -> 0 .. MaxRows] /\ cmd.mode \in {"rollback_test", "apply"}
  BY CommandIs DEF ResetInv, ResetTypes
<1>3. /\ DOMAIN cmd.before = Reset!Tables /\ cmd.outcome = "none"
      /\ \A t \in Reset!Game : cmd.deleted[t] = cmd.before[t]
  BY <1>1 DEF ResetInv, CountsInv
<1>4. "accounts" \in Reset!Tables /\ "accounts" \notin Reset!Game
  BY DEF Reset!Tables, Reset!Game
<1>5. writes = 0 => /\ \A r \in Requests : app[r].kind = "none" /\ app[r].held = {}
                    /\ \A t \in Reset!Tables : cmd.before[t] = rows[t]
  BY <1>1, <1>3 DEF ResetInv, QuietInv
<1>6. CASE rows["accounts"] # cmd.before["accounts"]
  <2>1. Reset!Ended("error") /\ UNCHANGED rows
    BY <1>6 DEF Reset!EndTransaction
  <2>2. writes # 0
    BY <1>4, <1>5, <1>6
  <2> QED BY <1>1, <2>1, <2>2, EndKeeps
<1>7. CASE rows["accounts"] = cmd.before["accounts"]
  <2>1. /\ cmd' = [cmd EXCEPT !.pc = "after", !.held = {}]
        /\ rows' = IF cmd.mode = "rollback_test" THEN rows ELSE Reset!Emptied
    BY <1>7 DEF Reset!EndTransaction
  <2>2. Reset!Emptied \in [Reset!Tables -> 0 .. MaxRows]
    BY <1>2, TablesAssumption DEF Reset!Emptied
  <2>3. /\ \A t \in Reset!Game : Reset!Emptied[t] = 0
        /\ Reset!Emptied["accounts"] = rows["accounts"]
    BY <1>4 DEF Reset!Emptied, Reset!Tables
  <2>4. cmd' \in Commands
    BY <1>2, <2>1 DEF Commands, Reset!CommandPcs
  <2>5. /\ cmd'.pc = "after" /\ cmd'.held = {} /\ cmd'.before = cmd.before
        /\ cmd'.deleted = cmd.deleted /\ cmd'.outcome = cmd.outcome /\ cmd'.mode = cmd.mode
        /\ cmd'.after = cmd.after
    BY <1>2, <2>1 DEF Commands
  <2>6. ResetTypes'
    BY <1>1, <1>2, <2>1, <2>2, <2>4 DEF ResetTypes
  <2>7. PathInv'
    BY <1>1 DEF ResetInv, PathInv
  <2>8. LocksInv'
    BY <1>1, <2>5 DEF LocksInv
  <2>9. CountsInv'
    BY <1>3, <2>5 DEF CountsInv
  <2>10. QuietInv'
    <3>1. SUFFICES ASSUME writes = 0 PROVE QuietInv'
      BY <1>1 DEF QuietInv
    <3>2. \A t \in DOMAIN cmd.after : FALSE
      BY <1>1 DEF ResetInv, CountsInv, Reset!NoCounts
    <3> QED BY <1>1, <1>2, <1>5, <1>7, <2>1, <2>3, <2>5, <3>1, <3>2 DEF QuietInv
  <2> QED BY <2>6, <2>7, <2>8, <2>9, <2>10 DEF ResetInv
<1> QED BY <1>6, <1>7

\* The command says what it has come to.
LEMMA JudgeKeeps == ResetInv /\ Reset!Judge => ResetInv'
<1> SUFFICES ASSUME ResetInv, Reset!Judge PROVE ResetInv'
  OBVIOUS
<1> DEFINE good == IF cmd.mode = "rollback_test" THEN cmd.after = cmd.before
                   ELSE /\ \A t \in Reset!Game : cmd.after[t] = 0
                        /\ cmd.after["accounts"] = cmd.before["accounts"]
           o == IF ~ good THEN "late error"
                ELSE IF cmd.mode = "apply" THEN "committed" ELSE "rolled_back"
<1>1. cmd.pc = "judge" /\ Reset!Ended(o) /\ UNCHANGED <<rows, app, writes>>
  BY DEF Reset!Judge
<1>2. /\ cmd.before \in Reset!Counts /\ cmd.after \in Reset!Counts
      /\ rows \in [Reset!Tables -> 0 .. MaxRows] /\ cmd.mode \in {"rollback_test", "apply"}
  BY CommandIs DEF ResetInv
<1>3. /\ DOMAIN cmd.before = Reset!Tables /\ DOMAIN cmd.after = Reset!Tables
      /\ \A t \in Reset!Game : cmd.deleted[t] = cmd.before[t]
  BY <1>1 DEF ResetInv, CountsInv
<1>4. writes = 0 => good
  <2>1. SUFFICES ASSUME writes = 0 PROVE good
    OBVIOUS
  <2>2. /\ \A t \in Reset!Tables : cmd.after[t] = rows[t]
        /\ cmd.mode = "rollback_test" => \A t \in Reset!Tables : rows[t] = cmd.before[t]
        /\ cmd.mode = "apply" => /\ \A t \in Reset!Game : rows[t] = 0
                                 /\ rows["accounts"] = cmd.before["accounts"]
    BY <1>1, <1>3, <2>1 DEF ResetInv, QuietInv
  <2>3. CASE cmd.mode = "rollback_test"
    <3>1. rows = cmd.after /\ rows = cmd.before
      BY <1>2, <1>3, <2>2, <2>3, SameCounts
    <3> QED BY <2>3, <3>1
  <2>4. CASE cmd.mode = "apply"
    <3>1. Reset!Game \subseteq Reset!Tables /\ "accounts" \in Reset!Tables
      BY DEF Reset!Tables
    <3> QED BY <2>2, <2>4, <3>1
  <2> QED BY <1>2, <2>3, <2>4
<1> HIDE DEF good
<1>5. /\ o \in {"error", "late error", "committed", "rolled_back", "dead"}
      /\ writes = 0 => o \in {"committed", "rolled_back", "dead"}
  BY <1>4
<1> HIDE DEF o
<1> QED BY <1>1, <1>3, <1>5, EndKeeps

\* The process dies.
LEMMA DiesKeeps == ResetInv /\ Reset!Dies => ResetInv'
BY EndKeeps DEF Reset!Dies

\* What a transaction must be so that it can go on.
OnItsWay(a) ==
  /\ a.kind = "none" => a.left = << >>
  /\ a.kind # "none" =>
       Changed(a.kind) \in a.held \/ \E i \in 1 .. Len(a.left) : a.left[i] = Changed(a.kind)

\* A transaction of the application goes on.
LEMMA ApplicationMoves ==
  ASSUME ResetInv, NEW r \in Requests, NEW a \in Transactions, app' = [app EXCEPT ![r] = a],
         UNCHANGED cmd, writes' \in 0 .. Writes, writes' # 0,
         rows' \in [Reset!Tables -> 0 .. MaxRows],
         cmd.pc = "deleted" => \A t \in Reset!Game : rows'[t] = rows[t],
         a.held \cap cmd.held = {}, OnItsWay(a)
  PROVE  ResetInv'
<1>1. app \in [Requests -> Transactions] /\ app' \in [Requests -> Transactions]
  BY DEF ResetInv, ResetTypes
<1>2. \A q \in Requests : app'[q] = IF q = r THEN a ELSE app[q]
  BY <1>1
<1>3. ResetTypes'
  BY <1>1 DEF ResetInv, ResetTypes
<1>4. PathInv'
  BY <1>2 DEF ResetInv, PathInv, OnItsWay
<1>5. LocksInv'
  BY <1>2 DEF ResetInv, LocksInv
<1>6. CountsInv'
  BY DEF ResetInv, CountsInv
<1>7. QuietInv'
  BY DEF QuietInv
<1> QED BY <1>3, <1>4, <1>5, <1>6, <1>7 DEF ResetInv

\* Who is at something has written.
LEMMA SomebodyWrites ==
  ASSUME ResetInv, NEW r \in Requests, app[r].left # << >> \/ app[r].kind # "none"
  PROVE  app[r].kind # "none" /\ writes # 0 /\ writes \in 0 .. Writes
BY DEF ResetInv, ResetTypes, PathInv, QuietInv

\* What the application changes is on the path of each of its transactions.
LEMMA PathIs ==
  ASSUME NEW k \in Reset!Kinds
  PROVE  /\ Reset!Path(k) \in Seq(Reset!Tables)
         /\ \E i \in 1 .. Len(Reset!Path(k)) : Reset!Path(k)[i] = Changed(k)
<1>1. CASE k = "open_session"
  <2>1. Reset!Path(k) = <<"quizzes", "sessions">> /\ Changed(k) = "sessions"
    BY <1>1 DEF Reset!Path, Changed
  <2>2. <<"quizzes", "sessions">> \in Seq(Reset!Tables)
    BY DEF Reset!Tables, Reset!Game
  <2>3. Len(<<"quizzes", "sessions">>) = 2 /\ <<"quizzes", "sessions">>[2] = "sessions"
    OBVIOUS
  <2> QED BY <2>1, <2>2, <2>3
<1>2. CASE k = "login"
  <2>1. Reset!Path(k) = <<"accounts">> /\ Changed(k) = "accounts"
    BY <1>2 DEF Reset!Path, Changed
  <2>2. <<"accounts">> \in Seq(Reset!Tables)
    BY DEF Reset!Tables
  <2>3. Len(<<"accounts">>) = 1 /\ <<"accounts">>[1] = "accounts"
    OBVIOUS
  <2> QED BY <2>1, <2>2, <2>3
<1>3. CASE k \notin {"open_session", "login"}
  <2>1. Reset!Path(k) = <<"quizzes">> /\ Changed(k) = "quizzes"
    BY <1>3 DEF Reset!Path, Changed
  <2>2. <<"quizzes">> \in Seq(Reset!Tables)
    BY DEF Reset!Tables, Reset!Game
  <2>3. Len(<<"quizzes">>) = 1 /\ <<"quizzes">>[1] = "quizzes"
    OBVIOUS
  <2> QED BY <2>1, <2>2, <2>3
<1> QED BY <1>1, <1>2, <1>3

\* A request begins.
LEMMA BeginKeeps == ASSUME ResetInv, NEW r \in Requests, Reset!Begin(r) PROVE ResetInv'
<1>1. PICK k \in Reset!Kinds :
        app' = [app EXCEPT ![r] = [kind |-> k, left |-> Reset!Path(k), held |-> {}]]
  BY DEF Reset!Begin
<1>2. writes' = writes + 1 /\ writes < Writes /\ UNCHANGED <<rows, cmd>>
  BY DEF Reset!Begin
<1> DEFINE a == [kind |-> k, left |-> Reset!Path(k), held |-> {}]
<1>3. a \in Transactions /\ a.held = {} /\ a.kind = k /\ a.left = Reset!Path(k)
  BY PathIs DEF Transactions
<1>4. k # "none"
  BY DEF Reset!Kinds
<1>5. app' = [app EXCEPT ![r] = a]
  BY <1>1
<1> HIDE DEF a
<1>6. OnItsWay(a)
  BY <1>3, <1>4, PathIs DEF OnItsWay
<1>7. /\ writes' \in 0 .. Writes /\ writes' # 0
      /\ rows' \in [Reset!Tables -> 0 .. MaxRows]
  BY <1>2, TablesAssumption DEF ResetInv, ResetTypes
<1> QED BY <1>2, <1>3, <1>5, <1>6, <1>7, ApplicationMoves

\* A request touches a table that is not locked.
LEMMA TouchKeeps == ASSUME ResetInv, NEW r \in Requests, Reset!Touch(r) PROVE ResetInv'
<1> DEFINE s == app[r].left
           a == [app[r] EXCEPT !.held = app[r].held \cup {Head(s)}, !.left = Tail(s)]
<1>1. s # << >> /\ Head(s) \notin cmd.held /\ UNCHANGED <<rows, cmd, writes>>
  BY DEF Reset!Touch
<1>2. app[r] \in Transactions /\ s \in Seq(Reset!Tables) /\ app[r].held \in SUBSET Reset!Tables
  BY DEF ResetInv, ResetTypes, Transactions
<1>3. app' = [app EXCEPT ![r] = a]
  BY DEF Reset!Touch
<1>4. /\ Head(s) \in Reset!Tables /\ Tail(s) \in Seq(Reset!Tables)
      /\ Head(s) = s[1] /\ Len(Tail(s)) = Len(s) - 1 /\ Len(s) \in Nat
      /\ \A i \in 1 .. Len(s) - 1 : Tail(s)[i] = s[i + 1]
  BY <1>1, <1>2
<1>5. /\ a \in Transactions /\ a.kind = app[r].kind
      /\ a.held = app[r].held \cup {Head(s)} /\ a.left = Tail(s)
  BY <1>2, <1>4 DEF Transactions
<1>6. app[r].kind # "none" /\ writes # 0 /\ writes \in 0 .. Writes
  BY <1>1, SomebodyWrites
<1> HIDE DEF a
<1>7. OnItsWay(a)
  <2>1. CASE Changed(app[r].kind) \in app[r].held
    BY <1>5, <1>6, <2>1 DEF OnItsWay
  <2>2. CASE \E i \in 1 .. Len(s) : s[i] = Changed(app[r].kind)
    <3>1. PICK i \in 1 .. Len(s) : s[i] = Changed(app[r].kind)
      BY <2>2
    <3>2. CASE i = 1
      BY <1>4, <1>5, <1>6, <3>1, <3>2 DEF OnItsWay
    <3>3. CASE i # 1
      <4>1. i - 1 \in 1 .. Len(Tail(s)) /\ Tail(s)[i - 1] = Changed(app[r].kind)
        BY <1>4, <3>1, <3>3
      <4> QED BY <1>5, <1>6, <4>1 DEF OnItsWay
    <3> QED BY <3>2, <3>3
  <2> QED BY <1>6, <2>1, <2>2 DEF ResetInv, PathInv
<1>8. a.held \cap cmd.held = {}
  BY <1>1, <1>5 DEF ResetInv, LocksInv
<1>9. rows' \in [Reset!Tables -> 0 .. MaxRows]
  BY <1>1 DEF ResetInv, ResetTypes
<1> QED BY <1>1, <1>3, <1>5, <1>6, <1>7, <1>8, <1>9, ApplicationMoves

\* Nothing is left to do for who is idle.
LEMMA IdleIs ==
  /\ Reset!Idle \in Transactions /\ Reset!Idle.held = {} /\ OnItsWay(Reset!Idle)
  /\ Reset!Idle.kind = "none"
<1>1. /\ Reset!Idle.held = {} /\ Reset!Idle.kind = "none" /\ Reset!Idle.left = << >>
  BY DEF Reset!Idle
<1>2. << >> \in Seq(Reset!Tables)
  OBVIOUS
<1>3. Reset!Idle \in Transactions
  BY <1>2 DEF Reset!Idle, Transactions
<1> QED BY <1>1, <1>3 DEF OnItsWay

\* A transaction changes the rows of one table.
LEMMA AfterIs ==
  ASSUME ResetTypes, NEW k \in Reset!Kinds, Reset!Possible(k)
  PROVE  /\ Reset!After(k) \in [Reset!Tables -> 0 .. MaxRows]
         /\ \A t \in Reset!Tables : t # Changed(k) => Reset!After(k)[t] = rows[t]
<1>1. rows \in [Reset!Tables -> 0 .. MaxRows] /\ MaxRows \in Nat
  BY TablesAssumption DEF ResetTypes
<1>2. \A t \in Reset!Tables : Reset!After(k)[t] <= MaxRows
  BY DEF Reset!Possible
<1>3. \E c \in Reset!Tables, n \in Nat : c = Changed(k) /\ Reset!After(k) = [rows EXCEPT ![c] = n]
  <2>1. CASE k = "open_session"
    <3>1. Changed(k) = "sessions"
      BY <2>1 DEF Changed
    <3>2. Reset!After(k) = [rows EXCEPT !["sessions"] = rows["sessions"] + 1]
      BY <2>1 DEF Reset!After
    <3>3. "sessions" \in Reset!Tables
      BY DEF Reset!Tables, Reset!Game
    <3>4. rows["sessions"] \in Nat
      BY <1>1, <3>3
    <3>5. PICK n \in Nat : n = rows["sessions"] + 1
      BY <3>4
    <3>6. Reset!After(k) = [rows EXCEPT !["sessions"] = n]
      BY <3>2, <3>5
    <3> QED BY <3>1, <3>3, <3>6, Zenon
  <2>2. CASE k = "login"
    <3>1. Changed(k) = "accounts"
      BY <2>2 DEF Changed
    <3>2. Reset!After(k) = [rows EXCEPT !["accounts"] = rows["accounts"] + 1]
      BY <2>2 DEF Reset!After
    <3>3. "accounts" \in Reset!Tables
      BY DEF Reset!Tables, Reset!Game
    <3>4. rows["accounts"] \in Nat
      BY <1>1, <3>3
    <3>5. PICK n \in Nat : n = rows["accounts"] + 1
      BY <3>4
    <3>6. Reset!After(k) = [rows EXCEPT !["accounts"] = n]
      BY <3>2, <3>5
    <3> QED BY <3>1, <3>3, <3>6, Zenon
  <2>3. CASE k = "create_quiz"
    <3>1. Changed(k) = "quizzes"
      BY <2>3 DEF Changed
    <3>2. Reset!After(k) = [rows EXCEPT !["quizzes"] = rows["quizzes"] + 1]
      BY <2>3 DEF Reset!After
    <3>3. "quizzes" \in Reset!Tables
      BY DEF Reset!Tables, Reset!Game
    <3>4. rows["quizzes"] \in Nat
      BY <1>1, <3>3
    <3>5. PICK n \in Nat : n = rows["quizzes"] + 1
      BY <3>4
    <3>6. Reset!After(k) = [rows EXCEPT !["quizzes"] = n]
      BY <3>2, <3>5
    <3> QED BY <3>1, <3>3, <3>6, Zenon
  <2>4. CASE k = "delete_quiz"
    <3>1. Changed(k) = "quizzes"
      BY <2>4 DEF Changed
    <3>2. Reset!After(k) = [rows EXCEPT !["quizzes"] = rows["quizzes"] - 1]
      BY <2>4 DEF Reset!After
    <3>3. "quizzes" \in Reset!Tables
      BY DEF Reset!Tables, Reset!Game
    <3>4. rows["quizzes"] \in Nat
      BY <1>1, <3>3
    <3>5. rows["quizzes"] > 0
      BY <2>4 DEF Reset!Possible
    <3>6. PICK n \in Nat : n = rows["quizzes"] - 1
      BY <3>4, <3>5
    <3>7. Reset!After(k) = [rows EXCEPT !["quizzes"] = n]
      BY <3>2, <3>6
    <3> QED BY <3>1, <3>3, <3>7, Zenon
  <2> QED BY <2>1, <2>2, <2>3, <2>4 DEF Reset!Kinds
<1>4. PICK c \in Reset!Tables, n \in Nat : c = Changed(k) /\ Reset!After(k) = [rows EXCEPT ![c] = n]
  BY <1>3
<1>5. n \in 0 .. MaxRows
  <2>1. Reset!After(k)[c] = n
    BY <1>1, <1>4
  <2> QED BY <1>1, <1>2, <2>1
<1> QED BY <1>1, <1>4, <1>5

\* The transaction of a request ends; it has touched what it changes, so the command
\* has not locked it.
LEMMA FinishKeeps == ASSUME ResetInv, NEW r \in Requests, Reset!Finish(r) PROVE ResetInv'
<1> DEFINE k == app[r].kind
<1>1. /\ k # "none" /\ app[r].left = << >> /\ UNCHANGED <<cmd, writes>>
      /\ rows' = IF Reset!Possible(k) THEN Reset!After(k) ELSE rows
      /\ app' = [app EXCEPT ![r] = Reset!Idle]
  BY DEF Reset!Finish
<1>2. /\ ResetTypes /\ rows \in [Reset!Tables -> 0 .. MaxRows]
      /\ k \in Reset!Kinds
  BY <1>1 DEF ResetInv, ResetTypes, Transactions
<1>3. Changed(k) \in app[r].held
  <2>1. \A i \in 1 .. Len(app[r].left) : FALSE
    BY <1>1
  <2> QED BY <1>1, <2>1 DEF ResetInv, PathInv
<1>4. Changed(k) \notin cmd.held
  BY <1>3 DEF ResetInv, LocksInv
<1>5. /\ rows' \in [Reset!Tables -> 0 .. MaxRows]
      /\ cmd.pc = "deleted" => \A t \in Reset!Game : rows'[t] = rows[t]
  <2>1. CASE Reset!Possible(k)
    <3>1. /\ rows' \in [Reset!Tables -> 0 .. MaxRows]
          /\ \A t \in Reset!Tables : t # Changed(k) => rows'[t] = rows[t]
      BY <1>1, <1>2, <2>1, AfterIs
    <3>2. cmd.pc = "deleted" => \A t \in Reset!Game : t # Changed(k)
      BY <1>4 DEF ResetInv, LocksInv
    <3> QED BY <3>1, <3>2 DEF Reset!Tables
  <2>2. CASE ~ Reset!Possible(k)
    BY <1>1, <1>2, <2>2
  <2> QED BY <2>1, <2>2
<1>6. writes # 0 /\ writes \in 0 .. Writes
  BY <1>1, SomebodyWrites
<1> QED BY <1>1, <1>5, <1>6, IdleIs, ApplicationMoves

\* PostgreSQL ends the transaction of a request.
LEMMA VictimKeeps == ASSUME ResetInv, NEW r \in Requests, Reset!Victim(r) PROVE ResetInv'
<1>1. /\ app[r].left # << >> /\ UNCHANGED <<rows, cmd, writes>>
      /\ app' = [app EXCEPT ![r] = Reset!Idle]
  BY DEF Reset!Victim
<1>2. writes # 0 /\ writes \in 0 .. Writes
  BY <1>1, SomebodyWrites
<1>3. rows' \in [Reset!Tables -> 0 .. MaxRows]
  BY <1>1 DEF ResetInv, ResetTypes
<1> QED BY <1>1, <1>2, <1>3, IdleIs, ApplicationMoves

\* Every step keeps the invariant.
LEMMA ResetSteps == ResetInv /\ [Reset!Next]_reset => ResetInv'
<1> SUFFICES ASSUME ResetInv, [Reset!Next]_reset PROVE ResetInv'
  OBVIOUS
<1>1. CASE Reset!Work
  <2>1. CASE Reset!CountBefore
    BY <2>1, CountBeforeKeeps
  <2>2. CASE Reset!LockNext
    BY <2>2, LockNextKeeps
  <2>3. CASE Reset!LockTimeout
    BY <2>3, LockTimeoutKeeps
  <2>4. CASE Reset!Delete
    BY <2>4, DeleteKeeps
  <2>5. CASE Reset!EndTransaction
    BY <2>5, EndTransactionKeeps
  <2>6. CASE Reset!CountAfter
    BY <2>6, CountAfterKeeps
  <2>7. CASE Reset!Judge
    BY <2>7, JudgeKeeps
  <2> QED BY <1>1, <2>1, <2>2, <2>3, <2>4, <2>5, <2>6, <2>7 DEF Reset!Work
<1>2. CASE Reset!Dies
  BY <1>2, DiesKeeps
<1>3. CASE Reset!Application
  <2>1. PICK r \in Requests :
          Reset!Begin(r) \/ Reset!Touch(r) \/ Reset!Finish(r) \/ Reset!Victim(r)
    BY <1>3 DEF Reset!Application
  <2> QED BY <2>1, BeginKeeps, TouchKeeps, FinishKeeps, VictimKeeps
<1>4. CASE UNCHANGED reset
  BY <1>4 DEF reset, ResetInv, ResetTypes, PathInv, LocksInv, CountsInv, QuietInv
<1> QED BY <1>1, <1>2, <1>3, <1>4 DEF Reset!Next

\* At first nothing is counted and nobody is at anything.
LEMMA ResetBegins == Reset!Init => ResetInv
<1> SUFFICES ASSUME Reset!Init PROVE ResetInv
  OBVIOUS
<1>1. PICK mode \in {"rollback_test", "apply"} : cmd = Reset!NewCommand(mode)
  BY DEF Reset!Init
<1>2. Reset!NoCounts \in Reset!Counts /\ DOMAIN Reset!NoCounts = {}
  <2>1. {} \in SUBSET Reset!Tables /\ Reset!NoCounts \in [{} -> 0 .. MaxRows]
    BY DEF Reset!NoCounts
  <2> QED BY <2>1, CountsAre DEF Reset!NoCounts
<1>3. /\ cmd \in Commands /\ cmd.pc = "before" /\ cmd.held = {} /\ cmd.before = Reset!NoCounts
      /\ cmd.after = Reset!NoCounts /\ cmd.outcome = "none"
  BY <1>1, <1>2 DEF Reset!NewCommand, Commands, Reset!CommandPcs
<1>4. \A r \in Requests : app[r] = Reset!Idle
  BY DEF Reset!Init
<1>5. ResetTypes
  <2>1. rows \in [Reset!Tables -> 0 .. MaxRows]
    BY TablesAssumption DEF Reset!Init
  <2>2. app \in [Requests -> Transactions]
    BY IdleIs DEF Reset!Init
  <2>3. writes \in 0 .. Writes
    BY TablesAssumption DEF Reset!Init
  <2> QED BY <1>3, <2>1, <2>2, <2>3 DEF ResetTypes
<1>6. PathInv
  BY <1>4 DEF PathInv, Reset!Idle
<1>7. LocksInv
  BY <1>3, <1>4 DEF LocksInv, Reset!Idle
<1>8. CountsInv
  BY <1>3 DEF CountsInv
<1>9. QuietInv
  <2>1. \A r \in Requests : app[r].kind = "none" /\ app[r].held = {}
    BY <1>4, IdleIs
  <2> QED BY <1>2, <1>3, <2>1 DEF QuietInv
<1> QED BY <1>5, <1>6, <1>7, <1>8, <1>9 DEF ResetInv

\* The command deletes what it counted, though the application goes on.
LEMMA StepsDeleteAsCounted ==
  ResetInv /\ [Reset!Next]_reset =>
    [cmd' # cmd => \A t \in Reset!Game : rows'[t] # rows[t] => rows[t] = cmd.before[t]]_reset
<1> SUFFICES ASSUME ResetInv, Reset!Next, cmd' # cmd, NEW t \in Reset!Game, rows'[t] # rows[t]
             PROVE  rows[t] = cmd.before[t]
  BY DEF reset
<1>1. Reset!EndTransaction
  BY DEF Reset!Next, Reset!Work, Reset!Application, Reset!CountBefore, Reset!LockNext,
         Reset!LockTimeout, Reset!Delete, Reset!CountAfter, Reset!Judge, Reset!Dies,
         Reset!Begin, Reset!Touch, Reset!Finish, Reset!Victim
<1> QED BY <1>1 DEF ResetInv, CountsInv, Reset!EndTransaction

\* A test takes nothing away.
LEMMA StepsTakeNothing ==
  ResetInv /\ [Reset!Next]_reset =>
    [cmd.mode = "rollback_test" /\ cmd' # cmd => rows' = rows]_reset
BY DEF reset, Reset!Next, Reset!Work, Reset!Application, Reset!CountBefore, Reset!LockNext,
       Reset!LockTimeout, Reset!Delete, Reset!CountAfter, Reset!Judge, Reset!Dies,
       Reset!EndTransaction, Reset!Begin, Reset!Touch, Reset!Finish, Reset!Victim

\* What is seen of the command.
LEMMA ResetShows == ResetInv => Reset!TypeOK /\ Reset!QuietRunSucceeds
<1> SUFFICES ASSUME ResetInv PROVE Reset!TypeOK /\ Reset!QuietRunSucceeds
  OBVIOUS
<1>1. Reset!TypeOK
  <2>1. \A r \in Requests :
          app[r].kind \in Reset!Kinds \cup {"none"} /\ app[r].held \subseteq Reset!Tables
    BY DEF ResetInv, ResetTypes, Transactions
  <2> QED BY <2>1, CommandIs DEF ResetInv, ResetTypes, Reset!TypeOK
<1>2. Reset!QuietRunSucceeds
  BY DEF ResetInv, QuietInv, CountsInv, Reset!QuietRunSucceeds
<1> QED BY <1>1, <1>2

\* The command deletes exactly the rows that it counted before it asked for the locks,
\* whatever the application commits until then; a rehearsal keeps every row; and unless
\* the application has written, it does not fail (stage_v_game_data.py 58-111).
THEOREM ResetStaysHonest == Reset!Spec => ResetIsHonest
<1> USE DEF reset
<1>1. Reset!Spec => []ResetInv
  BY ResetBegins, ResetSteps, PTL DEF Reset!Spec, Reset!vars
<1>2. Reset!Spec => [](Reset!TypeOK /\ Reset!QuietRunSucceeds)
  BY <1>1, ResetShows, PTL
<1>3. Reset!Spec => Reset!DeletedAsCounted
  BY <1>1, StepsDeleteAsCounted, PTL DEF Reset!Spec, Reset!vars, Reset!DeletedAsCounted
<1>4. Reset!Spec => Reset!TestKeepsRows
  BY <1>1, StepsTakeNothing, PTL DEF Reset!Spec, Reset!vars, Reset!TestKeepsRows
<1> QED BY <1>2, <1>3, <1>4 DEF ResetIsHonest
-----------------------------------------------------------------------------
(* The migrations.                                                          *)

\* Who has begun one is at one of the four.
ChainInv == \A p \in Processes : proc[p].pc \in {"checked", "waiting"} => proc[p].next \in 1 .. 4

\* Nobody creates a quiz of the old schema between the check of the switch and the
\* switch, once the first migration is applied.
SwitchInv ==
  \A p \in Processes :
    Migrations!Reads(p) /\ proc[p].up /\ proc[p].next = 3 /\ applied # 0 => data["old"] = 0

MigrationsInv ==
  Migrations!TypeOK /\ Migrations!QuizzesFitTheSchema /\ ChainInv /\ SwitchInv

States == [pc : {"stopped", "plan", "checked", "waiting", "done"}, up : BOOLEAN, next : 0 .. 5]

\* A process goes on, and the data and the schema stay.
LEMMA ProcessMoves ==
  ASSUME MigrationsInv, NEW p \in Processes, NEW s \in States,
         proc' = [proc EXCEPT ![p] = s], UNCHANGED <<applied, data>>,
         reversals' \in 0 .. Reversals,
         s.pc \in {"checked", "waiting"} => s.next \in 1 .. 4,
         s.pc \in {"checked", "waiting"} /\ s.up /\ s.next = 3 /\ applied # 0 => data["old"] = 0
  PROVE  MigrationsInv'
<1>1. proc \in [Processes -> States] /\ proc' \in [Processes -> States]
  BY DEF MigrationsInv, Migrations!TypeOK, States
<1>2. \A q \in Processes : proc'[q] = IF q = p THEN s ELSE proc[q]
  BY <1>1
<1>3. Migrations!TypeOK'
  BY <1>1 DEF MigrationsInv, Migrations!TypeOK, States
<1>4. Migrations!QuizzesFitTheSchema'
  BY DEF MigrationsInv, Migrations!QuizzesFitTheSchema
<1>5. ChainInv'
  BY <1>2 DEF MigrationsInv, ChainInv
<1>6. SwitchInv'
  BY <1>2 DEF MigrationsInv, SwitchInv, Migrations!Reads
<1> QED BY <1>3, <1>4, <1>5, <1>6 DEF MigrationsInv

\* Rows are created under the schema that is in force.
LEMMA CreateKeeps == MigrationsInv /\ Migrations!Create => MigrationsInv'
<1> SUFFICES ASSUME MigrationsInv, Migrations!Create PROVE MigrationsInv'
  OBVIOUS
<1>1. PICK k \in Migrations!Kinds :
        /\ Migrations!CanCreate(k) /\ data[k] < MaxRows
        /\ data' = [data EXCEPT ![k] = data[k] + 1]
  BY DEF Migrations!Create
<1>2. UNCHANGED <<applied, proc, reversals>>
  BY DEF Migrations!Create
<1>3. /\ data \in [Migrations!Kinds -> 0 .. MaxRows] /\ MaxRows \in Nat /\ applied \in 0 .. 4
      /\ Migrations!QuizzesFitTheSchema
  BY TablesAssumption DEF MigrationsInv, Migrations!TypeOK
<1>4. data' \in [Migrations!Kinds -> 0 .. MaxRows]
  BY <1>1, <1>3
<1>5. Migrations!TypeOK'
  BY <1>2, <1>4 DEF MigrationsInv, Migrations!TypeOK
<1>6. /\ k = "old" => applied = 0
      /\ k = "new" => applied >= 3
      /\ k = "session" => applied = 4
  BY <1>1 DEF Migrations!CanCreate
<1>7. \A j \in Migrations!Kinds : j # k => data'[j] = data[j]
  BY <1>1, <1>3
<1>8. Migrations!QuizzesFitTheSchema'
  BY <1>2, <1>3, <1>6, <1>7 DEF Migrations!QuizzesFitTheSchema, Migrations!Kinds
<1>9. ChainInv'
  BY <1>2 DEF MigrationsInv, ChainInv
<1>10. SwitchInv'
  BY <1>2, <1>3, <1>6, <1>7 DEF MigrationsInv, SwitchInv, Migrations!Reads, Migrations!Kinds
<1> QED BY <1>5, <1>8, <1>9, <1>10 DEF MigrationsInv

\* A migration that does not fail drops only what is empty.
LEMMA AlterKeeps ==
  ASSUME MigrationsInv, NEW p \in Processes, Migrations!Alter(p)
  PROVE  MigrationsInv' /\ data' = data
<1> DEFINE s == proc[p]
<1>1. /\ s \in States /\ s.pc = "waiting" /\ s.next \in 1 .. 4
      /\ \A q \in Processes \ {p} : ~ Migrations!Reads(q)
      /\ UNCHANGED reversals
  BY DEF Migrations!Alter, MigrationsInv, Migrations!TypeOK, ChainInv, States
<1>2. /\ data \in [Migrations!Kinds -> 0 .. MaxRows] /\ applied \in 0 .. 4
      /\ Migrations!QuizzesFitTheSchema /\ reversals \in 0 .. Reversals
      /\ proc \in [Processes -> States]
  BY DEF MigrationsInv, Migrations!TypeOK, States
<1>3. CASE Migrations!Fails(s)
  <2>1. proc' = [proc EXCEPT ![p] = Migrations!Stopped] /\ UNCHANGED <<applied, data>>
    BY <1>3 DEF Migrations!Alter, Migrations!Is
  <2>2. Migrations!Stopped \in States /\ Migrations!Stopped.pc = "stopped"
    BY DEF Migrations!Stopped, States
  <2> QED BY <1>1, <1>2, <2>1, <2>2, ProcessMoves
<1>4. CASE ~ Migrations!Fails(s)
  <2>1. /\ applied' = IF s.up THEN s.next ELSE s.next - 1
        /\ data' = [k \in Migrations!Kinds |-> IF k \in Migrations!Dropped(s) THEN 0 ELSE data[k]]
        /\ proc' = [proc EXCEPT ![p] = [s EXCEPT !.pc = "plan",
                                                 !.next = IF s.up THEN s.next + 1 ELSE s.next - 1]]
    BY <1>4 DEF Migrations!Alter, Migrations!Is
  <2>2. /\ applied = IF s.up THEN s.next - 1 ELSE s.next
        /\ ~ s.up /\ s.next = 4 => ~ data["session"] > 0
        /\ ~ s.up /\ s.next = 3 => ~ data["old"] + data["new"] > 0
    BY <1>4 DEF Migrations!Fails
  <2>3. \A k \in Migrations!Kinds : data[k] \in Nat
    BY <1>2, TablesAssumption
  <2>4. \A k \in Migrations!Dropped(s) : k \in Migrations!Kinds /\ data[k] = 0
    <3>1. CASE s.up /\ s.next = 3
      <4>1. Migrations!Checks(s)
        BY <3>1 DEF Migrations!Checks
      <4>2. Migrations!Reads(p) /\ applied # 0
        BY <1>1, <2>2, <3>1, <4>1 DEF Migrations!Reads
      <4>3. data["old"] = 0
        BY <3>1, <4>2 DEF MigrationsInv, SwitchInv
      <4> QED BY <3>1, <4>3 DEF Migrations!Dropped, Migrations!Kinds
    <3>2. CASE ~ s.up /\ s.next = 2
      BY <1>2, <2>2, <3>2 DEF Migrations!Dropped, Migrations!Kinds, Migrations!QuizzesFitTheSchema
    <3>3. CASE ~ s.up /\ s.next = 1
      BY <1>2, <2>2, <3>3 DEF Migrations!Dropped, Migrations!Kinds, Migrations!QuizzesFitTheSchema
    <3>4. CASE ~ (s.up /\ s.next = 3) /\ ~ (~ s.up /\ s.next \in {1, 2})
      <4>1. Migrations!Dropped(s) = {}
        BY <3>4 DEF Migrations!Dropped
      <4> QED BY <4>1
    <3> QED BY <3>1, <3>2, <3>3, <3>4
  <2>5. data' = data
    <3>1. \A k \in Migrations!Kinds : data'[k] = data[k]
      BY <2>1, <2>4
    <3> HIDE DEF s
    <3> QED BY <1>2, <2>1, <3>1
  <2> DEFINE m == IF s.up THEN s.next + 1 ELSE s.next - 1
             n == [s EXCEPT !.pc = "plan", !.next = m]
  <2>6. m \in 0 .. 5
    BY <1>1
  <2>7. n \in States /\ n.pc = "plan" /\ proc' = [proc EXCEPT ![p] = n]
    <3>1. proc' = [proc EXCEPT ![p] = n]
      BY <2>1
    <3> HIDE DEF m
    <3>2. n \in States /\ n.pc = "plan"
      BY <1>1, <2>6 DEF States
    <3> QED BY <3>1, <3>2
  <2> HIDE DEF n
  <2>8. proc' \in [Processes -> States] /\ \A q \in Processes : proc'[q] = IF q = p THEN n ELSE proc[q]
    BY <1>2, <2>7
  <2>9. applied' \in 0 .. 4
    BY <1>1, <2>1
  <2>10. Migrations!TypeOK'
    BY <1>1, <1>2, <2>5, <2>8, <2>9 DEF Migrations!TypeOK, States
  <2>11. Migrations!QuizzesFitTheSchema'
    <3>1. data["old"] \in Nat /\ data["new"] \in Nat /\ data["session"] \in Nat
      BY <2>3 DEF Migrations!Kinds
    <3>2. s.up /\ s.next = 3 => data["old"] = 0
      BY <2>4 DEF Migrations!Dropped
    <3> HIDE DEF s
    <3> QED BY <1>1, <1>2, <2>1, <2>2, <2>5, <3>1, <3>2 DEF Migrations!QuizzesFitTheSchema
  <2>12. ChainInv'
    BY <2>7, <2>8 DEF MigrationsInv, ChainInv
  <2>13. SwitchInv'
    BY <1>1, <2>7, <2>8 DEF SwitchInv, Migrations!Reads
  <2> QED BY <2>5, <2>10, <2>11, <2>12, <2>13 DEF MigrationsInv
<1> QED BY <1>3, <1>4

\* Every step keeps the invariant and the data of the others.
LEMMA MigrationSteps ==
  MigrationsInv /\ [Migrations!Next]_(Migrations!vars) =>
    MigrationsInv' /\ (proc' # proc => data' = data)
<1> SUFFICES ASSUME MigrationsInv, [Migrations!Next]_(Migrations!vars)
             PROVE  MigrationsInv' /\ (proc' # proc => data' = data)
  OBVIOUS
<1>1. /\ proc \in [Processes -> States] /\ applied \in 0 .. 4 /\ reversals \in 0 .. Reversals
      /\ Reversals \in Nat
  BY TablesAssumption DEF MigrationsInv, Migrations!TypeOK, States
<1>2. Migrations!Stopped \in States /\ Migrations!Stopped.pc = "stopped"
  BY DEF Migrations!Stopped, States
<1>3. CASE Migrations!Create
  BY <1>3, CreateKeeps DEF Migrations!Create
<1>4. ASSUME NEW p \in Processes, Migrations!Step(p) PROVE MigrationsInv' /\ data' = data
  <2>1. CASE Migrations!Start(p)
    <3>1. PICK s \in States : s.pc = "plan" /\ proc' = [proc EXCEPT ![p] = s]
      <4>1. [pc |-> "plan", up |-> TRUE, next |-> applied + 1] \in States
        BY <1>1 DEF States
      <4>2. [pc |-> "plan", up |-> FALSE, next |-> applied] \in States
        BY <1>1 DEF States
      <4> QED BY <2>1, <4>1, <4>2 DEF Migrations!Start, Migrations!Is
    <3>2. UNCHANGED <<applied, data>> /\ reversals' \in 0 .. Reversals
      BY <1>1, <2>1 DEF Migrations!Start
    <3> QED BY <3>1, <3>2, ProcessMoves
  <2>2. CASE Migrations!Check(p)
    <3>1. /\ UNCHANGED <<applied, data, reversals>> /\ proc[p].next \in 1 .. 4
          /\ proc[p] \in States
      BY <1>1, <2>2 DEF Migrations!Check, Migrations!Chain
    <3>2. CASE Migrations!Checks(proc[p]) /\ ~ Migrations!Empty
      BY <1>1, <1>2, <2>2, <3>1, <3>2, ProcessMoves DEF Migrations!Check, Migrations!Is
    <3>3. CASE ~ (Migrations!Checks(proc[p]) /\ ~ Migrations!Empty)
      <4> DEFINE n == [proc[p] EXCEPT !.pc = "checked"]
      <4>1. proc' = [proc EXCEPT ![p] = n]
        BY <2>2, <3>3 DEF Migrations!Check, Migrations!Is
      <4>2. n \in States /\ n.up = proc[p].up /\ n.next = proc[p].next
        BY <3>1 DEF States
      <4> HIDE DEF n
      <4>3. n.up /\ n.next = 3 => data["old"] = 0
        BY <3>3, <4>2 DEF Migrations!Checks, Migrations!Empty, Migrations!Kinds
      <4> QED BY <1>1, <3>1, <4>1, <4>2, <4>3, ProcessMoves
    <3> QED BY <3>2, <3>3
  <2>3. CASE Migrations!Queue(p)
    <3> DEFINE n == [proc[p] EXCEPT !.pc = "waiting"]
    <3>1. /\ proc[p].pc = "checked" /\ proc' = [proc EXCEPT ![p] = n]
          /\ UNCHANGED <<applied, data, reversals>>
      BY <2>3 DEF Migrations!Queue, Migrations!Is
    <3>2. proc[p] \in States /\ proc[p].next \in 1 .. 4
      BY <1>1, <3>1 DEF MigrationsInv, ChainInv
    <3>3. n \in States /\ n.up = proc[p].up /\ n.next = proc[p].next
      BY <3>2 DEF States
    <3> HIDE DEF n
    <3>4. n.up /\ n.next = 3 /\ applied # 0 => data["old"] = 0
      BY <3>1, <3>3 DEF MigrationsInv, SwitchInv, Migrations!Reads, Migrations!Checks
    <3> QED BY <1>1, <3>1, <3>2, <3>3, <3>4, ProcessMoves
  <2>4. CASE Migrations!Finish(p)
    <3> DEFINE n == [proc[p] EXCEPT !.pc = "done"]
    <3>1. /\ proc' = [proc EXCEPT ![p] = n] /\ UNCHANGED <<applied, data, reversals>>
      BY <2>4 DEF Migrations!Finish, Migrations!Is
    <3>2. n \in States /\ n.pc = "done"
      BY <1>1 DEF States
    <3> HIDE DEF n
    <3> QED BY <1>1, <3>1, <3>2, ProcessMoves
  <2>5. CASE Migrations!Alter(p)
    BY <2>5, AlterKeeps
  <2>6. CASE Migrations!Victim(p)
    BY <1>1, <1>2, <2>6, ProcessMoves DEF Migrations!Victim, Migrations!Is
  <2> QED BY <1>4, <2>1, <2>2, <2>3, <2>4, <2>5, <2>6 DEF Migrations!Step
<1>5. CASE UNCHANGED Migrations!vars
  BY <1>5 DEF Migrations!vars, MigrationsInv, Migrations!TypeOK, ChainInv, SwitchInv,
     Migrations!Reads, Migrations!QuizzesFitTheSchema
<1> QED BY <1>3, <1>4, <1>5 DEF Migrations!Next

\* However processes apply the migrations and take them back at the same time, and
\* whatever is created meanwhile: no migration drops a row, and what exists is of the
\* schema in force.
THEOREM MigrationsStaySafe == Migrations!Spec => MigrationsAreSafe
<1>1. Migrations!Init => MigrationsInv
  <2> SUFFICES ASSUME Migrations!Init PROVE MigrationsInv
    OBVIOUS
  <2>1. /\ applied \in 0 .. 4 /\ \A k \in Migrations!Kinds : data[k] = 0
        /\ data \in [Migrations!Kinds -> 0 .. MaxRows] /\ reversals \in 0 .. Reversals
    BY TablesAssumption DEF Migrations!Init
  <2>2. proc \in [Processes -> States] /\ \A p \in Processes : proc[p].pc = "stopped"
    BY DEF Migrations!Init, Migrations!Stopped, States
  <2>3. Migrations!TypeOK
    BY <2>1, <2>2 DEF Migrations!TypeOK, States
  <2>4. Migrations!QuizzesFitTheSchema
    BY <2>1 DEF Migrations!QuizzesFitTheSchema, Migrations!Kinds
  <2>5. ChainInv /\ SwitchInv
    BY <2>2 DEF ChainInv, SwitchInv, Migrations!Reads
  <2> QED BY <2>3, <2>4, <2>5 DEF MigrationsInv
<1>2. MigrationsInv => Migrations!TypeOK /\ Migrations!QuizzesFitTheSchema
  BY DEF MigrationsInv
<1>3. MigrationsInv /\ [Migrations!Next]_(Migrations!vars) => MigrationsInv'
  BY MigrationSteps
<1>4. MigrationsInv /\ [Migrations!Next]_(Migrations!vars) =>
        [proc' # proc => data' = data]_(Migrations!vars)
  BY MigrationSteps
<1> QED BY <1>1, <1>2, <1>3, <1>4, PTL
    DEF Migrations!Spec, MigrationsAreSafe, Migrations!NothingIsLost
=============================================================================
