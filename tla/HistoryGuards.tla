---------------------------- MODULE HistoryGuards ----------------------------
(***************************************************************************)
(* What the rows of the game let anybody write (backend/apps/session/      *)
(* models.py, core/protection.py).                                         *)
(*                                                                         *)
(* The save of each model compares the row with the stored one and with    *)
(* the rows it refers to; the database adds its constraints.  A writer may *)
(* be any code and save any row with all of its columns: the services,     *)
(* which Gameplay and Admission describe, are only some of the writers.    *)
(* No table is updated in bulk, and of these tables only that of the       *)
(* display accesses can be deleted from.                                   *)
(*                                                                         *)
(* The save of a stored run reads the row without a lock and writes it in  *)
(* a later step.  The other saves are one step: they lock the row that     *)
(* they replace, or they insert a row and read without a lock only columns *)
(* that never change.                                                      *)
(*                                                                         *)
(* A row that its table does not hold is NoRow.                            *)
(***************************************************************************)
EXTENDS Naturals

CONSTANTS
  Sessions, Runs, Participants, Attempts, Finals, Legacy,
  Grants,         \* bound, with the six before: primary keys
  Versions, Questions, Choices,
  VersionOf,      \* question -> its version
  QuestionOf,     \* choice -> its question
  Pins, Persons, Submissions, Times,
  Deadlines,      \* bound: times that a run is planned with
  MaxOrdinal,     \* 20
  Saves,          \* bound: saves of stored runs that are under way
  Null, NoRow

ASSUME ContentAssumption ==
  /\ Deadlines \subseteq Nat
  /\ VersionOf \in [Questions -> Versions] /\ QuestionOf \in [Choices -> Questions]

Statuses == {"waiting", "live", "finished", "aborted"}
Ended == {"finished", "aborted"}
Open == {"waiting", "live"}

SessionRow ==
  [version : Versions, pin : Pins, status : Statuses,
   started : Times \cup {Null}, finished : Times \cup {Null},
   question : Questions \cup {Null}, run : Runs \cup {Null}]
RunRow ==
  [session : Sessions, question : Questions, ordinal : 1 .. MaxOrdinal,
   planned : Deadlines, deadline : Deadlines, finalized : Times \cup {Null}]
ParticipantRow == [session : Sessions, person : Persons]
AttemptRow ==
  [run : Runs, participant : Participants, submission : Submissions,
   choice : Choices, ordinal : 1 .. MaxOrdinal]
FinalRow ==
  [run : Runs, participant : Participants, outcome : {"answered", "unanswered"},
   selected : Attempts \cup {Null}, timing : Attempts \cup {Null}]
GrantRow == [session : Sessions, revoked : Times \cup {Null}]
\* What a save of a stored run has read: the key and the row.
Reading == [key : Runs, row : RunRow]
LegacyRow == [participant : Participants, question : Questions, choice : Choices \cup {Null}]

\* No row is the absence of one, and no time is NULL.
ASSUME NoRowAssumption ==
  /\ NoRow \notin SessionRow /\ NoRow \notin RunRow /\ NoRow \notin ParticipantRow
  /\ NoRow \notin AttemptRow /\ NoRow \notin FinalRow /\ NoRow \notin GrantRow
  /\ NoRow \notin LegacyRow /\ NoRow \notin Reading
  /\ Null \notin Times

VARIABLES
  session, run, participant, attempt, final, legacy, grant,
  previous        \* save of a run -> what it has read, or NoRow

vars == <<session, run, participant, attempt, final, legacy, grant, previous>>

Init ==
  /\ session = [s \in Sessions |-> NoRow]
  /\ run = [r \in Runs |-> NoRow]
  /\ participant = [p \in Participants |-> NoRow]
  /\ attempt = [a \in Attempts |-> NoRow]
  /\ final = [f \in Finals |-> NoRow]
  /\ legacy = [l \in Legacy |-> NoRow]
  /\ grant = [g \in Grants |-> NoRow]
  /\ previous = [w \in Saves |-> NoRow]

\* The creation service alone may insert a session.
CreateSession_NoPin_Bug(s, version, pin) ==
  /\ session[s] = NoRow
  /\ session' = [session EXCEPT ![s] =
       [version |-> version, pin |-> Null, status |-> "waiting", started |-> Null,
        finished |-> Null, question |-> Null, run |-> Null]]
  /\ UNCHANGED <<run, participant, attempt, final, legacy, grant, previous>>
CreateSession_Bug(s, version, pin) ==
  /\ session[s] = NoRow
  /\ \A t \in Sessions : session[t] # NoRow /\ session[t].status = "live" => session[t].pin # pin
  /\ session' = [session EXCEPT ![s] =
       [version |-> version, pin |-> pin, status |-> "waiting", started |-> Null,
        finished |-> Null, question |-> Null, run |-> Null]]
  /\ UNCHANGED <<run, participant, attempt, final, legacy, grant, previous>>
CreateSession(s, version, pin) ==
  /\ session[s] = NoRow
  /\ \A t \in Sessions : session[t] # NoRow /\ session[t].status \in Open => session[t].pin # pin
  /\ session' = [session EXCEPT ![s] =
       [version |-> version, pin |-> pin, status |-> "waiting", started |-> Null,
        finished |-> Null, question |-> Null, run |-> Null]]
  /\ UNCHANGED <<run, participant, attempt, final, legacy, grant, previous>>

PointsWell(s, row) ==
  /\ row.question # Null => VersionOf[row.question] = row.version
  /\ row.run # Null =>
       /\ run[row.run] # NoRow
       /\ run[row.run].session = s /\ run[row.run].question = row.question

KeepsHistory_Bug(old, row) ==
  /\ row.version = old.version /\ row.pin = old.pin
  /\ old.status \in Ended => row.status = old.status
  /\ old.status # "waiting" => row.status # "waiting"
  /\ old.started # Null => row.started = old.started
KeepsHistory(old, row) ==
  /\ row.version = old.version /\ row.pin = old.pin
  /\ old.status \in Ended => row = old
  /\ old.status # "waiting" => row.status # "waiting"
  /\ old.started # Null => row.started = old.started

Stamped(row, now) ==
  [row EXCEPT !.started = IF row.status = "live" /\ @ = Null THEN now ELSE @,
              !.finished = IF row.status \in Ended /\ @ = Null THEN now ELSE @]

SaveSession(s, row, now) ==
  /\ session[s] # NoRow
  /\ PointsWell(s, row)
  /\ KeepsHistory(session[s], row)
  /\ session' = [session EXCEPT ![s] = Stamped(row, now)]
  /\ UNCHANGED <<run, participant, attempt, final, legacy, grant, previous>>

\* The constraints of the table, and what a stored run keeps.
RunConstraints(r, row) ==
  /\ row.deadline <= row.planned
  /\ \A o \in Runs \ {r} : run[o] # NoRow /\ run[o].session = row.session =>
       run[o].question # row.question /\ run[o].ordinal # row.ordinal
RunKeepsHistory_Bug(old, row) ==
  /\ row.session = old.session /\ row.ordinal = old.ordinal /\ row.planned = old.planned
  /\ old.finalized # Null => row.finalized = old.finalized /\ row.deadline = old.deadline
RunKeepsHistory(old, row) ==
  /\ row.session = old.session /\ row.question = old.question
  /\ row.ordinal = old.ordinal /\ row.planned = old.planned
  /\ old.finalized # Null => row.finalized = old.finalized /\ row.deadline = old.deadline

OfTheQuiz(row) ==
  /\ session[row.session] # NoRow
  /\ VersionOf[row.question] = session[row.session].version

\* A run without a key gets one that is free; one with a key has to be there.
InsertRun(r, row) ==
  /\ run[r] = NoRow
  /\ OfTheQuiz(row) /\ RunConstraints(r, row)
  /\ run' = [run EXCEPT ![r] = row]
  /\ UNCHANGED <<session, participant, attempt, final, legacy, grant, previous>>

ReadRun(w, r) ==
  /\ previous[w] = NoRow /\ run[r] # NoRow
  /\ previous' = [previous EXCEPT ![w] = [key |-> r, row |-> run[r]]]
  /\ UNCHANGED <<session, run, participant, attempt, final, legacy, grant>>

\* What was read is compared, and not what is stored by now.
WriteRun(w, row) ==
  /\ previous[w] # NoRow
  /\ OfTheQuiz(row) /\ RunKeepsHistory(previous[w].row, row)
  /\ RunConstraints(previous[w].key, row)
  /\ run' = [run EXCEPT ![previous[w].key] = row]
  /\ previous' = [previous EXCEPT ![w] = NoRow]
  /\ UNCHANGED <<session, participant, attempt, final, legacy, grant>>

\* A save that is refused, or whose writer is gone, writes nothing.
DropSave(w) ==
  /\ previous[w] # NoRow
  /\ previous' = [previous EXCEPT ![w] = NoRow]
  /\ UNCHANGED <<session, run, participant, attempt, final, legacy, grant>>

SaveParticipant(p, row) ==
  /\ participant[p] = NoRow
  /\ session[row.session] # NoRow /\ session[row.session].status = "waiting"
  /\ \A o \in Participants : participant[o] # row
  /\ participant' = [participant EXCEPT ![p] = row]
  /\ UNCHANGED <<session, run, attempt, final, legacy, grant, previous>>

SaveAttempt_Bug(a, row) ==
  /\ attempt[a] = NoRow
  /\ run[row.run] # NoRow /\ participant[row.participant] # NoRow
  /\ participant[row.participant].session = run[row.run].session
  /\ \A o \in Attempts :
       attempt[o] # NoRow /\ attempt[o].run = row.run
         /\ attempt[o].participant = row.participant =>
       attempt[o].submission # row.submission /\ attempt[o].ordinal # row.ordinal
  /\ attempt' = [attempt EXCEPT ![a] = row]
  /\ UNCHANGED <<session, run, participant, final, legacy, grant, previous>>
SaveAttempt(a, row) ==
  /\ attempt[a] = NoRow
  /\ run[row.run] # NoRow /\ participant[row.participant] # NoRow
  /\ participant[row.participant].session = run[row.run].session
  /\ QuestionOf[row.choice] = run[row.run].question
  /\ \A o \in Attempts :
       attempt[o] # NoRow /\ attempt[o].run = row.run
         /\ attempt[o].participant = row.participant =>
       attempt[o].submission # row.submission /\ attempt[o].ordinal # row.ordinal
  /\ attempt' = [attempt EXCEPT ![a] = row]
  /\ UNCHANGED <<session, run, participant, final, legacy, grant, previous>>

\* constraint final_outcome_fields_match
OutcomeMatches(row) ==
  IF row.outcome = "answered" THEN row.selected # Null /\ row.timing # Null
  ELSE row.selected = Null /\ row.timing = Null

OwnAttempts_Bug(row) ==
  \A a \in {row.selected, row.timing} \ {Null} :
    attempt[a] # NoRow /\ attempt[a].run = row.run
OwnAttempts(row) ==
  \A a \in {row.selected, row.timing} \ {Null} :
    /\ attempt[a] # NoRow
    /\ attempt[a].run = row.run /\ attempt[a].participant = row.participant

SaveFinal(f, row) ==
  /\ final[f] = NoRow
  /\ run[row.run] # NoRow /\ participant[row.participant] # NoRow
  /\ participant[row.participant].session = run[row.run].session
  /\ OwnAttempts(row) /\ OutcomeMatches(row)
  /\ \A o \in Finals : final[o] # NoRow =>
       ~ (final[o].run = row.run /\ final[o].participant = row.participant)
  /\ final' = [final EXCEPT ![f] = row]
  /\ UNCHANGED <<session, run, participant, attempt, legacy, grant, previous>>

\* An answer of the former scheme may still be saved while its session is live.
SaveLegacy(l, row) ==
  /\ participant[row.participant] # NoRow
  /\ session[participant[row.participant].session].status = "live"
  /\ VersionOf[row.question] = session[participant[row.participant].session].version
  /\ row.choice # Null => QuestionOf[row.choice] = row.question
  /\ legacy[l] # NoRow =>
       row.participant = legacy[l].participant /\ row.question = legacy[l].question
  /\ \A o \in Legacy \ {l} : legacy[o] # NoRow =>
       ~ (legacy[o].participant = row.participant /\ legacy[o].question = row.question)
  /\ legacy' = [legacy EXCEPT ![l] = row]
  /\ UNCHANGED <<session, run, participant, attempt, final, grant, previous>>

SaveGrant_Bug(g, row) ==
  /\ session[row.session] # NoRow
  /\ grant[g] # NoRow => row.session = grant[g].session
  /\ grant' = [grant EXCEPT ![g] = row]
  /\ UNCHANGED <<session, run, participant, attempt, final, legacy, previous>>
\* A display access keeps its session and, once revoked, stays revoked.
SaveGrant(g, row) ==
  /\ session[row.session] # NoRow
  /\ grant[g] # NoRow =>
       /\ row.session = grant[g].session
       /\ grant[g].revoked # Null => row.revoked = grant[g].revoked
  /\ grant' = [grant EXCEPT ![g] = row]
  /\ UNCHANGED <<session, run, participant, attempt, final, legacy, previous>>

\* The guard of deletions does not name this table, and no row refers to it.
DeleteGrant(g) ==
  /\ grant[g] # NoRow
  /\ grant' = [grant EXCEPT ![g] = NoRow]
  /\ UNCHANGED <<session, run, participant, attempt, final, legacy, previous>>

Next ==
  \/ \E s \in Sessions, v \in Versions, pin \in Pins : CreateSession(s, v, pin)
  \/ \E s \in Sessions, row \in SessionRow, now \in Times : SaveSession(s, row, now)
  \/ \E r \in Runs, row \in RunRow : InsertRun(r, row)
  \/ \E w \in Saves, r \in Runs : ReadRun(w, r)
  \/ \E w \in Saves, row \in RunRow : WriteRun(w, row)
  \/ \E w \in Saves : DropSave(w)
  \/ \E p \in Participants, row \in ParticipantRow : SaveParticipant(p, row)
  \/ \E a \in Attempts, row \in AttemptRow : SaveAttempt(a, row)
  \/ \E f \in Finals, row \in FinalRow : SaveFinal(f, row)
  \/ \E l \in Legacy, row \in LegacyRow : SaveLegacy(l, row)
  \/ \E g \in Grants, row \in GrantRow : SaveGrant(g, row)
  \/ \E g \in Grants : DeleteGrant(g)

Spec == Init /\ [][Next]_vars
-----------------------------------------------------------------------------
(* Properties.                                                              *)

\* Every table holds rows of its columns, or none under a key.
TypeOK ==
  /\ session \in [Sessions -> SessionRow \cup {NoRow}]
  /\ run \in [Runs -> RunRow \cup {NoRow}]
  /\ participant \in [Participants -> ParticipantRow \cup {NoRow}]
  /\ attempt \in [Attempts -> AttemptRow \cup {NoRow}]
  /\ final \in [Finals -> FinalRow \cup {NoRow}]
  /\ legacy \in [Legacy -> LegacyRow \cup {NoRow}]
  /\ grant \in [Grants -> GrantRow \cup {NoRow}]
  /\ previous \in [Saves -> Reading \cup {NoRow}]

\* The current run of a session is its own and asks its current question,
\* whoever saves the session or the run afterwards (models.py 113-125, 326-340).
CurrentRunMatches ==
  \A s \in Sessions : session[s] # NoRow => PointsWell(s, session[s])

\* A run asks a question of the version that its session plays, and every
\* attempt joins a participant of that session with a choice of that question
\* (models.py 318-326, 381-389).
AttemptsFitTheirRun ==
  /\ \A r \in Runs : run[r] # NoRow =>
       /\ session[run[r].session] # NoRow
       /\ VersionOf[run[r].question] = session[run[r].session].version
  /\ \A a \in Attempts : attempt[a] # NoRow =>
       /\ run[attempt[a].run] # NoRow /\ participant[attempt[a].participant] # NoRow
       /\ participant[attempt[a].participant].session = run[attempt[a].run].session
       /\ QuestionOf[attempt[a].choice] = run[attempt[a].run].question
  /\ \A l \in Legacy : legacy[l] # NoRow =>
       /\ participant[legacy[l].participant] # NoRow
       /\ VersionOf[legacy[l].question] =
            session[participant[legacy[l].participant].session].version

\* A final answer rests on attempts of its own participant in its own run, and
\* on none exactly if the question was not answered (models.py 427-476).
FinalsFitTheirRun ==
  \A f \in Finals : final[f] # NoRow =>
    /\ (final[f].outcome = "answered") = (final[f].selected # Null)
    /\ (final[f].outcome = "answered") = (final[f].timing # Null)
    /\ \A a \in {final[f].selected, final[f].timing} \ {Null} :
         /\ attempt[a] # NoRow
         /\ attempt[a].run = final[f].run
         /\ attempt[a].participant = final[f].participant
    /\ run[final[f].run] # NoRow /\ participant[final[f].participant] # NoRow
    /\ participant[final[f].participant].session = run[final[f].run].session

\* Two sessions that are open never share a PIN (models.py 99, 126-132).
OpenPinsDiffer ==
  \A s, t \in Sessions :
    session[s] # NoRow /\ session[t] # NoRow /\ s # t
      /\ {session[s].status, session[t].status} \subseteq Open =>
    session[s].pin # session[t].pin

\* The rows fit each other, whoever wrote them and in whatever order.
RowsFit ==
  TypeOK /\ CurrentRunMatches /\ AttemptsFitTheirRun /\ FinalsFitTheirRun /\ OpenPinsDiffer

Stays(table, table2, key) == table[key] # NoRow => table2[key] = table[key]

AnswersStay ==
  /\ \A p \in Participants : Stays(participant, participant', p)
  /\ \A a \in Attempts : Stays(attempt, attempt', a)
  /\ \A f \in Finals : Stays(final, final', f)

\* As long as it is there: an access may be deleted.
GrantsStay ==
  \A g \in Grants : grant[g] # NoRow /\ grant'[g] # NoRow =>
    /\ grant'[g].session = grant[g].session
    /\ grant[g].revoked # Null => grant'[g].revoked = grant[g].revoked

LegacyStays ==
  \A l \in Legacy :
    legacy[l] # NoRow /\ session[participant[legacy[l].participant].session].status \in Ended =>
      legacy'[l] = legacy[l]

\* A save is under way that has read the run before another one changed it.
Outdated(r) ==
  \E w \in Saves : previous[w] # NoRow /\ previous[w].key = r /\ previous[w].row # run[r]

RunsStay ==
  \A r \in Runs : run[r] # NoRow =>
    /\ run'[r] # NoRow
    /\ run'[r].session = run[r].session /\ run'[r].question = run[r].question
    /\ run'[r].ordinal = run[r].ordinal /\ run'[r].planned = run[r].planned
    /\ run[r].finalized # Null /\ ~ Outdated(r) => run'[r] = run[r]

SessionsStay ==
  \A s \in Sessions : session[s] # NoRow =>
    /\ session'[s] # NoRow /\ session'[s].version = session[s].version
    /\ session[s].status \in Ended => session'[s] = session[s]
    /\ session[s].status # "waiting" => session'[s].status # "waiting"

\* What has happened stays, though saves of one run overlap: registrations,
\* attempts and final answers are never rewritten, an ended session not at all, and
\* no session goes back to its lobby; a run keeps its place and its plan whoever
\* saves it, and its results unless a save is under way that has read an older row;
\* an access that is not deleted stays revoked (models.py 127-136, 355-366,
\* 556-557).
HistoryIsKept ==
  [][AnswersStay /\ GrantsStay /\ LegacyStays /\ RunsStay /\ SessionsStay]_vars
===============================================================================
