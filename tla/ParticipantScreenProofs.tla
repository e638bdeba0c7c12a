------------------------ MODULE ParticipantScreenProofs ------------------------
(***************************************************************************)
(* Proofs that what a screen shows is true and that it never goes back:    *)
(* for each role, any numbers of questions, participants and presses,      *)
(* however the statements of a read interleave with the game and states    *)
(* overtake each other on two channels; that the parts of two roles never  *)
(* come together, and all stays in its types.  And that a press            *)
(* stays on the screen until a snapshot must contain it, for any numbers   *)
(* of presses, choices, repeats and attempts, and whatever is lost, late   *)
(* or answered twice.                                                      *)
(***************************************************************************)
EXTENDS ParticipantScreen, Sequences, FiniteSetTheorems, TLAPS

Statuses == {"waiting", "live", "finished", "aborted"}
Ended == {"finished", "aborted"}
Asked == {"reading", "answering", "delivery", "results"}
Phases == Asked \cup {"lobby", "final"}

\* The game, as far as states rely on it: results are shown of finalized runs, which
\* nobody joins and no press reaches any more.
GameInv ==
  /\ game \in [revision : Nat, status : Statuses, phase : Phases, run : 0 .. Runs]
  /\ IsFiniteSet(joined)
  /\ attempts \in [1 .. Runs -> [Persons -> Nat]]
  /\ inTime \in [1 .. Runs -> [Persons -> Nat]]
  /\ finalized \subseteq closed /\ closed \subseteq 1 .. Runs
  /\ finalized # {} => game.status # "waiting"
  /\ game.status \in Ended => game.phase = "final"
  /\ game.phase \in Asked => game.run \in 1 .. Runs
  /\ game.phase = "results" => game.run \in finalized

Base == {"revision", "status", "phase", "run"}
Common == Base \cup {"revealed", "joined", "texts"}

\* What a state may tell, whoever put it together and when: facts of a run only once
\* it is finalized, in `done', and then those that stay.  It is told to the role
\* whose part it is.
Told(s, done, finals, last) ==
  /\ Base \subseteq DOMAIN s /\ DOMAIN s \subseteq Keys /\ s.revision \in Nat /\ s.run \in 0 .. Runs
  /\ s.status \in Ended => s.phase = "final"
  /\ s.phase = "results" => s.run \in done
  /\ Has(s, "joined") => s.joined \in Nat
  /\ Has(s, "revealed") => s.revealed \in BOOLEAN /\ (s.revealed => s.run \in done)
  /\ Has(s, "texts") => s.texts = Texts(Role)
  /\ Has(s, "correct") => Role = "display" /\ (s.correct => s.run \in done)
  /\ Has(s, "answered") =>
       /\ Role = "account" /\ s.answered \in Nat
       /\ s.phase = "results" => s.answered = finals[s.run]
  /\ Has(s, "answer") =>
       /\ Role = "participant" /\ s.answer.version \in Nat
       /\ Has(s.answer, "final") => s.run \in done /\ s.answer.final = last[s.run]
  /\ Has(s, "reveal") =>
       /\ s.reveal.run = s.run /\ s.run \in done
       /\ s.reveal.texts = RevealTexts(Role)
  /\ Has(s, "leaderboard") => s.status \in Ended

\* What a role is always told.
Whole(s) ==
  /\ Common \subseteq DOMAIN s
  /\ Role = "participant" => Has(s, "answer")
  /\ Role = "account" => Has(s, "answered")
  /\ Role = "display" => Has(s, "correct")

\* The final answers of a run and the press that counts for Me.
Finals == [r \in 1 .. Runs |-> Cardinality(FinalAnswers(r))]
Last == [r \in 1 .. Runs |-> inTime[r][Me]]

\* Does a reading see the results of its run?
Sees(x, done) ==
  CASE x.run = "fresh" -> x.state.run \in done
    [] x.run = "open" -> FALSE
    [] OTHER -> TRUE

\* A state on its way, by how far its reading is.
ReadingFits(x, done, finals, last) ==
  LET s == x.state IN
  /\ x.pc \in {"idle", "base", "role", "reveal", "ready"}
  /\ x.run \in {"fresh", "open", "finalized"}
  /\ x.pc = "idle" => s = NoState
  /\ x.pc # "idle" =>
       /\ Told(s, done, finals, last)
       /\ x.run = "finalized" => s.run \in done
       /\ x.run = "open" => s.phase # "results"
  /\ x.pc = "base" => DOMAIN s = Base
  /\ x.pc = "role" => DOMAIN s = Common /\ (s.revealed => Sees(x, done))
  /\ x.pc = "reveal" =>
       /\ DOMAIN s = Common \cup {"answer"} /\ Role = "participant"
       /\ s.revealed => Sees(x, done)
  /\ x.pc = "ready" =>
       /\ Whole(s)
       /\ Role = "participant" /\ s.revealed => Has(s, "reveal")
       /\ Has(s, "answered") /\ Has(s, "reveal") => s.answered = s.reveal.answers

ViewFits == ~ Empty(view) => Told(view, finalized, Finals, Last) /\ Whole(view)

ViewsInv ==
  /\ GameInv /\ ViewFits
  /\ reading = [c \in Channels |->
       [pc |-> reading[c].pc, state |-> reading[c].state, run |-> reading[c].run]]
  /\ \A c \in Channels : ReadingFits(reading[c], finalized, Finals, Last)
-----------------------------------------------------------------------------
(* Lemmas about states.                                                     *)

\* One map over another.
LEMMA OverIs ==
  ASSUME NEW f, NEW g
  PROVE  /\ DOMAIN (f ++ g) = DOMAIN f \cup DOMAIN g
         /\ \A k \in DOMAIN f : (f ++ g)[k] = f[k]
         /\ \A k \in DOMAIN g \ DOMAIN f : (f ++ g)[k] = g[k]
BY DEF ++

\* A state without some keys.
LEMMA WithoutIs ==
  ASSUME NEW s, NEW keys
  PROVE  /\ DOMAIN Without(s, keys) = DOMAIN s \ keys
         /\ \A k \in DOMAIN s \ keys : Without(s, keys)[k] = s[k]
BY DEF Without

\* What was told stays true while more runs are finalized.
LEMMA ToldStays ==
  ASSUME NEW s, NEW done, NEW finals, NEW last, NEW done2, NEW finals2, NEW last2,
         Told(s, done, finals, last), done \subseteq done2,
         \A r \in done : finals2[r] = finals[r] /\ last2[r] = last[r]
  PROVE  Told(s, done2, finals2, last2)
BY DEF Told

\* And a reading goes on as it was.
LEMMA ReadingStays ==
  ASSUME NEW x, NEW done, NEW finals, NEW last, NEW done2, NEW finals2, NEW last2,
         ReadingFits(x, done, finals, last), done \subseteq done2,
         \A r \in done : finals2[r] = finals[r] /\ last2[r] = last[r]
  PROVE  ReadingFits(x, done2, finals2, last2)
<1>1. Told(x.state, done, finals, last) => Told(x.state, done2, finals2, last2)
  BY ToldStays
<1>2. Sees(x, done) => Sees(x, done2)
  BY DEF Sees
<1> HIDE DEF Told, Sees
<1> QED BY <1>1, <1>2 DEF ReadingFits
-----------------------------------------------------------------------------
(* The game.                                                                *)

\* A step of the game keeps what states rely on.
LEMMA GameKeeps ==
  ASSUME GameInv, Game
  PROVE  GameInv' /\ UNCHANGED <<reading, view>>
<1>1. /\ game \in [revision : Nat, status : Statuses, phase : Phases, run : 0 .. Runs]
      /\ Runs \in Nat
  BY RoleAssumption DEF GameInv
<1>2. ASSUME NEW p \in Persons, Join(p) PROVE GameInv' /\ UNCHANGED <<reading, view>>
  <2>1. IsFiniteSet(joined \cup {p})
    BY FS_AddElement DEF GameInv
  <2> QED BY <1>2, <2>1 DEF GameInv, Join
<1>3. ASSUME NEW p \in Persons, Press(p) PROVE GameInv' /\ UNCHANGED <<reading, view>>
  <2>1. ASSUME NEW f \in [1 .. Runs -> [Persons -> Nat]], NEW r \in 1 .. Runs, NEW n \in Nat
        PROVE  [f EXCEPT ![r][p] = n] \in [1 .. Runs -> [Persons -> Nat]]
    OBVIOUS
  <2> DEFINE r == game.run
             n == IF r \in closed THEN inTime[r][p] ELSE inTime[r][p] + 1
  <2>2. r \in 1 .. Runs
    BY <1>3 DEF GameInv, Press, Asked
  <2>3. attempts[r][p] + 1 \in Nat /\ n \in Nat
    BY <2>2 DEF GameInv
  <2>4. /\ attempts' = [attempts EXCEPT ![r][p] = attempts[r][p] + 1]
        /\ inTime' = [inTime EXCEPT ![r][p] = n]
    BY <1>3 DEF Press
  <2> HIDE DEF r, n
  <2>5. /\ attempts' \in [1 .. Runs -> [Persons -> Nat]]
        /\ inTime' \in [1 .. Runs -> [Persons -> Nat]]
    BY <2>1, <2>2, <2>3, <2>4 DEF GameInv
  <2> QED BY <1>3, <2>5 DEF GameInv, Press
<1>4. ASSUME NEW phase \in Phases, NEW run \in 0 .. Runs, NEW status \in Statuses \ {"waiting"},
             Transition(phase, run, status), closed' = closed,
             finalized' \subseteq closed, status \in Ended => phase = "final",
             phase \in Asked => run \in 1 .. Runs, phase = "results" => run \in finalized'
      PROVE  GameInv' /\ UNCHANGED <<reading, view>>
  <2>1. /\ game' = [revision |-> game.revision + 1, status |-> status, phase |-> phase,
                    run |-> run]
        /\ UNCHANGED <<joined, attempts, inTime, reading, view>>
    BY <1>4 DEF Transition
  <2>2. game' \in [revision : Nat, status : Statuses, phase : Phases, run : 0 .. Runs]
    BY <1>1, <1>4, <2>1
  <2> QED BY <1>4, <2>1, <2>2 DEF GameInv
<1>5. CASE StartSession
  <2>1. /\ Transition("lobby", 0, "live") /\ closed' = closed
        /\ 0 \in 0 .. Runs /\ finalized' \subseteq closed
        /\ "lobby" \in Asked => 0 \in 1 .. Runs
        /\ "lobby" = "results" => 0 \in finalized'
    BY <1>1, <1>5 DEF StartSession, GameInv, Asked
  <2>2. "lobby" \in Phases /\ "live" \in Statuses \ {"waiting"}
    BY DEF Phases, Asked, Statuses
  <2>3. "live" \in Ended => "lobby" = "final"
    BY DEF Ended
  <2> QED BY <1>4, <2>1, <2>2, <2>3
<1>6. CASE StartQuestion
  <2>1. /\ Transition("reading", game.run + 1, "live") /\ closed' = closed
        /\ game.run + 1 \in 0 .. Runs /\ finalized' \subseteq closed
        /\ "reading" \in Asked => game.run + 1 \in 1 .. Runs
        /\ "reading" = "results" => game.run + 1 \in finalized'
    BY <1>1, <1>6 DEF StartQuestion, GameInv, Asked
  <2>2. "reading" \in Phases /\ "live" \in Statuses \ {"waiting"}
    BY DEF Phases, Asked, Statuses
  <2>3. "live" \in Ended => "reading" = "final"
    BY DEF Ended
  <2> QED BY <1>4, <2>1, <2>2, <2>3
<1>7. CASE StartAnswering
  <2>1. /\ Transition("answering", game.run, "live") /\ closed' = closed
        /\ game.run \in 0 .. Runs /\ finalized' \subseteq closed
        /\ "answering" \in Asked => game.run \in 1 .. Runs
        /\ "answering" = "results" => game.run \in finalized'
    BY <1>1, <1>7 DEF StartAnswering, GameInv, Asked
  <2>2. "answering" \in Phases /\ "live" \in Statuses \ {"waiting"}
    BY DEF Phases, Asked, Statuses
  <2>3. "live" \in Ended => "answering" = "final"
    BY DEF Ended
  <2> QED BY <1>4, <2>1, <2>2, <2>3
<1>8. CASE StartDelivery
  <2>1. /\ Transition("delivery", game.run, "live") /\ closed' = closed
        /\ game.run \in 0 .. Runs /\ finalized' \subseteq closed
        /\ "delivery" \in Asked => game.run \in 1 .. Runs
        /\ "delivery" = "results" => game.run \in finalized'
    BY <1>1, <1>8 DEF StartDelivery, GameInv, Asked
  <2>2. "delivery" \in Phases /\ "live" \in Statuses \ {"waiting"}
    BY DEF Phases, Asked, Statuses
  <2>3. "live" \in Ended => "delivery" = "final"
    BY DEF Ended
  <2> QED BY <1>4, <2>1, <2>2, <2>3
<1>9. CASE PassDeadline
  BY <1>9 DEF PassDeadline, GameInv, Asked
<1>10. CASE Finalize
  <2>1. /\ Transition("results", game.run, "live") /\ closed' = closed
        /\ game.run \in 0 .. Runs /\ finalized' \subseteq closed
        /\ "results" \in Asked => game.run \in 1 .. Runs
        /\ "results" = "results" => game.run \in finalized'
    BY <1>1, <1>10 DEF Finalize, GameInv, Asked
  <2>2. "results" \in Phases /\ "live" \in Statuses \ {"waiting"}
    BY DEF Phases, Asked, Statuses
  <2>3. "live" \in Ended => "results" = "final"
    BY DEF Ended
  <2> QED BY <1>4, <2>1, <2>2, <2>3
<1>11. CASE Finish
  <2>1. /\ Transition("final", 0, "finished") /\ closed' = closed
        /\ 0 \in 0 .. Runs /\ finalized' \subseteq closed
        /\ "final" \in Asked => 0 \in 1 .. Runs
        /\ "final" = "results" => 0 \in finalized'
    BY <1>1, <1>11 DEF Finish, GameInv, Asked
  <2>2. "final" \in Phases /\ "finished" \in Statuses \ {"waiting"}
    BY DEF Phases, Asked, Statuses
  <2>3. "finished" \in Ended => "final" = "final"
    BY DEF Ended
  <2> QED BY <1>4, <2>1, <2>2, <2>3
<1>12. CASE AbortSession
  <2>1. /\ Transition("final", 0, "aborted") /\ closed' = closed
        /\ 0 \in 0 .. Runs /\ finalized' \subseteq closed
        /\ "final" \in Asked => 0 \in 1 .. Runs
        /\ "final" = "results" => 0 \in finalized'
    BY <1>1, <1>12 DEF AbortSession, GameInv, Asked
  <2>2. "final" \in Phases /\ "aborted" \in Statuses \ {"waiting"}
    BY DEF Phases, Asked, Statuses
  <2>3. "aborted" \in Ended => "final" = "final"
    BY DEF Ended
  <2> QED BY <1>4, <2>1, <2>2, <2>3
<1> QED BY <1>2, <1>3, <1>5, <1>6, <1>7, <1>8, <1>9, <1>10, <1>11, <1>12 DEF Game

\* What is finalized stays finalized, with the same final answers.
LEMMA FinalsStay ==
  ASSUME GameInv, Game
  PROVE  /\ finalized \subseteq finalized'
         /\ \A r \in finalized : Finals'[r] = Finals[r] /\ Last'[r] = Last[r]
<1>1. finalized \subseteq finalized'
  BY DEF Game, Join, Press, StartSession, StartQuestion, StartAnswering, StartDelivery,
     PassDeadline, Finalize, Finish, AbortSession
<1>2. finalized # {} => joined' = joined
  BY DEF Game, Join, Press, StartSession, StartQuestion, StartAnswering, StartDelivery,
     PassDeadline, Finalize, Finish, AbortSession, Transition, GameInv
<1>3. ASSUME NEW r \in finalized PROVE inTime'[r] = inTime[r]
  <2>1. r \in 1 .. Runs /\ r \in closed
    BY DEF GameInv
  <2>2. ASSUME NEW p \in Persons, Press(p) PROVE inTime'[r] = inTime[r]
    <3>1. CASE game.run # r
      BY <2>1, <2>2, <3>1 DEF Press, GameInv
    <3>2. CASE game.run = r
      <4>1. inTime' = [inTime EXCEPT ![r][p] = inTime[r][p]]
        BY <2>1, <2>2, <3>2 DEF Press
      <4>2. inTime \in [1 .. Runs -> [Persons -> Nat]]
        BY DEF GameInv
      <4> QED BY <2>1, <4>1, <4>2
    <3> QED BY <3>1, <3>2
  <2> QED BY <2>2 DEF Game, Join, StartSession, StartQuestion, StartAnswering,
     StartDelivery, PassDeadline, Finalize, Finish, AbortSession, Transition
<1>4. ASSUME NEW r \in finalized PROVE Finals'[r] = Finals[r] /\ Last'[r] = Last[r]
  <2>1. r \in 1 .. Runs
    BY DEF GameInv
  <2>2. FinalAnswers(r)' = FinalAnswers(r)
    BY <1>2, <1>3 DEF FinalAnswers
  <2> QED BY <1>3, <2>1, <2>2 DEF Finals, Last
<1> QED BY <1>1, <1>4
-----------------------------------------------------------------------------
(* Reading.                                                                 *)

\* A step that moves one reading.
LEMMA ReadMove ==
  ASSUME ViewsInv, NEW c \in Channels, NEW x,
         x = [pc |-> x.pc, state |-> x.state, run |-> x.run],
         reading' = [reading EXCEPT ![c] = x], UNCHANGED server, ViewFits',
         ReadingFits(x, finalized, Finals, Last)
  PROVE  ViewsInv'
<1>1. GameInv' /\ finalized' = finalized /\ Finals' = Finals /\ Last' = Last
  BY DEF ViewsInv, GameInv, server, Finals, FinalAnswers, Last
<1>2. reading = [d \in Channels |->
        [pc |-> reading[d].pc, state |-> reading[d].state, run |-> reading[d].run]]
  BY DEF ViewsInv
<1>3. /\ reading'[c] = x /\ \A d \in Channels : d # c => reading'[d] = reading[d]
      /\ reading' = [d \in Channels |-> reading'[d]]
  BY <1>2
<1>4. \A d \in Channels :
        reading'[d] = [pc |-> reading'[d].pc, state |-> reading'[d].state,
                       run |-> reading'[d].run]
  BY <1>2, <1>3
<1>5. reading' = [d \in Channels |->
        [pc |-> reading'[d].pc, state |-> reading'[d].state, run |-> reading'[d].run]]
  BY <1>3, <1>4
<1>6. \A d \in Channels : ReadingFits(reading'[d], finalized', Finals', Last')
  BY <1>1, <1>3 DEF ViewsInv
<1> QED BY <1>1, <1>5, <1>6 DEF ViewsInv

\* What the invariant says of one reading.
LEMMA ReadingIs ==
  ASSUME ViewsInv, NEW c \in Channels
  PROVE  /\ reading[c] = [pc |-> reading[c].pc, state |-> reading[c].state,
                          run |-> reading[c].run]
         /\ ReadingFits(reading[c], finalized, Finals, Last)
         /\ Finalized(c) = Sees(reading[c], finalized)
BY DEF ViewsInv, Finalized, Sees

\* Whether a reading sees the results.
LEMMA FinalizedIs ==
  ASSUME NEW c \in Channels, reading[c].run \in {"fresh", "open", "finalized"},
         reading[c].run = "finalized" => reading[c].state.run \in finalized
  PROVE  Finalized(c) \in BOOLEAN /\ (Finalized(c) => reading[c].state.run \in finalized)
<1>1. CASE reading[c].run = "fresh"
  <2>1. CASE reading[c].state.run \in finalized
    <3>1. Finalized(c) = TRUE
      BY <1>1, <2>1 DEF Finalized
    <3> QED BY <2>1, <3>1
  <2>2. CASE reading[c].state.run \notin finalized
    <3>1. Finalized(c) = FALSE
      BY <1>1, <2>2 DEF Finalized
    <3> QED BY <3>1
  <2> QED BY <2>1, <2>2
<1>2. CASE reading[c].run = "open"
  <2>1. Finalized(c) = FALSE
    BY <1>2 DEF Finalized
  <2> QED BY <2>1
<1>3. CASE reading[c].run = "finalized"
  <2>1. Finalized(c) = TRUE
    BY <1>3 DEF Finalized
  <2> QED BY <1>3, <2>1
<1> QED BY <1>1, <1>2, <1>3

\* Readings with the same fields are the same.
LEMMA SameRecord ==
  ASSUME NEW A, NEW B, NEW D, NEW q \in [pc : A, state : B, run : D],
         NEW r \in [pc : A, state : B, run : D], q.pc = r.pc, q.state = r.state, q.run = r.run
  PROVE  q = r
OBVIOUS

\* A reading moves on.
LEMMA RecordStep ==
  ASSUME NEW r, r = [pc |-> r.pc, state |-> r.state, run |-> r.run], NEW pc, NEW s
  PROVE  [r EXCEPT !.pc = pc, !.state = s] = [pc |-> pc, state |-> s, run |-> r.run]
<1> DEFINE q == [r EXCEPT !.pc = pc, !.state = s]
           p == [pc |-> pc, state |-> s, run |-> r.run]
<1>1. r \in [pc : {r.pc}, state : {r.state}, run : {r.run}]
  OBVIOUS
<1>2. /\ q \in [pc : {pc}, state : {s}, run : {r.run}]
      /\ q.pc = pc /\ q.state = s /\ q.run = r.run
  BY <1>1
<1>3. /\ p \in [pc : {pc}, state : {s}, run : {r.run}]
      /\ p.pc = pc /\ p.state = s /\ p.run = r.run
  OBVIOUS
<1> HIDE DEF q, p
<1>4. q = p
  BY <1>2, <1>3, SameRecord
<1> QED BY <1>4 DEF q, p

\* The screen is as it was.
LEMMA SameView ==
  ASSUME ViewsInv, UNCHANGED <<server, view>>
  PROVE  ViewFits'
<1>1. finalized' = finalized /\ Finals' = Finals /\ Last' = Last /\ view' = view
  BY DEF server, Finals, FinalAnswers, Last
<1> QED BY <1>1 DEF ViewsInv, ViewFits

\* A state that has nothing.
LEMMA IdleFits ==
  /\ ReadingFits(Idle, finalized, Finals, Last)
  /\ Idle = [pc |-> Idle.pc, state |-> Idle.state, run |-> Idle.run]
BY DEF Idle, ReadingFits

\* The session row, and for the views over HTTP its run, are read.
LEMMA ReadSessionKeeps ==
  ASSUME ViewsInv, NEW c \in Channels, ReadSession(c)
  PROVE  ViewsInv'
<1> DEFINE kind == CASE c = "socket" -> "fresh"
                     [] c = "poll" /\ game.run \in finalized -> "finalized"
                     [] OTHER -> "open"
           x == [pc |-> "base", state |-> game, run |-> kind]
<1>1. UNCHANGED <<server, view>> /\ reading' = [reading EXCEPT ![c] = x]
  BY DEF ReadSession
<1>2. /\ game \in [revision : Nat, status : Statuses, phase : Phases, run : 0 .. Runs]
      /\ game.status \in Ended => game.phase = "final"
      /\ game.phase = "results" => game.run \in finalized
  BY DEF ViewsInv, GameInv
<1>3. /\ kind \in {"fresh", "open", "finalized"}
      /\ kind = "finalized" => game.run \in finalized
      /\ kind = "open" => game.run \notin finalized
  BY DEF Channels
<1>4. DOMAIN game = Base
  BY <1>2 DEF Base
<1>5. Told(game, finalized, Finals, Last)
  BY <1>2, <1>4 DEF Told, Has, Base, Keys
<1> HIDE DEF kind
<1>6. /\ x.pc = "base" /\ x.state = game /\ x.run = kind
      /\ x = [pc |-> x.pc, state |-> x.state, run |-> x.run]
  OBVIOUS
<1> HIDE DEF x
<1>7. ReadingFits(x, finalized, Finals, Last)
  BY <1>2, <1>3, <1>4, <1>5, <1>6 DEF ReadingFits
<1> QED BY <1>1, <1>6, <1>7, ReadMove, SameView

\* What every role is told.
LEMMA ReadBaseKeeps ==
  ASSUME ViewsInv, NEW c \in Channels, ReadBase(c)
  PROVE  ViewsInv'
<1> DEFINE s == reading[c].state
           part == [revealed |-> Finalized(c), joined |-> Cardinality(joined),
                    texts |-> Texts(Role)]
           new == part ++ s
           x == [pc |-> "role", state |-> new, run |-> reading[c].run]
<1>1. /\ reading[c].pc = "base" /\ UNCHANGED <<server, view>>
      /\ reading' = [reading EXCEPT ![c].pc = "role", ![c].state = new]
  BY DEF ReadBase
<1>2. /\ Told(s, finalized, Finals, Last) /\ DOMAIN s = Base
      /\ reading[c].run \in {"fresh", "open", "finalized"}
      /\ reading[c].run = "finalized" => s.run \in finalized
      /\ reading[c].run = "open" => s.phase # "results"
      /\ reading[c] = [pc |-> reading[c].pc, state |-> s, run |-> reading[c].run]
  BY <1>1, ReadingIs DEF ReadingFits
<1>3. Cardinality(joined) \in Nat
  BY FS_CardinalityType DEF ViewsInv, GameInv
<1>4. Finalized(c) \in BOOLEAN /\ (Finalized(c) => s.run \in finalized)
  BY <1>2, FinalizedIs
<1>5. /\ DOMAIN part = {"revealed", "joined", "texts"} /\ part["revealed"] = Finalized(c)
      /\ part["joined"] = Cardinality(joined) /\ part["texts"] = Texts(Role)
  OBVIOUS
<1> HIDE DEF part, s
<1>6. /\ DOMAIN new = Common /\ new.revealed = Finalized(c)
      /\ new.joined = Cardinality(joined) /\ new.texts = Texts(Role)
      /\ \A k \in Base : new[k] = s[k]
  <2>1. /\ DOMAIN new = DOMAIN part \cup DOMAIN s
        /\ \A k \in DOMAIN part : new[k] = part[k]
        /\ \A k \in DOMAIN s \ DOMAIN part : new[k] = s[k]
    BY OverIs
  <2>2. new["revealed"] = Finalized(c) /\ new["joined"] = Cardinality(joined)
        /\ new["texts"] = Texts(Role)
    BY <1>5, <2>1
  <2>3. DOMAIN new = Common /\ \A k \in Base : new[k] = s[k]
    BY <1>2, <1>5, <2>1 DEF Base, Common
  <2> HIDE DEF new
  <2> QED BY <2>2, <2>3
<1> HIDE DEF new
<1>7. reading' = [reading EXCEPT ![c] = x]
  <2>1. reading' = [reading EXCEPT ![c] = [reading[c] EXCEPT !.pc = "role", !.state = new]]
    BY <1>1
  <2> QED BY <1>2, <2>1, RecordStep DEF s
<1>8. /\ x.pc = "role" /\ x.state = new /\ x.run = reading[c].run
      /\ x = [pc |-> x.pc, state |-> x.state, run |-> x.run]
  OBVIOUS
<1> HIDE DEF x
<1>9. Told(new, finalized, Finals, Last)
  BY <1>2, <1>3, <1>4, <1>6 DEF Told, Has, Base, Common, Keys
<1>10. new.revealed => Sees(x, finalized)
  BY <1>2, <1>4, <1>6, <1>8, ReadingIs DEF Sees, Base, s
<1>11. ReadingFits(x, finalized, Finals, Last)
  <2>1. new.run = s.run /\ new.phase = s.phase
    BY <1>6 DEF Base
  <2> QED BY <1>2, <1>6, <1>8, <1>9, <1>10, <2>1 DEF ReadingFits
<1> QED BY <1>1, <1>7, <1>8, <1>11, ReadMove, SameView
\* A part of a state, read after the rest.
PartFits(q, s, done, finals, last) ==
  /\ DOMAIN q \subseteq Keys \ Common
  /\ Has(q, "correct") => Role = "display" /\ (q.correct => s.run \in done)
  /\ Has(q, "answered") =>
       /\ Role = "account" /\ q.answered \in Nat
       /\ s.phase = "results" => q.answered = finals[s.run]
  /\ Has(q, "answer") =>
       /\ Role = "participant" /\ q.answer.version \in Nat
       /\ Has(q.answer, "final") => s.run \in done /\ q.answer.final = last[s.run]
  /\ Has(q, "reveal") =>
       /\ q.reveal.run = s.run /\ s.run \in done
       /\ q.reveal.texts = RevealTexts(Role)
  /\ Has(q, "leaderboard") => s.status \in Ended

\* With a part that fits, a state tells what it may.
LEMMA ToldMore ==
  ASSUME NEW s, NEW q, NEW done, NEW finals, NEW last,
         Told(s, done, finals, last), PartFits(q, s, done, finals, last)
  PROVE  Told(q ++ s, done, finals, last)
<1> DEFINE new == q ++ s
<1>1. /\ DOMAIN new = DOMAIN q \cup DOMAIN s
      /\ \A k \in DOMAIN q : new[k] = q[k]
      /\ \A k \in DOMAIN s \ DOMAIN q : new[k] = s[k]
  BY OverIs
<1> HIDE DEF new
<1>2. /\ Base \subseteq DOMAIN s /\ Base \subseteq Common /\ DOMAIN q \cap Common = {}
      /\ \A k \in Base : k \in DOMAIN new /\ new[k] = s[k]
  BY <1>1 DEF Told, PartFits, Common
<1>3. /\ new.revision = s.revision /\ new.status = s.status /\ new.phase = s.phase
      /\ new.run = s.run
  BY <1>2 DEF Base
<1>4. \A k \in {"joined", "revealed", "texts"} : Has(new, k) => Has(s, k) /\ new[k] = s[k]
  BY <1>1, <1>2 DEF Has, Common
<1>5. \A k \in {"correct", "answered", "answer", "reveal", "leaderboard"} : Has(new, k) =>
        (Has(q, k) /\ new[k] = q[k]) \/ (Has(s, k) /\ new[k] = s[k])
  BY <1>1 DEF Has
<1>6. Told(new, done, finals, last)
  BY <1>1, <1>2, <1>3, <1>4, <1>5 DEF Told, PartFits
<1> QED BY <1>6 DEF new

\* A part is read and the reading goes on.
LEMMA PartMove ==
  ASSUME ViewsInv, NEW c \in Channels, NEW pc, NEW q,
         reading' = [reading EXCEPT ![c].pc = pc, ![c].state = q ++ @],
         UNCHANGED <<server, view>>,
         ReadingFits([pc |-> pc, state |-> q ++ reading[c].state, run |-> reading[c].run],
                     finalized, Finals, Last)
  PROVE  ViewsInv'
<1> DEFINE new == q ++ reading[c].state
           x == [pc |-> pc, state |-> new, run |-> reading[c].run]
<1>1. reading' = [reading EXCEPT ![c] = [reading[c] EXCEPT !.pc = pc, !.state = new]]
  OBVIOUS
<1> HIDE DEF new
<1>2. reading' = [reading EXCEPT ![c] = x]
  BY <1>1, ReadingIs, RecordStep
<1>3. x = [pc |-> x.pc, state |-> x.state, run |-> x.run]
  OBVIOUS
<1>4. ReadingFits(x, finalized, Finals, Last)
  BY DEF new
<1> HIDE DEF x
<1> QED BY <1>2, <1>3, <1>4, ReadMove, SameView

\* What is known of a reading that has begun.
LEMMA BegunIs ==
  ASSUME ViewsInv, NEW c \in Channels, reading[c].pc # "idle"
  PROVE  LET s == reading[c].state IN
         /\ Told(s, finalized, Finals, Last)
         /\ reading[c].run \in {"fresh", "open", "finalized"}
         /\ reading[c].run = "finalized" => s.run \in finalized
         /\ reading[c].run = "open" => s.phase # "results"
         /\ Finalized(c) \in BOOLEAN /\ (Finalized(c) => s.run \in finalized)
         /\ s.phase = "results" => Finalized(c)
         /\ s.run \in finalized => s.run \in 1 .. Runs
<1> DEFINE s == reading[c].state
<1>1. /\ Told(s, finalized, Finals, Last)
      /\ reading[c].run \in {"fresh", "open", "finalized"}
      /\ reading[c].run = "finalized" => s.run \in finalized
      /\ reading[c].run = "open" => s.phase # "results"
  BY ReadingIs DEF ReadingFits
<1>2. Finalized(c) \in BOOLEAN /\ (Finalized(c) => s.run \in finalized)
  BY <1>1, FinalizedIs
<1>3. ASSUME s.phase = "results" PROVE Finalized(c)
  <2>1. s.run \in finalized /\ reading[c].run \in {"fresh", "finalized"}
    BY <1>1, <1>3 DEF Told
  <2>2. CASE reading[c].run = "fresh"
    <3>1. Finalized(c) = TRUE
      BY <2>1, <2>2 DEF Finalized
    <3> QED BY <3>1
  <2>3. CASE reading[c].run = "finalized"
    <3>1. Finalized(c) = TRUE
      BY <2>3 DEF Finalized
    <3> QED BY <3>1
  <2> QED BY <2>1, <2>2, <2>3
<1>4. s.run \in finalized => s.run \in 1 .. Runs
  BY DEF ViewsInv, GameInv
<1> QED BY <1>1, <1>2, <1>3, <1>4

\* The answers of a run can be counted.
LEMMA CountIsNat ==
  ASSUME GameInv, NEW r, r \in 1 .. Runs
  PROVE  /\ Cardinality(FinalAnswers(r)) \in Nat /\ Finals[r] = Cardinality(FinalAnswers(r))
         /\ Cardinality({p \in joined : attempts[r][p] > 0}) \in Nat
<1>1. IsFiniteSet(FinalAnswers(r)) /\ IsFiniteSet({p \in joined : attempts[r][p] > 0})
  BY FS_Subset DEF GameInv, FinalAnswers
<1> QED BY <1>1, FS_CardinalityType DEF Finals

\* The results and the table of places that come with a state.
LEMMA ResultsAre ==
  ASSUME ViewsInv, NEW c \in Channels, reading[c].pc # "idle"
  PROVE  LET q == Leaderboard(c) ++ Reveal(c)
             s == reading[c].state
         IN  /\ DOMAIN q \subseteq {"leaderboard", "reveal"}
             /\ Has(q, "leaderboard") => s.status \in Ended
             /\ Has(q, "reveal") <=> Finalized(c)
             /\ Finalized(c) =>
                  /\ q["reveal"].run = s.run /\ q["reveal"].texts = RevealTexts(Role)
                  /\ q["reveal"].answers = Cardinality(FinalAnswers(s.run))
<1> DEFINE s == reading[c].state
           l == Leaderboard(c)
           r == Reveal(c)
           told == [run |-> s.run, texts |-> RevealTexts(Role),
                    answers |-> Cardinality(FinalAnswers(s.run))]
<1>1. /\ DOMAIN l \subseteq {"leaderboard"}
      /\ "leaderboard" \in DOMAIN l => s.status \in Ended
  <2>1. CASE s.status \in Ended
    <3>1. l = [leaderboard |-> finalized]
      BY <2>1 DEF Leaderboard, Ended
    <3>2. DOMAIN [leaderboard |-> finalized] = {"leaderboard"}
      OBVIOUS
    <3> HIDE DEF l
    <3> QED BY <2>1, <3>1, <3>2
  <2>2. CASE s.status \notin Ended
    <3>1. l = NoState
      BY <2>2 DEF Leaderboard, Ended
    <3> HIDE DEF l
    <3> QED BY <3>1 DEF NoState
  <2> QED BY <2>1, <2>2
<1>2. /\ Finalized(c) => DOMAIN r = {"reveal"} /\ r["reveal"] = told
      /\ ~ Finalized(c) => DOMAIN r = {}
  <2>1. CASE Finalized(c)
    <3>1. r = [reveal |-> told]
      BY <2>1 DEF Reveal
    <3>2. DOMAIN [reveal |-> told] = {"reveal"} /\ [reveal |-> told]["reveal"] = told
      OBVIOUS
    <3> HIDE DEF r, told
    <3> QED BY <2>1, <3>1, <3>2
  <2>2. CASE ~ Finalized(c)
    <3>1. r = NoState
      BY <2>2 DEF Reveal
    <3> HIDE DEF r
    <3> QED BY <2>2, <3>1 DEF NoState
  <2> QED BY <2>1, <2>2
<1>3. /\ told.run = s.run /\ told.texts = RevealTexts(Role)
      /\ told.answers = Cardinality(FinalAnswers(s.run))
  OBVIOUS
<1> HIDE DEF l, r, told, s
<1>4. /\ DOMAIN (l ++ r) = DOMAIN l \cup DOMAIN r
      /\ \A k \in DOMAIN l : (l ++ r)[k] = l[k]
      /\ \A k \in DOMAIN r \ DOMAIN l : (l ++ r)[k] = r[k]
  BY OverIs
<1>5. /\ DOMAIN (l ++ r) \subseteq {"leaderboard", "reveal"}
      /\ "leaderboard" \in DOMAIN (l ++ r) => s.status \in Ended
      /\ "reveal" \in DOMAIN (l ++ r) <=> Finalized(c)
      /\ Finalized(c) => (l ++ r)["reveal"] = told
  BY <1>1, <1>2, <1>4
<1> QED BY <1>3, <1>5 DEF l, r, s, Has
\* The own answer of a participant.
LEMMA AnswerIs ==
  ASSUME ViewsInv, NEW c \in Channels, reading[c].pc # "idle", Role = "participant"
  PROVE  LET q == [answer |-> ParticipantAnswer(c)]
             s == reading[c].state
         IN  DOMAIN q = {"answer"} /\ PartFits(q, s, finalized, Finals, Last)
<1> DEFINE s == reading[c].state
           a == ParticipantAnswer(c)
           q == [answer |-> a]
<1>1. /\ Finalized(c) \in BOOLEAN /\ (Finalized(c) => s.run \in finalized)
      /\ s.run \in 0 .. Runs /\ Runs \in Nat /\ Me \in Persons
  BY BegunIs, RoleAssumption DEF Told
<1>2. /\ a.version \in Nat
      /\ Has(a, "final") => s.run \in finalized /\ a.final = Last[s.run]
  <2>1. CASE s.run = 0
    <3>1. a = [version |-> 0, choice |-> 0]
      BY <2>1 DEF ParticipantAnswer
    <3> HIDE DEF a
    <3> QED BY <3>1 DEF Has
  <2>2. CASE s.run # 0 /\ Finalized(c)
    <3>1. a = [version |-> attempts[s.run][Me], choice |-> inTime[s.run][Me],
               final |-> inTime[s.run][Me]]
      BY <2>2 DEF ParticipantAnswer
    <3> HIDE DEF a
    <3>2. s.run \in 1 .. Runs
      BY <1>1, <2>2
    <3>3. attempts[s.run][Me] \in Nat /\ Last[s.run] = inTime[s.run][Me]
      BY <1>1, <3>2 DEF ViewsInv, GameInv, Last
    <3> QED BY <1>1, <2>2, <3>1, <3>3 DEF Has
  <2>3. CASE s.run # 0 /\ ~ Finalized(c)
    <3>1. a = [version |-> attempts[s.run][Me], choice |-> attempts[s.run][Me]]
      BY <2>3 DEF ParticipantAnswer
    <3> HIDE DEF a
    <3>2. s.run \in 1 .. Runs
      BY <1>1, <2>3
    <3>3. attempts[s.run][Me] \in Nat
      BY <1>1, <3>2 DEF ViewsInv, GameInv
    <3> QED BY <3>1, <3>3 DEF Has
  <2> QED BY <1>1, <2>1, <2>2, <2>3
<1> HIDE DEF a, s
<1>3. DOMAIN q = {"answer"} /\ q["answer"] = a
  OBVIOUS
<1> HIDE DEF q
<1>4. PartFits(q, s, finalized, Finals, Last)
  BY <1>2, <1>3 DEF PartFits, Has, Common, Base, Keys
<1> QED BY <1>3, <1>4 DEF q, a, s

\* The number of those who answered.
LEMMA AnsweredIs ==
  ASSUME ViewsInv, NEW c \in Channels, reading[c].pc # "idle"
  PROVE  LET s == reading[c].state IN
         /\ AnsweredCount(c) \in Nat
         /\ Finalized(c) => AnsweredCount(c) = Cardinality(FinalAnswers(s.run))
         /\ s.phase = "results" => AnsweredCount(c) = Finals[s.run]
<1> DEFINE s == reading[c].state
<1>1. /\ Finalized(c) \in BOOLEAN /\ (Finalized(c) => s.run \in 1 .. Runs)
      /\ s.run \in 0 .. Runs /\ Runs \in Nat /\ (s.phase = "results" => Finalized(c))
  BY BegunIs, RoleAssumption DEF Told
<1>2. CASE s.run = 0
  <2>1. AnsweredCount(c) = 0
    BY <1>2 DEF AnsweredCount
  <2> QED BY <1>1, <1>2, <2>1
<1>3. CASE s.run # 0 /\ Finalized(c)
  <2>1. AnsweredCount(c) = Cardinality(FinalAnswers(s.run))
    BY <1>3 DEF AnsweredCount
  <2> QED BY <1>1, <1>3, <2>1, CountIsNat DEF ViewsInv
<1>4. CASE s.run # 0 /\ ~ Finalized(c)
  <2>1. AnsweredCount(c) = Cardinality({p \in joined : attempts[s.run][p] > 0})
    BY <1>4 DEF AnsweredCount
  <2>2. s.run \in 1 .. Runs
    BY <1>1, <1>4
  <2> QED BY <1>1, <1>4, <2>1, <2>2, CountIsNat DEF ViewsInv
<1> QED BY <1>1, <1>2, <1>3, <1>4

\* What the teacher is told besides.
LEMMA AccountPartIs ==
  ASSUME ViewsInv, NEW c \in Channels, reading[c].pc # "idle", Role = "account"
  PROVE  LET q == AccountPart(c)
             s == reading[c].state
         IN  /\ DOMAIN q \subseteq {"leaderboard", "reveal", "answered"} /\ Has(q, "answered")
             /\ PartFits(q, s, finalized, Finals, Last)
             /\ Has(q, "reveal") => q.answered = q.reveal.answers
<1> DEFINE s == reading[c].state
           r == Leaderboard(c) ++ Reveal(c)
           n == [answered |-> AnsweredCount(c)]
           q == r ++ n
<1>1. /\ DOMAIN r \subseteq {"leaderboard", "reveal"}
      /\ "leaderboard" \in DOMAIN r => s.status \in Ended
      /\ "reveal" \in DOMAIN r <=> Finalized(c)
      /\ Finalized(c) => /\ r["reveal"].run = s.run /\ r["reveal"].texts = RevealTexts(Role)
                         /\ r["reveal"].answers = Cardinality(FinalAnswers(s.run))
  BY ResultsAre DEF Has
<1>2. /\ AnsweredCount(c) \in Nat /\ (Finalized(c) => s.run \in finalized)
      /\ Finalized(c) => AnsweredCount(c) = Cardinality(FinalAnswers(s.run))
      /\ s.phase = "results" => AnsweredCount(c) = Finals[s.run]
  BY AnsweredIs, BegunIs
<1>3. DOMAIN n = {"answered"} /\ n["answered"] = AnsweredCount(c)
  OBVIOUS
<1>4. AccountPart(c) = q
  BY DEF AccountPart
<1> HIDE DEF r, n, s
<1>5. /\ DOMAIN q = DOMAIN r \cup {"answered"} /\ q["answered"] = AnsweredCount(c)
      /\ \A k \in DOMAIN r : q[k] = r[k]
  <2>1. /\ DOMAIN q = DOMAIN r \cup DOMAIN n
        /\ \A k \in DOMAIN r : q[k] = r[k]
        /\ \A k \in DOMAIN n \ DOMAIN r : q[k] = n[k]
    BY OverIs
  <2>2. "answered" \in DOMAIN n \ DOMAIN r
    BY <1>1, <1>3
  <2> HIDE DEF q
  <2>3. q["answered"] = AnsweredCount(c)
    BY <1>3, <2>1, <2>2
  <2> QED BY <1>3, <2>1, <2>3
<1> HIDE DEF q
<1>6. PartFits(q, s, finalized, Finals, Last)
  BY <1>1, <1>2, <1>5 DEF PartFits, Has, Common, Base, Keys
<1>7. /\ DOMAIN q \subseteq {"leaderboard", "reveal", "answered"} /\ Has(q, "answered")
      /\ Has(q, "reveal") => q.answered = q.reveal.answers
  BY <1>1, <1>2, <1>5 DEF Has
<1> QED BY <1>4, <1>6, <1>7 DEF s

\* What a display is told besides.
LEMMA DisplayPartIs ==
  ASSUME ViewsInv, NEW c \in Channels, reading[c].pc # "idle", Role = "display"
  PROVE  LET q == DisplayPart(c)
             s == reading[c].state
         IN  /\ DOMAIN q \subseteq {"leaderboard", "reveal", "correct"} /\ Has(q, "correct")
             /\ PartFits(q, s, finalized, Finals, Last)
<1> DEFINE s == reading[c].state
           r == Leaderboard(c) ++ Reveal(c)
           n == [correct |-> Finalized(c)]
           q == r ++ n
<1>1. /\ DOMAIN r \subseteq {"leaderboard", "reveal"}
      /\ "leaderboard" \in DOMAIN r => s.status \in Ended
      /\ "reveal" \in DOMAIN r <=> Finalized(c)
      /\ Finalized(c) => r["reveal"].run = s.run /\ r["reveal"].texts = RevealTexts(Role)
  BY ResultsAre DEF Has
<1>2. Finalized(c) => s.run \in finalized
  BY BegunIs
<1>3. DOMAIN n = {"correct"} /\ n["correct"] = Finalized(c)
  OBVIOUS
<1>4. DisplayPart(c) = q
  BY DEF DisplayPart
<1> HIDE DEF r, n, s
<1>5. /\ DOMAIN q = DOMAIN r \cup {"correct"} /\ q["correct"] = Finalized(c)
      /\ \A k \in DOMAIN r : q[k] = r[k]
  <2>1. /\ DOMAIN q = DOMAIN r \cup DOMAIN n
        /\ \A k \in DOMAIN r : q[k] = r[k]
        /\ \A k \in DOMAIN n \ DOMAIN r : q[k] = n[k]
    BY OverIs
  <2>2. "correct" \in DOMAIN n \ DOMAIN r
    BY <1>1, <1>3
  <2> HIDE DEF q
  <2>3. q["correct"] = Finalized(c)
    BY <1>3, <2>1, <2>2
  <2> QED BY <1>3, <2>1, <2>3
<1> HIDE DEF q
<1>6. PartFits(q, s, finalized, Finals, Last)
  BY <1>1, <1>2, <1>5 DEF PartFits, Has, Common, Base, Keys
<1>7. DOMAIN q \subseteq {"leaderboard", "reveal", "correct"} /\ Has(q, "correct")
  BY <1>1, <1>5 DEF Has
<1> QED BY <1>4, <1>6, <1>7 DEF s

\* The part of the role is read.
LEMMA ReadRoleKeeps ==
  ASSUME ViewsInv, NEW c \in Channels, ReadRole(c)
  PROVE  ViewsInv'
<1> DEFINE s == reading[c].state
<1>1. reading[c].pc = "role" /\ UNCHANGED <<server, view>>
  BY DEF ReadRole
<1>2. /\ Told(s, finalized, Finals, Last)
      /\ reading[c].run \in {"fresh", "open", "finalized"}
      /\ reading[c].run = "finalized" => s.run \in finalized
      /\ reading[c].run = "open" => s.phase # "results"
      /\ DOMAIN s = Common /\ (s.revealed => Finalized(c))
  BY <1>1, ReadingIs DEF ReadingFits
<1>3. ASSUME NEW q, PartFits(q, s, finalized, Finals, Last)
      PROVE  /\ Told(q ++ s, finalized, Finals, Last)
             /\ DOMAIN (q ++ s) = DOMAIN q \cup Common
             /\ \A k \in DOMAIN q : (q ++ s)[k] = q[k]
             /\ \A k \in Common : (q ++ s)[k] = s[k]
  <2>1. Told(q ++ s, finalized, Finals, Last)
    BY <1>2, <1>3, ToldMore
  <2>2. /\ DOMAIN (q ++ s) = DOMAIN q \cup DOMAIN s
        /\ \A k \in DOMAIN q : (q ++ s)[k] = q[k]
        /\ \A k \in DOMAIN s \ DOMAIN q : (q ++ s)[k] = s[k]
    BY OverIs
  <2>3. \A k \in Common : k \in DOMAIN s \ DOMAIN q
    BY <1>2, <1>3 DEF PartFits
  <2> HIDE DEF s
  <2> QED BY <1>2, <2>1, <2>2, <2>3
<1>4. CASE Role = "participant"
  <2> DEFINE q == [answer |-> ParticipantAnswer(c)]
             x == [pc |-> "reveal", state |-> q ++ s, run |-> reading[c].run]
  <2>1. reading' = [reading EXCEPT ![c].pc = "reveal", ![c].state = q ++ @]
    BY <1>4 DEF ReadRole
  <2>2. DOMAIN q = {"answer"} /\ PartFits(q, s, finalized, Finals, Last)
    BY <1>1, <1>4, AnswerIs
  <2> HIDE DEF q
  <2>3. /\ Told(q ++ s, finalized, Finals, Last)
        /\ DOMAIN (q ++ s) = Common \cup {"answer"}
        /\ (q ++ s).run = s.run /\ (q ++ s).phase = s.phase /\ (q ++ s).revealed = s.revealed
    BY <1>3, <2>2 DEF Common, Base
  <2>4. x.pc = "reveal" /\ x.state = q ++ s /\ x.run = reading[c].run
    OBVIOUS
  <2> HIDE DEF x
  <2>5. s.revealed => Sees(x, finalized)
    BY <1>2, <2>3, <2>4, ReadingIs DEF Sees
  <2>6. ReadingFits(x, finalized, Finals, Last)
    BY <1>2, <1>4, <2>3, <2>4, <2>5 DEF ReadingFits
  <2> QED BY <1>1, <2>1, <2>6, PartMove DEF x
<1>5. ASSUME NEW q, PartFits(q, s, finalized, Finals, Last), Role # "participant",
             Role = "account" => Has(q, "answered"), Role = "display" => Has(q, "correct"),
             Has(q, "answered") /\ Has(q, "reveal") => q.answered = q.reveal.answers,
             reading' = [reading EXCEPT ![c].pc = "ready", ![c].state = q ++ @]
      PROVE  ViewsInv'
  <2> DEFINE x == [pc |-> "ready", state |-> q ++ s, run |-> reading[c].run]
  <2>1. /\ Told(q ++ s, finalized, Finals, Last)
        /\ DOMAIN (q ++ s) = DOMAIN q \cup Common
        /\ \A k \in DOMAIN q : (q ++ s)[k] = q[k]
        /\ (q ++ s).run = s.run /\ (q ++ s).phase = s.phase
    BY <1>3, <1>5 DEF Common, Base
  <2>2. Whole(q ++ s)
    BY <1>5, <2>1 DEF Whole, Has
  <2>3. Has(q ++ s, "answered") /\ Has(q ++ s, "reveal") =>
          (q ++ s).answered = (q ++ s).reveal.answers
    BY <1>5, <2>1 DEF Has, Common, Base
  <2>4. x.pc = "ready" /\ x.state = q ++ s /\ x.run = reading[c].run
    OBVIOUS
  <2> HIDE DEF x
  <2>5. ReadingFits(x, finalized, Finals, Last)
    BY <1>2, <1>5, <2>1, <2>2, <2>3, <2>4 DEF ReadingFits
  <2> QED BY <1>1, <1>5, <2>5, PartMove DEF x
<1>6. CASE Role = "account"
  <2>1. reading' = [reading EXCEPT ![c].pc = "ready", ![c].state = AccountPart(c) ++ @]
    BY <1>6 DEF ReadRole
  <2> QED BY <1>1, <1>5, <1>6, <2>1, AccountPartIs
<1>7. CASE Role = "display"
  <2>1. reading' = [reading EXCEPT ![c].pc = "ready", ![c].state = DisplayPart(c) ++ @]
    BY <1>7 DEF ReadRole
  <2>2. ~ Has(DisplayPart(c), "answered")
    BY <1>1, <1>7, DisplayPartIs DEF Has
  <2> QED BY <1>1, <1>5, <1>7, <2>1, <2>2, DisplayPartIs
<1> QED BY <1>4, <1>6, <1>7, RoleAssumption

\* A participant's results are read last.
LEMMA ReadRevealKeeps ==
  ASSUME ViewsInv, NEW c \in Channels, ReadReveal(c)
  PROVE  ViewsInv'
<1> DEFINE s == reading[c].state
           q == Leaderboard(c) ++ Reveal(c)
           x == [pc |-> "ready", state |-> q ++ s, run |-> reading[c].run]
<1>1. /\ reading[c].pc = "reveal" /\ UNCHANGED <<server, view>>
      /\ reading' = [reading EXCEPT ![c].pc = "ready", ![c].state = q ++ @]
  BY DEF ReadReveal
<1>2. /\ Told(s, finalized, Finals, Last)
      /\ reading[c].run \in {"fresh", "open", "finalized"}
      /\ reading[c].run = "finalized" => s.run \in finalized
      /\ reading[c].run = "open" => s.phase # "results"
      /\ DOMAIN s = Common \cup {"answer"} /\ Role = "participant"
      /\ s.revealed => Finalized(c)
  BY <1>1, ReadingIs DEF ReadingFits
<1>3. /\ DOMAIN q \subseteq {"leaderboard", "reveal"}
      /\ Has(q, "leaderboard") => s.status \in Ended
      /\ Has(q, "reveal") <=> Finalized(c)
      /\ Finalized(c) => q["reveal"].run = s.run /\ q["reveal"].texts = RevealTexts(Role)
      /\ Finalized(c) => s.run \in finalized
  BY <1>1, ResultsAre, BegunIs
<1> HIDE DEF q
<1>4. PartFits(q, s, finalized, Finals, Last)
  BY <1>3 DEF PartFits, Has, Common, Base, Keys
<1>5. /\ Told(q ++ s, finalized, Finals, Last)
      /\ DOMAIN (q ++ s) = DOMAIN q \cup DOMAIN s
      /\ \A k \in Common : (q ++ s)[k] = s[k]
  <2>1. Told(q ++ s, finalized, Finals, Last)
    BY <1>2, <1>4, ToldMore
  <2>2. /\ DOMAIN (q ++ s) = DOMAIN q \cup DOMAIN s
        /\ \A k \in DOMAIN s \ DOMAIN q : (q ++ s)[k] = s[k]
    BY OverIs
  <2>3. \A k \in Common : k \in DOMAIN s \ DOMAIN q
    BY <1>2, <1>4 DEF PartFits
  <2> HIDE DEF s
  <2> QED BY <2>1, <2>2, <2>3
<1>6. /\ (q ++ s).run = s.run /\ (q ++ s).phase = s.phase /\ (q ++ s).revealed = s.revealed
      /\ Whole(q ++ s) /\ (s.revealed => Has(q ++ s, "reveal"))
      /\ ~ Has(q ++ s, "answered")
  BY <1>2, <1>3, <1>5 DEF Whole, Has, Common, Base
<1>7. x.pc = "ready" /\ x.state = q ++ s /\ x.run = reading[c].run
  OBVIOUS
<1> HIDE DEF x
<1>8. ReadingFits(x, finalized, Finals, Last)
  BY <1>2, <1>5, <1>6, <1>7 DEF ReadingFits
<1> QED BY <1>1, <1>8, PartMove DEF x
-----------------------------------------------------------------------------
(* Taking a state in.                                                       *)

\* What the screen and what arrives have to be.
Fits(s, done, finals, last) == Told(s, done, finals, last) /\ Whole(s)

\* What a merge n of a state s with the screen has of the state alone.
Merged(n, s) ==
  /\ DOMAIN s \subseteq DOMAIN n
  /\ \A k \in Base \cup {"revealed", "texts"} : n[k] = s[k]
  /\ Has(s, "answer") => n.answer = s.answer

\* Two states of one revision.
LEMMA SameRevisionFits ==
  ASSUME NEW v, NEW s, NEW done, NEW finals, NEW last,
         Fits(v, done, finals, last), Fits(s, done, finals, last), SameStableContext(v, s)
  PROVE  LET n == KeepCounters(s ++ v, v) IN
         /\ Fits(n, done, finals, last) /\ Merged(n, s)
         /\ n.joined >= v.joined
         /\ Has(v, "answered") => n.answered >= v.answered
         /\ Has(v, "reveal") => Has(n, "reveal")
<1> DEFINE m == s ++ v
           n == KeepCounters(m, v)
<1>1. /\ DOMAIN m = DOMAIN s \cup DOMAIN v
      /\ \A k \in DOMAIN s : m[k] = s[k]
      /\ \A k \in DOMAIN v \ DOMAIN s : m[k] = v[k]
  BY OverIs
<1>2. /\ DOMAIN n = DOMAIN m
      /\ \A k \in DOMAIN m \ {"joined", "answered"} : n[k] = m[k]
      /\ \A k \in {"joined", "answered"} :
           k \in DOMAIN m /\ k \in DOMAIN v => n[k] = Later(m[k], v[k])
  BY DEF KeepCounters, Has
<1> HIDE DEF m, n
<1>3. /\ Common \subseteq DOMAIN s /\ Common \subseteq DOMAIN v
      /\ s.joined \in Nat /\ v.joined \in Nat
  BY DEF Fits, Told, Whole, Has, Common
<1>4. n.joined = Later(s.joined, v.joined)
  <2>1. "joined" \in DOMAIN s /\ "joined" \in DOMAIN v
    BY <1>3 DEF Common
  <2> QED BY <1>1, <1>2, <2>1
<1>5. n.joined \in Nat /\ n.joined >= v.joined
  BY <1>3, <1>4 DEF Later
<1>6. \A k \in Base \cup {"revealed", "texts"} : n[k] = s[k]
  <2>1. \A k \in Base \cup {"revealed", "texts"} :
          k \in DOMAIN s /\ k \notin {"joined", "answered"}
    BY <1>3 DEF Common, Base
  <2> QED BY <1>1, <1>2, <2>1
<1>7. /\ n.revision = s.revision /\ n.status = s.status /\ n.phase = s.phase
      /\ n.run = s.run /\ n.revealed = s.revealed /\ n.texts = s.texts
      /\ v.status = s.status /\ v.phase = s.phase /\ v.run = s.run
  BY <1>6 DEF Base, SameStableContext
<1>8. \A k \in {"correct", "answer", "reveal", "leaderboard"} :
        /\ Has(s, k) => Has(n, k) /\ n[k] = s[k]
        /\ Has(n, k) /\ ~ Has(s, k) => Has(v, k) /\ n[k] = v[k]
        /\ Has(v, k) => Has(n, k)
  BY <1>1, <1>2 DEF Has
<1>9. Has(n, "answered") \/ Has(v, "answered") =>
        /\ Role = "account" /\ n.answered \in Nat /\ n.answered >= v.answered
        /\ s.phase = "results" => n.answered = finals[s.run]
  <2> SUFFICES ASSUME Has(n, "answered") \/ Has(v, "answered")
               PROVE  /\ Role = "account" /\ n.answered \in Nat /\ n.answered >= v.answered
                      /\ s.phase = "results" => n.answered = finals[s.run]
    OBVIOUS
  <2>1. Has(s, "answered") \/ Has(v, "answered")
    BY <1>1, <1>2 DEF Has
  <2>2. Role = "account"
    BY <2>1 DEF Fits, Told
  <2>3. Has(s, "answered") /\ Has(v, "answered")
    BY <2>2 DEF Fits, Whole
  <2>4. n.answered = Later(s.answered, v.answered)
    BY <1>1, <1>2, <2>3 DEF Has
  <2>5. /\ s.answered \in Nat /\ v.answered \in Nat
        /\ s.phase = "results" => s.answered = finals[s.run] /\ v.answered = finals[s.run]
    BY <1>7, <2>3 DEF Fits, Told
  <2>6. Later(s.answered, v.answered) \in {s.answered, v.answered}
        /\ Later(s.answered, v.answered) >= v.answered
    BY <2>5 DEF Later
  <2> QED BY <2>2, <2>4, <2>5, <2>6
<1>10. Common \subseteq DOMAIN n /\ DOMAIN s \subseteq DOMAIN n
  BY <1>1, <1>2, <1>3
<1>11. Told(n, done, finals, last)
  <2>1. /\ Base \subseteq DOMAIN n /\ n.revision \in Nat /\ n.run \in 0 .. Runs
        /\ n.status \in Ended => n.phase = "final"
        /\ n.phase = "results" => n.run \in done
        /\ Has(n, "joined") => n.joined \in Nat
        /\ Has(n, "revealed") => n.revealed \in BOOLEAN /\ (n.revealed => n.run \in done)
        /\ Has(n, "texts") => n.texts = Texts(Role)
    BY <1>3, <1>5, <1>7, <1>10 DEF Fits, Told, Has, Common
  <2>2. Has(n, "correct") => Role = "display" /\ (n.correct => n.run \in done)
    BY <1>7, <1>8 DEF Fits, Told
  <2>3. Has(n, "answer") =>
          /\ Role = "participant" /\ n.answer.version \in Nat
          /\ Has(n.answer, "final") => n.run \in done /\ n.answer.final = last[n.run]
    BY <1>7, <1>8 DEF Fits, Told
  <2>4. /\ Has(n, "reveal") =>
             n.reveal.run = n.run /\ n.run \in done /\ n.reveal.texts = RevealTexts(Role)
        /\ Has(n, "leaderboard") => n.status \in Ended
    BY <1>7, <1>8 DEF Fits, Told
  <2>5. Has(n, "answered") =>
          /\ Role = "account" /\ n.answered \in Nat
          /\ n.phase = "results" => n.answered = finals[n.run]
    BY <1>7, <1>9
  <2>6. DOMAIN n \subseteq Keys
    BY <1>1, <1>2 DEF Fits, Told
  <2> QED BY <2>1, <2>2, <2>3, <2>4, <2>5, <2>6 DEF Told
<1>12. Whole(n)
  BY <1>1, <1>2, <1>10 DEF Fits, Whole, Has
<1>13. Merged(n, s)
  BY <1>6, <1>8, <1>10 DEF Merged
<1> QED BY <1>5, <1>8, <1>9, <1>11, <1>12, <1>13 DEF Fits, m, n

\* A state of a later revision.
LEMMA NewRevisionFits ==
  ASSUME NEW v, NEW s, NEW done, NEW finals, NEW last,
         Fits(v, done, finals, last), Fits(s, done, finals, last)
  PROVE  LET n == s ++ Without(v, {"reveal", "leaderboard"}) IN
         Fits(n, done, finals, last) /\ Merged(n, s)
<1> DEFINE o == Without(v, {"reveal", "leaderboard"})
           n == s ++ o
<1>1. /\ DOMAIN n = DOMAIN s \cup DOMAIN o
      /\ \A k \in DOMAIN s : n[k] = s[k]
      /\ \A k \in DOMAIN o \ DOMAIN s : n[k] = o[k]
  BY OverIs
<1>2. DOMAIN o = DOMAIN v \ {"reveal", "leaderboard"}
  BY WithoutIs
<1> HIDE DEF o, n
<1>3. Common \subseteq DOMAIN s
  BY DEF Fits, Whole
<1>4. \A k \in Common : k \in DOMAIN n /\ n[k] = s[k]
  BY <1>1, <1>3
<1>5. /\ n.revision = s.revision /\ n.status = s.status /\ n.phase = s.phase
      /\ n.run = s.run /\ n.revealed = s.revealed /\ n.joined = s.joined /\ n.texts = s.texts
  BY <1>4 DEF Common, Base
<1>6. \A k \in {"reveal", "leaderboard", "answer", "answered", "correct"} :
        Has(n, k) => Has(s, k) /\ n[k] = s[k]
  <2>1. \A k \in {"answer", "answered", "correct"} : Has(v, k) => Has(s, k)
    BY DEF Fits, Told, Whole
  <2> QED BY <1>1, <1>2, <2>1 DEF Has
<1>7. Told(n, done, finals, last)
  <2>1. /\ Base \subseteq DOMAIN n /\ n.revision \in Nat /\ n.run \in 0 .. Runs
        /\ n.status \in Ended => n.phase = "final"
        /\ n.phase = "results" => n.run \in done
        /\ Has(n, "joined") => n.joined \in Nat
        /\ Has(n, "revealed") => n.revealed \in BOOLEAN /\ (n.revealed => n.run \in done)
        /\ Has(n, "texts") => n.texts = Texts(Role)
    BY <1>3, <1>4, <1>5 DEF Fits, Told, Has, Common
  <2>2. Has(n, "correct") => Role = "display" /\ (n.correct => n.run \in done)
    BY <1>5, <1>6 DEF Fits, Told
  <2>3. Has(n, "answer") =>
          /\ Role = "participant" /\ n.answer.version \in Nat
          /\ Has(n.answer, "final") => n.run \in done /\ n.answer.final = last[n.run]
    BY <1>5, <1>6 DEF Fits, Told
  <2>4. /\ Has(n, "reveal") =>
             n.reveal.run = n.run /\ n.run \in done /\ n.reveal.texts = RevealTexts(Role)
        /\ Has(n, "leaderboard") => n.status \in Ended
    BY <1>5, <1>6 DEF Fits, Told
  <2>5. Has(n, "answered") =>
          /\ Role = "account" /\ n.answered \in Nat
          /\ n.phase = "results" => n.answered = finals[n.run]
    BY <1>5, <1>6 DEF Fits, Told
  <2>6. DOMAIN n \subseteq Keys
    BY <1>1, <1>2 DEF Fits, Told
  <2> QED BY <2>1, <2>2, <2>3, <2>4, <2>5, <2>6 DEF Told
<1>8. Whole(n)
  BY <1>1, <1>3 DEF Fits, Whole, Has
<1>9. Merged(n, s)
  BY <1>1, <1>3, <1>4 DEF Merged, Has, Common
<1> QED BY <1>7, <1>8, <1>9 DEF Fits, n, o

\* The final answer that a participant sees stays.
LEMMA FinalKeptFits ==
  ASSUME NEW v, NEW n, NEW done, NEW finals, NEW last, Role = "participant",
         Fits(v, done, finals, last), Fits(n, done, finals, last), n.run = v.run, IsFinal(v)
  PROVE  LET w == FinalKept(n, v) IN
         /\ Fits(w, done, finals, last) /\ IsFinal(w) /\ w.answer = v.answer
         /\ \A k \in Base \cup {"joined"} : w[k] = n[k]
         /\ Has(v, "reveal") => Has(w, "reveal")
<1> DEFINE a == [answer |-> v.answer, revealed |-> TRUE]
           b == IF Has(v, "reveal") THEN [reveal |-> v.reveal] ELSE NoState
           q == a ++ b
           w == q ++ n
<1>1. FinalKept(n, v) = w
  BY DEF FinalKept
<1>2. DOMAIN a = {"answer", "revealed"} /\ a["answer"] = v.answer /\ a["revealed"] = TRUE
  OBVIOUS
<1>3. /\ Has(v, "reveal") => DOMAIN b = {"reveal"} /\ b["reveal"] = v.reveal
      /\ ~ Has(v, "reveal") => DOMAIN b = {}
  BY DEF NoState
<1> HIDE DEF a, b
<1>4. /\ DOMAIN q = DOMAIN a \cup DOMAIN b
      /\ \A k \in DOMAIN a : q[k] = a[k]
      /\ \A k \in DOMAIN b \ DOMAIN a : q[k] = b[k]
  BY OverIs
<1> HIDE DEF q
<1>5. /\ DOMAIN q \subseteq {"answer", "revealed", "reveal"}
      /\ {"answer", "revealed"} \subseteq DOMAIN q
      /\ q["answer"] = v.answer /\ q["revealed"] = TRUE
      /\ Has(v, "reveal") <=> "reveal" \in DOMAIN q
      /\ "reveal" \in DOMAIN q => q["reveal"] = v.reveal
  BY <1>2, <1>3, <1>4
<1>6. /\ DOMAIN w = DOMAIN q \cup DOMAIN n
      /\ \A k \in DOMAIN q : w[k] = q[k]
      /\ \A k \in DOMAIN n \ DOMAIN q : w[k] = n[k]
  BY OverIs
<1> HIDE DEF w
<1>7. /\ Has(w, "answer") /\ w.answer = v.answer /\ Has(w, "revealed") /\ w.revealed = TRUE
      /\ Has(v, "reveal") => Has(w, "reveal") /\ w.reveal = v.reveal
      /\ ~ Has(v, "reveal") /\ Has(w, "reveal") => Has(n, "reveal") /\ w.reveal = n.reveal
  BY <1>5, <1>6 DEF Has
<1>8. Common \subseteq DOMAIN n
  BY DEF Fits, Whole
<1>9. \A k \in Base \cup {"joined", "texts"} : k \in DOMAIN w /\ w[k] = n[k]
  BY <1>5, <1>6, <1>8 DEF Common, Base
<1>10. /\ w.revision = n.revision /\ w.status = n.status /\ w.phase = n.phase
       /\ w.run = n.run /\ w.joined = n.joined /\ w.texts = n.texts
  BY <1>9 DEF Base
<1>11. /\ \A k \in {"correct", "answered", "leaderboard"} :
            Has(w, k) => Has(n, k) /\ w[k] = n[k]
  BY <1>5, <1>6 DEF Has
<1>12. /\ Has(v, "answer") /\ Has(v.answer, "final") /\ v.run \in done
       /\ v.answer.final = last[v.run] /\ v.answer.version \in Nat
  BY DEF IsFinal, Fits, Told
<1>13. Told(w, done, finals, last)
  <2>1. /\ Base \subseteq DOMAIN w /\ w.revision \in Nat /\ w.run \in 0 .. Runs
        /\ w.status \in Ended => w.phase = "final"
        /\ w.phase = "results" => w.run \in done
        /\ Has(w, "joined") => w.joined \in Nat
        /\ Has(w, "revealed") => w.revealed \in BOOLEAN /\ (w.revealed => w.run \in done)
        /\ Has(w, "texts") => w.texts = Texts(Role)
    BY <1>7, <1>8, <1>9, <1>10, <1>12 DEF Fits, Told, Has, Common
  <2>2. Has(w, "correct") => Role = "display" /\ (w.correct => w.run \in done)
    BY <1>10, <1>11 DEF Fits, Told
  <2>3. Has(w, "answer") =>
          /\ Role = "participant" /\ w.answer.version \in Nat
          /\ Has(w.answer, "final") => w.run \in done /\ w.answer.final = last[w.run]
    BY <1>7, <1>10, <1>12
  <2>4. Has(w, "reveal") =>
          w.reveal.run = w.run /\ w.run \in done /\ w.reveal.texts = RevealTexts(Role)
    BY <1>7, <1>10 DEF Fits, Told
  <2>5. Has(w, "leaderboard") => w.status \in Ended
    BY <1>10, <1>11 DEF Fits, Told
  <2>6. Has(w, "answered") =>
          /\ Role = "account" /\ w.answered \in Nat
          /\ w.phase = "results" => w.answered = finals[w.run]
    BY <1>10, <1>11 DEF Fits, Told
  <2>7. DOMAIN w \subseteq Keys
    BY <1>5, <1>6 DEF Fits, Told, Keys
  <2> QED BY <2>1, <2>2, <2>3, <2>4, <2>5, <2>6, <2>7 DEF Told
<1>14. Whole(w)
  BY <1>6, <1>7, <1>8 DEF Whole
<1>15. IsFinal(w)
  BY <1>7, <1>12 DEF IsFinal
<1> QED BY <1>1, <1>7, <1>9, <1>13, <1>14, <1>15 DEF Fits

\* What a state w keeps of a merge n with the screen v.
Kept(w, n, v, preserve, done, finals, last) ==
  /\ Fits(w, done, finals, last)
  /\ \A k \in Base \cup {"joined"} : w[k] = n[k]
  /\ Has(n, "answered") => w.answered = n.answered
  /\ preserve /\ Has(v, "answer") =>
       /\ ~ IsFinal(w) => w.answer.version >= v.answer.version
       /\ Role = "participant" /\ IsFinal(v) =>
            /\ IsFinal(w) /\ w.answer.final = v.answer.final
            /\ Has(v, "reveal") => Has(w, "reveal")

\* What becomes of the own answer, for every role.
LEMMA KeepAnswerFits ==
  ASSUME NEW v, NEW s, NEW n, NEW done, NEW finals, NEW last, NEW preserve \in BOOLEAN,
         Fits(v, done, finals, last), Fits(s, done, finals, last),
         Fits(n, done, finals, last), Merged(n, s), preserve => s.run = v.run,
         Role = "participant" /\ s.revealed => Has(s, "reveal")
  PROVE  Kept(KeepAnswer(n, v, s, Role = "participant", preserve), n, v, preserve,
              done, finals, last)
<1> DEFINE w == KeepAnswer(n, v, s, Role = "participant", preserve)
<1> SUFFICES Kept(w, n, v, preserve, done, finals, last)
  OBVIOUS
<1>1. /\ n.run = s.run /\ n.revealed = s.revealed
      /\ Common \subseteq DOMAIN n /\ DOMAIN s \subseteq DOMAIN n
      /\ Has(s, "answer") => Has(n, "answer") /\ n.answer = s.answer
  BY DEF Merged, Base, Fits, Whole, Has
<1>2. CASE Role # "participant"
  <2>1. w = Without(n, {"answer"})
    BY <1>2 DEF KeepAnswer
  <2>2. ~ Has(n, "answer") /\ ~ Has(v, "answer")
    BY <1>2 DEF Fits, Told
  <2> HIDE DEF w
  <2>7. /\ DOMAIN Without(n, {"answer"}) = DOMAIN n \ {"answer"}
        /\ \A k \in DOMAIN n \ {"answer"} : Without(n, {"answer"})[k] = n[k]
    BY WithoutIs
  <2>3. DOMAIN w = DOMAIN n /\ \A k \in DOMAIN n : w[k] = n[k]
    BY <2>1, <2>2, <2>7 DEF Has
  <2>4. /\ \A k \in Base \cup {"joined"} : w[k] = n[k]
        /\ Has(n, "answered") => w.answered = n.answered
    BY <1>1, <2>3 DEF Common, Has
  <2>5. Told(w, done, finals, last)
    BY <2>3 DEF Fits, Told, Has, Base
  <2>6. Whole(w)
    BY <2>3 DEF Fits, Whole, Has
  <2> QED BY <1>2, <2>2, <2>4, <2>5, <2>6 DEF Kept, Fits
<1>3. CASE Role = "participant" /\ (~ (preserve /\ Has(v, "answer")) \/ IsFinal(s))
  <2>1. w = n
    BY <1>3 DEF KeepAnswer
  <2> HIDE DEF w
  <2>2. Has(n, "answer") /\ n.answer = s.answer
    BY <1>1, <1>3 DEF Fits, Whole
  <2>3. ASSUME preserve, Has(v, "answer")
        PROVE  /\ IsFinal(n)
               /\ IsFinal(v) => n.answer.final = v.answer.final
               /\ Has(n, "reveal")
    <3>1. IsFinal(s)
      BY <1>3, <2>3
    <3>2. IsFinal(n)
      BY <1>1, <2>2, <3>1 DEF IsFinal
    <3>3. s.answer.final = last[s.run] /\ (IsFinal(v) => v.answer.final = last[v.run])
      BY <3>1 DEF IsFinal, Fits, Told
    <3>4. Has(s, "reveal")
      BY <1>3, <3>1 DEF IsFinal
    <3> QED BY <1>1, <2>2, <2>3, <3>2, <3>3, <3>4 DEF Has
  <2> QED BY <1>3, <2>1, <2>3 DEF Kept
<1>4. CASE Role = "participant" /\ preserve /\ Has(v, "answer") /\ ~ IsFinal(s) /\ IsFinal(v)
  <2>1. w = FinalKept(n, v)
    BY <1>4 DEF KeepAnswer
  <2>2. ~ Has(n, "answered")
    BY <1>4 DEF Fits, Told
  <2> HIDE DEF w
  <2>3. /\ Fits(w, done, finals, last) /\ IsFinal(w) /\ w.answer = v.answer
        /\ \A k \in Base \cup {"joined"} : w[k] = n[k]
        /\ Has(v, "reveal") => Has(w, "reveal")
    BY <1>1, <1>4, <2>1, FinalKeptFits
  <2> QED BY <2>2, <2>3 DEF Kept
<1>5. CASE /\ Role = "participant" /\ preserve /\ Has(v, "answer") /\ ~ IsFinal(s)
           /\ ~ IsFinal(v) /\ s.answer.version < v.answer.version
  <2> DEFINE q == [answer |-> v.answer]
  <2>1. w = q ++ n
    BY <1>5 DEF KeepAnswer
  <2>2. DOMAIN q = {"answer"} /\ q["answer"] = v.answer
    OBVIOUS
  <2> HIDE DEF w, q
  <2>3. PartFits(q, n, done, finals, last)
    BY <1>1, <1>5, <2>2 DEF PartFits, Has, Common, Base, Keys, Fits, Told
  <2>4. Told(w, done, finals, last)
    BY <2>1, <2>3, ToldMore DEF Fits
  <2>5. /\ DOMAIN w = DOMAIN q \cup DOMAIN n
        /\ \A k \in DOMAIN q : w[k] = q[k]
        /\ \A k \in DOMAIN n \ DOMAIN q : w[k] = n[k]
    <3>1. /\ DOMAIN (q ++ n) = DOMAIN q \cup DOMAIN n
          /\ \A k \in DOMAIN q : (q ++ n)[k] = q[k]
          /\ \A k \in DOMAIN n \ DOMAIN q : (q ++ n)[k] = n[k]
      BY OverIs
    <3> QED BY <2>1, <3>1
  <2>6. /\ \A k \in Base \cup {"joined"} : w[k] = n[k]
        /\ w.answer = v.answer /\ Whole(w) /\ ~ Has(n, "answered")
    BY <1>1, <1>5, <2>2, <2>5 DEF Common, Base, Has, Whole, Fits, Told
  <2>7. v.answer.version \in Nat
    BY <1>5 DEF Fits, Told
  <2> QED BY <1>5, <2>4, <2>6, <2>7 DEF Kept, Fits
<1>6. CASE /\ Role = "participant" /\ preserve /\ Has(v, "answer") /\ ~ IsFinal(s)
           /\ ~ IsFinal(v) /\ ~ (s.answer.version < v.answer.version)
  <2>1. w = n
    BY <1>6 DEF KeepAnswer
  <2> HIDE DEF w
  <2>2. Has(s, "answer") /\ n.answer = s.answer
    BY <1>1, <1>6 DEF Fits, Whole
  <2>3. v.answer.version \in Nat /\ s.answer.version \in Nat
    BY <1>6, <2>2 DEF Fits, Told
  <2> QED BY <1>6, <2>1, <2>2, <2>3 DEF Kept
<1> HIDE DEF w
<1> QED BY <1>2, <1>3, <1>4, <1>5, <1>6

\* A screen that shows what it showed.
LEMMA SameMovesForward ==
  ASSUME NEW v, NEW done, NEW finals, NEW last, Fits(v, done, finals, last)
  PROVE  MovesForward(v, v) /\ KeepsResults(v, v)
<1>1. /\ v.revision \in Nat /\ v.joined \in Nat
      /\ Has(v, "answered") => v.answered \in Nat
      /\ Has(v, "answer") => v.answer.version \in Nat
  BY DEF Fits, Told, Whole, Has, Common
<1> QED BY <1>1 DEF MovesForward, KeepsResults, SameStableContext

\* A screen takes a state in.
LEMMA ApplyFits ==
  ASSUME NEW v, NEW s, NEW done, NEW finals, NEW last,
         ~ Empty(v) => Fits(v, done, finals, last), Fits(s, done, finals, last),
         Role = "participant" /\ s.revealed => Has(s, "reveal")
  PROVE  LET w == Apply(v, s, Role = "participant") IN
         /\ Fits(w, done, finals, last)
         /\ ~ Empty(v) => MovesForward(v, w) /\ KeepsResults(v, w)
<1> DEFINE participant == Role = "participant"
           w == Apply(v, s, participant)
<1> SUFFICES /\ Fits(w, done, finals, last)
             /\ ~ Empty(v) => MovesForward(v, w) /\ KeepsResults(v, w)
  OBVIOUS
<1>1. s.revision \in Nat
  BY DEF Fits, Told
<1>2. CASE Empty(v) /\ participant
  <2>1. w = s
    BY <1>2 DEF Apply
  <2> QED BY <1>2, <2>1
<1>3. CASE Empty(v) /\ ~ participant
  <2>1. w = Without(s, {"answer"})
    BY <1>3 DEF Apply
  <2>2. ~ Has(s, "answer")
    BY <1>3 DEF Fits, Told
  <2>3. /\ DOMAIN Without(s, {"answer"}) = DOMAIN s \ {"answer"}
        /\ \A k \in DOMAIN s \ {"answer"} : Without(s, {"answer"})[k] = s[k]
    BY WithoutIs
  <2> HIDE DEF w, participant
  <2>4. DOMAIN w = DOMAIN s /\ \A k \in DOMAIN s : w[k] = s[k]
    BY <2>1, <2>2, <2>3 DEF Has
  <2>5. Told(w, done, finals, last)
    BY <2>4 DEF Fits, Told, Has, Base
  <2>6. Whole(w)
    BY <2>4 DEF Fits, Whole, Has
  <2> QED BY <1>3, <2>5, <2>6 DEF Fits
<1>4. CASE ~ Empty(v)
  <2>1. Fits(v, done, finals, last) /\ v.revision \in Nat
    BY <1>4 DEF Fits, Told
  <2>2. MovesForward(v, v) /\ KeepsResults(v, v)
    BY <2>1, SameMovesForward
  <2>3. CASE s.revision < v.revision
    <3>1. w = v
      BY <1>1, <1>4, <2>1, <2>3 DEF Apply
    <3> HIDE DEF w
    <3> QED BY <2>1, <2>2, <3>1
  <2>4. CASE s.revision = v.revision /\ ~ SameStableContext(v, s)
    <3>1. w = v
      BY <1>1, <1>4, <2>1, <2>4 DEF Apply, SameRevision
    <3> HIDE DEF w
    <3> QED BY <2>1, <2>2, <3>1
  <2>5. CASE s.revision = v.revision /\ SameStableContext(v, s)
    <3> DEFINE n == KeepCounters(s ++ v, v)
    <3>1. w = KeepAnswer(n, v, s, participant, TRUE)
      BY <1>1, <1>4, <2>1, <2>5 DEF Apply, SameRevision
    <3>2. /\ Fits(n, done, finals, last) /\ Merged(n, s) /\ n.joined >= v.joined
          /\ Has(v, "answered") => n.answered >= v.answered
      BY <2>1, <2>5, SameRevisionFits
    <3>3. Has(v, "answered") => Has(n, "answered")
      BY <2>1, <3>2 DEF Fits, Told, Whole
    <3> HIDE DEF n
    <3>4. s.run = v.run /\ s.status = v.status /\ s.phase = v.phase
      BY <2>5 DEF SameStableContext
    <3>5. Kept(KeepAnswer(n, v, s, Role = "participant", TRUE), n, v, TRUE,
               done, finals, last)
      BY <2>1, <3>2, <3>4, KeepAnswerFits
    <3>6. Kept(w, n, v, TRUE, done, finals, last)
      BY <3>1, <3>5
    <3> HIDE DEF w
    <3>7. /\ w.revision = s.revision /\ w.status = s.status /\ w.phase = s.phase
          /\ w.run = s.run /\ w.joined = n.joined
      BY <3>2, <3>6 DEF Kept, Merged, Base
    <3>8. MovesForward(v, w)
      BY <2>5, <3>2, <3>3, <3>4, <3>6, <3>7, <1>1, <2>1
      DEF MovesForward, Kept, SameStableContext
    <3>9. KeepsResults(v, w)
      BY <3>6 DEF KeepsResults, Kept
    <3> QED BY <3>6, <3>8, <3>9 DEF Kept
  <2>6. CASE s.revision > v.revision
    <3> DEFINE n == s ++ Without(v, {"reveal", "leaderboard"})
               preserve == v.run = s.run
    <3>1. w = KeepAnswer(n, v, s, participant, preserve)
      BY <1>1, <1>4, <2>1, <2>6 DEF Apply, NewRevision
    <3>2. Fits(n, done, finals, last) /\ Merged(n, s)
      BY <2>1, NewRevisionFits
    <3> HIDE DEF n
    <3>3. Kept(KeepAnswer(n, v, s, Role = "participant", preserve), n, v, preserve,
               done, finals, last)
      BY <2>1, <3>2, KeepAnswerFits
    <3>4. Kept(w, n, v, preserve, done, finals, last)
      BY <3>1, <3>3
    <3> HIDE DEF w
    <3>5. w.revision = s.revision /\ w.run = s.run
      BY <3>2, <3>4 DEF Kept, Merged, Base
    <3>6. w.run = v.run => preserve
      BY <3>5
    <3> HIDE DEF preserve
    <3>7. MovesForward(v, w)
      BY <1>1, <2>1, <2>6, <3>4, <3>5, <3>6 DEF MovesForward, Kept
    <3>8. KeepsResults(v, w)
      BY <3>4, <3>6 DEF KeepsResults, Kept
    <3> QED BY <3>4, <3>7, <3>8 DEF Kept
  <2> QED BY <1>1, <1>4, <2>1, <2>3, <2>4, <2>5, <2>6
<1> QED BY <1>2, <1>3, <1>4
-----------------------------------------------------------------------------
(* The invariant.                                                           *)

\* A state arrives.
LEMMA ArriveKeeps ==
  ASSUME ViewsInv, NEW c \in Channels, Arrive(c)
  PROVE  /\ ViewsInv'
         /\ ~ Empty(view) => MovesForward(view, view') /\ KeepsResults(view, view')
<1> DEFINE s == reading[c].state
<1>1. /\ reading[c].pc = "ready" /\ view' = Apply(view, s, Role = "participant")
      /\ reading' = [reading EXCEPT ![c] = Idle] /\ UNCHANGED server
  BY DEF Arrive
<1>2. /\ Fits(s, finalized, Finals, Last)
      /\ Role = "participant" /\ s.revealed => Has(s, "reveal")
  BY <1>1, ReadingIs DEF ReadingFits, Fits
<1>3. ~ Empty(view) => Fits(view, finalized, Finals, Last)
  BY DEF ViewsInv, ViewFits, Fits
<1> HIDE DEF s
<1>4. /\ Fits(view', finalized, Finals, Last)
      /\ ~ Empty(view) => MovesForward(view, view') /\ KeepsResults(view, view')
  BY <1>1, <1>2, <1>3, ApplyFits
<1>5. finalized' = finalized /\ Finals' = Finals /\ Last' = Last
  BY <1>1 DEF server, Finals, FinalAnswers, Last
<1>6. ViewFits'
  BY <1>4, <1>5 DEF ViewFits, Fits
<1> QED BY <1>1, <1>4, <1>6, IdleFits, ReadMove

\* The invariant holds at first.
LEMMA InitFits ==
  ASSUME Init
  PROVE  ViewsInv
<1>1. GameInv
  <2>1. IsFiniteSet(joined)
    BY FS_Singleton DEF Init
  <2>2. attempts \in [1 .. Runs -> [Persons -> Nat]] /\ inTime \in [1 .. Runs -> [Persons -> Nat]]
    BY DEF Init
  <2>3. /\ game \in [revision : Nat, status : Statuses, phase : Phases, run : 0 .. Runs]
        /\ game.status = "waiting" /\ game.phase = "lobby"
    BY RoleAssumption DEF Init, Statuses, Phases, Asked
  <2> QED BY <2>1, <2>2, <2>3 DEF Init, GameInv, Ended, Asked
<1>2. ViewFits
  BY DEF Init, ViewFits, Empty, NoState
<1>3. \A c \in Channels : reading[c] = Idle
  BY DEF Init
<1>4. reading = [c \in Channels |->
        [pc |-> reading[c].pc, state |-> reading[c].state, run |-> reading[c].run]]
  <2>1. \A c \in Channels :
          reading[c] = [pc |-> reading[c].pc, state |-> reading[c].state, run |-> reading[c].run]
    BY <1>3 DEF Idle
  <2>2. reading = [c \in Channels |-> reading[c]]
    BY DEF Init
  <2> QED BY <2>1, <2>2
<1> QED BY <1>1, <1>2, <1>3, <1>4, IdleFits DEF ViewsInv

\* Every step keeps it, and moves the screen forward.
LEMMA NextKeeps ==
  ASSUME ViewsInv, [Next]_vars
  PROVE  /\ ViewsInv'
         /\ view' # view /\ ~ Empty(view) =>
              MovesForward(view, view') /\ KeepsResults(view, view')
<1>1. CASE Game
  <2>1. GameInv' /\ UNCHANGED <<reading, view>>
    BY <1>1, GameKeeps DEF ViewsInv
  <2>2. /\ finalized \subseteq finalized'
        /\ \A r \in finalized : Finals'[r] = Finals[r] /\ Last'[r] = Last[r]
    BY <1>1, FinalsStay DEF ViewsInv
  <2>3. ViewFits'
    BY <2>1, <2>2, ToldStays DEF ViewsInv, ViewFits
  <2>4. \A c \in Channels : ReadingFits(reading'[c], finalized', Finals', Last')
    BY <2>1, <2>2, ReadingStays DEF ViewsInv
  <2> QED BY <2>1, <2>3, <2>4 DEF ViewsInv
<1>2. CASE UNCHANGED <<server, reading, view>>
  <2>1. GameInv' /\ finalized' = finalized /\ Finals' = Finals /\ Last' = Last
    BY <1>2 DEF ViewsInv, GameInv, server, Finals, FinalAnswers, Last
  <2> QED BY <1>2, <2>1 DEF ViewsInv, ViewFits
<1>3. ASSUME NEW c \in Channels, Read(c)
      PROVE  ViewsInv' /\ view' = view
  <2>1. view' = view
    BY <1>3 DEF Read, ReadSession, ReadBase, ReadRole, ReadReveal
  <2> QED BY <1>3, <2>1, ReadSessionKeeps, ReadBaseKeeps, ReadRoleKeeps, ReadRevealKeeps DEF Read
<1>4. ASSUME NEW c \in Channels, Lose(c)
      PROVE  ViewsInv' /\ view' = view
  BY <1>4, IdleFits, ReadMove, SameView DEF Lose
<1> QED BY <1>1, <1>2, <1>3, <1>4, ArriveKeeps DEF Next, vars, Resubscribe

\* What a screen shows is true, and so is what is on its way: nothing of a run that
\* is not final yet, the counts of the final answers with results, the reveal of the
\* question that is shown.
LEMMA ViewsAreTrue ==
  ASSUME ViewsInv
  PROVE  ScreensAreTrue
<1>1. \A s \in Sent : s = NoState \/ Told(s, finalized, Finals, Last)
  BY DEF ViewsInv, ReadingFits, Sent
<1>2. Empty(view) \/ Told(view, finalized, Finals, Last)
  BY DEF ViewsInv, ViewFits
<1>3. NothingBeforeTheFinal
  BY <1>1, <1>2 DEF NothingBeforeTheFinal, Told, NoState, Has, Empty
<1>4. RevealsItsOwnQuestion
  <2>1. \A r \in finalized : r # 0
    BY RoleAssumption DEF ViewsInv, GameInv
  <2> QED BY <1>2, <2>1 DEF RevealsItsOwnQuestion, Told, Has, Empty, Ended
<1>5. ClosedCounts
  <2>1. ASSUME NEW s \in Sent, Has(s, "answered"), Has(s, "reveal")
        PROVE  s.answered = s.reveal.answers
    <3>1. PICK c \in Channels : s = reading[c].state
      BY DEF Sent
    <3>2. ReadingFits(reading[c], finalized, Finals, Last)
      BY DEF ViewsInv
    <3> QED BY <2>1, <3>1, <3>2 DEF ReadingFits, NoState, Has, Base, Common
  <2>2. ASSUME Has(view, "answered"), view.phase = "results"
        PROVE  view.answered = Cardinality(FinalAnswers(view.run))
    <3>1. view.answered = Finals[view.run] /\ view.run \in finalized
      BY <1>2, <2>2 DEF Told, Has, Empty
    <3>2. view.run \in 1 .. Runs
      BY <3>1 DEF ViewsInv, GameInv
    <3> QED BY <3>1, <3>2 DEF Finals
  <2> QED BY <2>1, <2>2 DEF ClosedCounts
<1> QED BY <1>3, <1>4, <1>5 DEF ScreensAreTrue

\* A text that the quiz keeps for the display reaches no participant.
LEMMA TextsAreHidden ==
  ASSUME ViewsInv
  PROVE  TextsStayHidden
<1>1. \A s \in Sent : s = NoState \/ Told(s, finalized, Finals, Last)
  BY DEF ViewsInv, ReadingFits, Sent
<1>2. Empty(view) \/ Told(view, finalized, Finals, Last)
  BY DEF ViewsInv, ViewFits
<1>3. ASSUME NEW s, s = NoState \/ Empty(s) \/ Told(s, finalized, Finals, Last),
             Role = "participant"
      PROVE  /\ Has(s, "texts") => HiddenTexts \cap s.texts = {}
             /\ Has(s, "reveal") => HiddenTexts \cap s.reveal.texts = {}
  <2>1. /\ Has(s, "texts") => s.texts = Texts(Role)
        /\ Has(s, "reveal") => s.reveal.texts = Texts(Role)
    BY <1>3 DEF Told, NoState, Has, Empty, RevealTexts
  <2>2. HiddenTexts \cap Texts(Role) = {}
    BY <1>3 DEF Texts, HiddenTexts
  <2> QED BY <2>1, <2>2
<1> QED BY <1>1, <1>2, <1>3 DEF TextsStayHidden

\* Whatever a screen of any role is sent or shows is true of the game, and it never
\* gets a text that the quiz keeps for the display.
THEOREM ScreensStayTrue == Spec => [](ScreensAreTrue /\ TextsStayHidden)
<1>1. Init => ViewsInv
  BY InitFits
<1>2. ViewsInv /\ [Next]_vars => ViewsInv'
  BY NextKeeps
<1>3. ViewsInv => ScreensAreTrue /\ TextsStayHidden
  BY ViewsAreTrue, TextsAreHidden
<1> QED BY <1>1, <1>2, <1>3, PTL DEF Spec

\* A screen never goes back, whatever order states reach it in.
THEOREM ScreensStayForward == Spec => ScreensMoveForward
<1>1. Init => ViewsInv
  BY InitFits
<1>2. ViewsInv /\ [Next]_vars => ViewsInv'
  BY NextKeeps
<1>3. ViewsInv /\ [Next]_vars =>
        [~ Empty(view) => MovesForward(view, view') /\ KeepsResults(view, view')]_view
  BY NextKeeps
<1> QED BY <1>1, <1>2, <1>3, PTL DEF Spec, ScreensMoveForward

-----------------------------------------------------------------------------
(* Types, and whose part is whose.                                          *)

\* The most transitions there have been in a phase of a run: five to the results of
\* the first one, and four for each one more.
Latest(phase, r) ==
  CASE phase = "lobby" -> 1
    [] phase = "reading" -> 4 * r - 2
    [] phase = "answering" -> 4 * r - 1
    [] phase = "delivery" -> 4 * r
    [] phase = "results" -> 4 * r + 1
    [] OTHER -> 4 * Runs + 2

RevisionInv ==
  /\ game.phase = "lobby" => game.run = 0
  /\ game.phase = "final" => game.status \in Ended
  /\ game.status = "waiting" => game.revision = 0
  /\ game.revision <= Latest(game.phase, game.run)

\* Whatever is pressed in time is pressed.
PressesInv ==
  /\ joined \subseteq Persons /\ Me \in joined /\ event \in BOOLEAN
  /\ \A r \in 1 .. Runs : \A p \in Persons :
       attempts[r][p] <= MaxAttempts /\ inTime[r][p] <= attempts[r][p]

\* A transition that fits what was before it.
LEMMA TransitionFits ==
  ASSUME GameInv, RevisionInv, PressesInv, NEW phase \in Phases, NEW r \in 0 .. Runs,
         NEW status \in Statuses \ {"waiting"}, Transition(phase, r, status),
         phase = "lobby" => r = 0, phase = "final" => status \in Ended,
         game.revision + 1 <= Latest(phase, r)
  PROVE  RevisionInv' /\ PressesInv'
<1>1. /\ game' = [revision |-> game.revision + 1, status |-> status, phase |-> phase,
                  run |-> r]
      /\ UNCHANGED <<joined, attempts, inTime>> /\ Broadcast(Everybody)
  BY DEF Transition
<1>2. /\ game'.revision = game.revision + 1 /\ game'.status = status
      /\ game'.phase = phase /\ game'.run = r
  BY <1>1
<1>3. event' \in BOOLEAN
  BY <1>1 DEF Broadcast, PressesInv
<1> QED BY <1>1, <1>2, <1>3 DEF RevisionInv, PressesInv, Latest

\* A press counts once, and in time at most as often as it was made.
LEMMA PressFits ==
  ASSUME GameInv, RevisionInv, PressesInv, NEW p \in Persons, Press(p)
  PROVE  RevisionInv' /\ PressesInv'
<1> DEFINE r == game.run
           n == IF r \in closed THEN inTime[r][p] ELSE inTime[r][p] + 1
<1>1. r \in 1 .. Runs
  BY DEF GameInv, Press, Asked
<1>2. /\ attempts' = [attempts EXCEPT ![r][p] = attempts[r][p] + 1]
      /\ inTime' = [inTime EXCEPT ![r][p] = n]
      /\ attempts[r][p] < MaxAttempts /\ UNCHANGED <<game, joined>>
      /\ Broadcast({"account"})
  BY DEF Press
<1>3. /\ attempts \in [1 .. Runs -> [Persons -> Nat]]
      /\ inTime \in [1 .. Runs -> [Persons -> Nat]]
  BY DEF GameInv
<1>4. n \in Nat /\ n <= attempts[r][p] + 1
  BY <1>1, <1>3 DEF PressesInv
<1> HIDE DEF r, n
<1>5. ASSUME NEW f \in [1 .. Runs -> [Persons -> Nat]], NEW m \in Nat,
             NEW s \in 1 .. Runs, NEW q \in Persons
      PROVE  [f EXCEPT ![r][p] = m][s][q] = IF s = r /\ q = p THEN m ELSE f[s][q]
  BY <1>1
<1>6. ASSUME NEW s \in 1 .. Runs, NEW q \in Persons
      PROVE  attempts'[s][q] <= MaxAttempts /\ inTime'[s][q] <= attempts'[s][q]
  <2>1. attempts[r][p] + 1 \in Nat
    BY <1>1, <1>3
  <2>2. /\ attempts'[s][q] = IF s = r /\ q = p THEN attempts[r][p] + 1 ELSE attempts[s][q]
        /\ inTime'[s][q] = IF s = r /\ q = p THEN n ELSE inTime[s][q]
    BY <1>2, <1>3, <1>4, <1>5, <2>1
  <2>3. attempts[s][q] <= MaxAttempts /\ inTime[s][q] <= attempts[s][q]
    BY DEF PressesInv
  <2>4. attempts[r][p] + 1 <= MaxAttempts
    BY <1>1, <1>2, <1>3, RoleAssumption
  <2> QED BY <1>4, <2>2, <2>3, <2>4
<1>7. event' \in BOOLEAN
  BY <1>2 DEF Broadcast, PressesInv
<1> QED BY <1>2, <1>6, <1>7 DEF RevisionInv, PressesInv

\* A step of the game keeps them.
LEMMA GameFits ==
  ASSUME GameInv, RevisionInv, PressesInv, Game
  PROVE  RevisionInv' /\ PressesInv'
<1>1. /\ game.revision \in Nat /\ game.run \in 0 .. Runs /\ Runs \in Nat
      /\ game.phase \in Asked => game.run \in 1 .. Runs
  BY RoleAssumption DEF GameInv
<1>2. game.revision <= Latest(game.phase, game.run)
  BY DEF RevisionInv
<1>3. ASSUME NEW p \in Persons, Join(p) PROVE RevisionInv' /\ PressesInv'
  <2>1. event' \in BOOLEAN
    BY <1>3 DEF Join, Broadcast, PressesInv
  <2> QED BY <1>3, <2>1 DEF Join, RevisionInv, PressesInv
<1>4. ASSUME NEW p \in Persons, Press(p) PROVE RevisionInv' /\ PressesInv'
  BY <1>4, PressFits
<1>5. CASE StartSession
  <2>1. /\ Transition("lobby", 0, "live") /\ 0 \in 0 .. Runs
        /\ game.revision + 1 <= Latest("lobby", 0)
    BY <1>1, <1>5 DEF StartSession, RevisionInv, Latest
  <2>2. "lobby" \in Phases /\ "live" \in Statuses \ {"waiting"}
    BY DEF Phases, Statuses
  <2> QED BY <2>1, <2>2, TransitionFits
<1>6. CASE StartQuestion
  <2>1. /\ Transition("reading", game.run + 1, "live") /\ game.run + 1 \in 0 .. Runs
        /\ game.revision + 1 <= Latest("reading", game.run + 1)
    BY <1>1, <1>2, <1>6 DEF StartQuestion, RevisionInv, Latest
  <2>2. "reading" \in Phases /\ "live" \in Statuses \ {"waiting"}
    BY DEF Phases, Asked, Statuses
  <2> QED BY <2>1, <2>2, TransitionFits
<1>7. CASE StartAnswering
  <2>1. /\ Transition("answering", game.run, "live")
        /\ game.revision + 1 <= Latest("answering", game.run)
    BY <1>1, <1>2, <1>7 DEF StartAnswering, Latest
  <2>2. "answering" \in Phases /\ "live" \in Statuses \ {"waiting"}
    BY DEF Phases, Asked, Statuses
  <2> QED BY <1>1, <2>1, <2>2, TransitionFits
<1>8. CASE StartDelivery
  <2>1. /\ Transition("delivery", game.run, "live")
        /\ game.revision + 1 <= Latest("delivery", game.run)
    BY <1>1, <1>2, <1>8 DEF StartDelivery, Latest
  <2>2. "delivery" \in Phases /\ "live" \in Statuses \ {"waiting"}
    BY DEF Phases, Asked, Statuses
  <2> QED BY <1>1, <2>1, <2>2, TransitionFits
<1>9. CASE PassDeadline
  BY <1>9 DEF PassDeadline, RevisionInv, PressesInv
<1>10. CASE Finalize
  <2>1. /\ Transition("results", game.run, "live")
        /\ game.revision + 1 <= Latest("results", game.run)
    BY <1>1, <1>2, <1>10 DEF Finalize, Latest
  <2>2. "results" \in Phases /\ "live" \in Statuses \ {"waiting"}
    BY DEF Phases, Asked, Statuses
  <2> QED BY <1>1, <2>1, <2>2, TransitionFits
<1>11. CASE Finish
  <2>1. /\ Transition("final", 0, "finished") /\ 0 \in 0 .. Runs
        /\ game.revision + 1 <= Latest("final", 0)
    BY <1>1, <1>2, <1>11 DEF Finish, Latest
  <2>2. "final" \in Phases /\ "finished" \in Statuses \ {"waiting"} /\ "finished" \in Ended
    BY DEF Phases, Statuses, Ended
  <2> QED BY <2>1, <2>2, TransitionFits
<1>12. CASE AbortSession
  <2>1. Transition("final", 0, "aborted") /\ 0 \in 0 .. Runs
    BY <1>1, <1>12 DEF AbortSession
  <2>2. game.phase \in {"lobby", "reading", "answering", "delivery", "results"}
    BY <1>12 DEF AbortSession, RevisionInv, GameInv, Phases, Asked, Ended
  <2>3. game.revision + 1 <= Latest("final", 0)
    BY <1>1, <1>2, <2>2 DEF Latest, Asked
  <2>4. "final" \in Phases /\ "aborted" \in Statuses \ {"waiting"} /\ "aborted" \in Ended
    BY DEF Phases, Statuses, Ended
  <2> QED BY <2>1, <2>3, <2>4, TransitionFits
<1> QED BY <1>3, <1>4, <1>5, <1>6, <1>7, <1>8, <1>9, <1>10, <1>11, <1>12 DEF Game

\* Every step does.
LEMMA NextFits ==
  ASSUME ViewsInv, RevisionInv, PressesInv, [Next]_vars
  PROVE  RevisionInv' /\ PressesInv'
<1>1. CASE Game
  BY <1>1, GameFits DEF ViewsInv
<1>2. ASSUME UNCHANGED server, event' \in BOOLEAN PROVE RevisionInv' /\ PressesInv'
  BY <1>2 DEF server, RevisionInv, PressesInv
<1>3. ASSUME NEW c \in Channels, Read(c) \/ Arrive(c) \/ Lose(c)
      PROVE  UNCHANGED server /\ event' \in BOOLEAN
  BY <1>3 DEF Read, ReadSession, ReadBase, ReadRole, ReadReveal, Arrive, Lose, PressesInv
<1>4. CASE Resubscribe
  BY <1>2, <1>4 DEF Resubscribe
<1>5. CASE UNCHANGED vars
  BY <1>2, <1>5 DEF vars, PressesInv
<1> QED BY <1>1, <1>2, <1>3, <1>4, <1>5 DEF Next

\* The types.
LEMMA ViewsAreTyped ==
  ASSUME ViewsInv, RevisionInv, PressesInv
  PROVE  TypeOK
<1>1. game \in [revision : 0 .. 4 * Runs + 2, status : Statuses, phase : Phases, run : 0 .. Runs]
  <2>1. /\ game \in [revision : Nat, status : Statuses, phase : Phases, run : 0 .. Runs]
        /\ game.phase \in Asked => game.run \in 1 .. Runs
    BY DEF ViewsInv, GameInv
  <2>2. Latest(game.phase, game.run) <= 4 * Runs + 2
    BY <2>1, RoleAssumption DEF Latest, Asked
  <2>3. Latest(game.phase, game.run) \in Int
    BY <2>1, RoleAssumption DEF Latest
  <2>4. game.revision \in 0 .. 4 * Runs + 2
    BY <2>1, <2>2, <2>3, RoleAssumption DEF RevisionInv
  <2> QED BY <2>1, <2>4
<1>2. /\ DOMAIN attempts = 1 .. Runs /\ finalized \subseteq closed /\ closed \subseteq 1 .. Runs
      /\ game.run # 0 => game.run \in 1 .. Runs
  BY <1>1, RoleAssumption DEF ViewsInv, GameInv
<1>3. ASSUME NEW r \in 1 .. Runs, NEW p \in joined
      PROVE  attempts[r][p] \in 0 .. MaxAttempts /\ inTime[r][p] \in 0 .. attempts[r][p]
  <2>1. p \in Persons
    BY DEF PressesInv
  <2>2. attempts[r][p] \in Nat /\ inTime[r][p] \in Nat
    BY <2>1 DEF ViewsInv, GameInv
  <2> QED BY <2>1, <2>2, RoleAssumption DEF PressesInv
<1>4. \A c \in Channels : /\ reading[c].pc \in {"idle", "base", "role", "reveal", "ready"}
                          /\ reading[c].run \in {"fresh", "open", "finalized"}
  BY ReadingIs DEF ReadingFits
<1>5. DOMAIN view \subseteq Keys
  BY DEF ViewsInv, ViewFits, Empty, Told
<1>6. game \in [revision : 0 .. 4 * Runs + 2, run : 0 .. Runs,
                status : {"waiting", "live", "finished", "aborted"},
                phase : {"lobby", "reading", "answering", "delivery", "results", "final"}]
  BY <1>1 DEF Statuses, Phases, Asked
<1> QED BY <1>2, <1>3, <1>4, <1>5, <1>6 DEF TypeOK, PressesInv

\* No state has parts of two roles, and one with an answer of one's own has no text
\* that is for the display.
LEMMA RolesAreApart ==
  ASSUME ViewsInv, NEW s \in Sent \cup {view}
  PROVE  /\ \A k, l \in {"answer", "answered", "correct"} \cap DOMAIN s : k = l
         /\ Has(s, "answer") => HiddenTexts \cap s.texts = {}
         /\ Has(s, "answer") /\ Has(s, "reveal") => HiddenTexts \cap s.reveal.texts = {}
<1>1. s = NoState \/ Empty(s) \/ Told(s, finalized, Finals, Last)
  BY DEF ViewsInv, ViewFits, ReadingFits, Sent
<1>2. \A k, l \in {"answer", "answered", "correct"} \cap DOMAIN s : k = l
  BY <1>1 DEF Told, NoState, Has, Empty
<1>3. ASSUME Has(s, "answer") PROVE Has(s, "texts") /\ Role = "participant"
  <2>1. Role = "participant"
    BY <1>1, <1>3 DEF Told, NoState, Has, Empty
  <2>2. CASE s = view
    BY <1>1, <1>3, <2>1, <2>2 DEF ViewsInv, ViewFits, Whole, Has, Empty, NoState, Common
  <2>3. CASE s \in Sent
    <3>1. PICK c \in Channels : s = reading[c].state
      BY <2>3 DEF Sent
    <3>2. ReadingFits(reading[c], finalized, Finals, Last)
      BY ReadingIs
    <3> QED BY <1>3, <2>1, <3>1, <3>2
      DEF ReadingFits, NoState, Has, Base, Common, Whole
  <2> QED BY <2>1, <2>2, <2>3
<1>4. Has(s, "answer") => /\ Has(s, "texts") => HiddenTexts \cap s.texts = {}
                          /\ Has(s, "reveal") => HiddenTexts \cap s.reveal.texts = {}
  BY <1>3, TextsAreHidden DEF TextsStayHidden
<1> QED BY <1>2, <1>3, <1>4

\* Everything stays within its types, and each role gets what is its own, whichever
\* statements, channels and earlier states the parts of a state are from.
THEOREM RolesStayApart == Spec => []RolesSeeTheirOwn
<1> DEFINE Inv == ViewsInv /\ RevisionInv /\ PressesInv
<1>1. Init => Inv
  <2>1. Init => ViewsInv
    BY InitFits
  <2>2. Init => RevisionInv
    BY DEF Init, RevisionInv, Latest
  <2>3. Init => PressesInv
    <3> SUFFICES ASSUME Init PROVE PressesInv
      OBVIOUS
    <3>1. Me \in Persons /\ joined = {Me} /\ event = FALSE /\ 0 <= MaxAttempts
      BY RoleAssumption DEF Init
    <3>2. \A r \in 1 .. Runs : \A p \in Persons : attempts[r][p] = 0 /\ inTime[r][p] = 0
      BY DEF Init
    <3>3. \A r \in 1 .. Runs : \A p \in Persons :
            attempts[r][p] <= MaxAttempts /\ inTime[r][p] <= attempts[r][p]
      BY <3>1, <3>2
    <3>4. joined \subseteq Persons /\ Me \in joined /\ event \in BOOLEAN
      BY <3>1
    <3> QED BY <3>3, <3>4 DEF PressesInv
  <2> QED BY <2>1, <2>2, <2>3
<1>2. Inv /\ [Next]_vars => Inv'
  BY NextKeeps, NextFits
<1>3. Inv => RolesSeeTheirOwn
  BY ViewsAreTyped, RolesAreApart DEF RolesSeeTheirOwn
<1> HIDE DEF Inv
<1> QED BY <1>1, <1>2, <1>3, PTL DEF Spec

-----------------------------------------------------------------------------
(* The page on which a participant answers.                                 *)

PageResults ==
  {"submitted", "recovered", "cancelled", "dropped", "conflict", "uncertain",
   "temporarily_failed", "failed", None}
Executions ==
  [pc : {"unused", "sending", "delay", "reading_conflict", "reading_lost", "done"},
   submission : Presses \cup {None}, choice : Choices \cup {None},
   retries : 0 .. MaxRetries, result : PageResults]
Sendings == [press : Presses, submission : Presses, choice : Choices, attempt : 0 .. MaxRetries]
Attempts == [submission : Presses, choice : Choices, timely : BOOLEAN]
Overlays == [submission : Presses, choice : Choices, minimum : Nat, acknowledged : BOOLEAN]
Snapshot == [phase : 0 .. 2, version : Nat, choice : Choices \cup {None}, revealed : BOOLEAN]

PageTypes ==
  /\ rows \in Seq(Attempts) /\ stage \in 0 .. 2 /\ net \subseteq Sendings
  /\ replies \in [Presses -> {"ok", "conflict", "unavailable", "error", None}]
  /\ shown \in Snapshot /\ execution \in [Presses -> Executions]
  /\ {current, retained} \subseteq Presses \cup {None}
  /\ local \in Overlays \cup {None} /\ issued \in Nat

Begun == {e \in Presses : execution[e].pc # "unused"}
Submissions == {execution[e].submission : e \in Begun}

\* A submission is named by the press that made it, and has its choice wherever it is.
NamesInv ==
  /\ \A e \in Begun :
       /\ execution[e].submission \in Begun /\ execution[e].choice \in Choices
       /\ execution[execution[e].submission].submission = execution[e].submission
       /\ execution[execution[e].submission].choice = execution[e].choice
  /\ \A e \in Presses : execution[e].pc # "done" => execution[e].result # "conflict"
  /\ \A r \in net : /\ r.press \in Begun /\ r.submission = execution[r.press].submission
                    /\ r.choice = execution[r.press].choice
  /\ \A i \in DOMAIN rows : /\ rows[i].submission \in Submissions
                            /\ rows[i].choice = execution[rows[i].submission].choice
  /\ retained # None => retained \in Begun
  /\ local # None => /\ local.submission \in Submissions
                     /\ local.choice = execution[local.submission].choice

\* A state of the run: a choice of the journal or the one that counts, which alone
\* is revealed.
Shows(state) ==
  /\ state.phase <= stage /\ state.version \in 0 .. Len(rows)
  /\ state.choice = Page!ChoiceOf(state.version) \/ (stage = 2 /\ state.choice = Page!Counted)
  /\ state.revealed => stage = 2 /\ state.choice = Page!Counted
  /\ state.phase = 2 => state.revealed

\* The journal takes a submission once, and what is shown was in it.
JournalInv ==
  /\ Len(rows) <= Room
  /\ \A i, j \in DOMAIN rows : rows[i].submission = rows[j].submission => i = j
  /\ Shows(shown)

\* What the server said it took is in the journal, or the journal is full.
Stored(submission) == Page!Has(submission) \/ Len(rows) = Room
RecordedInv ==
  /\ \A e \in Presses : replies[e] = "ok" => Stored(execution[e].submission)
  /\ local # None /\ local.acknowledged =>
       (\E i \in DOMAIN rows : rows[i].choice = local.choice) \/ Len(rows) = Room

\* The threshold of the overlay is above the number of all other submissions.
ThresholdInv ==
  /\ issued <= Cardinality(Begun)
  /\ shown.phase = 0 => Cardinality(Submissions) <= issued
  /\ local # None => shown.phase = 0 /\ ~ shown.revealed /\ local.minimum = issued

PageInv == PageTypes /\ NamesInv /\ JournalInv /\ RecordedInv /\ ThresholdInv

\* The overlay is replaced by a snapshot with its press or with the final answer, or
\* dropped after a conflict.
Replaced ==
  /\ local # None /\ local' = None /\ shown'.phase = 0
  /\ \A e \in Presses : execution'[e].result = "conflict" => execution[e].result = "conflict"
  => \/ shown'.revealed /\ shown'.choice = Page!Counted /\ stage = 2
     \/ \E i \in 1 .. shown'.version : rows[i].submission = local.submission

LEMMA PressesAreFinite ==
  /\ IsFiniteSet(Presses) /\ Presses \subseteq Nat /\ None \notin Presses
  /\ IsFiniteSet(Begun) /\ Cardinality(Begun) \in Nat
<1>1. IsFiniteSet(Presses) /\ Presses \subseteq Nat /\ None \notin Presses
  <2>1. Cardinality(Presses) \in Nat
    BY PageAssumption, FS_CardinalityType
  <2> QED BY <2>1, PageAssumption
<1>2. IsFiniteSet(Begun)
  BY <1>1, FS_Subset DEF Begun
<1> QED BY <1>1, <1>2, FS_CardinalityType

LEMMA SubmissionsAreFinite ==
  NamesInv => IsFiniteSet(Submissions) /\ Cardinality(Submissions) \in Nat
<1> SUFFICES ASSUME NamesInv PROVE IsFiniteSet(Submissions) /\ Cardinality(Submissions) \in Nat
  OBVIOUS
<1>1. Submissions \subseteq Begun
  BY DEF NamesInv, Submissions
<1> QED BY <1>1, PressesAreFinite, FS_Subset, FS_CardinalityType

LEMMA PageCounts == \A S : Page!Cardinality(S) = Cardinality(S)
BY DEF Page!Cardinality, Cardinality

\* A journal has no more rows than there are submissions.
LEMMA JournalIsBounded ==
  ASSUME PageInv PROVE Len(rows) <= Cardinality(Submissions)
<1> DEFINE f == [i \in 1 .. Len(rows) |-> rows[i].submission]
<1>1. Len(rows) \in Nat /\ DOMAIN rows = 1 .. Len(rows)
  BY DEF PageInv, PageTypes
<1>2. f \in Injection(1 .. Len(rows), Submissions)
  BY <1>1 DEF PageInv, NamesInv, JournalInv, Injection, IsInjective
<1>3. Cardinality(1 .. Len(rows)) <= Cardinality(Submissions)
  <2> HIDE DEF f
  <2> QED BY <1>2, SubmissionsAreFinite, FS_Injection DEF PageInv
<1> QED BY <1>1, <1>3, FS_Interval

\* A version that reaches the threshold has the press of the overlay in it.
LEMMA ReachedHasThePress ==
  ASSUME PageInv, local # None, NEW version \in 0 .. Len(rows), version >= local.minimum
  PROVE  \E i \in 1 .. version : rows[i].submission = local.submission
<1> SUFFICES ASSUME \A i \in 1 .. version : rows[i].submission # local.submission PROVE FALSE
  OBVIOUS
<1> DEFINE f == [i \in 1 .. version |-> rows[i].submission]
           others == Submissions \ {local.submission}
<1>1. Len(rows) \in Nat /\ DOMAIN rows = 1 .. Len(rows) /\ issued \in Nat
  BY DEF PageInv, PageTypes
<1>2. f \in Injection(1 .. version, others)
  BY <1>1 DEF PageInv, NamesInv, JournalInv, Injection, IsInjective
<1>3. IsFiniteSet(others) /\ Cardinality(others) = Cardinality(Submissions) - 1
  BY SubmissionsAreFinite, FS_RemoveElement DEF PageInv, NamesInv
<1>4. Cardinality(1 .. version) <= Cardinality(others)
  <2> HIDE DEF f, others
  <2> QED BY <1>2, <1>3, FS_Injection
<1>5. Cardinality(1 .. version) = version
  BY <1>1, FS_Interval
<1>6. Cardinality(Submissions) <= issued /\ local.minimum = issued
  BY DEF PageInv, ThresholdInv
<1> HIDE DEF f, others
<1> QED BY <1>1, <1>3, <1>4, <1>5, <1>6, SubmissionsAreFinite DEF PageInv

\* Whatever version is shown has a choice of the journal, or none.
LEMMA ChoicesAreOfRows ==
  ASSUME PageTypes
  PROVE  /\ Len(rows) \in Nat /\ DOMAIN rows = 1 .. Len(rows)
         /\ \A i \in DOMAIN rows : rows[i] \in Attempts
         /\ Page!Cardinality({i \in DOMAIN rows : rows[i].timely}) \in 0 .. Len(rows)
         /\ \A version \in 0 .. Len(rows) :
              LET choice == Page!ChoiceOf(version) IN
              choice = None \/ \E i \in DOMAIN rows : rows[i].choice = choice
         /\ Page!Counted = None \/ \E i \in DOMAIN rows : rows[i].choice = Page!Counted
<1>1. /\ Len(rows) \in Nat /\ DOMAIN rows = 1 .. Len(rows)
      /\ \A i \in DOMAIN rows : rows[i] \in Attempts
  BY DEF PageTypes
<1>2. Page!Cardinality({i \in DOMAIN rows : rows[i].timely}) \in 0 .. Len(rows)
  <2> DEFINE timely == {i \in DOMAIN rows : rows[i].timely}
  <2>1. IsFiniteSet(1 .. Len(rows)) /\ Cardinality(1 .. Len(rows)) = Len(rows)
    BY <1>1, FS_Interval
  <2>2. timely \in SUBSET (1 .. Len(rows))
    BY <1>1
  <2> HIDE DEF timely
  <2>3. Cardinality(timely) <= Len(rows) /\ Cardinality(timely) \in Nat
    BY <2>1, <2>2, FS_Subset, FS_CardinalityType
  <2> QED BY <1>1, <2>3, PageCounts DEF timely
<1>3. \A version \in 0 .. Len(rows) :
        LET choice == Page!ChoiceOf(version) IN
        choice = None \/ \E i \in DOMAIN rows : rows[i].choice = choice
  BY <1>1 DEF Page!ChoiceOf
<1>4. Page!Counted = None \/ \E i \in DOMAIN rows : rows[i].choice = Page!Counted
  BY <1>2, <1>3 DEF Page!Counted, Page!Timely
<1> QED BY <1>1, <1>2, <1>3, <1>4

\* The journal grows by a submission that it did not have.
LEMMA JournalGrows ==
  ASSUME PageInv, NEW row \in Attempts, rows' = Append(rows, row), Len(rows) < Room,
         ~ Page!Has(row.submission), row.timely => stage < 2,
         UNCHANGED <<stage, shown>>
  PROVE  JournalInv' /\ rows' \in Seq(Attempts)
<1>1. /\ Len(rows) \in Nat /\ DOMAIN rows = 1 .. Len(rows) /\ rows \in Seq(Attempts)
      /\ \A i \in DOMAIN rows : rows[i] \in Attempts /\ rows[i].submission # row.submission
      /\ Page!Cardinality({i \in DOMAIN rows : rows[i].timely}) \in 0 .. Len(rows)
      /\ Room \in Nat /\ shown \in Snapshot /\ stage \in 0 .. 2 /\ JournalInv
  BY ChoicesAreOfRows, PageAssumption DEF PageInv, PageTypes, Page!Has
<1>2. /\ rows' \in Seq(Attempts) /\ Len(rows') = Len(rows) + 1 /\ DOMAIN rows' = 1 .. Len(rows) + 1
      /\ \A i \in DOMAIN rows : rows'[i] = rows[i]
      /\ rows'[Len(rows) + 1] = row
  BY <1>1
<1>3. \A i, j \in DOMAIN rows' : rows'[i].submission = rows'[j].submission => i = j
  BY <1>1, <1>2 DEF JournalInv
<1>4. \A version \in 0 .. Len(rows) : Page!ChoiceOf(version)' = Page!ChoiceOf(version)
  BY <1>1, <1>2 DEF Page!ChoiceOf
<1>5. stage = 2 => Page!Counted' = Page!Counted
  <2> SUFFICES ASSUME stage = 2 PROVE Page!Counted' = Page!Counted
    OBVIOUS
  <2>1. ~ row.timely
    OBVIOUS
  <2>2. {i \in DOMAIN rows' : rows'[i].timely} = {i \in DOMAIN rows : rows[i].timely}
    BY <1>1, <1>2, <2>1
  <2> QED BY <1>1, <1>4, <2>2 DEF Page!Counted, Page!Timely
<1>6. JournalInv'
  <2>1. Shows(shown)'
    BY <1>1, <1>2, <1>4, <1>5 DEF JournalInv, Shows
  <2> QED BY <1>1, <1>2, <1>3, <2>1 DEF JournalInv
<1> QED BY <1>2, <1>6

\* A request reaches the server.
LEMMA ReceiveKeeps == PageInv /\ Page!Receive => PageInv' /\ Replaced
<1> SUFFICES ASSUME PageInv, Page!Receive PROVE PageInv' /\ Replaced
  OBVIOUS
<1>1. PICK request \in net :
        /\ net' = net \ {request}
        /\ UNCHANGED <<stage, shown, execution, current, retained, local, issued>>
        /\ \/ /\ IF Page!Has(request.submission) \/ Len(rows) = Room
                 THEN UNCHANGED rows
                 ELSE \E timely \in BOOLEAN :
                        /\ timely => stage < 2
                        /\ rows' = Append(rows, [submission |-> request.submission,
                                                 choice |-> request.choice, timely |-> timely])
              /\ Page!Answer(request, "ok") \/ Page!Answer(request, "error")
           \/ Page!Answer(request, "conflict") /\ UNCHANGED rows
           \/ Page!Answer(request, "unavailable") /\ UNCHANGED rows
           \/ Page!Answer(request, "error") /\ UNCHANGED rows
  BY DEF Page!Receive, Page!Results
<1>2. /\ request \in Sendings /\ PageTypes /\ NamesInv /\ JournalInv /\ RecordedInv
      /\ ThresholdInv /\ request.press \in Begun /\ Room \in Nat /\ Len(rows) \in Nat
      /\ request.submission = execution[request.press].submission
      /\ request.choice = execution[request.press].choice
  BY PageAssumption, ChoicesAreOfRows DEF PageInv, PageTypes, NamesInv
<1>3. /\ request.press \in Presses /\ request.submission \in Submissions
      /\ request.submission \in Presses /\ request.choice \in Choices
      /\ request.choice = execution[request.submission].choice
  BY <1>2 DEF Sendings, NamesInv, Submissions, Begun
<1>4. Begun' = Begun /\ Submissions' = Submissions
  BY <1>1 DEF Begun, Submissions
<1>5. \/ rows' = rows
      \/ \E row \in Attempts : /\ rows' = Append(rows, row) /\ Len(rows) < Room
                               /\ ~ Page!Has(row.submission)
                               /\ row.timely => stage < 2
                               /\ row.submission = request.submission
                               /\ row.choice = request.choice
  <2>1. ASSUME NEW timely \in BOOLEAN
        PROVE  [submission |-> request.submission, choice |-> request.choice,
                timely |-> timely] \in Attempts
    BY <1>3 DEF Attempts
  <2>2. Len(rows) # Room => Len(rows) < Room
    BY <1>2 DEF JournalInv
  <2>3. ASSUME NEW timely \in BOOLEAN, timely => stage < 2,
               ~ (Page!Has(request.submission) \/ Len(rows) = Room),
               rows' = Append(rows, [submission |-> request.submission,
                                     choice |-> request.choice, timely |-> timely])
        PROVE  \E row \in Attempts : /\ rows' = Append(rows, row) /\ Len(rows) < Room
                                     /\ ~ Page!Has(row.submission)
                                     /\ row.timely => stage < 2
                                     /\ row.submission = request.submission
                                     /\ row.choice = request.choice
    <3> DEFINE row == [submission |-> request.submission, choice |-> request.choice,
                       timely |-> timely]
    <3>1. /\ row \in Attempts /\ row.submission = request.submission
          /\ row.choice = request.choice /\ row.timely = timely
      BY <2>1
    <3> HIDE DEF row
    <3>2. rows' = Append(rows, row) /\ ~ Page!Has(row.submission) /\ Len(rows) < Room
      BY <2>2, <2>3, <3>1 DEF row
    <3> QED BY <2>3, <3>1, <3>2
  <2> QED BY <1>1, <2>3
<1>6. /\ JournalInv' /\ rows' \in Seq(Attempts) /\ DOMAIN rows \subseteq DOMAIN rows'
      /\ \A i \in DOMAIN rows : rows'[i] = rows[i]
      /\ \A i \in DOMAIN rows' \ DOMAIN rows : /\ rows'[i].submission = request.submission
                                               /\ rows'[i].choice = request.choice
      /\ Len(rows) = Room => rows' = rows
  <2>1. CASE rows' = rows
    <3>1. JournalInv'
      BY <1>1, <1>2, <2>1 DEF JournalInv, Shows, Page!ChoiceOf, Page!Counted, Page!Timely
    <3> QED BY <1>2, <2>1, <3>1 DEF PageTypes
  <2>2. ASSUME NEW row \in Attempts, rows' = Append(rows, row), Len(rows) < Room,
               ~ Page!Has(row.submission), row.timely => stage < 2,
               row.submission = request.submission, row.choice = request.choice
        PROVE  /\ JournalInv' /\ rows' \in Seq(Attempts) /\ DOMAIN rows \subseteq DOMAIN rows'
               /\ \A i \in DOMAIN rows : rows'[i] = rows[i]
               /\ \A i \in DOMAIN rows' \ DOMAIN rows :
                    rows'[i].submission = request.submission /\ rows'[i].choice = request.choice
               /\ Len(rows) # Room
    <3>1. JournalInv' /\ rows' \in Seq(Attempts)
      BY <1>1, <2>2, JournalGrows
    <3>2. /\ rows \in Seq(Attempts) /\ Len(rows) \in Nat /\ DOMAIN rows = 1 .. Len(rows)
          /\ DOMAIN rows' = 1 .. Len(rows) + 1 /\ rows'[Len(rows) + 1] = row
          /\ \A i \in DOMAIN rows : rows'[i] = rows[i]
      BY <1>2, <2>2 DEF PageTypes
    <3>3. DOMAIN rows \subseteq DOMAIN rows'
          /\ \A i \in DOMAIN rows' \ DOMAIN rows : i = Len(rows) + 1
      BY <3>2
    <3>4. Len(rows) # Room
      BY <1>2, <2>2
    <3> QED BY <2>2, <3>1, <3>2, <3>3, <3>4
  <2> QED BY <1>5, <2>1, <2>2
<1>7. \A submission : Stored(submission) => Stored(submission)'
  BY <1>6 DEF Stored, Page!Has
<1>8. /\ replies' \in [Presses -> {"ok", "conflict", "unavailable", "error", None}]
      /\ \A e \in Presses : \A s : s = execution[e].submission /\ replies'[e] = "ok" => Stored(s)'
  <2>1. ASSUME NEW reply \in {"ok", "conflict", "unavailable", "error"}, Page!Answer(request, reply)
        PROVE  /\ replies' \in [Presses -> {"ok", "conflict", "unavailable", "error", None}]
               /\ \A e \in Presses :
                    \/ replies'[e] = replies[e]
                    \/ e = request.press /\ replies'[e] = reply
    BY <1>2, <1>3, <2>1 DEF PageTypes, Page!Answer
  <2> DEFINE made == request.submission
  <2>6. \A e \in Presses : \A s : s = execution[e].submission /\ replies[e] = "ok" => Stored(s)'
    BY <1>2, <1>7 DEF RecordedInv
  <2>2. \/ Page!Answer(request, "ok") /\ Stored(made)'
        \/ Page!Answer(request, "conflict") \/ Page!Answer(request, "unavailable")
        \/ Page!Answer(request, "error")
    <3>1. ASSUME NEW timely \in BOOLEAN,
                 rows' = Append(rows, [submission |-> request.submission,
                                       choice |-> request.choice, timely |-> timely])
          PROVE  Stored(made)'
      <4> DEFINE row == [submission |-> request.submission, choice |-> request.choice,
                         timely |-> timely]
      <4>1. row \in Attempts /\ row.submission = request.submission
        BY <1>3 DEF Attempts
      <4> HIDE DEF row
      <4>2. rows'[Len(rows) + 1] = row /\ Len(rows) + 1 \in DOMAIN rows'
        BY <1>2, <3>1, <4>1 DEF PageTypes, row
      <4> QED BY <4>1, <4>2 DEF Stored, Page!Has
    <3>2. Page!Has(request.submission) \/ Len(rows) = Room => Stored(made)'
      BY <1>7 DEF Stored
    <3> QED BY <1>1, <3>1, <3>2
  <2>3. CASE Page!Answer(request, "ok") /\ Stored(made)'
    BY <1>2, <2>1, <2>3, <2>6
  <2>4. CASE Page!Answer(request, "conflict")
    BY <1>2, <2>1, <2>4, <2>6
  <2>5. CASE Page!Answer(request, "unavailable")
    BY <1>2, <2>1, <2>5, <2>6
  <2>7. CASE Page!Answer(request, "error")
    BY <1>2, <2>1, <2>7, <2>6
  <2> QED BY <2>2, <2>3, <2>4, <2>5, <2>7
<1>9. NamesInv'
  BY <1>1, <1>2, <1>3, <1>4, <1>6 DEF NamesInv
<1>10. RecordedInv'
  BY <1>1, <1>2, <1>6, <1>8 DEF RecordedInv, Stored, Page!Has
<1>11. PageTypes'
  BY <1>1, <1>2, <1>6, <1>8 DEF PageTypes
<1>12. ThresholdInv'
  BY <1>1, <1>2, <1>4 DEF ThresholdInv
<1>13. Replaced
  BY <1>1 DEF Replaced
<1> QED BY <1>6, <1>9, <1>10, <1>11, <1>12, <1>13 DEF PageInv

\* The server goes on by itself.
LEMMA MovesOnKeeps == PageInv /\ Page!MovesOn => PageInv' /\ Replaced
<1> SUFFICES ASSUME PageInv, Page!MovesOn PROVE PageInv' /\ Replaced
  OBVIOUS
<1>1. /\ stage < 2 /\ stage' = stage + 1
      /\ UNCHANGED <<rows, net, replies, shown, execution, current, retained, local, issued>>
  BY DEF Page!MovesOn, Page!Results
<1>2. PageTypes'
  BY <1>1 DEF PageInv, PageTypes
<1>3. NamesInv' /\ RecordedInv' /\ ThresholdInv'
  BY <1>1 DEF PageInv, NamesInv, RecordedInv, ThresholdInv, Begun, Submissions, Stored, Page!Has
<1>4. JournalInv'
  BY <1>1, <1>2
     DEF PageInv, PageTypes, Snapshot, JournalInv, Shows,
         Page!ChoiceOf, Page!Counted, Page!Timely
<1>5. Replaced
  BY <1>1 DEF Replaced
<1> QED BY <1>2, <1>3, <1>4, <1>5 DEF PageInv

\* What is shown after a state: a later phase, or the same one.
LEMMA ReducedFits ==
  ASSUME PageInv, NEW state \in Page!Snapshots, NEW next, next = Page!Reduced(state)
  PROVE  next \in Snapshot /\ shown.phase <= next.phase /\ Shows(next)
<1>1. /\ shown \in Snapshot /\ stage \in 0 .. 2 /\ Shows(shown) /\ Len(rows) \in Nat
      /\ \A version \in 0 .. Len(rows) : Page!ChoiceOf(version) \in Choices \cup {None}
      /\ Page!Counted \in Choices \cup {None}
      /\ Page!Timely \in 0 .. Len(rows)
  <2>1. \A i \in DOMAIN rows : rows[i].choice \in Choices
    BY ChoicesAreOfRows DEF Attempts, PageInv
  <2>2. Page!Timely \in 0 .. Len(rows)
    BY ChoicesAreOfRows DEF PageInv, Page!Timely
  <2> QED BY <2>1, <2>2, ChoicesAreOfRows DEF PageInv, PageTypes, JournalInv
<1>2. state \in Snapshot /\ Shows(state)
  <2>1. CASE \E p \in (0 .. stage) \ {2}, v \in 0 .. Len(rows) :
               state = [phase |-> p, version |-> v, choice |-> Page!ChoiceOf(v),
                        revealed |-> FALSE]
    BY <1>1, <2>1 DEF Snapshot, Shows
  <2>2. CASE stage = 2 /\ \E v \in Page!Timely .. Len(rows) :
               state = [phase |-> 2, version |-> v, choice |-> Page!Counted, revealed |-> TRUE]
    BY <1>1, <2>2 DEF Snapshot, Shows
  <2>3. CASE stage = 2 /\ \E p \in 0 .. 2 - 1, r \in BOOLEAN, v \in Page!Timely .. Len(rows) :
               state = [phase |-> p, version |-> v, choice |-> Page!Counted, revealed |-> r]
    BY <1>1, <2>3 DEF Snapshot, Shows
  <2> QED BY <2>1, <2>2, <2>3 DEF Page!Snapshots, Page!Reads, Page!Results
<1>3. CASE state.phase < shown.phase
  BY <1>1, <1>3 DEF Page!Reduced, Snapshot
<1>4. CASE /\ ~ state.phase < shown.phase
           /\ state.revealed \/ (~ shown.revealed /\ state.version >= shown.version)
  BY <1>1, <1>2, <1>4 DEF Page!Reduced, Snapshot
<1>5. CASE /\ ~ state.phase < shown.phase
           /\ ~ (state.revealed \/ (~ shown.revealed /\ state.version >= shown.version))
  <2>1. next = [shown EXCEPT !.phase = state.phase]
    BY <1>5 DEF Page!Reduced
  <2>2. /\ next \in Snapshot /\ next.phase = state.phase /\ next.version = shown.version
        /\ next.choice = shown.choice /\ next.revealed = shown.revealed
    BY <1>1, <1>2, <2>1 DEF Snapshot
  <2>3. state.phase # 2
    BY <1>2, <1>5 DEF Shows
  <2>4. Shows(next)
    BY <1>1, <1>2, <2>2, <2>3 DEF Shows
  <2> QED BY <1>1, <1>2, <1>5, <2>2, <2>4 DEF Snapshot
<1> QED BY <1>3, <1>4, <1>5

\* The overlay after what is shown now: it ends with its phase, with the final answer
\* or with its press.
LEMMA OverlayFits ==
  ASSUME PageInv, NEW next \in Snapshot, next.version \in 0 .. Len(rows),
         shown.phase <= next.phase, NEW overlay, overlay = Page!Overlay(local, next)
  PROVE  /\ overlay \in {local, None}
         /\ overlay # None => next.phase = 0 /\ ~ next.revealed
         /\ local # None /\ overlay = None /\ next.phase = 0 =>
              \/ next.revealed
              \/ \E i \in 1 .. next.version : rows[i].submission = local.submission
<1>1. overlay \in {local, None} /\ (overlay # None => ~ next.phase > 0 /\ ~ next.revealed)
  BY DEF Page!Overlay, Page!Answering
<1>2. local # None /\ overlay = None /\ ~ next.phase > 0 =>
        next.revealed \/ next.version >= local.minimum
  BY DEF Page!Overlay, Page!Answering, Page!Reached
<1>3. next.phase \in 0 .. 2
  BY DEF Snapshot
<1> QED BY <1>1, <1>2, <1>3, ReachedHasThePress

\* Executions go on under their names.
SameNames ==
  /\ execution' \in [Presses -> Executions]
  /\ \A e \in Presses : /\ execution'[e].submission = execution[e].submission
                        /\ execution'[e].choice = execution[e].choice
                        /\ execution'[e].pc = "unused" <=> execution[e].pc = "unused"
                        /\ execution'[e].pc # "done" => execution'[e].result # "conflict"

LEMMA NamesStand == SameNames => Begun' = Begun /\ Submissions' = Submissions
BY DEF SameNames, Begun, Submissions

\* What the end of an execution is.
LEMMA EndsIs ==
  ASSUME PageInv, NEW e \in Begun, NEW result \in PageResults, Page!Ends(e, result)
  PROVE  /\ SameNames /\ retained' \in {e, retained}
         /\ \A f \in Presses \ {e} : execution'[f] = execution[f]
         /\ execution'[e].result = IF current = e THEN result ELSE "dropped"
<1> DEFINE end == [execution[e] EXCEPT !.pc = "done",
                                       !.result = IF current = e THEN result ELSE "dropped"]
<1>1. /\ execution \in [Presses -> Executions] /\ e \in Presses /\ execution[e].pc # "unused"
      /\ \A f \in Presses : execution[f].pc # "done" => execution[f].result # "conflict"
  BY DEF PageInv, PageTypes, NamesInv, Begun
<1>2. execution' = [execution EXCEPT ![e] = end] /\ retained' \in {e, retained}
  BY <1>1 DEF Page!Ends
<1>3. /\ end \in Executions /\ end.pc = "done" /\ end.submission = execution[e].submission
      /\ end.choice = execution[e].choice
      /\ end.result = IF current = e THEN result ELSE "dropped"
  BY <1>1 DEF Executions, PageResults
<1> HIDE DEF end
<1> QED BY <1>1, <1>2, <1>3 DEF SameNames

\* What a step of the client other than a press may do to the rest.
NetFits ==
  \A r \in net' : \/ r \in net
                  \/ /\ r \in Sendings /\ r.press \in Begun
                     /\ r.submission = execution[r.press].submission
                     /\ r.choice = execution[r.press].choice
RepliesFit ==
  /\ replies' \in [Presses -> {"ok", "conflict", "unavailable", "error", None}]
  /\ \A e \in Presses : replies'[e] \in {replies[e], None}
PointersFit ==
  /\ {current', retained'} \subseteq Presses \cup {None}
  /\ retained' # None => retained' \in Begun
ShownFits ==
  shown' \in Snapshot /\ shown.phase <= shown'.phase /\ Shows(shown')
LocalFits ==
  /\ local' \in Overlays \cup {None}
  /\ local' # None => /\ local # None /\ local'.submission = local.submission
                      /\ local'.choice = local.choice /\ local'.minimum = local.minimum
                      /\ shown'.phase = 0 /\ ~ shown'.revealed
  /\ local' # None /\ local'.acknowledged =>
       (\E i \in DOMAIN rows : rows[i].choice = local.choice) \/ Len(rows) = Room
IssuedFits == issued' \in {issued, 0} /\ (issued' # issued => local' = None /\ shown'.phase # 0)

\* It keeps the invariant.
LEMMA ClientKeeps ==
  ASSUME PageInv, SameNames, rows' = rows, stage' = stage,
         NetFits, RepliesFit, PointersFit, ShownFits, LocalFits, IssuedFits
  PROVE  PageInv'
<1> USE DEF NetFits, RepliesFit, PointersFit, ShownFits, LocalFits, IssuedFits
<1>1. Begun' = Begun /\ Submissions' = Submissions
  BY NamesStand
<1>2. PageTypes'
  BY DEF PageInv, PageTypes, SameNames
<1>3. NamesInv'
  <2>1. \A e \in Begun :
          /\ execution'[e].submission \in Begun /\ execution'[e].choice \in Choices
          /\ execution'[execution'[e].submission].submission = execution'[e].submission
          /\ execution'[execution'[e].submission].choice = execution'[e].choice
    BY DEF PageInv, NamesInv, SameNames, Begun
  <2>2. \A r \in net' : /\ r.press \in Begun /\ r.submission = execution'[r.press].submission
                        /\ r.choice = execution'[r.press].choice
    BY DEF PageInv, NamesInv, SameNames, Begun
  <2>3. \A submission \in Submissions :
          submission \in Presses /\ execution'[submission].choice = execution[submission].choice
    BY DEF PageInv, NamesInv, SameNames, Begun, Submissions
  <2>4. \A i \in DOMAIN rows : /\ rows[i].submission \in Submissions
                               /\ rows[i].choice = execution'[rows[i].submission].choice
    BY <2>3 DEF PageInv, NamesInv
  <2>5. local' # None => /\ local'.submission \in Submissions
                         /\ local'.choice = execution'[local'.submission].choice
    BY <2>3 DEF PageInv, NamesInv
  <2>6. \A e \in Presses : execution'[e].pc # "done" => execution'[e].result # "conflict"
    BY DEF SameNames
  <2> QED BY <1>1, <2>1, <2>2, <2>4, <2>5, <2>6 DEF NamesInv
<1>4. JournalInv'
  BY DEF PageInv, JournalInv, Shows, Page!ChoiceOf, Page!Counted, Page!Timely
<1>5. RecordedInv'
  <2>1. \A e \in Presses : replies'[e] = "ok" => replies[e] = "ok"
    BY PageAssumption
  <2> QED BY <2>1 DEF PageInv, RecordedInv, SameNames, Stored, Page!Has
<1>6. ThresholdInv'
  <2>1. issued' <= Cardinality(Begun)
    BY PressesAreFinite DEF PageInv, PageTypes, ThresholdInv
  <2>2. shown'.phase = 0 => shown.phase = 0
    BY DEF PageInv, PageTypes, Snapshot, Shows
  <2> QED BY <1>1, <2>1, <2>2 DEF PageInv, ThresholdInv
<1> QED BY <1>2, <1>3, <1>4, <1>5, <1>6 DEF PageInv

\* An execution that goes on, and one that waits for its repeat.
LEMMA GoesOnIs ==
  ASSUME PageInv, NEW e \in Begun, execution[e].pc # "done",
         NEW pc \in {"sending", "delay", "reading_conflict", "reading_lost"},
         execution' = [execution EXCEPT ![e].pc = pc]
  PROVE  SameNames
<1> DEFINE goes == [execution[e] EXCEPT !.pc = pc]
<1>1. /\ execution \in [Presses -> Executions] /\ e \in Presses /\ execution[e].pc # "unused"
      /\ execution[e].result # "conflict"
      /\ \A f \in Presses : execution[f].pc # "done" => execution[f].result # "conflict"
  BY DEF PageInv, PageTypes, NamesInv, Begun
<1>2. /\ goes \in Executions /\ goes.submission = execution[e].submission
      /\ goes.choice = execution[e].choice /\ goes.pc # "unused"
      /\ goes.result = execution[e].result
  BY <1>1 DEF Executions
<1>3. execution' = [execution EXCEPT ![e] = goes]
  BY <1>1
<1> HIDE DEF goes
<1> QED BY <1>1, <1>2, <1>3 DEF SameNames

LEMMA RetriesAre ==
  ASSUME PageInv, NEW e \in Begun, execution[e].pc # "done",
         execution[e].retries < MaxRetries, execution' = Page!Retry(e)
  PROVE  SameNames
<1> DEFINE goes == [execution[e] EXCEPT !.pc = "delay", !.retries = execution[e].retries + 1]
<1>1. /\ execution \in [Presses -> Executions] /\ e \in Presses /\ execution[e].pc # "unused"
      /\ execution[e].result # "conflict" /\ MaxRetries \in Nat
      /\ \A f \in Presses : execution[f].pc # "done" => execution[f].result # "conflict"
  BY PageAssumption DEF PageInv, PageTypes, NamesInv, Begun
<1>2. /\ goes \in Executions /\ goes.submission = execution[e].submission
      /\ goes.choice = execution[e].choice /\ goes.pc # "unused"
      /\ goes.result = execution[e].result
  <2>1. execution[e] \in Executions /\ execution[e].retries + 1 \in 0 .. MaxRetries
    BY <1>1 DEF Executions
  <2> QED BY <1>1, <2>1 DEF Executions
<1>3. execution' = [execution EXCEPT ![e] = goes]
  BY <1>1 DEF Page!Retry
<1> HIDE DEF goes
<1> QED BY <1>1, <1>2, <1>3 DEF SameNames

LEMMA NothingShown ==
  ASSUME PageInv, UNCHANGED <<rows, stage, shown, local, issued>>
  PROVE  ShownFits /\ LocalFits /\ IssuedFits
<1>1. /\ shown \in Snapshot /\ stage \in 0 .. 2 /\ local \in Overlays \cup {None}
      /\ JournalInv /\ RecordedInv /\ ThresholdInv
  BY DEF PageInv, PageTypes
<1>2. ShownFits
  BY <1>1 DEF ShownFits, JournalInv, Shows, Snapshot
<1>3. LocalFits
  BY <1>1 DEF LocalFits, RecordedInv, ThresholdInv
<1> QED BY <1>2, <1>3 DEF IssuedFits

LEMMA PointersStand ==
  ASSUME PageInv, NEW e \in Begun, current' = current, retained' \in {e, retained}
  PROVE  PointersFit
BY DEF PointersFit, PageInv, PageTypes, NamesInv, Begun

LEMMA RepliesStand ==
  ASSUME PageInv, NEW e \in Presses,
         replies' = replies \/ replies' = [replies EXCEPT ![e] = None]
  PROVE  RepliesFit
BY DEF RepliesFit, PageInv, PageTypes

\* An abort ends what is on its way, under the same names.
LEMMA AbortedAre ==
  ASSUME PageInv
  PROVE  /\ Page!Aborted(execution) \in [Presses -> Executions]
         /\ \A e \in Presses : LET aborted == Page!Aborted(execution)[e] IN
              /\ aborted.submission = execution[e].submission
              /\ aborted.choice = execution[e].choice
              /\ aborted.pc = "unused" <=> execution[e].pc = "unused"
              /\ aborted.pc # "done" => aborted.result # "conflict"
<1>1. /\ execution \in [Presses -> Executions]
      /\ \A e \in Presses : execution[e].pc # "done" => execution[e].result # "conflict"
  BY DEF PageInv, PageTypes, NamesInv
<1>2. ASSUME NEW e \in Presses
      PROVE  LET aborted == Page!Aborted(execution)[e] IN
             /\ aborted \in Executions
             /\ aborted.submission = execution[e].submission
             /\ aborted.choice = execution[e].choice
             /\ aborted.pc = "unused" <=> execution[e].pc = "unused"
             /\ aborted.pc # "done" => aborted.result # "conflict"
  <2>1. CASE execution[e].pc \in {"sending", "delay"}
    BY <1>1, <2>1 DEF Page!Aborted, Executions, PageResults
  <2>2. CASE execution[e].pc \notin {"sending", "delay"}
    BY <1>1, <2>2 DEF Page!Aborted
  <2> QED BY <2>1, <2>2
<1> QED BY <1>2 DEF Page!Aborted

\* An answer arrives.
LEMMA AnsweredKeeps ==
  ASSUME PageInv, NEW e \in Presses, Page!Answered(e) PROVE PageInv' /\ Replaced
<1>1. /\ execution[e].pc = "sending" /\ replies[e] # None
      /\ replies' = [replies EXCEPT ![e] = None]
      /\ UNCHANGED <<rows, stage, net, shown, current, issued>>
  BY DEF Page!Answered, Page!server
<1>2. /\ PageTypes /\ NamesInv /\ RecordedInv /\ e \in Begun /\ execution[e] \in Executions
      /\ replies[e] \in {"ok", "conflict", "unavailable", "error"} /\ ThresholdInv /\ JournalInv
      /\ Begun \subseteq Presses
  BY <1>1 DEF PageInv, PageTypes, Begun
<1>3. RepliesFit
  BY <1>1, RepliesStand
<1>4. SameNames /\ retained' \in {e, retained}
  <2>1. CASE \E result \in {"cancelled", "submitted", "temporarily_failed", "failed"} :
               Page!Ends(e, result)
    <3>1. {"cancelled", "submitted", "temporarily_failed", "failed"} \subseteq PageResults
      BY DEF PageResults
    <3> QED BY <1>2, <2>1, <3>1, EndsIs
  <2>2. CASE execution' = [execution EXCEPT ![e].pc = "reading_conflict"] /\ retained' = retained
    BY <1>1, <1>2, <2>2, GoesOnIs
  <2>3. CASE /\ execution[e].retries < MaxRetries /\ execution' = Page!Retry(e)
             /\ retained' = retained
    BY <1>1, <1>2, <2>3, RetriesAre
  <2>4. execution[e].retries >= MaxRetries \/ execution[e].retries < MaxRetries
    BY <1>2, PageAssumption DEF Executions
  <2> QED BY <1>2, <2>1, <2>2, <2>3, <2>4 DEF Page!Answered
<1>5. PointersFit
  BY <1>1, <1>2, <1>4, PointersStand
<1>6. /\ local' \in Overlays \cup {None}
      /\ local' # None => /\ local # None /\ local'.submission = local.submission
                          /\ local'.choice = local.choice /\ local'.minimum = local.minimum
      /\ local # None => local' # None
      /\ local' # None /\ local'.acknowledged =>
           (\E i \in DOMAIN rows : rows[i].choice = local.choice) \/ Len(rows) = Room
  <2>1. CASE local' = local
    BY <1>2, <2>1 DEF PageTypes, RecordedInv
  <2>2. CASE /\ replies[e] = "ok" /\ local # None /\ local.submission = execution[e].submission
             /\ local' = [local EXCEPT !.acknowledged = TRUE]
    <3>1. local \in Overlays
      BY <1>2, <2>2 DEF PageTypes
    <3>2. /\ local' \in Overlays /\ local'.submission = local.submission
          /\ local'.choice = local.choice /\ local'.minimum = local.minimum
      BY <2>2, <3>1 DEF Overlays
    <3>3. (\E i \in DOMAIN rows : rows[i].submission = local.submission) \/ Len(rows) = Room
      BY <1>2, <2>2 DEF RecordedInv, Stored, Page!Has
    <3>4. \A i \in DOMAIN rows :
            rows[i].submission = local.submission => rows[i].choice = local.choice
      BY <1>2, <2>2 DEF NamesInv
    <3> QED BY <2>2, <3>2, <3>3, <3>4, PageAssumption DEF Overlays
  <2> QED BY <2>1, <2>2 DEF Page!Answered, Page!Acknowledged, Page!IsLocal
<1>7. local' # None => shown'.phase = 0 /\ ~ shown'.revealed
  BY <1>1, <1>2, <1>6 DEF ThresholdInv
<1>8. PageInv'
  <2>1. ShownFits
    BY <1>1, <1>2 DEF ShownFits, PageTypes, JournalInv, Shows, Snapshot
  <2>2. NetFits /\ RepliesFit /\ PointersFit /\ LocalFits /\ IssuedFits
    BY <1>1, <1>3, <1>5, <1>6, <1>7
       DEF NetFits, LocalFits, IssuedFits
  <2> QED BY <1>1, <1>4, <2>1, <2>2, ClientKeeps
<1>9. Replaced
  BY <1>6 DEF Replaced
<1> QED BY <1>8, <1>9

\* A request or its answer is lost: it is repeated later, or the state is read.
LEMMA LostKeeps ==
  ASSUME PageInv, NEW e \in Presses, Page!Lost(e) PROVE PageInv' /\ Replaced
<1>1. /\ execution[e].pc = "sending" /\ replies' = [replies EXCEPT ![e] = None]
      /\ UNCHANGED <<rows, stage, net, shown, current, local, issued>>
      /\ \/ Page!Ends(e, "cancelled")
         \/ /\ execution[e].retries < MaxRetries /\ execution' = Page!Retry(e)
            /\ retained' = retained
         \/ execution' = [execution EXCEPT ![e].pc = "reading_lost"] /\ retained' = retained
  BY DEF Page!Lost, Page!server
<1>2. /\ PageTypes /\ NamesInv /\ RecordedInv /\ e \in Begun /\ execution[e] \in Executions
      /\ ThresholdInv /\ JournalInv /\ Begun \subseteq Presses
  BY <1>1 DEF PageInv, PageTypes, Begun
<1>3. SameNames /\ retained' \in {e, retained}
  <2>1. CASE Page!Ends(e, "cancelled")
    <3>1. "cancelled" \in PageResults
      BY DEF PageResults
    <3> QED BY <1>2, <2>1, <3>1, EndsIs
  <2>2. CASE /\ execution[e].retries < MaxRetries /\ execution' = Page!Retry(e)
             /\ retained' = retained
    BY <1>1, <1>2, <2>2, RetriesAre
  <2>3. CASE execution' = [execution EXCEPT ![e].pc = "reading_lost"] /\ retained' = retained
    BY <1>1, <1>2, <2>3, GoesOnIs
  <2> QED BY <1>1, <2>1, <2>2, <2>3
<1>4. PointersFit /\ RepliesFit /\ NetFits
  BY <1>1, <1>2, <1>3, PointersStand, RepliesStand DEF NetFits
<1>5. ShownFits /\ LocalFits /\ IssuedFits
  BY <1>1, NothingShown
<1>6. PageInv'
  BY <1>1, <1>3, <1>4, <1>5, ClientKeeps
<1>7. Replaced
  BY <1>1 DEF Replaced
<1> QED BY <1>6, <1>7

\* The delay is over: the request is sent again.
LEMMA RepeatKeeps ==
  ASSUME PageInv, NEW e \in Presses, Page!Repeat(e) PROVE PageInv' /\ Replaced
<1>1. /\ execution[e].pc = "delay"
      /\ UNCHANGED <<rows, stage, replies, shown, current, local, issued>>
      /\ \/ Page!Ends(e, "cancelled") /\ net' = net
         \/ /\ execution' = [execution EXCEPT ![e].pc = "sending"] /\ retained' = retained
            /\ net' = net \cup {Page!Request(e, execution[e])}
  BY DEF Page!Repeat
<1>2. e \in Begun /\ execution[e] \in Executions /\ execution[e].submission \in Presses
  BY <1>1 DEF PageInv, PageTypes, NamesInv, Begun
<1>3. SameNames /\ retained' \in {e, retained}
  <2>1. CASE Page!Ends(e, "cancelled")
    <3>1. "cancelled" \in PageResults
      BY DEF PageResults
    <3> QED BY <1>2, <2>1, <3>1, EndsIs
  <2>2. CASE execution' = [execution EXCEPT ![e].pc = "sending"] /\ retained' = retained
    BY <1>1, <1>2, <2>2, GoesOnIs
  <2> QED BY <1>1, <2>1, <2>2
<1>4. NetFits
  <2> DEFINE again == Page!Request(e, execution[e])
  <2>1. /\ again \in Sendings /\ again.press = e
        /\ again.submission = execution[e].submission /\ again.choice = execution[e].choice
    BY <1>2 DEF Page!Request, Sendings, Executions, PageInv, NamesInv
  <2> HIDE DEF again
  <2>2. \A r \in net' : r \in net \/ r = again
    BY <1>1 DEF again
  <2> QED BY <1>2, <2>1, <2>2 DEF NetFits
<1>5. PointersFit /\ RepliesFit
  BY <1>1, <1>2, <1>3, PointersStand, RepliesStand
<1>6. ShownFits /\ LocalFits /\ IssuedFits
  BY <1>1, NothingShown
<1>7. PageInv'
  BY <1>1, <1>3, <1>4, <1>5, <1>6, ClientKeeps
<1>8. Replaced
  BY <1>1 DEF Replaced
<1> QED BY <1>7, <1>8

\* The state is read once more, after a conflict or after the last lost answer.
LEMMA ControlReadKeeps ==
  ASSUME PageInv, NEW e \in Presses, Page!ControlRead(e) PROVE PageInv' /\ Replaced
<1>1. /\ execution[e].pc \in {"reading_conflict", "reading_lost"}
      /\ UNCHANGED <<rows, stage, net, replies, current, issued>>
  BY DEF Page!ControlRead, Page!server
<1>2. PICK state \in Page!Reads \cup {None} :
        LET taken == state # None /\ ~ Page!Cancelled(e)
            next == IF taken THEN Page!Reduced(state) ELSE shown
            overlay == IF taken THEN Page!Overlay(local, next) ELSE local
            cancelled == current # e \/ next.phase > 0
        IN  /\ shown' = next
            /\ IF cancelled THEN Page!Ends(e, "cancelled") /\ local' = overlay
               ELSE IF execution[e].pc = "reading_conflict"
               THEN /\ Page!Ends(e, "conflict")
                    /\ local' = IF Page!IsLocal(e) THEN None ELSE overlay
               ELSE IF taken /\ Page!Recovered(e, next)
               THEN /\ Page!Ends(e, "recovered")
                    /\ local' = IF overlay # None THEN Page!Acknowledged(e) ELSE overlay
               ELSE Page!Ends(e, "uncertain") /\ local' = overlay
  BY DEF Page!ControlRead, Page!Answering
<1> DEFINE taken == state # None /\ ~ Page!Cancelled(e)
           overlay == IF taken THEN Page!Overlay(local, shown') ELSE local
<1>3. /\ shown' = IF taken THEN Page!Reduced(state) ELSE shown
      /\ \/ Page!Ends(e, "cancelled") /\ local' = overlay
         \/ /\ current = e /\ execution[e].pc = "reading_conflict" /\ Page!Ends(e, "conflict")
            /\ local' \in {None, overlay}
         \/ /\ taken /\ shown'.choice = execution[e].choice /\ Page!Ends(e, "recovered")
            /\ local' = IF overlay # None THEN Page!Acknowledged(e) ELSE overlay
         \/ Page!Ends(e, "uncertain") /\ local' = overlay
  BY <1>2 DEF Page!Recovered
<1>4. /\ PageTypes /\ NamesInv /\ JournalInv /\ RecordedInv /\ ThresholdInv
      /\ e \in Begun /\ shown \in Snapshot /\ stage \in 0 .. 2 /\ local \in Overlays \cup {None}
      /\ execution[e].submission \in Presses /\ execution[e].choice \in Choices
      /\ {"cancelled", "conflict", "recovered", "uncertain"} \subseteq PageResults
  BY <1>1 DEF PageInv, PageTypes, NamesInv, Begun, PageResults
<1>5. ShownFits
  <2>1. CASE taken
    <3>1. state \in Page!Snapshots /\ shown' = Page!Reduced(state)
      BY <1>3, <2>1 DEF Page!Snapshots
    <3> QED BY <3>1, ReducedFits DEF ShownFits
  <2>2. CASE ~ taken
    BY <1>3, <1>4, <2>2 DEF ShownFits, JournalInv, Shows, Snapshot
  <2> QED BY <2>1, <2>2
<1>6. /\ overlay \in {local, None}
      /\ overlay # None => shown'.phase = 0 /\ ~ shown'.revealed
      /\ local # None /\ overlay = None /\ shown'.phase = 0 =>
           \/ shown'.revealed
           \/ \E i \in 1 .. shown'.version : rows[i].submission = local.submission
  <2>1. CASE taken
    <3>1. overlay = Page!Overlay(local, shown')
      BY <2>1
    <3> HIDE DEF overlay
    <3> QED BY <1>5, <3>1, OverlayFits DEF ShownFits, Shows
  <2>2. CASE ~ taken
    BY <1>3, <1>4, <2>2 DEF ThresholdInv
  <2> QED BY <2>1, <2>2
<1> HIDE DEF taken, overlay
<1>7. SameNames /\ retained' \in {e, retained}
  BY <1>3, <1>4, EndsIs
<1>8. local # None => local.choice \in Choices /\
                      (Page!IsLocal(e) => local.choice = execution[e].choice)
  BY <1>4 DEF Page!IsLocal, NamesInv, Overlays
<1>9. LocalFits
  <2>1. local # None /\ local.acknowledged =>
          (\E i \in DOMAIN rows : rows[i].choice = local.choice) \/ Len(rows) = Room
    BY <1>4 DEF RecordedInv
  <2>2. CASE local' = None
    BY <2>2 DEF LocalFits
  <2>3. CASE local' = local /\ shown'.phase = 0 /\ ~ shown'.revealed
    BY <1>4, <2>1, <2>3 DEF LocalFits
  <2>4. CASE /\ shown'.choice = execution[e].choice /\ shown'.phase = 0 /\ ~ shown'.revealed
             /\ local # None /\ Page!IsLocal(e)
             /\ local' = [local EXCEPT !.acknowledged = TRUE]
    <3>1. /\ local' \in Overlays /\ local'.submission = local.submission
          /\ local'.choice = local.choice /\ local'.minimum = local.minimum
      BY <1>4, <2>4 DEF Overlays
    <3>2. \E i \in DOMAIN rows : rows[i].choice = local.choice
      <4>1. /\ local.choice \in {Page!ChoiceOf(shown'.version), Page!Counted}
            /\ shown'.version \in 0 .. Len(rows)
        BY <1>5, <1>8, <2>4 DEF ShownFits, Shows
      <4>2. local.choice # None
        BY <1>8, <2>4, PageAssumption
      <4> QED BY <1>4, <4>1, <4>2, ChoicesAreOfRows
    <3> QED BY <2>4, <3>1, <3>2 DEF LocalFits
  <2> QED BY <1>3, <1>6, <2>2, <2>3, <2>4 DEF Page!Acknowledged, Page!IsLocal
<1>10. PageInv'
  <2>1. PointersFit /\ RepliesFit
    BY <1>1, <1>4, <1>7, PointersStand, RepliesStand
  <2>2. NetFits /\ IssuedFits
    BY <1>1 DEF NetFits, IssuedFits
  <2> QED BY <1>1, <1>5, <1>7, <1>9, <2>1, <2>2, ClientKeeps
<1>11. Replaced
  <2>1. CASE local' = overlay
    BY <1>5, <1>6, <2>1 DEF Replaced, ShownFits, Shows
  <2>2. CASE current = e /\ execution[e].pc = "reading_conflict" /\ Page!Ends(e, "conflict")
    <3>1. execution'[e].result = "conflict"
      BY <1>4, <2>2, EndsIs
    <3>2. execution[e].result # "conflict"
      BY <1>4, <2>2 DEF NamesInv
    <3> QED BY <3>1, <3>2 DEF Replaced
  <2>3. CASE overlay # None /\ local' = Page!Acknowledged(e)
    <3>1. local # None
      BY <1>6, <2>3
    <3>2. [local EXCEPT !.acknowledged = TRUE] \in Overlays
      BY <1>4, <3>1 DEF Overlays
    <3>3. None \notin Overlays
      BY PageAssumption DEF Overlays
    <3> QED BY <2>3, <3>1, <3>2, <3>3 DEF Replaced, Page!Acknowledged
  <2> QED BY <1>3, <2>1, <2>2, <2>3
<1> QED BY <1>10, <1>11

\* The poll or the socket brings a state.
LEMMA TakeSnapshotKeeps ==
  ASSUME PageInv, Page!TakeSnapshot PROVE PageInv' /\ Replaced
<1>1. PICK state \in Page!Snapshots :
        shown' = Page!Reduced(state) /\ local' = Page!Overlay(local, shown')
  BY DEF Page!TakeSnapshot, Page!ApplyState
<1>2. /\ UNCHANGED <<rows, stage, net>>
      /\ \/ /\ shown'.phase > shown.phase
            /\ execution' = Page!Aborted(execution) /\ replies' = Page!Silenced
            /\ current' = None /\ retained' = None /\ issued' \in {0, issued}
         \/ UNCHANGED <<execution, replies, current, retained, issued>>
  BY DEF Page!TakeSnapshot, Page!server
<1>3. /\ PageTypes /\ NamesInv /\ RecordedInv /\ local \in Overlays \cup {None}
      /\ shown \in Snapshot
  BY DEF PageInv, PageTypes
<1>4. ShownFits
  BY <1>1, ReducedFits DEF ShownFits
<1>5. /\ local' \in {local, None}
      /\ local' # None => shown'.phase = 0 /\ ~ shown'.revealed
      /\ local # None /\ local' = None /\ shown'.phase = 0 =>
           \/ shown'.revealed
           \/ \E i \in 1 .. shown'.version : rows[i].submission = local.submission
  BY <1>1, <1>4, OverlayFits DEF ShownFits, Shows
<1>6. LocalFits
  BY <1>3, <1>5 DEF LocalFits, RecordedInv
<1>7. SameNames
  <2>1. CASE execution' = Page!Aborted(execution)
    BY <1>3, <2>1, AbortedAre DEF SameNames
  <2>2. CASE execution' = execution
    BY <1>3, <2>2 DEF SameNames, PageTypes, NamesInv
  <2> QED BY <1>2, <2>1, <2>2
<1>8. RepliesFit
  BY <1>2, <1>3 DEF RepliesFit, Page!Silenced, PageTypes
<1>9. PointersFit /\ NetFits
  BY <1>2, <1>3 DEF PointersFit, NetFits, PageTypes, NamesInv
<1>10. IssuedFits
  <2>1. shown'.phase > shown.phase => shown'.phase # 0 /\ local' = None
    BY <1>3, <1>4, <1>5 DEF ShownFits, Snapshot
  <2> QED BY <1>2, <2>1 DEF IssuedFits
<1>11. PageInv'
  BY <1>2, <1>4, <1>6, <1>7, <1>8, <1>9, <1>10, ClientKeeps
<1>12. Replaced
  BY <1>4, <1>5 DEF Replaced, ShownFits, Shows
<1> QED BY <1>11, <1>12

\* The names after a press: its execution is new, its submission new or retained.
Begins(e, entry) == execution' = [Page!Aborted(execution) EXCEPT ![e] = entry]

LEMMA PressNames ==
  ASSUME PageInv, NEW e \in Presses, execution[e].pc = "unused", NEW choice \in Choices,
         NEW submission \in Begun \cup {e}, NEW entry \in Executions,
         entry.pc = "sending", entry.submission = submission, entry.choice = choice,
         entry.result = None,
         submission # e => /\ execution[submission].submission = submission
                           /\ execution[submission].choice = choice,
         Begins(e, entry)
  PROVE  /\ execution' \in [Presses -> Executions]
         /\ Begun' = Begun \cup {e} /\ Submissions' = Submissions \cup {submission}
         /\ e \notin Begun /\ execution'[e] = entry
         /\ \A f \in Begun : /\ execution'[f].submission = execution[f].submission
                             /\ execution'[f].choice = execution[f].choice
         /\ execution'[submission].submission = submission
         /\ execution'[submission].choice = choice
         /\ \A f \in Presses : execution'[f].pc # "done" => execution'[f].result # "conflict"
<1> DEFINE aborted == Page!Aborted(execution)
<1>1. /\ aborted \in [Presses -> Executions]
      /\ \A f \in Presses : /\ aborted[f].submission = execution[f].submission
                            /\ aborted[f].choice = execution[f].choice
                            /\ aborted[f].pc = "unused" <=> execution[f].pc = "unused"
                            /\ aborted[f].pc # "done" => aborted[f].result # "conflict"
  BY AbortedAre
<1>2. execution' = [aborted EXCEPT ![e] = entry]
  BY DEF Begins
<1> HIDE DEF aborted
<1>3. /\ execution' \in [Presses -> Executions] /\ execution'[e] = entry
      /\ \A f \in Presses \ {e} : execution'[f] = aborted[f]
  BY <1>1, <1>2
<1>4. e \notin Begun /\ Begun' = Begun \cup {e}
  BY <1>1, <1>3 DEF Begun
<1>5. \A f \in Begun : /\ execution'[f].submission = execution[f].submission
                       /\ execution'[f].choice = execution[f].choice
  BY <1>1, <1>3, <1>4 DEF Begun
<1>6. Submissions' = Submissions \cup {submission}
  BY <1>3, <1>4, <1>5 DEF Submissions
<1>7. /\ execution'[submission].submission = submission
      /\ execution'[submission].choice = choice
  BY <1>3, <1>5
<1>8. None # "conflict"
  BY PageAssumption
<1> QED BY <1>1, <1>3, <1>4, <1>5, <1>6, <1>7, <1>8

\* A participant presses a choice.
LEMMA PressKeeps == PageInv /\ Page!Press => PageInv' /\ Replaced
<1> SUFFICES ASSUME PageInv, Page!Press PROVE PageInv' /\ Replaced
  OBVIOUS
<1>1. PICK e \in Presses, choice \in Choices :
        LET kept == retained # None /\ execution[retained].choice = choice
            submission == IF kept THEN execution[retained].submission ELSE e
            entry == [Page!Idle EXCEPT !.pc = "sending", !.choice = choice,
                                       !.submission = submission]
        IN  /\ execution[e].pc = "unused"
            /\ execution' = [Page!Aborted(execution) EXCEPT ![e] = entry]
            /\ net' = net \cup {Page!Request(e, entry)}
            /\ IF local # None /\ local.submission = submission
               THEN UNCHANGED <<local, issued>>
               ELSE /\ issued' = Page!Threshold
                    /\ local' = [submission |-> submission, choice |-> choice,
                                 minimum |-> Page!Threshold, acknowledged |-> FALSE]
            /\ current' = e
  BY DEF Page!Press
<1>2. /\ shown.phase = 0 /\ ~ shown.revealed /\ retained' = None /\ replies' = Page!Silenced
      /\ UNCHANGED <<rows, stage, shown>>
  BY DEF Page!Press, Page!Answering
<1> DEFINE kept == retained # None /\ execution[retained].choice = choice
           submission == IF kept THEN execution[retained].submission ELSE e
           entry == [Page!Idle EXCEPT !.pc = "sending", !.choice = choice,
                                      !.submission = submission]
           request == [press |-> e, submission |-> submission, choice |-> choice, attempt |-> 0]
           same == local # None /\ local.submission = submission
           overlay == [submission |-> submission, choice |-> choice,
                       minimum |-> issued + 1, acknowledged |-> FALSE]
<1>3. /\ PageTypes /\ NamesInv /\ JournalInv /\ RecordedInv /\ ThresholdInv
      /\ local \in Overlays \cup {None} /\ issued \in Nat /\ shown \in Snapshot
      /\ MaxRetries \in Nat /\ None \notin Overlays
  BY PageAssumption DEF PageInv, PageTypes, Overlays
<1>4. Page!Threshold = issued + 1
  <2>1. Len(rows) <= Cardinality(Submissions) /\ Cardinality(Submissions) <= issued
    BY <1>2, <1>3, JournalIsBounded DEF ThresholdInv
  <2>2. shown.version \in Nat /\ Len(rows) \in Nat /\ shown.version <= Len(rows)
    BY <1>3 DEF Snapshot, PageTypes, JournalInv, Shows
  <2>3. Cardinality(Submissions) \in Nat
    BY <1>3, SubmissionsAreFinite
  <2> QED BY <1>3, <2>1, <2>2, <2>3 DEF Page!Threshold
<1>5. /\ submission \in Begun \cup {e} /\ submission \in Presses
      /\ submission # e => /\ execution[submission].submission = submission
                           /\ execution[submission].choice = choice
      /\ submission = e \/ submission \in Submissions
  <2>1. CASE kept
    <3>1. retained \in Begun /\ execution[retained].choice = choice
          /\ submission = execution[retained].submission
      BY <1>3, <2>1 DEF NamesInv
    <3> HIDE DEF submission
    <3> QED BY <1>3, <3>1 DEF NamesInv, Submissions, Begun
  <2>2. CASE ~ kept
    BY <2>2
  <2> QED BY <2>1, <2>2
<1>6. /\ entry \in Executions /\ entry.pc = "sending" /\ entry.submission = submission
      /\ entry.choice = choice /\ entry.result = None /\ entry.retries = 0
  <2>1. Page!Idle \in Executions /\ Page!Idle.retries = 0 /\ Page!Idle.result = None
    BY <1>3 DEF Page!Idle, Executions, PageResults
  <2> HIDE DEF submission
  <2> QED BY <1>5, <2>1 DEF Executions
<1>7. /\ execution[e].pc = "unused"
      /\ Begins(e, entry) /\ net' = net \cup {request} /\ current' = e
      /\ IF same THEN UNCHANGED <<local, issued>> ELSE issued' = issued + 1 /\ local' = overlay
  <2>1. Page!Request(e, entry) = request
    <3> HIDE DEF entry
    <3> QED BY <1>6 DEF Page!Request
  <2> QED BY <1>1, <1>4, <2>1 DEF Begins
<1> HIDE DEF kept, submission, entry
<1>8. request \in Sendings /\ overlay \in Overlays
  BY <1>3, <1>5 DEF Sendings, Overlays
<1>9. /\ request.press = e /\ request.submission = submission /\ request.choice = choice
      /\ overlay.submission = submission /\ overlay.choice = choice
      /\ overlay.minimum = issued + 1 /\ ~ overlay.acknowledged
  OBVIOUS
<1> HIDE DEF request, overlay
<1>10. /\ execution' \in [Presses -> Executions]
       /\ Begun' = Begun \cup {e} /\ Submissions' = Submissions \cup {submission}
       /\ e \notin Begun /\ execution'[e] = entry
       /\ \A f \in Begun : /\ execution'[f].submission = execution[f].submission
                           /\ execution'[f].choice = execution[f].choice
       /\ execution'[submission].submission = submission
       /\ execution'[submission].choice = choice
       /\ \A f \in Presses : execution'[f].pc # "done" => execution'[f].result # "conflict"
  BY <1>5, <1>6, <1>7, PressNames
<1>11. PageTypes'
  <2>1. replies' \in [Presses -> {"ok", "conflict", "unavailable", "error", None}]
    BY <1>2 DEF Page!Silenced
  <2> QED BY <1>2, <1>3, <1>7, <1>8, <1>10, <2>1 DEF PageTypes
<1>12. NamesInv'
  <2>1. \A s \in Submissions : s \in Begun /\ execution'[s].choice = execution[s].choice
    BY <1>3, <1>10 DEF NamesInv, Submissions
  <2>2. \A f \in Begun' :
          /\ execution'[f].submission \in Begun' /\ execution'[f].choice \in Choices
          /\ execution'[execution'[f].submission].submission = execution'[f].submission
          /\ execution'[execution'[f].submission].choice = execution'[f].choice
    <3>2. ASSUME NEW f \in Begun
          PROVE  /\ execution'[f].submission \in Begun' /\ execution'[f].choice \in Choices
                 /\ execution'[execution'[f].submission].submission = execution'[f].submission
                 /\ execution'[execution'[f].submission].choice = execution'[f].choice
      BY <1>3, <1>10 DEF NamesInv
    <3>3. /\ execution'[e].submission \in Begun' /\ execution'[e].choice \in Choices
          /\ execution'[execution'[e].submission].submission = execution'[e].submission
          /\ execution'[execution'[e].submission].choice = execution'[e].choice
      BY <1>5, <1>6, <1>10
    <3> QED BY <1>10, <3>2, <3>3
  <2>3. \A r \in net' : /\ r.press \in Begun' /\ r.submission = execution'[r.press].submission
                        /\ r.choice = execution'[r.press].choice
    <3>1. \A r \in net : /\ r.press \in Begun /\ r.submission = execution[r.press].submission
                         /\ r.choice = execution[r.press].choice
      BY <1>3 DEF NamesInv
    <3>2. request.submission = execution'[e].submission /\ request.choice = execution'[e].choice
      BY <1>6, <1>9, <1>10
    <3>3. \A r \in net' : r \in net \/ r = request
      BY <1>7
    <3> QED BY <1>9, <1>10, <3>1, <3>2, <3>3
  <2>4. \A i \in DOMAIN rows : /\ rows[i].submission \in Submissions'
                               /\ rows[i].choice = execution'[rows[i].submission].choice
    BY <1>3, <1>10, <2>1 DEF NamesInv
  <2>5. local' # None => /\ local'.submission \in Submissions'
                         /\ local'.choice = execution'[local'.submission].choice
    BY <1>3, <1>7, <1>9, <1>10, <2>1 DEF NamesInv
  <2> QED BY <1>2, <1>10, <2>2, <2>3, <2>4, <2>5 DEF NamesInv
<1>13. JournalInv'
  BY <1>2, <1>3 DEF JournalInv, Shows, Page!ChoiceOf, Page!Counted, Page!Timely
<1>14. RecordedInv'
  <2>1. \A f \in Presses : replies'[f] # "ok"
    BY <1>2, PageAssumption DEF Page!Silenced
  <2> QED BY <1>2, <1>3, <1>7, <1>9, <2>1 DEF RecordedInv
<1>15. ThresholdInv'
  <2>1. Cardinality(Begun') = Cardinality(Begun) + 1 /\ Cardinality(Begun) \in Nat
    BY <1>10, PressesAreFinite, FS_AddElement
  <2>2. /\ Cardinality(Submissions) \in Nat
        /\ Cardinality(Submissions') <= Cardinality(Submissions) + 1
    <3>1. IsFiniteSet(Submissions) /\ Cardinality(Submissions) \in Nat
      BY <1>3, SubmissionsAreFinite
    <3>2. Cardinality(Submissions \cup {submission}) <= Cardinality(Submissions) + 1
      BY <3>1, FS_AddElement
    <3> QED BY <1>10, <3>1, <3>2
  <2>3. same => Submissions' = Submissions
    BY <1>3, <1>10 DEF NamesInv
  <2>4. CASE same
    BY <1>2, <1>3, <1>7, <2>1, <2>3, <2>4 DEF ThresholdInv
  <2>5. CASE ~ same
    <3>1. issued' = issued + 1 /\ local' = overlay
      BY <1>7, <2>5
    <3>2. issued' <= Cardinality(Begun')
      BY <1>3, <2>1, <3>1 DEF ThresholdInv
    <3>3. Cardinality(Submissions') <= issued'
      <4>1. Cardinality(Submissions) <= issued
        BY <1>2, <1>3 DEF ThresholdInv
      <4>2. Cardinality(Submissions') \in Nat
        BY <1>3, <1>10, SubmissionsAreFinite, FS_AddElement, FS_CardinalityType
      <4> QED BY <1>3, <2>2, <3>1, <4>1, <4>2
    <3> QED BY <1>2, <1>9, <3>1, <3>2, <3>3 DEF ThresholdInv
  <2> QED BY <2>4, <2>5
<1>16. Replaced
  <2>1. local' # None
    BY <1>3, <1>7, <1>8
  <2> QED BY <2>1 DEF Replaced
<1> QED BY <1>11, <1>12, <1>13, <1>14, <1>15, <1>16 DEF PageInv

LEMMA PageStarts == Page!Init => PageInv
<1> SUFFICES ASSUME Page!Init PROVE PageInv
  OBVIOUS
<1>1. /\ rows = <<>> /\ stage = 0 /\ net = {}
      /\ replies = [e \in Presses |-> None]
      /\ shown = [phase |-> 0, version |-> 0, choice |-> None, revealed |-> FALSE]
      /\ execution = [e \in Presses |-> Page!Idle]
      /\ current = None /\ retained = None /\ local = None /\ issued = 0
  BY DEF Page!Init, Page!Answering, Page!Silenced
<1>2. Page!Idle \in Executions /\ Page!Idle.pc = "unused" /\ Page!Idle.result = None
  BY PageAssumption DEF Page!Idle, Executions, PageResults
<1>3. Begun = {} /\ Submissions = {} /\ Cardinality({}) = 0
  BY <1>1, <1>2, FS_EmptySet DEF Begun, Submissions
<1>4. PageTypes
  BY <1>1, <1>2 DEF PageTypes, Snapshot
<1>5. NamesInv
  BY <1>1, <1>2, <1>3, PageAssumption DEF NamesInv
<1>6. JournalInv
  BY <1>1, PageAssumption DEF JournalInv, Shows, Page!ChoiceOf
<1>7. RecordedInv
  BY <1>1, PageAssumption DEF RecordedInv
<1>8. ThresholdInv
  BY <1>1, <1>3 DEF ThresholdInv
<1> QED BY <1>4, <1>5, <1>6, <1>7, <1>8 DEF PageInv

LEMMA PageSteps == PageInv /\ [Page!Next]_page => PageInv' /\ [Replaced]_page
<1> SUFFICES ASSUME PageInv, [Page!Next]_page PROVE PageInv' /\ [Replaced]_page
  OBVIOUS
<1>1. CASE Page!Receive
  BY <1>1, ReceiveKeeps
<1>2. CASE Page!MovesOn
  BY <1>2, MovesOnKeeps
<1>3. CASE Page!Press
  BY <1>3, PressKeeps
<1>4. CASE Page!TakeSnapshot
  BY <1>4, TakeSnapshotKeeps
<1>5. ASSUME NEW e \in Presses, Page!Answered(e) PROVE PageInv' /\ Replaced
  BY <1>5, AnsweredKeeps
<1>6. ASSUME NEW e \in Presses, Page!Lost(e) PROVE PageInv' /\ Replaced
  BY <1>6, LostKeeps
<1>7. ASSUME NEW e \in Presses, Page!Repeat(e) PROVE PageInv' /\ Replaced
  BY <1>7, RepeatKeeps
<1>8. ASSUME NEW e \in Presses, Page!ControlRead(e) PROVE PageInv' /\ Replaced
  BY <1>8, ControlReadKeeps
<1>9. CASE UNCHANGED page
  <2>1. PageTypes' /\ NamesInv'
    BY <1>9 DEF page, PageInv, PageTypes, NamesInv, Begun, Submissions
  <2>2. JournalInv'
    BY <1>9 DEF page, PageInv, JournalInv, Shows, Page!ChoiceOf, Page!Counted, Page!Timely
  <2>3. RecordedInv' /\ ThresholdInv'
    BY <1>9 DEF page, PageInv, RecordedInv, Stored, Page!Has, ThresholdInv, Begun, Submissions
  <2> QED BY <1>9, <2>1, <2>2, <2>3 DEF PageInv
<1> QED BY <1>1, <1>2, <1>3, <1>4, <1>5, <1>6, <1>7, <1>8, <1>9 DEF Page!Next, Page!Step

\* What the page promises follows.
LEMMA PageIsSafe == PageInv => Page!TypeOK /\ Page!RecordedIsStored
<1> SUFFICES ASSUME PageInv PROVE Page!TypeOK /\ Page!RecordedIsStored
  OBVIOUS
<1>1. /\ PageTypes /\ NamesInv /\ JournalInv /\ RecordedInv /\ ThresholdInv
      /\ shown \in Snapshot /\ stage \in 0 .. 2 /\ issued \in Nat
      /\ local \in Overlays \cup {None} /\ Len(rows) \in Nat
  BY ChoicesAreOfRows DEF PageInv, PageTypes
<1>2. issued \in 0 .. Page!Cardinality(Presses)
  <2>1. Cardinality(Begun) <= Cardinality(Presses) /\ Cardinality(Presses) \in Nat
    BY PressesAreFinite, FS_Subset, FS_CardinalityType DEF Begun
  <2>2. issued <= Cardinality(Begun) /\ Cardinality(Begun) \in Nat
    BY <1>1, PressesAreFinite DEF ThresholdInv
  <2>3. Page!Cardinality(Presses) = Cardinality(Presses)
    BY PageCounts
  <2> QED BY <1>1, <2>1, <2>2, <2>3
<1>3. local # None => /\ local.submission \in Presses /\ local.choice \in Choices
                      /\ local.minimum \in 1 .. issued /\ shown.phase = 0 /\ ~ shown.revealed
  <2> SUFFICES ASSUME local # None
               PROVE  /\ local.submission \in Presses /\ local.choice \in Choices
                      /\ local.minimum \in 1 .. issued /\ shown.phase = 0 /\ ~ shown.revealed
    OBVIOUS
  <2>1. shown.phase = 0 /\ ~ shown.revealed /\ local.minimum = issued
        /\ Cardinality(Submissions) <= issued
    BY <1>1 DEF ThresholdInv
  <2>2. IsFiniteSet(Submissions) /\ local.submission \in Submissions
    BY <1>1, SubmissionsAreFinite DEF NamesInv
  <2>3. Cardinality(Submissions) # 0 /\ Cardinality(Submissions) \in Nat
    BY <2>2, FS_EmptySet, FS_CardinalityType
  <2> QED BY <1>1, <2>1, <2>3 DEF Overlays
<1>4. Page!TypeOK
  <2>1. \A e \in Presses : execution[e].retries \in 0 .. MaxRetries
    BY <1>1 DEF PageTypes, Executions
  <2>2. shown.phase \in 0 .. stage
    BY <1>1 DEF JournalInv, Shows, Snapshot
  <2> QED BY <1>1, <1>2, <1>3, <2>1, <2>2
          DEF Page!TypeOK, Page!Answering, Page!Results, JournalInv, Shows, PageTypes
<1>5. Page!RecordedIsStored
  <2>1. CASE local # None
    BY <1>1, <2>1 DEF Page!RecordedIsStored, Page!VisibleHasAnswer, Page!VisibleChoice, RecordedInv
  <2>2. CASE local = None
    <3>1. shown.choice = None \/ \E i \in DOMAIN rows : rows[i].choice = shown.choice
      BY <1>1, ChoicesAreOfRows DEF JournalInv, Shows
    <3> QED BY <2>2, <3>1 DEF Page!RecordedIsStored, Page!VisibleHasAnswer, Page!VisibleChoice
  <2> QED BY <2>1, <2>2
<1> QED BY <1>4, <1>5

\* While answers are taken, what was pressed stays on the screen until a snapshot
\* must contain it or tells the final answer, which nothing covers, and what is
\* reported as recorded is stored (AnswerController;
\* participant_answer_controller.dart): for any presses, delays, losses and repeats.
THEOREM PressesStay == Page!Spec => PressesStayShown
<1>1. PageInv /\ [Page!Next]_(Page!vars) => PageInv' /\ [Replaced]_(Page!vars)
  BY PageSteps DEF page, Page!vars
<1>2. Replaced <=> (/\ local # None /\ local' = None /\ shown'.phase = Page!Answering
                    /\ \A e \in Presses : execution'[e].result = "conflict"
                                            => execution[e].result = "conflict"
                    => \/ shown'.revealed /\ shown'.choice = Page!Counted /\ stage = Page!Results
                       \/ \E i \in 1 .. shown'.version : rows[i].submission = local.submission)
  BY DEF Replaced, Page!Answering, Page!Results
<1> QED BY PageStarts, PageIsSafe, <1>1, <1>2, PTL
        DEF Page!Spec, PressesStayShown, Page!ReplacedOnlyWhenCounted
=============================================================================
