----------------------------- MODULE SessionViews -----------------------------
(***************************************************************************)
(* What one screen shows of a session: the states that the server puts     *)
(* together for its role (backend/apps/session/realtime.py), the events    *)
(* that make the consumer send one, the reads over HTTP, and the screen    *)
(* that takes them in (StateReducer).                                      *)
(*                                                                         *)
(* A state is read in several statements without a lock.  The HTTP views   *)
(* have the run already, joined to the session row; the consumer selects   *)
(* it anew every time it is needed.  The game goes on in between.          *)
(*                                                                         *)
(* The game is the part of Gameplay that states show: its transitions at   *)
(* any time, its commands and presses one action each.                     *)
(***************************************************************************)
EXTENDS StateReducer, FiniteSets

CONSTANTS
  Role,            \* "account", "participant" or "display"
  Runs,            \* bound: questions of the quiz
  MaxAttempts,     \* bound: presses of a participant on one question
  Persons,         \* bound: everybody who may join
  Me,              \* the participant whose screen it is, among Persons
  QuestionOnlyOnDisplay, ShowChoices   \* settings of the quiz version

ASSUME RoleAssumption ==
  /\ Role \in {"account", "participant", "display"}
  /\ Me \in Persons /\ Runs \in Nat /\ MaxAttempts \in Nat
  /\ {QuestionOnlyOnDisplay, ShowChoices} \subseteq BOOLEAN

Channels == {"poll", "socket"}

VARIABLES
  game,       \* session row: revision, status, phase, run (0: none)
  joined,     \* participations
  attempts,   \* run -> participant -> number of presses
  inTime,     \* run -> participant -> presses up to the delivery deadline
  closed,     \* runs whose delivery deadline has passed
  finalized,  \* runs with final answers
  reading,    \* channel -> the state that is being put together or on its way
  event,      \* an event of the session waits for the consumer
  view        \* state of the screen's reducer

server == <<game, joined, attempts, inTime, closed, finalized>>
vars == <<server, reading, event, view>>

Idle == [pc |-> "idle", state |-> NoState, run |-> "fresh"]

Init ==
  /\ game = [revision |-> 0, status |-> "waiting", phase |-> "lobby", run |-> 0]
  /\ joined = {Me}
  /\ attempts = [r \in 1 .. Runs |-> [p \in Persons |-> 0]]
  /\ inTime = [r \in 1 .. Runs |-> [p \in Persons |-> 0]]
  /\ closed = {} /\ finalized = {}
  /\ reading = [c \in Channels |-> Idle]
  /\ event = FALSE
  /\ view = NoState

\* After the commit; a failure to send is only logged.
Broadcast(roles) ==
  \/ event' = (event \/ Role \in roles)
  \/ UNCHANGED event
Everybody == {"account", "participant", "display"}
-----------------------------------------------------------------------------
(* The game.                                                                *)

Transition(phase, run, status) ==
  /\ game' = [revision |-> game.revision + 1, status |-> status, phase |-> phase, run |-> run]
  /\ Broadcast(Everybody)
  /\ UNCHANGED <<joined, attempts, inTime, reading, view>>

Join(p) ==
  /\ game.status = "waiting" /\ p \notin joined
  /\ joined' = joined \cup {p}
  /\ Broadcast(Everybody)
  /\ UNCHANGED <<game, attempts, inTime, closed, finalized, reading, view>>

StartSession ==
  /\ game.status = "waiting"
  /\ Transition("lobby", 0, "live") /\ UNCHANGED <<closed, finalized>>

StartQuestion ==
  /\ game.status = "live" /\ game.phase \in {"lobby", "results"} /\ game.run < Runs
  /\ Transition("reading", game.run + 1, "live") /\ UNCHANGED <<closed, finalized>>

StartAnswering ==
  /\ game.phase = "reading" /\ game.run \notin closed
  /\ Transition("answering", game.run, "live") /\ UNCHANGED <<closed, finalized>>

StartDelivery ==
  /\ game.phase = "answering" /\ game.run \notin closed
  /\ Transition("delivery", game.run, "live") /\ UNCHANGED <<closed, finalized>>

\* The clock; the phase may be behind it.
PassDeadline ==
  /\ game.phase \in {"reading", "answering", "delivery"} /\ game.run \notin closed
  /\ closed' = closed \cup {game.run}
  /\ UNCHANGED <<game, joined, attempts, inTime, finalized, reading, event, view>>

Finalize_Bug ==
  /\ game.phase \in {"reading", "answering", "delivery"}
  /\ finalized' = finalized \cup {game.run}
  /\ Transition("results", game.run, "live") /\ UNCHANGED closed
Finalize ==
  /\ game.phase \in {"reading", "answering", "delivery"} /\ game.run \in closed
  /\ finalized' = finalized \cup {game.run}
  /\ Transition("results", game.run, "live") /\ UNCHANGED closed

Finish ==
  /\ game.phase = "results" /\ game.run = Runs
  /\ Transition("final", 0, "finished") /\ UNCHANGED <<closed, finalized>>

AbortSession ==
  /\ game.status \in {"waiting", "live"}
  /\ Transition("final", 0, "aborted") /\ UNCHANGED <<closed, finalized>>

\* Recorded in "results" too, when it counts for nothing.
Press(p) ==
  LET r == game.run IN
  /\ p \in joined /\ game.phase \in {"answering", "delivery", "results"}
  /\ attempts[r][p] < MaxAttempts
  /\ attempts' = [attempts EXCEPT ![r][p] = @ + 1]
  /\ inTime' = [inTime EXCEPT ![r][p] = IF r \in closed THEN @ ELSE @ + 1]
  /\ Broadcast({"account"})
  /\ UNCHANGED <<game, joined, closed, finalized, reading, view>>

Game ==
  \/ \E p \in Persons : Join(p) \/ Press(p)
  \/ StartSession \/ StartQuestion \/ StartAnswering \/ StartDelivery
  \/ PassDeadline \/ Finalize \/ Finish \/ AbortSession
-----------------------------------------------------------------------------
(* Putting a state together.                                                *)

\* Is the run seen with its results?
Finalized_Bug(c) == reading[c].state.phase \in {"delivery", "results"}
Finalized(c) ==
  CASE reading[c].run = "fresh" -> reading[c].state.run \in finalized
    [] reading[c].run = "open" -> FALSE
    [] OTHER -> TRUE

FinalAnswers(r) == {p \in joined : inTime[r][p] > 0}

AnsweredCount_Bug(c) ==
  LET r == reading[c].state.run IN
  IF r = 0 THEN 0 ELSE Cardinality({p \in joined : attempts[r][p] > 0})
AnsweredCount(c) ==
  LET r == reading[c].state.run IN
  CASE r = 0 -> 0
    [] r # 0 /\ Finalized(c) -> Cardinality(FinalAnswers(r))
    [] OTHER -> Cardinality({p \in joined : attempts[r][p] > 0})

\* Choices are named by the press that made them; 0 is none.
ParticipantAnswer(c) ==
  LET r == reading[c].state.run IN
  CASE r = 0 -> [version |-> 0, choice |-> 0]
    [] r # 0 /\ Finalized(c) ->
         [version |-> attempts[r][Me], choice |-> inTime[r][Me], final |-> inTime[r][Me]]
    [] OTHER -> [version |-> attempts[r][Me], choice |-> attempts[r][Me]]

Texts(role) ==
  CASE role = "participant" ->
         {t \in {"question", "choices"} :
            IF t = "question" THEN ~ QuestionOnlyOnDisplay ELSE ShowChoices}
    [] role = "display" -> {"question", "choices"}
    [] OTHER -> {"question"}
RevealTexts_Bug(role) == {"question", "choices"}
RevealTexts(role) == IF role = "participant" THEN Texts(role) ELSE {"question", "choices"}

Reveal(c) ==
  IF Finalized(c)
  THEN [reveal |-> [run |-> reading[c].state.run, texts |-> RevealTexts(Role),
                    answers |-> Cardinality(FinalAnswers(reading[c].state.run))]]
  ELSE NoState

Leaderboard(c) ==
  IF reading[c].state.status \in {"finished", "aborted"} THEN [leaderboard |-> finalized] ELSE NoState

AccountPart(c) == Leaderboard(c) ++ Reveal(c) ++ [answered |-> AnsweredCount(c)]
DisplayPart(c) == Leaderboard(c) ++ Reveal(c) ++ [correct |-> Finalized(c)]

\* A participant's screen stops to poll when it sees the end; an account's
\* does not poll at all, it reads when its user acts.
SeesTheEnd == ~ Empty(view) /\ view.status \in {"finished", "aborted"}
Polls_Bug == ~ (Role = "participant" /\ ~ Empty(view) /\ view.revealed)
Polls == ~ (Role = "participant" /\ SeesTheEnd)

\* The HTTP views join the run; the consumer reads the session alone.
ReadSession(c) ==
  /\ reading[c].pc = "idle"
  /\ IF c = "poll" THEN Polls /\ UNCHANGED event ELSE event /\ event' = FALSE
  /\ reading' = [reading EXCEPT ![c] =
       [pc |-> "base", state |-> game,
        run |-> CASE c = "socket" -> "fresh"
                  [] c = "poll" /\ game.run \in finalized -> "finalized"
                  [] OTHER -> "open"]]
  /\ UNCHANGED <<server, view>>

ReadBase(c) ==
  /\ reading[c].pc = "base"
  /\ reading' = [reading EXCEPT
       ![c].pc = "role",
       ![c].state = [revealed |-> Finalized(c), joined |-> Cardinality(joined),
                     texts |-> Texts(Role)] ++ @]
  /\ UNCHANGED <<server, event, view>>

\* For an account and a display one look at the run serves all that follows.
ReadRole(c) ==
  /\ reading[c].pc = "role"
  /\ reading' = [reading EXCEPT
       ![c].pc = IF Role = "participant" THEN "reveal" ELSE "ready",
       ![c].state =
         CASE Role = "participant" -> [answer |-> ParticipantAnswer(c)] ++ @
           [] Role = "account" -> AccountPart(c) ++ @
           [] OTHER -> DisplayPart(c) ++ @]
  /\ UNCHANGED <<server, event, view>>

ReadReveal(c) ==
  /\ reading[c].pc = "reveal"
  /\ reading' = [reading EXCEPT ![c].pc = "ready",
                                ![c].state = Leaderboard(c) ++ Reveal(c) ++ @]
  /\ UNCHANGED <<server, event, view>>

Arrive(c) ==
  /\ reading[c].pc = "ready"
  /\ view' = Apply(view, reading[c].state, Role = "participant")
  /\ reading' = [reading EXCEPT ![c] = Idle]
  /\ UNCHANGED <<server, event>>

\* A request that failed at some point, or a connection lost with what was
\* sent over it.
Lose(c) ==
  /\ reading[c].pc = "ready"
  /\ reading' = [reading EXCEPT ![c] = Idle]
  /\ UNCHANGED <<server, event, view>>

\* A new connection subscribes and reads, whatever happened before.
Resubscribe ==
  /\ reading["socket"].pc = "idle"
  /\ event' = TRUE
  /\ UNCHANGED <<server, reading, view>>

Read(c) == ReadSession(c) \/ ReadBase(c) \/ ReadRole(c) \/ ReadReveal(c)

Next ==
  \/ Game \/ Resubscribe
  \/ \E c \in Channels : Read(c) \/ Arrive(c) \/ Lose(c)

\* Polls are made and answered, if not every one of them.
Fairness ==
  /\ WF_vars(Read("poll"))
  /\ SF_vars(Arrive("poll"))

Spec == Init /\ [][Next]_vars
LiveSpec == Spec /\ Fairness
-----------------------------------------------------------------------------
(* Properties.                                                              *)

Keys == {"revision", "status", "phase", "run", "revealed", "joined", "texts",
         "answer", "answered", "correct", "reveal", "leaderboard"}

\* Types of the state; final answers exist for closed runs only.
TypeOK ==
  /\ game \in [revision : 0 .. 4 * Runs + 2, run : 0 .. Runs,
               status : {"waiting", "live", "finished", "aborted"},
               phase : {"lobby", "reading", "answering", "delivery", "results", "final"}]
  /\ game.run # 0 => game.run \in DOMAIN attempts
  /\ joined \subseteq Persons /\ Me \in joined
  /\ finalized \subseteq closed /\ closed \subseteq DOMAIN attempts
  /\ \A r \in DOMAIN attempts : \A p \in joined :
       attempts[r][p] \in 0 .. MaxAttempts /\ inTime[r][p] \in 0 .. attempts[r][p]
  /\ event \in BOOLEAN
  /\ \A c \in Channels : /\ reading[c].pc \in {"idle", "base", "role", "reveal", "ready"}
                         /\ reading[c].run \in {"fresh", "open", "finalized"}
  /\ DOMAIN view \subseteq Keys

Sent == {reading[c].state : c \in Channels}

\* Nothing that a role is sent or shown tells the correct choice, a final
\* answer or the counts before the run has been finalized, although the
\* pieces of a state are read at different times (realtime.py 181-227).
NothingBeforeTheFinal ==
  \A s \in Sent \cup {view} :
    /\ Has(s, "revealed") /\ s.revealed => s.run \in finalized
    /\ Has(s, "correct") /\ s.correct => s.run \in finalized
    /\ Has(s, "answer") /\ Has(s.answer, "final") => s.run \in finalized
    /\ Has(s, "reveal") => s.reveal.run \in finalized

\* What a screen reveals belongs to the question it shows, however states of
\* different revisions followed each other (session_state_reducer.dart 133-140).
RevealsItsOwnQuestion ==
  /\ Has(view, "reveal") => view.reveal.run = view.run
  /\ Has(view, "answer") /\ Has(view.answer, "final") => view.run # 0
  /\ Has(view, "leaderboard") => view.phase = "final"

\* The number of those who answered is that of the final answers wherever the
\* results come with it; a late press does not change it
\* (realtime.py 147-162).
ClosedCounts ==
  /\ \A s \in Sent : Has(s, "answered") /\ Has(s, "reveal") => s.answered = s.reveal.answers
  /\ Has(view, "answered") /\ view.phase = "results" =>
       view.answered = Cardinality(FinalAnswers(view.run))

\* What is for the display alone.
HiddenTexts ==
  {t \in {"question", "choices"} :
     IF t = "question" THEN QuestionOnlyOnDisplay ELSE ~ ShowChoices}

\* A text that the quiz keeps for the display reaches no participant, not in
\* the question and not in the results (realtime.py 58-80, 266-290).
TextsStayHidden ==
  Role = "participant" =>
    \A s \in Sent \cup {view} :
      /\ Has(s, "texts") => HiddenTexts \cap s.texts = {}
      /\ Has(s, "reveal") => HiddenTexts \cap s.reveal.texts = {}

\* Each role gets what is its own: never parts of two roles, and no text that is
\* for the display comes with an answer of one's own, whichever of the statements of
\* a read, of two channels and of earlier states a part is from (realtime.py 58-80,
\* 118-319).
RolesSeeTheirOwn ==
  /\ TypeOK
  /\ \A s \in Sent \cup {view} :
       /\ \A k, l \in {"answer", "answered", "correct"} \cap DOMAIN s : k = l
       /\ Has(s, "answer") => HiddenTexts \cap s.texts = {}
       /\ Has(s, "answer") /\ Has(s, "reveal") => HiddenTexts \cap s.reveal.texts = {}

\* What a screen shows, and what is on its way to it, is true of the game and
\* of the question that it is about (realtime.py 118-319).
ScreensAreTrue == NothingBeforeTheFinal /\ ClosedCounts /\ RevealsItsOwnQuestion

\* A screen that showed v may show w.
MovesForward(v, w) ==
  /\ w.revision >= v.revision
  /\ w.revision = v.revision =>
       /\ SameStableContext(v, w) /\ w.joined >= v.joined
       /\ Has(v, "answered") => w.answered >= v.answered
  /\ Has(v, "answer") /\ w.run = v.run /\ ~ IsFinal(w) => w.answer.version >= v.answer.version

\* Results that were shown in v still are in w.
KeepsResults(v, w) ==
  Role = "participant" /\ Has(v, "answer") /\ IsFinal(v) /\ w.run = v.run =>
    /\ IsFinal(w) /\ w.answer.final = v.answer.final
    /\ Has(v, "reveal") => Has(w, "reveal")

\* A screen never goes back: not to an earlier revision, within one revision
\* not to other facts or smaller counters, and within one run not to an older
\* answer (session_state_reducer.dart 96-160); and results that a participant
\* sees stay until the next question: a state put together earlier, or half of
\* it earlier, does not take them back (180-186).
ScreensMoveForward ==
  [][~ Empty(view) => MovesForward(view, view') /\ KeepsResults(view, view')]_view

UpToDate ==
  /\ ~ Empty(view)
  /\ view.revision = game.revision /\ view.status = game.status
  /\ view.phase = game.phase /\ view.run = game.run
  /\ view.joined = Cardinality(joined)
  /\ view.revealed = (game.run \in finalized)
  /\ Has(view, "answer") /\ game.run # 0 => view.answer.version = attempts[game.run][Me]

\* When the game rests, a screen that polls comes to show it, with every event
\* lost and every connection dropped (realtime.py 346-352,
\* participant_panel.dart 461-467).
CatchesUp == <>[] UpToDate
===============================================================================
