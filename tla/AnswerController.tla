---------------------------- MODULE AnswerController ----------------------------
(***************************************************************************)
(* A participant's presses in one run: ParticipantAnswerController, the    *)
(* screen that drives it, and a network that loses and delays requests,    *)
(* answers and snapshots.  What is pressed is shown at once, over the      *)
(* answer of the server, until a snapshot must contain the press.          *)
(*                                                                         *)
(* The server is the journal of attempts that Gameplay models in full.  A  *)
(* snapshot of the run holds the first attempts, as many as its version    *)
(* says, or the final answer.  Phases 0, 1 and 2 are answering, delivery   *)
(* and results.  The page has one tab and is not reloaded, and its access  *)
(* stays valid.                                                            *)
(***************************************************************************)
EXTENDS Naturals, FiniteSets, Sequences

CONSTANTS
  Choices,
  Presses,      \* bound: the presses of a behaviour, 1..n in their order
  MaxRetries,   \* automatic repeats of a request, 3 in the code
  MaxAttempts,  \* attempts of a participant in a run, 20 in the code
  None

VARIABLES
  attempts,   \* rows of the run: submission and choice, in the order of admission
  phase,      \* of the session
  net,        \* requests on their way to the server, once each
  replies,    \* answers on their way to the client, by press
  shown,      \* the state of the reducer
  run,        \* executions of the controller, by press
  current,    \* the execution of the current generation, None after a cancel
  retained,   \* the execution whose request the screen keeps for a repeat
  local,      \* the overlay, None without one
  issued      \* _lastIssuedThreshold

vars == <<attempts, phase, net, replies, shown, run, current, retained, local, issued>>
server == <<attempts, phase, net>>
-----------------------------------------------------------------------------
\* The server.

Answering == 0
Results == 2

Has(submission) == \E i \in DOMAIN attempts : attempts[i].submission = submission

Answer(request, reply) ==
  LET e == request.press IN
    IF run[e].pc = "sending" /\ request.attempt = run[e].retries
    THEN replies' = [replies EXCEPT ![e] = reply]
    ELSE UNCHANGED replies

\* A press is stored as long as its question is the current one, also in the
\* results and beyond the delivery deadline, where it no longer counts.  Beyond
\* the limit it is answered as any other and leaves no row.  A conflict in the
\* results stands for the next question; an error is any other status, of the
\* server or of a proxy that did not see its answer.
Receive ==
  \E request \in net :
    /\ net' = net \ {request}
    /\ \/ /\ IF Has(request.submission) \/ Len(attempts) = MaxAttempts
             THEN UNCHANGED attempts
             ELSE \E timely \in BOOLEAN :
                    /\ timely => phase < Results /\ \A i \in DOMAIN attempts : attempts[i].timely
                    /\ attempts' = Append(attempts, [submission |-> request.submission,
                                                     choice |-> request.choice,
                                                     timely |-> timely])
          /\ Answer(request, "ok") \/ Answer(request, "error")
       \/ phase = Results /\ Answer(request, "conflict") /\ UNCHANGED attempts
       \/ Answer(request, "unavailable") /\ UNCHANGED attempts
       \/ Answer(request, "error") /\ UNCHANGED attempts
    /\ UNCHANGED <<phase, shown, run, current, retained, local, issued>>

MovesOn ==
  /\ phase < Results /\ phase' = phase + 1
  /\ UNCHANGED <<attempts, net, replies, shown, run, current, retained, local, issued>>

ChoiceOf(version) == IF version = 0 THEN None ELSE attempts[version].choice

\* The final answer: the last attempt within the delivery deadline.
Timely == Cardinality({i \in DOMAIN attempts : attempts[i].timely})
Counted == ChoiceOf(Timely)

\* What a read over HTTP may return, from its sending to its arrival: the run
\* comes with the session row, the attempts are read after it.
Reads ==
  {[phase |-> p, version |-> v, choice |-> ChoiceOf(v), revealed |-> FALSE]
     : p \in (0..phase) \ {Results}, v \in 0..Len(attempts)}
    \cup {[phase |-> Results, version |-> v, choice |-> Counted, revealed |-> TRUE]
            : v \in IF phase = Results THEN Timely..Len(attempts) ELSE {}}

\* What arrives of them and of the consumer, which selects the run anew each time
\* it needs it: finalized after the session row, it comes with an earlier phase,
\* and finalized after the first look, as a final answer that is not revealed.
Snapshots ==
  Reads \cup {[phase |-> p, version |-> v, choice |-> Counted, revealed |-> r]
               : p \in 0..Results - 1, r \in BOOLEAN,
                 v \in IF phase = Results THEN Timely..Len(attempts) ELSE {}}
-----------------------------------------------------------------------------
\* The client.

Idle == [pc |-> "unused", submission |-> None, choice |-> None, retries |-> 0, result |-> None]

\* The reducer: never an earlier phase, the final answer for good, otherwise
\* never a smaller version of the answer.
Reduced(state) ==
  IF state.phase < shown.phase THEN shown
  ELSE IF state.revealed \/ (~ shown.revealed /\ state.version >= shown.version) THEN state
  ELSE [shown EXCEPT !.phase = state.phase]

\* The overlay after a state: it ends with its phase, with the final answer, or
\* with a version that no earlier press could have brought about.
Reached(overlay, state) == state.version >= overlay.minimum
Overlay_Bug(overlay, state) ==
  IF overlay = None \/ Reached(overlay, state) THEN None ELSE overlay
Overlay_Final_Bug(overlay, state) ==
  IF overlay = None \/ state.phase > Answering \/ Reached(overlay, state) THEN None ELSE overlay
Overlay(overlay, state) ==
  IF \/ overlay = None \/ state.phase > Answering
     \/ state.revealed \/ Reached(overlay, state)
  THEN None ELSE overlay

ApplyState(state) ==
  LET next == Reduced(state) IN
    /\ shown' = next
    /\ local' = Overlay(local, next)

\* What the screen shows as chosen, and as recorded.
VisibleChoice == IF local # None THEN local.choice ELSE shown.choice
VisibleHasAnswer == IF local # None THEN local.acknowledged ELSE shown.choice # None

Cancelled(e) == current # e \/ shown.phase > Answering

Aborted(runs) ==
  [e \in Presses |->
     IF runs[e].pc \in {"sending", "delay"}
     THEN [runs[e] EXCEPT !.pc = "done", !.result = "cancelled"] ELSE runs[e]]

Silenced == [e \in Presses |-> None]

Ends(e, result) ==
  /\ run' = [run EXCEPT ![e].pc = "done", ![e].result = IF current = e THEN result ELSE "dropped"]
  /\ retained' = IF current = e /\ result \in {"uncertain", "temporarily_failed"} THEN e
                 ELSE retained

IsLocal(e) == local # None /\ local.submission = run[e].submission

Acknowledged(e) == IF IsLocal(e) THEN [local EXCEPT !.acknowledged = TRUE] ELSE local

Request(e, r) == [press |-> e, submission |-> r.submission, choice |-> r.choice, attempt |-> r.retries]

\* The threshold lies above every earlier press of this run and above what the
\* server has shown.
Threshold_Bug == shown.version + 1
Threshold == (IF shown.version > issued THEN shown.version ELSE issued) + 1

\* _answer, submit and the first send.  The transport is free: the abort of the
\* press before has ended its request on this side.
Press ==
  /\ shown.phase = Answering /\ ~ shown.revealed
  /\ \E e \in Presses, choice \in Choices :
       LET kept == retained # None /\ run[retained].choice = choice
           submission == IF kept THEN run[retained].submission ELSE e
           execution == [Idle EXCEPT !.pc = "sending", !.choice = choice,
                                     !.submission = submission]
       IN  /\ ~ (VisibleHasAnswer /\ VisibleChoice = choice)
           /\ run[e].pc = "unused" /\ \A f \in Presses : f < e => run[f].pc # "unused"
           /\ run' = [Aborted(run) EXCEPT ![e] = execution]
           /\ net' = net \cup {Request(e, execution)}
           /\ IF local # None /\ local.submission = submission
              THEN UNCHANGED <<local, issued>>
              ELSE /\ issued' = Threshold
                   /\ local' = [submission |-> submission, choice |-> choice,
                                minimum |-> Threshold, acknowledged |-> FALSE]
           /\ current' = e
  /\ retained' = None /\ replies' = Silenced
  /\ UNCHANGED <<attempts, phase, shown>>

Retry(e) == [run EXCEPT ![e].pc = "delay", ![e].retries = @ + 1]

\* Only a limiter and an unavailable server are asked again; any other error is
\* thrown on to the screen, which says so and keeps nothing for a repeat.
Answered(e) ==
  /\ run[e].pc = "sending" /\ replies[e] # None
  /\ IF Cancelled(e) THEN Ends(e, "cancelled") /\ UNCHANGED local
     ELSE CASE replies[e] = "ok" -> Ends(e, "submitted") /\ local' = Acknowledged(e)
            [] replies[e] = "conflict" ->
                 run' = [run EXCEPT ![e].pc = "reading_conflict"] /\ UNCHANGED <<retained, local>>
            [] replies[e] = "error" -> Ends(e, "failed") /\ UNCHANGED local
            [] OTHER ->
                 /\ IF run[e].retries >= MaxRetries THEN Ends(e, "temporarily_failed")
                    ELSE run' = Retry(e) /\ UNCHANGED retained
                 /\ UNCHANGED local
  /\ replies' = [replies EXCEPT ![e] = None]
  /\ UNCHANGED <<server, shown, current, issued>>

Lost(e) ==
  /\ run[e].pc = "sending"
  /\ IF Cancelled(e) THEN Ends(e, "cancelled")
     ELSE IF run[e].retries < MaxRetries THEN run' = Retry(e) /\ UNCHANGED retained
     ELSE run' = [run EXCEPT ![e].pc = "reading_lost"] /\ UNCHANGED retained
  /\ replies' = [replies EXCEPT ![e] = None]
  /\ UNCHANGED <<server, shown, current, local, issued>>

Repeat(e) ==
  /\ run[e].pc = "delay"
  /\ IF Cancelled(e) THEN Ends(e, "cancelled") /\ UNCHANGED net
     ELSE /\ run' = [run EXCEPT ![e].pc = "sending"]
          /\ net' = net \cup {Request(e, run[e])}
          /\ UNCHANGED retained
  /\ UNCHANGED <<attempts, phase, replies, shown, current, local, issued>>

\* The press counts as stored when the server shows the same choice.
Recovered_Bug(e, state) == state.choice # None
Recovered(e, state) == state.choice = run[e].choice

\* The one read after a conflict or after the last lost answer.
ControlRead(e) ==
  /\ run[e].pc \in {"reading_conflict", "reading_lost"}
  /\ \E state \in Reads \cup {None} :
       LET taken == state # None /\ ~ Cancelled(e)
           next == IF taken THEN Reduced(state) ELSE shown
           overlay == IF taken THEN Overlay(local, next) ELSE local
           cancelled == current # e \/ next.phase > Answering
       IN  /\ shown' = next
           /\ IF cancelled THEN Ends(e, "cancelled") /\ local' = overlay
              ELSE IF run[e].pc = "reading_conflict"
              THEN /\ Ends(e, "conflict")
                   /\ local' = IF IsLocal(e) THEN None ELSE overlay
              ELSE IF taken /\ Recovered(e, next)
              THEN /\ Ends(e, "recovered")
                   /\ local' = IF overlay # None THEN Acknowledged(e) ELSE overlay
              ELSE Ends(e, "uncertain") /\ local' = overlay
  /\ UNCHANGED <<server, replies, current, issued>>

\* A snapshot of the poll or of the socket; a new context cancels the pending
\* press and forgets the retained one.
TakeSnapshot ==
  /\ \E state \in Snapshots :
       /\ Reduced(state) # shown \/ Overlay(local, Reduced(state)) # local
       /\ ApplyState(state)
  /\ IF shown'.phase > shown.phase
     THEN /\ run' = Aborted(run) /\ replies' = Silenced
          /\ current' = None /\ retained' = None
          /\ issued' = IF local # None THEN 0 ELSE issued
     ELSE UNCHANGED <<run, replies, current, retained, issued>>
  /\ UNCHANGED server

Step(e) == Answered(e) \/ Lost(e) \/ Repeat(e) \/ ControlRead(e)

Init ==
  /\ attempts = <<>> /\ phase = Answering /\ net = {}
  /\ replies = Silenced
  /\ shown = [phase |-> Answering, version |-> 0, choice |-> None, revealed |-> FALSE]
  /\ run = [e \in Presses |-> Idle]
  /\ current = None /\ retained = None /\ local = None /\ issued = 0

Next == Receive \/ MovesOn \/ Press \/ TakeSnapshot \/ \E e \in Presses : Step(e)

Spec == Init /\ [][Next]_vars

\* The session moves on by itself, and the polls of every five seconds are not
\* all lost: a snapshot of the current phase comes through.
Polled == TakeSnapshot /\ shown'.phase = phase
LiveSpec == Spec /\ WF_vars(MovesOn) /\ WF_vars(Polled)
-----------------------------------------------------------------------------
TypeOK ==
  /\ Len(attempts) <= MaxAttempts
  /\ \A i, j \in DOMAIN attempts : attempts[i].submission = attempts[j].submission => i = j
  /\ shown.version \in 0..Len(attempts)
  /\ shown.choice \in {ChoiceOf(shown.version)} \cup (IF phase = Results THEN {Counted} ELSE {})
  /\ shown.revealed => phase = Results /\ shown.choice = Counted
  /\ shown.phase = Results => shown.revealed
  /\ issued \in 0..Cardinality(Presses)
  /\ local # None =>
       /\ local.submission \in Presses /\ local.choice \in Choices
       /\ local.minimum \in 1..issued /\ shown.phase = Answering /\ ~ shown.revealed
  /\ phase \in 0..Results /\ shown.phase \in 0..phase
  /\ \A e \in Presses : run[e].retries \in 0..MaxRetries
  /\ {current, retained} \subseteq Presses \cup {None}

\* While the screen takes answers, a snapshot replaces what the participant
\* pressed only when it contains the press or tells the final answer: neither a
\* late snapshot nor one of an earlier press takes the newer one off the screen.
ReplacedOnlyWhenCounted ==
  [][/\ local # None /\ local' = None /\ shown'.phase = Answering
     /\ \A e \in Presses : run'[e].result = "conflict" => run[e].result = "conflict"
     => \/ shown'.revealed /\ shown'.choice = Counted /\ phase = Results
        \/ \E i \in 1..shown'.version : attempts[i].submission = local.submission]_vars

\* What the screen reports as recorded has a row with that choice, unless the
\* run had no room left for one.
RecordedIsStored ==
  VisibleHasAnswer =>
    \/ \E i \in DOMAIN attempts : attempts[i].choice = VisibleChoice
    \/ Len(attempts) = MaxAttempts

\* In the end the screen shows the answer that counts, whatever threshold the
\* lost presses have left behind.
ShowsWhatCounts == <>[](shown.phase = Results /\ VisibleChoice = Counted)
=============================================================================
