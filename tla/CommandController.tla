--------------------------- MODULE CommandController ---------------------------
(***************************************************************************)
(* The teacher's commands: SessionCommandController and the screen that    *)
(* drives it, a network that loses and delays requests and answers, and    *)
(* the server's log of commands, which Gameplay models in full.            *)
(*                                                                         *)
(* A press starts an execution.  An execution that the next press or a     *)
(* newer state cancels stops by itself at its next step; its request may   *)
(* still be on its way and take effect.  A phase "answering", "delivery"   *)
(* or "results" of a question stands for the state with its revision.      *)
(***************************************************************************)
EXTENDS Naturals, FiniteSets

CONSTANTS
  Presses,      \* bound: the executions of a behaviour, 1..n in their order
  MaxRetries,   \* automatic repeats of a request, 3 in the code
  Questions,    \* bound: the questions of the game
  Busy,         \* answers that stop a request: 429 or 503, and 401
  None

Kinds == {"end-question", "next-question", "finish"}
Refusals == {"state_conflict", "conflict"}
Results ==
  Refusals \cup {"succeeded", "recovered", "cancelled", "uncertain", "temporarily_failed",
                "error", "dropped"}

ASSUME CommandAssumption ==
  /\ IsFiniteSet(Presses) /\ Presses = 1..Cardinality(Presses)
  /\ Busy \subseteq {"unavailable", "unauthorized"}
  /\ MaxRetries \in Nat /\ Questions \in Nat \ {0} /\ None \notin Nat \cup Results

VARIABLES
  game,       \* the session of the server
  late,       \* the planned deadline of the answers to the question has passed
  log,        \* SessionCommand rows: command_id -> the response kept with it
  net,        \* requests on their way to the server, once each
  replies,    \* answers on their way to the client, by execution
  shown,      \* the state of the reducer
  run,        \* executions of the controller, by press
  current,    \* the execution of the current generation, None after a cancel
  uncertain   \* the execution whose request the screen keeps for a repeat

vars == <<game, late, log, net, replies, shown, run, current, uncertain>>
server == <<game, late, log, net>>
-----------------------------------------------------------------------------
\* The server.

\* _apply_transition: what the state and, for end-question, the clock permit.
Legal(kind, g, past) ==
  CASE kind = "end-question" -> g.phase = "answering" /\ ~past
    [] kind = "next-question" -> g.phase = "results" /\ g.question < Questions
    [] OTHER -> g.phase \notin {"finished", "aborted"}

Advanced(g) ==
  [g EXCEPT !.revision = @ + 1,
            !.question = IF g.phase = "results" /\ @ < Questions THEN @ + 1 ELSE @,
            !.phase = CASE g.phase = "answering" -> "delivery"
                        [] g.phase = "delivery" -> "results"
                        [] OTHER -> IF g.question < Questions THEN "answering" ELSE "finished"]

Applied(kind, g) ==
  IF kind = "finish" THEN [g EXCEPT !.revision = @ + 1, !.phase = "aborted"]
  ELSE Advanced(g)

\* What the time of a request may say of the deadline: database_now() is asked under
\* the lock of the session.  The bug: it is asked before the lock, maybe long before.
Times_Bug == {late, FALSE}
Times == {late}

\* execute_manual_command: the log before the revision before the transition.
Verdict_Unlogged_Bug(request, past) ==
  CASE request.context # game -> "state_conflict"
    [] request.context = game /\ ~ Legal(request.kind, game, past) -> "conflict"
    [] OTHER -> "apply"
Verdict_Unchecked_Bug(request, past) ==
  CASE request.id \in DOMAIN log -> "repeat"
    [] request.id \notin DOMAIN log /\ ~ Legal(request.kind, game, past) -> "conflict"
    [] OTHER -> "apply"
Verdict(request, past) ==
  CASE request.id \in DOMAIN log -> "repeat"
    [] request.id \notin DOMAIN log /\ request.context # game -> "state_conflict"
    [] request.id \notin DOMAIN log /\ request.context = game
         /\ ~ Legal(request.kind, game, past) -> "conflict"
    [] OTHER -> "apply"

\* The answer finds the client only on the connection that asked.
Attempt(e) == <<run[e].retries, run[e].renewed>>

Answer_Bug(request, reply) == replies' = [replies EXCEPT ![request.press] = reply]
Answer(request, reply) ==
  LET e == request.press IN
    IF run[e].pc = "sending" /\ request.attempt = Attempt(e)
    THEN replies' = [replies EXCEPT ![e] = reply]
    ELSE UNCHANGED replies

\* A request reaches the server, or a limiter or an expired token stops it.
Receive ==
  \E request \in net, past \in Times :
    /\ net' = net \ {request}
    /\ LET verdict == Verdict(request, past)
           next == Applied(request.kind, game)
       IN  \/ /\ verdict = "apply"
              /\ game' = next /\ late' = FALSE
              /\ log' = [id \in DOMAIN log \cup {request.id} |->
                           IF id = request.id
                           THEN [state |-> next, revision |-> request.context.revision]
                           ELSE log[id]]
              /\ Answer(request, [code |-> "ok", state |-> next])
           \/ /\ verdict = "repeat"
              /\ Answer(request, [code |-> "ok", state |-> log[request.id].state])
              /\ UNCHANGED <<game, late, log>>
           \/ /\ verdict \in Refusals
              /\ Answer(request, [code |-> verdict, state |-> game])
              /\ UNCHANGED <<game, late, log>>
           \/ /\ \E code \in Busy : Answer(request, [code |-> code, state |-> game])
              /\ UNCHANGED <<game, late, log>>
    /\ UNCHANGED <<shown, run, current, uncertain>>

\* The deadline of the answers passes; the timer ends them afterwards.
DeadlinePasses ==
  /\ game.phase = "answering" /\ ~late /\ late' = TRUE
  /\ UNCHANGED <<game, log, net, replies, shown, run, current, uncertain>>

\* The server moves on by its own deadlines.
MovesOn ==
  /\ game.phase \notin {"finished", "aborted"} /\ (game.phase = "answering" => late)
  /\ game' = Advanced(game) /\ late' = FALSE
  /\ UNCHANGED <<log, net, replies, shown, run, current, uncertain>>
-----------------------------------------------------------------------------
\* The client.

Idle == [pc |-> "unused", id |-> None, kind |-> "finish",
         context |-> [revision |-> 0, phase |-> "answering", question |-> 1],
         retries |-> 0, renewed |-> FALSE, result |-> None]

Reduced(state) == IF state.revision > shown.revision THEN state ELSE shown

\* What the screen waits for, so that a lost answer counts as success.
ExpectedSuccess(kind, context, state) ==
  CASE kind = "end-question" -> state.phase \in {"delivery", "results"}
    [] kind = "next-question" ->
         state.question # context.question \/ state.phase \in {"finished", "aborted"}
    [] OTHER -> state.phase \in {"finished", "aborted"}

Cancelled(e) == current # e \/ shown # run[e].context

Active(e) == run[e].pc \notin {"unused", "done"}

\* An abort ends a request on the wire and a wait at once; a renewal of the
\* token or a control read it cannot end.
Aborted(runs) ==
  [e \in Presses |->
     IF runs[e].pc \in {"sending", "delay"}
     THEN [runs[e] EXCEPT !.pc = "done", !.result = "cancelled"] ELSE runs[e]]

Silenced == [e \in Presses |-> IF run[e].pc = "sending" THEN None ELSE replies[e]]

\* The end of an execution: what the screen reports and keeps when it is still
\* the latest one, the current generation.  Another result is dropped.
Ends(e, result) ==
  /\ run' = [run EXCEPT ![e].pc = "done", ![e].result = IF current = e THEN result ELSE "dropped"]
  /\ uncertain' =
       IF current # e THEN uncertain
       ELSE CASE result = "uncertain" -> e
              [] result \in {"state_conflict", "conflict", "temporarily_failed", "error"} ->
                   uncertain
              [] OTHER -> None

Kept_Bug(kind) == FALSE
Kept(kind) ==
  uncertain # None /\ run[uncertain].kind = kind /\ run[uncertain].context = shown

\* _runSessionCommand and execute up to the first send.
Press ==
  \E e \in Presses, kind \in Kinds :
    /\ run[e].pc = "unused" /\ \A f \in Presses : f < e => run[f].pc # "unused"
    /\ run' = [Aborted(run) EXCEPT ![e] =
                 [Idle EXCEPT !.pc = "ready", !.kind = kind, !.context = shown,
                              !.id = IF Kept(kind) THEN run[uncertain].id ELSE e]]
    /\ uncertain' = IF Kept(kind) THEN uncertain ELSE None
    /\ replies' = Silenced
    /\ current' = e
    /\ UNCHANGED <<server, shown>>

Free == \A f \in Presses : run[f].pc \notin {"sending", "refreshing"}

Request(e, renewed) ==
  [press |-> e, id |-> run[e].id, kind |-> run[e].kind, context |-> run[e].context,
   attempt |-> <<run[e].retries, renewed>>]

\* A request leaves as soon as the transport is free.  One that was cancelled
\* while it waited for the transport is aborted as it is sent, early or late.
Sends(e, renewed) ==
  IF current # e
  THEN /\ \/ net' = net
          \/ net' = net \cup {Request(e, renewed)}
       /\ Ends(e, "cancelled")
       /\ UNCHANGED replies
  ELSE /\ net' = net \cup {Request(e, renewed)}
       /\ run' = [run EXCEPT ![e].pc = "sending", ![e].renewed = renewed]
       /\ replies' = [replies EXCEPT ![e] = None]
       /\ UNCHANGED uncertain

Send(e) ==
  /\ run[e].pc = "ready"
  /\ Free
  /\ Sends(e, FALSE)
  /\ UNCHANGED <<game, late, log, shown, current>>

\* 401: the token is renewed and the request is sent again, once.
Refreshed(e) ==
  /\ run[e].pc = "refreshing"
  /\ \/ Sends(e, TRUE)
     \/ Ends(e, IF Cancelled(e) THEN "cancelled" ELSE "error") /\ UNCHANGED <<net, replies>>
  /\ UNCHANGED <<game, late, log, shown, current>>

Retry_Bug(e) == [run EXCEPT ![e].pc = "delay"]
Retry(e) == [run EXCEPT ![e].pc = "delay", ![e].retries = @ + 1]

\* The answer of the server, or of the limiter.
Answered(e) ==
  /\ run[e].pc = "sending" /\ replies[e] # None
  /\ LET code == replies[e].code
         state == replies[e].state
     IN  CASE code = "unauthorized" /\ ~ run[e].renewed ->
                /\ run' = [run EXCEPT ![e].pc = "refreshing"]
                /\ UNCHANGED <<shown, uncertain>>
           [] (code # "unauthorized" \/ run[e].renewed) /\ Cancelled(e) ->
                Ends(e, "cancelled") /\ UNCHANGED shown
           [] code = "unauthorized" /\ run[e].renewed /\ ~ Cancelled(e) ->
                Ends(e, "error") /\ UNCHANGED shown
           [] code \in {"ok", "state_conflict"} /\ ~ Cancelled(e) ->
                /\ Ends(e, IF code = "ok" THEN "succeeded" ELSE code)
                /\ shown' = Reduced(state)
           [] code = "conflict" /\ ~ Cancelled(e) ->
                /\ run' = [run EXCEPT ![e].pc = "reading_conflict"]
                /\ UNCHANGED <<shown, uncertain>>
           [] OTHER ->
                /\ IF run[e].retries >= MaxRetries THEN Ends(e, "temporarily_failed")
                   ELSE run' = Retry(e) /\ UNCHANGED uncertain
                /\ UNCHANGED shown
  /\ replies' = [replies EXCEPT ![e] = None]
  /\ UNCHANGED <<server, current>>

\* No answer within the timeout, or a broken connection.
Lost(e) ==
  /\ run[e].pc = "sending"
  /\ IF Cancelled(e) THEN Ends(e, "cancelled")
     ELSE IF run[e].retries < MaxRetries THEN run' = Retry(e) /\ UNCHANGED uncertain
     ELSE run' = [run EXCEPT ![e].pc = "reading_lost"] /\ UNCHANGED uncertain
  /\ replies' = [replies EXCEPT ![e] = None]
  /\ UNCHANGED <<server, shown, current>>

\* The wait before a repeat is over.
Repeat(e) ==
  /\ run[e].pc = "delay"
  /\ IF Cancelled(e) THEN Ends(e, "cancelled")
     ELSE run' = [run EXCEPT ![e].pc = "ready"] /\ UNCHANGED uncertain
  /\ UNCHANGED <<server, replies, shown, current>>

\* The one read after an ordinary conflict or after the last lost answer.
ControlRead(e) ==
  /\ run[e].pc \in {"reading_conflict", "reading_lost"}
  /\ \E read \in BOOLEAN :
       LET next == IF read /\ ~ Cancelled(e) THEN Reduced(game) ELSE shown IN
       /\ shown' = next
       /\ Ends(e,
            IF run[e].pc = "reading_conflict"
            THEN IF read /\ Cancelled(e) THEN "cancelled" ELSE "conflict"
            ELSE IF ~ read THEN "uncertain"
            ELSE IF Cancelled(e) THEN "cancelled"
            ELSE IF ExpectedSuccess(run[e].kind, run[e].context, next) THEN "recovered"
            ELSE IF next # run[e].context THEN "cancelled"
            ELSE "uncertain")
  /\ UNCHANGED <<server, replies, current>>

\* A state over the socket cancels the command of an older one.
Observe ==
  /\ shown # game
  /\ shown' = game
  /\ run' = Aborted(run) /\ replies' = Silenced
  /\ current' = None /\ uncertain' = None
  /\ UNCHANGED server

\* A state read by another part of the screen cancels nothing by itself.
ReadState ==
  /\ shown # game
  /\ shown' = game
  /\ UNCHANGED <<server, replies, run, current, uncertain>>

Step(e) ==
  Send(e) \/ Refreshed(e) \/ Answered(e) \/ Lost(e) \/ Repeat(e) \/ ControlRead(e)

Init ==
  /\ game = Idle.context /\ shown = Idle.context /\ late = FALSE
  /\ log = [id \in {} |-> None] /\ net = {}
  /\ replies = [e \in Presses |-> None]
  /\ run = [e \in Presses |-> Idle]
  /\ current = None /\ uncertain = None

Next == Receive \/ DeadlinePasses \/ MovesOn \/ Press \/ Observe \/ ReadState \/ \E e \in Presses : Step(e)

Spec == Init /\ [][Next]_vars

\* Timers and the answers of the client's own platform are never late forever;
\* the server and the network owe nothing.
Fairness == \A e \in Presses : WF_vars(Step(e))
-----------------------------------------------------------------------------
States == [revision : 0..(3 * Questions), question : 1..Questions,
           phase : {"answering", "delivery", "results", "finished", "aborted"}]

TypeOK ==
  /\ game \in States /\ shown \in States /\ shown.revision <= game.revision
  /\ late \in BOOLEAN /\ (late => game.phase = "answering")
  /\ DOMAIN log \subseteq Presses
  /\ \A r \in net : r.press \in Presses /\ r.id \in Presses /\ r.attempt \in (0..MaxRetries) \X BOOLEAN
  /\ \A e \in Presses :
       /\ replies[e] # None => run[e].pc = "sending" /\ replies[e].state \in States
       /\ Active(e) => run[e].id \in 1..e /\ run[e].retries \in 0..MaxRetries
  /\ current \in Presses \cup {None} /\ uncertain \in Presses \cup {None}

\* What the screen reports as refused was not done and will not be: neither an
\* answer that was lost nor a copy of the request still on its way belies it.
RefusedWasNeverDone ==
  \A e \in Presses : run[e].result \in Refusals => run[e].id \notin DOMAIN log

\* Two presses on one shown state, repeated or not, move the session once.
OneStatePressMovesOnce ==
  \A i, j \in DOMAIN log : log[i].revision = log[j].revision => i = j

\* The teacher presses again what was reported as unknown, and is not told that
\* the state has changed when it was the first press that changed it.
UnknownIsAskedAgain ==
  \A e \in Presses \ {1} :
    /\ run[e - 1].result = "uncertain" /\ run[e - 1].id \in DOMAIN log
    /\ run[e].kind = run[e - 1].kind /\ run[e].context = run[e - 1].context
    => run[e].result \notin Refusals

\* Every press comes to an end, whatever the network and the server do.
EveryPressEnds == \A e \in Presses : Active(e) ~> run[e].pc = "done"

\* What the screen says of a command and what became of it agree, whatever the
\* network loses and delays (session_command_controller.dart:75-257).
CommandsAreSafe ==
  TypeOK /\ RefusedWasNeverDone /\ OneStatePressMovesOnce /\ UnknownIsAskedAgain
=============================================================================
