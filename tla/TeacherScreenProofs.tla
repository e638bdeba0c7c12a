------------------------ MODULE TeacherScreenProofs --------------------------
(***************************************************************************)
(* Proofs that what the teacher's screen says of a command agrees with     *)
(* what became of it: for any number of presses and of automatic repeats,  *)
(* and whatever the network loses, delays and answers late; and that the   *)
(* screen has one socket at a time and renews a token once, for any number *)
(* of requests, of failures of a socket and of tokens.                     *)
(***************************************************************************)
EXTENDS TeacherScreen, FiniteSetTheorems, TLAPS

Phases == {"answering", "delivery", "results", "finished", "aborted"}
GameStates == [revision : Nat, question : 1..Questions, phase : Phases]

Pcs == {"unused", "ready", "sending", "refreshing", "delay", "reading_conflict",
        "reading_lost", "done"}

\* The local state of an execution and the requests and answers that are made of it.
Runs ==
  [pc : Pcs, id : Presses \cup {None}, kind : Kinds, context : GameStates,
   retries : 0..MaxRetries, renewed : BOOLEAN, result : Results \cup {None}]
Requests ==
  [press : Presses, id : Presses, kind : Kinds, context : GameStates,
   attempt : (0..MaxRetries) \X BOOLEAN]
Codes == {"ok", "state_conflict", "conflict", "unavailable", "unauthorized"}
Replies == [code : Codes, state : GameStates]
LogRows == [state : GameStates, revision : Nat]

TypesInv ==
  /\ game \in GameStates /\ shown \in GameStates
  /\ late \in BOOLEAN /\ (late => game.phase = "answering")
  /\ log \in [DOMAIN log -> LogRows] /\ DOMAIN log \subseteq Presses
  /\ net \subseteq Requests
  /\ replies \in [Presses -> Replies \cup {None}]
  /\ run \in [Presses -> Runs]
  /\ current \in Presses \cup {None} /\ uncertain \in Presses \cup {None}

\* The revision counts the transitions, three for a question.
Turns(s) ==
  CASE s.phase = "answering" -> s.revision = 3 * (s.question - 1)
    [] s.phase = "delivery" -> s.revision = 3 * (s.question - 1) + 1
    [] s.phase = "results" -> s.revision = 3 * (s.question - 1) + 2
    [] OTHER -> s.revision <= 3 * s.question
RevisionInv == Turns(game)

\* s was a state of the session: the present one or one of an earlier revision.
Past(s) == s.revision < game.revision \/ s = game

Used(e) == run[e].pc # "unused"

\* Whatever the client holds was true of the session, and what it shows is as new as
\* what its executions began with.
PastInv ==
  /\ Past(shown)
  /\ \A e \in Presses : Used(e) =>
       /\ Past(run[e].context)
       /\ run[e].context.revision < shown.revision \/ run[e].context = shown
  /\ \A e \in Presses : replies[e] # None => Past(replies[e].state)
  /\ \A i \in DOMAIN log : Past(log[i].state)

LogInv ==
  /\ \A i \in DOMAIN log : log[i].revision < game.revision
  /\ OneStatePressMovesOnce

\* Presses are made in their order, and the current one is the latest.
OrderInv ==
  /\ \A e, f \in Presses : Used(e) /\ f < e => Used(f)
  /\ current # None => Used(current) /\ \A e \in Presses : current < e => ~ Used(e)

\* An identifier is of the press that took it first, and later presses repeat its
\* command on its state.
IdsInv ==
  \A e \in Presses : Used(e) =>
    /\ run[e].id \in 1..e
    /\ Used(run[e].id) /\ run[run[e].id].id = run[e].id
    /\ run[run[e].id].kind = run[e].kind /\ run[run[e].id].context = run[e].context

\* What is on its way is what its execution asks.
NetInv ==
  \A r \in net :
    /\ Used(r.press)
    /\ r.id = run[r.press].id /\ r.kind = run[r.press].kind
    /\ r.context = run[r.press].context

\* The command of e was not done, and no copy of its request will be accepted: the
\* session has moved on, or it forbids the command and will until it moves on.  What
\* the clock forbids stays forbidden, for a request has its time from under the lock.
Dead(e) ==
  /\ run[e].id \notin DOMAIN log
  /\ \/ run[e].context.revision < game.revision
     \/ ~ Legal(run[e].kind, run[e].context, late)

\* A refusal on its way, taken or reported is the refusal of a dead command.
RefusalInv ==
  \A e \in Presses :
    /\ replies[e] # None => run[e].pc = "sending"
    /\ run[e].result # None => run[e].pc = "done"
    /\ \/ replies[e] # None /\ replies[e].code \in Refusals
       \/ run[e].pc = "reading_conflict"
       \/ run[e].result \in Refusals
       => Dead(e)

\* An unknown result is kept for the next press until the state has changed.
UnknownInv ==
  /\ uncertain # None => run[uncertain].pc = "done"
  /\ \A e \in Presses : run[e].result = "uncertain" =>
       \/ uncertain = e
       \/ run[e].context.revision < shown.revision
       \/ e + 1 \in Presses /\ Used(e + 1)
  /\ \A e \in Presses \ {1} :
       Used(e) /\ run[e - 1].result = "uncertain" =>
         \/ run[e].kind # run[e - 1].kind
         \/ run[e].context # run[e - 1].context
         \/ run[e].id = run[e - 1].id

ControllerInv ==
  /\ TypesInv /\ RevisionInv /\ PastInv /\ LogInv /\ OrderInv /\ IdsInv /\ NetInv
  /\ RefusalInv /\ UnknownInv
-----------------------------------------------------------------------------
(* Lemmas about the constants and the operators.                            *)

\* The presses are numbered from one on.
LEMMA PressesAre ==
  /\ \E n \in Nat : Presses = 1..n
  /\ Presses \subseteq Nat
  /\ \A e \in Presses, f \in Nat : 1 <= f /\ f <= e => f \in Presses
<1>1. \E n \in Nat : Presses = 1..n
  BY CommandAssumption, FS_CardinalityType
<1> QED BY <1>1

\* None is neither a press nor a result.
LEMMA NoneIsNothing ==
  None \notin Presses /\ None \notin Results /\ None \notin Refusals /\ None # "uncertain"
BY CommandAssumption, PressesAre DEF Results

\* A transition that the session makes counts one revision.
LEMMA AdvancedCounts ==
  ASSUME NEW g \in GameStates, Turns(g), g.phase \notin {"finished", "aborted"}
  PROVE  /\ Advanced(g) \in GameStates /\ Turns(Advanced(g))
         /\ Advanced(g).revision = g.revision + 1
<1> DEFINE q == IF g.phase = "results" /\ g.question < Questions
                THEN g.question + 1 ELSE g.question
           p == CASE g.phase = "answering" -> "delivery"
                  [] g.phase = "delivery" -> "results"
                  [] OTHER -> IF g.question < Questions THEN "answering" ELSE "finished"
           h == [revision |-> g.revision + 1, question |-> q, phase |-> p]
<1>1. g = [revision |-> g.revision, question |-> g.question, phase |-> g.phase]
  BY DEF GameStates
<1>2. Advanced(g) = h
  <2>1. Advanced(g) = [g EXCEPT !.revision = @ + 1, !.question = q, !.phase = p]
    BY DEF Advanced
  <2> HIDE DEF q, p
  <2> QED BY <1>1, <2>1
<1>3. g.revision \in Nat /\ g.question \in 1..Questions /\ Questions \in Nat
      /\ g.phase \in {"answering", "delivery", "results"}
  BY CommandAssumption DEF GameStates, Phases
<1>4. q \in 1..Questions /\ p \in Phases
  BY <1>3 DEF Phases
<1>5. h.revision = g.revision + 1 /\ h.question = q /\ h.phase = p
  OBVIOUS
<1>6. h \in GameStates
  BY <1>3, <1>4 DEF GameStates
<1>7. Turns(h)
  <2>1. CASE g.phase = "answering"
    <3>1. p = "delivery" /\ q = g.question
      BY <2>1
    <3> HIDE DEF p, q, h
    <3> QED BY <1>3, <1>5, <2>1, <3>1 DEF Turns
  <2>2. CASE g.phase = "delivery"
    <3>1. p = "results" /\ q = g.question
      BY <2>2
    <3> HIDE DEF p, q, h
    <3> QED BY <1>3, <1>5, <2>2, <3>1 DEF Turns
  <2>3. CASE g.phase = "results" /\ g.question < Questions
    <3>1. p = "answering" /\ q = g.question + 1
      BY <2>3
    <3> HIDE DEF p, q, h
    <3> QED BY <1>3, <1>5, <2>3, <3>1 DEF Turns
  <2>4. CASE g.phase = "results" /\ ~ g.question < Questions
    <3>1. p = "finished" /\ q = g.question
      BY <2>4
    <3> HIDE DEF p, q, h
    <3> QED BY <1>3, <1>5, <2>4, <3>1 DEF Turns
  <2> QED BY <1>3, <2>1, <2>2, <2>3, <2>4
<1> HIDE DEF h
<1> QED BY <1>2, <1>5, <1>6, <1>7

\* So does a command that is legal.
LEMMA AppliedCounts ==
  ASSUME NEW g \in GameStates, Turns(g), NEW kind \in Kinds, NEW past \in BOOLEAN,
         Legal(kind, g, past)
  PROVE  /\ Applied(kind, g) \in GameStates /\ Turns(Applied(kind, g))
         /\ Applied(kind, g).revision = g.revision + 1
<1>1. g.phase \notin {"finished", "aborted"}
  BY DEF Legal, Kinds
<1>2. CASE kind # "finish"
  BY <1>1, <1>2, AdvancedCounts DEF Applied
<1>3. CASE kind = "finish"
  <2> DEFINE h == [revision |-> g.revision + 1, question |-> g.question, phase |-> "aborted"]
  <2>1. g = [revision |-> g.revision, question |-> g.question, phase |-> g.phase]
    BY DEF GameStates
  <2>2. Applied(kind, g) = h
    BY <1>3, <2>1 DEF Applied
  <2>3. h.revision = g.revision + 1 /\ h.question = g.question /\ h.phase = "aborted"
    OBVIOUS
  <2>4. h \in GameStates
    BY DEF GameStates, Phases
  <2>5. g.revision \in Nat /\ g.question \in Nat
        /\ g.phase \in {"answering", "delivery", "results"}
    BY <1>1, CommandAssumption DEF GameStates, Phases
  <2>6. Turns(h)
    <3> HIDE DEF h
    <3> QED BY <2>3, <2>5 DEF Turns
  <2> HIDE DEF h
  <2> QED BY <2>2, <2>3, <2>4, <2>6
<1> QED BY <1>2, <1>3

\* What was a state of the session stays one when the session moves on.
LEMMA PastStays ==
  ASSUME NEW s \in GameStates, game \in GameStates, Past(s),
         game' \in GameStates, game'.revision = game.revision + 1
  PROVE  Past(s)'  /\ s.revision < game'.revision
BY DEF Past, GameStates
-----------------------------------------------------------------------------
(* Lemmas about what a step leaves alone.                                   *)

\* No press is made, and every execution keeps its command.
SameCommands ==
  \A f \in Presses :
    /\ Used(f)' <=> Used(f)
    /\ run'[f].id = run[f].id /\ run'[f].kind = run[f].kind
    /\ run'[f].context = run[f].context

\* The shown state stays or becomes a newer one.
ShownMoves ==
  \/ shown' = shown
  \/ shown' \in GameStates /\ Past(shown') /\ shown.revision < shown'.revision

\* No answer is added.
NoNewReply == \A f \in Presses : replies'[f] \in {replies[f], None}

\* What the server has stays, and with it what became of the commands.
LEMMA ServerStands ==
  ASSUME ControllerInv, UNCHANGED <<game, late, log>>, SameCommands
  PROVE  /\ RevisionInv' /\ LogInv' /\ IdsInv'
         /\ \A f \in Presses : Dead(f)' <=> Dead(f)
<1> USE DEF ControllerInv
<1>1. RevisionInv'
  BY DEF RevisionInv
<1>2. LogInv'
  BY DEF LogInv, OneStatePressMovesOnce
<1>3. IdsInv'
  <2> SUFFICES ASSUME NEW e \in Presses, Used(e)
               PROVE  /\ run'[e].id \in 1..e
                      /\ Used(run[e].id)' /\ run'[run'[e].id].id = run'[e].id
                      /\ run'[run'[e].id].kind = run'[e].kind
                      /\ run'[run'[e].id].context = run'[e].context
    BY DEF IdsInv, SameCommands
  <2>1. /\ run[e].id \in 1..e
        /\ Used(run[e].id) /\ run[run[e].id].id = run[e].id
        /\ run[run[e].id].kind = run[e].kind /\ run[run[e].id].context = run[e].context
    BY DEF IdsInv
  <2>2. run[e].id \in Presses
    BY <2>1, PressesAre
  <2> QED BY <2>1, <2>2 DEF SameCommands
<1>4. \A f \in Presses : Dead(f)' <=> Dead(f)
  BY DEF Dead, SameCommands
<1> QED BY <1>1, <1>2, <1>3, <1>4

\* What the client holds was true of the session.
LEMMA ShownStands ==
  ASSUME ControllerInv, UNCHANGED <<game, late, log>>, SameCommands, ShownMoves, NoNewReply
  PROVE  PastInv' /\ shown' \in GameStates
<1> USE DEF ControllerInv
<1>1. shown' \in GameStates /\ Past(shown')
  BY DEF ShownMoves, TypesInv, PastInv
<1>2. ASSUME NEW e \in Presses, Used(e)
      PROVE  /\ Past(run'[e].context)
             /\ run'[e].context.revision < shown'.revision \/ run'[e].context = shown'
  <2>1. /\ run'[e].context = run[e].context /\ Past(run[e].context)
        /\ run[e].context.revision < shown.revision \/ run[e].context = shown
    BY <1>2 DEF SameCommands, PastInv
  <2>2. run[e].context \in GameStates /\ shown \in GameStates
    BY DEF TypesInv, Runs
  <2>3. \A s \in GameStates : s.revision \in Nat
    BY DEF GameStates
  <2> QED BY <1>1, <2>1, <2>2, <2>3 DEF ShownMoves
<1>3. \A e \in Presses : replies'[e] # None => Past(replies'[e].state)
  BY DEF NoNewReply, PastInv
<1>4. \A i \in DOMAIN log : Past(log[i].state)
  BY DEF PastInv
<1> QED BY <1>1, <1>2, <1>3, <1>4 DEF PastInv, Past, SameCommands

\* An execution takes a step: it keeps its command, may have sent it, may have taken
\* an answer, and says refused of a dead command only.
OwnStep(e) ==
  /\ UNCHANGED <<game, late, log, current>>
  /\ run' \in [Presses -> Runs]
  /\ \A f \in Presses \ {e} : run'[f] = run[f]
  /\ run'[e].id = run[e].id /\ run'[e].kind = run[e].kind /\ run'[e].context = run[e].context
  /\ run[e].pc \notin {"unused", "done"} /\ run'[e].pc # "unused"
  /\ ShownMoves
  /\ net' \subseteq Requests
  /\ \A r \in net' \ net : /\ r.press = e /\ r.id = run[e].id /\ r.kind = run[e].kind
                           /\ r.context = run[e].context
  /\ replies' \in [Presses -> Replies \cup {None}] /\ NoNewReply
  /\ run'[e].pc # "sending" => replies'[e] = None
  /\ run'[e].result # None => run'[e].pc = "done"
  /\ \/ replies'[e] # None
     \/ run'[e].pc = "reading_conflict"
     \/ run'[e].result \in Refusals
     => Dead(e)

\* Such a step keeps all but what is said of unknown results.
LEMMA OwnStepKeeps ==
  ASSUME ControllerInv, NEW e \in Presses, OwnStep(e)
  PROVE  /\ SameCommands
         /\ PastInv' /\ RevisionInv' /\ LogInv' /\ OrderInv' /\ IdsInv' /\ NetInv'
         /\ RefusalInv'
         /\ uncertain' \in Presses \cup {None} => TypesInv'
<1> USE DEF ControllerInv
<1>1. SameCommands
  BY DEF OwnStep, SameCommands, Used
<1>2. UNCHANGED <<game, late, log, current>>
  BY DEF OwnStep
<1>3. RevisionInv' /\ LogInv' /\ IdsInv' /\ \A f \in Presses : Dead(f)' <=> Dead(f)
  BY <1>1, <1>2, ServerStands
<1>4. PastInv' /\ shown' \in GameStates
  BY <1>1, <1>2, ShownStands DEF OwnStep
<1>5. OrderInv'
  <2>1. current \in Presses \cup {None}
    BY DEF TypesInv
  <2> QED BY <1>1, <1>2, <2>1 DEF OrderInv, SameCommands
<1>6. NetInv'
  <2> SUFFICES ASSUME NEW r \in net'
               PROVE  /\ Used(r.press)'
                      /\ r.id = run'[r.press].id /\ r.kind = run'[r.press].kind
                      /\ r.context = run'[r.press].context
    BY DEF NetInv
  <2>1. r.press \in Presses
    BY DEF OwnStep, Requests
  <2>2. CASE r \in net
    BY <1>1, <2>1, <2>2 DEF NetInv, SameCommands
  <2>3. CASE r \notin net
    BY <1>1, <2>3 DEF OwnStep, SameCommands, Used
  <2> QED BY <2>2, <2>3
<1>7. RefusalInv'
  <2> SUFFICES ASSUME NEW f \in Presses
               PROVE  /\ replies'[f] # None => run'[f].pc = "sending"
                      /\ run'[f].result # None => run'[f].pc = "done"
                      /\ \/ replies'[f] # None /\ replies'[f].code \in Refusals
                         \/ run'[f].pc = "reading_conflict"
                         \/ run'[f].result \in Refusals
                         => Dead(f)'
    BY DEF RefusalInv
  <2>1. CASE f = e
    BY <1>3, <2>1 DEF OwnStep
  <2>2. CASE f # e
    <3>1. run'[f] = run[f] /\ replies'[f] \in {replies[f], None}
      BY <2>2 DEF OwnStep, NoNewReply
    <3> QED BY <1>3, <3>1 DEF RefusalInv
  <2> QED BY <2>1, <2>2
<1>8. ASSUME uncertain' \in Presses \cup {None} PROVE TypesInv'
  BY <1>2, <1>4, <1>8 DEF TypesInv, OwnStep
<1> QED BY <1>1, <1>3, <1>4, <1>5, <1>6, <1>7, <1>8

\* A step that ends nothing.
LEMMA GoesOnKeeps ==
  ASSUME ControllerInv, NEW e \in Presses, OwnStep(e),
         uncertain' = uncertain, run'[e].result = None
  PROVE  ControllerInv'
<1> USE DEF ControllerInv
<1>1. uncertain \in Presses \cup {None}
  BY DEF TypesInv
<1>2. SameCommands
  BY OwnStepKeeps
<1>3. \A f \in Presses : run'[f].result = "uncertain" => run[f].result = "uncertain"
  BY NoneIsNothing DEF OwnStep
<1>4. uncertain # None => run'[uncertain].pc = "done"
  BY <1>1 DEF UnknownInv, OwnStep
<1>5. \A f \in Presses : run'[f].context.revision < shown'.revision
                           \/ ~ run[f].context.revision < shown.revision
  <2>1. \A f \in Presses : run[f].context \in GameStates /\ run'[f].context = run[f].context
    BY <1>2 DEF SameCommands, TypesInv, Runs
  <2>2. shown \in GameStates /\ \A s \in GameStates : s.revision \in Nat
    BY DEF TypesInv, GameStates
  <2> QED BY <2>1, <2>2 DEF OwnStep, ShownMoves
<1>6. \A f \in Presses : f # 1 => f - 1 \in Presses
  BY PressesAre
<1>7. UnknownInv'
  BY <1>2, <1>3, <1>4, <1>5, <1>6 DEF UnknownInv, SameCommands
<1> QED BY <1>1, <1>7, OwnStepKeeps

\* A step that ends an execution with a result.
LEMMA EndKeeps ==
  ASSUME ControllerInv, NEW e \in Presses, OwnStep(e),
         NEW result \in Results, Ends(e, result)
  PROVE  ControllerInv'
<1> USE DEF ControllerInv
<1>1. uncertain \in Presses \cup {None} /\ uncertain' \in {uncertain, e, None}
  BY DEF TypesInv, Ends
<1>2. SameCommands
  BY OwnStepKeeps
<1>3. /\ run'[e].pc = "done" /\ run'[e].result = (IF current = e THEN result ELSE "dropped")
      /\ \A f \in Presses \ {e} : run'[f] = run[f]
      /\ run[e].pc \notin {"unused", "done"}
  <2>1. run[e] \in Runs /\ run \in [Presses -> Runs]
    BY DEF TypesInv
  <2> QED BY <2>1 DEF Ends, OwnStep, Runs
<1>4. uncertain' # None => run'[uncertain'].pc = "done"
  BY <1>1, <1>3 DEF UnknownInv
<1>5. \A f \in Presses : run'[f].context.revision < shown'.revision
                           \/ ~ run[f].context.revision < shown.revision
  <2>1. \A f \in Presses : run[f].context \in GameStates /\ run'[f].context = run[f].context
    BY <1>2 DEF SameCommands, TypesInv, Runs
  <2>2. shown \in GameStates /\ \A s \in GameStates : s.revision \in Nat
    BY DEF TypesInv, GameStates
  <2> QED BY <2>1, <2>2 DEF OwnStep, ShownMoves
<1>6. \A f \in Presses : f # 1 => f - 1 \in Presses
  BY PressesAre
<1>7. current = e => \A f \in Presses : Used(f) => f <= e
  BY NoneIsNothing, PressesAre DEF OrderInv
<1>8. ASSUME NEW f \in Presses, run'[f].result = "uncertain"
      PROVE  \/ uncertain' = f
             \/ run'[f].context.revision < shown'.revision
             \/ f + 1 \in Presses /\ Used(f + 1)'
  <2>1. CASE f = e
    <3>1. current = e /\ result = "uncertain"
      BY <1>3, <1>8, <2>1
    <3> QED BY <2>1, <3>1 DEF Ends
  <2>2. CASE f # e
    <3>1. run[f].result = "uncertain" /\ Used(f)
      BY <1>3, <1>8, <2>2, NoneIsNothing DEF RefusalInv, Used
    <3>2. CASE uncertain = f /\ current = e
      <4>1. f + 1 \in Presses /\ f + 1 <= e
        BY <1>7, <2>2, <3>1, <3>2, PressesAre
      <4>2. Used(e)
        BY <1>3 DEF Used
      <4>3. Used(f + 1)
        <5>1. CASE f + 1 = e
          BY <4>2, <5>1
        <5>2. CASE f + 1 # e
          BY <4>1, <4>2, <5>2, PressesAre DEF OrderInv
        <5> QED BY <5>1, <5>2
      <4> QED BY <1>2, <4>1, <4>3 DEF SameCommands
    <3>3. CASE uncertain = f /\ current # e
      BY <3>3 DEF Ends
    <3>4. CASE uncertain # f
      <4>1. \/ run[f].context.revision < shown.revision
            \/ f + 1 \in Presses /\ Used(f + 1)
        BY <3>1, <3>4 DEF UnknownInv
      <4> QED BY <1>2, <1>5, <4>1 DEF SameCommands
    <3> QED BY <3>2, <3>3, <3>4
  <2> QED BY <2>1, <2>2
<1>9. ASSUME NEW f \in Presses \ {1}, Used(f)', run'[f - 1].result = "uncertain"
      PROVE  \/ run'[f].kind # run'[f - 1].kind
             \/ run'[f].context # run'[f - 1].context
             \/ run'[f].id = run'[f - 1].id
  <2>1. f - 1 \in Presses /\ Used(f)
    BY <1>2, <1>6, <1>9 DEF SameCommands
  <2>2. CASE f - 1 = e
    <3>1. current = e
      BY <1>3, <1>9, <2>2
    <3> QED BY <1>7, <2>1, <2>2, <3>1, PressesAre
  <2>3. CASE f - 1 # e
    <3>1. run[f - 1].result = "uncertain"
      BY <1>3, <1>9, <2>1, <2>3
    <3> QED BY <1>2, <2>1, <3>1 DEF UnknownInv, SameCommands
  <2> QED BY <2>2, <2>3
<1>10. UnknownInv'
  BY <1>4, <1>8, <1>9 DEF UnknownInv
<1> QED BY <1>1, <1>10, OwnStepKeeps
-----------------------------------------------------------------------------
(* The steps of an execution.                                               *)

\* What an execution that is under way is.
LEMMA ActiveRun ==
  ASSUME ControllerInv, NEW e \in Presses, run[e].pc \notin {"unused", "done"}
  PROVE  /\ run \in [Presses -> Runs] /\ run[e] \in Runs /\ run[e].id \in Presses
         /\ run[e].result = None /\ Used(e)
         /\ run[e].pc # "sending" => replies[e] = None
         /\ replies \in [Presses -> Replies \cup {None}]
<1> USE DEF ControllerInv
<1>1. run \in [Presses -> Runs] /\ run[e] \in Runs
  BY DEF TypesInv
<1>2. Used(e)
  BY DEF Used
<1>3. run[e].id \in Presses
  BY <1>2, PressesAre DEF IdsInv
<1> QED BY <1>1, <1>2, <1>3 DEF RefusalInv, TypesInv

\* The end of an execution leaves its command and everyone else's alone.
LEMMA EndIs ==
  ASSUME ControllerInv, NEW e \in Presses, run[e].pc \notin {"unused", "done"},
         NEW result \in Results, Ends(e, result)
  PROVE  /\ run' \in [Presses -> Runs]
         /\ \A f \in Presses \ {e} : run'[f] = run[f]
         /\ run'[e].id = run[e].id /\ run'[e].kind = run[e].kind
         /\ run'[e].context = run[e].context
         /\ run'[e].pc = "done"
         /\ run'[e].result = IF current = e THEN result ELSE "dropped"
<1> DEFINE x == IF current = e THEN result ELSE "dropped"
<1>1. run \in [Presses -> Runs] /\ run[e] \in Runs
  BY ActiveRun
<1>2. x \in Results
  BY DEF Results
<1>3. run' = [run EXCEPT ![e].pc = "done", ![e].result = x]
  BY DEF Ends
<1> HIDE DEF x
<1>4. [run[e] EXCEPT !.pc = "done", !.result = x] \in Runs
  BY <1>1, <1>2 DEF Runs, Pcs
<1>5. run' = [run EXCEPT ![e] = [run[e] EXCEPT !.pc = "done", !.result = x]]
  BY <1>1, <1>3
<1>6. run' \in [Presses -> Runs]
  BY <1>1, <1>4, <1>5
<1>7. run'[e] = [run[e] EXCEPT !.pc = "done", !.result = x]
  BY <1>1, <1>5
<1>8. /\ run'[e].id = run[e].id /\ run'[e].kind = run[e].kind
      /\ run'[e].context = run[e].context
      /\ run'[e].pc = "done" /\ run'[e].result = x
  BY <1>1, <1>7 DEF Runs
<1>9. \A f \in Presses \ {e} : run'[f] = run[f]
  BY <1>1, <1>5
<1> QED BY <1>6, <1>8, <1>9 DEF x

\* The execution moves on to pc.
Moved(e, pc, retries, renewed) ==
  [run EXCEPT ![e].pc = pc, ![e].retries = retries, ![e].renewed = renewed]

\* A step that moves an execution on leaves its command and everyone else's alone.
LEMMA MoveIs ==
  ASSUME ControllerInv, NEW e \in Presses, run[e].pc \notin {"unused", "done"},
         NEW pc \in Pcs, NEW retries \in 0..MaxRetries, NEW renewed \in BOOLEAN,
         run' = Moved(e, pc, retries, renewed)
  PROVE  /\ run' \in [Presses -> Runs]
         /\ \A f \in Presses \ {e} : run'[f] = run[f]
         /\ run'[e].id = run[e].id /\ run'[e].kind = run[e].kind
         /\ run'[e].context = run[e].context
         /\ run'[e].pc = pc /\ run'[e].result = None
<1>1. run \in [Presses -> Runs] /\ run[e] \in Runs /\ run[e].result = None
  BY ActiveRun
<1> DEFINE x == [run[e] EXCEPT !.pc = pc, !.retries = retries, !.renewed = renewed]
<1>2. x \in Runs
  BY <1>1 DEF Runs
<1>3. run' = [run EXCEPT ![e] = x]
  BY <1>1 DEF Moved
<1>4. x.id = run[e].id /\ x.kind = run[e].kind /\ x.context = run[e].context
      /\ x.pc = pc /\ x.result = None
  BY <1>1 DEF Runs
<1> HIDE DEF x
<1> QED BY <1>1, <1>2, <1>3, <1>4

\* The moves of the model are of that form.
LEMMA MovesAre ==
  ASSUME ControllerInv, NEW e \in Presses, run[e].pc \notin {"unused", "done"}, NEW pc \in Pcs,
         NEW renewed \in BOOLEAN
  PROVE  /\ run[e].retries \in 0..MaxRetries /\ run[e].renewed \in BOOLEAN
         /\ [run EXCEPT ![e].pc = pc] = Moved(e, pc, run[e].retries, run[e].renewed)
         /\ [run EXCEPT ![e].pc = pc, ![e].renewed = renewed] =
              Moved(e, pc, run[e].retries, renewed)
         /\ Retry(e) = Moved(e, "delay", run[e].retries + 1, run[e].renewed)
<1>1. run \in [Presses -> Runs] /\ run[e] \in Runs
  BY ActiveRun
<1>2. [run[e] EXCEPT !.pc = pc] =
        [run[e] EXCEPT !.pc = pc, !.retries = run[e].retries, !.renewed = run[e].renewed]
  BY <1>1 DEF Runs
<1>3. [run[e] EXCEPT !.pc = pc, !.renewed = renewed] =
        [run[e] EXCEPT !.pc = pc, !.retries = run[e].retries, !.renewed = renewed]
  BY <1>1 DEF Runs
<1>4. [run[e] EXCEPT !.pc = "delay", !.retries = run[e].retries + 1] =
        [run[e] EXCEPT !.pc = "delay", !.retries = run[e].retries + 1,
                       !.renewed = run[e].renewed]
  BY <1>1 DEF Runs
<1>5. Retry(e) = Moved(e, "delay", run[e].retries + 1, run[e].renewed)
  BY <1>1, <1>4 DEF Retry, Moved
<1> QED BY <1>1, <1>2, <1>3, <1>5 DEF Runs, Moved

\* An execution sends nothing but its command, and holds no answer afterwards.
AsksOnly(e) ==
  /\ net' \subseteq Requests
  /\ \A r \in net' \ net : /\ r.press = e /\ r.id = run[e].id /\ r.kind = run[e].kind
                           /\ r.context = run[e].context
Quiet(e) == \/ replies' = [replies EXCEPT ![e] = None]
            \/ replies' = replies /\ run[e].pc # "sending"

\* Nothing is sent, or the command of an execution.
LEMMA RequestIs ==
  ASSUME ControllerInv, NEW e \in Presses, run[e].pc \notin {"unused", "done"},
         NEW renewed \in BOOLEAN, net' = net \/ net' = net \cup {Request(e, renewed)}
  PROVE  AsksOnly(e)
<1>1. run[e] \in Runs /\ run[e].id \in Presses /\ net \subseteq Requests
  BY ActiveRun DEF ControllerInv, TypesInv
<1>2. Request(e, renewed) \in Requests
  BY <1>1 DEF Request, Requests, Runs
<1>3. /\ Request(e, renewed).press = e /\ Request(e, renewed).id = run[e].id
      /\ Request(e, renewed).kind = run[e].kind
      /\ Request(e, renewed).context = run[e].context
  BY DEF Request
<1> QED BY <1>1, <1>2, <1>3 DEF AsksOnly

\* No answer is left with the execution, and none is added elsewhere.
LEMMA QuietIs ==
  ASSUME ControllerInv, NEW e \in Presses, run[e].pc \notin {"unused", "done"}, Quiet(e)
  PROVE  replies' \in [Presses -> Replies \cup {None}] /\ NoNewReply /\ replies'[e] = None
BY ActiveRun DEF Quiet, NoNewReply

\* The end of an execution keeps the invariant.
LEMMA EndingKeeps ==
  ASSUME ControllerInv, NEW e \in Presses, run[e].pc \notin {"unused", "done"},
         NEW result \in Results, Ends(e, result),
         UNCHANGED <<game, late, log, current>>, ShownMoves, AsksOnly(e), Quiet(e),
         result \in Refusals => Dead(e)
  PROVE  ControllerInv'
<1>1. OwnStep(e)
  <2>1. run'[e].pc = "done" /\ run'[e].result \in {result, "dropped"}
    BY EndIs
  <2>2. "dropped" \notin Refusals
    BY DEF Refusals
  <2> QED BY <2>1, <2>2, EndIs, QuietIs DEF OwnStep, AsksOnly
<1> QED BY <1>1, EndKeeps

\* So does any other step of it.
LEMMA MovingKeeps ==
  ASSUME ControllerInv, NEW e \in Presses, run[e].pc \notin {"unused", "done"},
         NEW pc \in Pcs \ {"unused"}, NEW retries \in 0..MaxRetries, NEW renewed \in BOOLEAN,
         run' = Moved(e, pc, retries, renewed),
         UNCHANGED <<game, late, log, current, uncertain>>, ShownMoves, AsksOnly(e), Quiet(e),
         pc = "reading_conflict" => Dead(e)
  PROVE  ControllerInv'
<1>1. run'[e].result = None /\ None \notin Refusals
  BY MoveIs, NoneIsNothing
<1>2. OwnStep(e)
  BY <1>1, MoveIs, QuietIs DEF OwnStep, AsksOnly
<1> QED BY <1>1, <1>2, GoesOnKeeps

\* A state that the reducer accepts is newer.
LEMMA ReducedMoves ==
  ASSUME ControllerInv, NEW state \in GameStates, Past(state), shown' = Reduced(state)
  PROVE  ShownMoves
BY DEF Reduced, ShownMoves, Past
-----------------------------------------------------------------------------
(* The actions.                                                             *)

\* A request leaves.
LEMMA SendsKeeps ==
  ASSUME ControllerInv, NEW e \in Presses, run[e].pc \in {"ready", "refreshing"},
         NEW renewed \in BOOLEAN, Sends(e, renewed), UNCHANGED <<game, late, log, shown, current>>
  PROVE  ControllerInv'
<1>1. run[e].pc \notin {"unused", "done"} /\ run[e].pc # "sending"
  OBVIOUS
<1>2. AsksOnly(e)
  BY <1>1, RequestIs DEF Sends
<1>3. ShownMoves
  BY DEF ShownMoves
<1>4. Quiet(e)
  BY <1>1 DEF Sends, Quiet
<1>5. CASE current # e
  <2>1. Ends(e, "cancelled") /\ "cancelled" \in Results /\ "cancelled" \notin Refusals
    BY <1>5 DEF Sends, Results, Refusals
  <2> QED BY <1>1, <1>2, <1>3, <1>4, <2>1, EndingKeeps
<1>6. CASE current = e
  <2>1. /\ run' = [run EXCEPT ![e].pc = "sending", ![e].renewed = renewed]
        /\ uncertain' = uncertain
    BY <1>6 DEF Sends
  <2>2. "sending" \in Pcs \ {"unused"}
    BY DEF Pcs
  <2>3. run' = Moved(e, "sending", run[e].retries, renewed) /\ run[e].retries \in 0..MaxRetries
    BY <1>1, <2>1, <2>2, MovesAre
  <2> QED BY <1>1, <1>2, <1>3, <1>4, <2>1, <2>2, <2>3, MovingKeeps
<1> QED BY <1>5, <1>6

\* The first send of an attempt.
LEMMA SendKeeps ==
  ASSUME ControllerInv, NEW e \in Presses, Send(e)
  PROVE  ControllerInv'
BY SendsKeeps DEF Send

\* The token was renewed and the request is sent once more, or it was not.
LEMMA RefreshedKeeps ==
  ASSUME ControllerInv, NEW e \in Presses, Refreshed(e)
  PROVE  ControllerInv'
<1>1. run[e].pc = "refreshing" /\ UNCHANGED <<game, late, log, shown, current>>
  BY DEF Refreshed
<1>2. CASE Sends(e, TRUE)
  BY <1>1, <1>2, SendsKeeps
<1>3. CASE Ends(e, IF Cancelled(e) THEN "cancelled" ELSE "error") /\ UNCHANGED <<net, replies>>
  <2> DEFINE result == IF Cancelled(e) THEN "cancelled" ELSE "error"
  <2>1. result \in Results /\ result \notin Refusals
    BY DEF Results, Refusals
  <2>2. Ends(e, result)
    BY <1>3
  <2>3. AsksOnly(e) /\ Quiet(e) /\ ShownMoves
    BY <1>1, <1>3, RequestIs DEF Quiet, ShownMoves
  <2> HIDE DEF result
  <2> QED BY <1>1, <2>1, <2>2, <2>3, EndingKeeps
<1> QED BY <1>2, <1>3 DEF Refreshed

\* No answer came: a repeat, the control read, or the end of a cancelled command.
LEMMA LostKeeps ==
  ASSUME ControllerInv, NEW e \in Presses, Lost(e)
  PROVE  ControllerInv'
<1>1. run[e].pc = "sending" /\ UNCHANGED <<game, late, log, net, shown, current>>
      /\ replies' = [replies EXCEPT ![e] = None]
  BY DEF Lost, server
<1>2. AsksOnly(e) /\ Quiet(e) /\ ShownMoves
  BY <1>1, RequestIs DEF Quiet, ShownMoves
<1>3. CASE Cancelled(e)
  <2>1. Ends(e, "cancelled") /\ "cancelled" \in Results /\ "cancelled" \notin Refusals
    BY <1>3 DEF Lost, Results, Refusals
  <2> QED BY <1>1, <1>2, <2>1, EndingKeeps
<1>4. CASE ~ Cancelled(e) /\ run[e].retries < MaxRetries
  <2>1. run' = Retry(e) /\ uncertain' = uncertain
    BY <1>4 DEF Lost
  <2>2. "delay" \in Pcs \ {"unused"}
    BY DEF Pcs
  <2>3. /\ run' = Moved(e, "delay", run[e].retries + 1, run[e].renewed)
        /\ run[e].renewed \in BOOLEAN /\ run[e].retries \in 0..MaxRetries
    BY <1>1, <2>1, <2>2, MovesAre
  <2>4. run[e].retries + 1 \in 0..MaxRetries
    BY <1>4, <2>3, CommandAssumption
  <2> QED BY <1>1, <1>2, <2>1, <2>2, <2>3, <2>4, MovingKeeps
<1>5. CASE ~ Cancelled(e) /\ ~ run[e].retries < MaxRetries
  <2>1. run' = [run EXCEPT ![e].pc = "reading_lost"] /\ uncertain' = uncertain
    BY <1>5 DEF Lost
  <2>2. "reading_lost" \in Pcs \ {"unused"}
    BY DEF Pcs
  <2>3. /\ run' = Moved(e, "reading_lost", run[e].retries, run[e].renewed)
        /\ run[e].renewed \in BOOLEAN /\ run[e].retries \in 0..MaxRetries
    BY <1>1, <2>1, <2>2, MovesAre
  <2> QED BY <1>1, <1>2, <2>1, <2>2, <2>3, MovingKeeps
<1> QED BY <1>3, <1>4, <1>5

\* The wait before a repeat is over.
LEMMA RepeatKeeps ==
  ASSUME ControllerInv, NEW e \in Presses, Repeat(e)
  PROVE  ControllerInv'
<1>1. run[e].pc = "delay" /\ UNCHANGED <<game, late, log, net, replies, shown, current>>
  BY DEF Repeat, server
<1>2. AsksOnly(e) /\ Quiet(e) /\ ShownMoves
  BY <1>1, RequestIs DEF Quiet, ShownMoves
<1>3. CASE Cancelled(e)
  <2>1. Ends(e, "cancelled") /\ "cancelled" \in Results /\ "cancelled" \notin Refusals
    BY <1>3 DEF Repeat, Results, Refusals
  <2> QED BY <1>1, <1>2, <2>1, EndingKeeps
<1>4. CASE ~ Cancelled(e)
  <2>1. run' = [run EXCEPT ![e].pc = "ready"] /\ uncertain' = uncertain
    BY <1>4 DEF Repeat
  <2>2. "ready" \in Pcs \ {"unused"}
    BY DEF Pcs
  <2>3. /\ run' = Moved(e, "ready", run[e].retries, run[e].renewed)
        /\ run[e].renewed \in BOOLEAN /\ run[e].retries \in 0..MaxRetries
    BY <1>1, <2>1, <2>2, MovesAre
  <2> QED BY <1>1, <1>2, <2>1, <2>2, <2>3, MovingKeeps
<1> QED BY <1>3, <1>4

\* An answer was taken: the state conflict and the conflict are of a dead command.
LEMMA AnsweredKeeps ==
  ASSUME ControllerInv, NEW e \in Presses, Answered(e)
  PROVE  ControllerInv'
<1> DEFINE code == replies[e].code
           state == replies[e].state
<1>1. /\ run[e].pc = "sending" /\ UNCHANGED <<game, late, log, net, current>>
      /\ replies' = [replies EXCEPT ![e] = None] /\ replies[e] # None
  BY DEF Answered, server
<1>2. AsksOnly(e) /\ Quiet(e)
  BY <1>1, RequestIs DEF Quiet
<1>3. replies[e] \in Replies /\ code \in Codes /\ state \in GameStates /\ Past(state)
  BY <1>1 DEF ControllerInv, TypesInv, PastInv, Replies
<1>4. code \in Refusals => Dead(e)
  BY <1>1 DEF ControllerInv, RefusalInv
<1>5. shown' = shown => ShownMoves
  BY DEF ShownMoves
<1>6. CASE code = "unauthorized" /\ ~ run[e].renewed
  <2>1. run' = [run EXCEPT ![e].pc = "refreshing"] /\ uncertain' = uncertain /\ shown' = shown
    BY <1>6 DEF Answered
  <2>2. "refreshing" \in Pcs \ {"unused"}
    BY DEF Pcs
  <2>3. /\ run' = Moved(e, "refreshing", run[e].retries, run[e].renewed)
        /\ run[e].renewed \in BOOLEAN /\ run[e].retries \in 0..MaxRetries
    BY <1>1, <2>1, <2>2, MovesAre
  <2> QED BY <1>1, <1>2, <1>5, <2>1, <2>2, <2>3, MovingKeeps
<1>7. CASE (code # "unauthorized" \/ run[e].renewed) /\ Cancelled(e)
  <2>1. Ends(e, "cancelled") /\ shown' = shown
    BY <1>7 DEF Answered
  <2>2. "cancelled" \in Results /\ "cancelled" \notin Refusals
    BY DEF Results, Refusals
  <2> QED BY <1>1, <1>2, <1>5, <2>1, <2>2, EndingKeeps
<1>8. CASE code = "unauthorized" /\ run[e].renewed /\ ~ Cancelled(e)
  <2>1. Ends(e, "error") /\ shown' = shown
    BY <1>8 DEF Answered
  <2>2. "error" \in Results /\ "error" \notin Refusals
    BY DEF Results, Refusals
  <2> QED BY <1>1, <1>2, <1>5, <2>1, <2>2, EndingKeeps
<1>9. CASE code \in {"ok", "state_conflict"} /\ ~ Cancelled(e)
  <2> DEFINE result == IF code = "ok" THEN "succeeded" ELSE code
  <2>1. Ends(e, result) /\ shown' = Reduced(state)
    BY <1>9 DEF Answered
  <2>2. result \in Results /\ (result \in Refusals => code \in Refusals)
    BY <1>9 DEF Results, Refusals
  <2>3. ShownMoves
    BY <1>3, <2>1, ReducedMoves
  <2> HIDE DEF result
  <2> QED BY <1>1, <1>2, <1>4, <2>1, <2>2, <2>3, EndingKeeps
<1>10. CASE code = "conflict" /\ ~ Cancelled(e)
  <2>1. run' = [run EXCEPT ![e].pc = "reading_conflict"] /\ uncertain' = uncertain
        /\ shown' = shown
    BY <1>10 DEF Answered
  <2>2. "reading_conflict" \in Pcs \ {"unused"} /\ Dead(e)
    BY <1>4, <1>10 DEF Pcs, Refusals
  <2>3. /\ run' = Moved(e, "reading_conflict", run[e].retries, run[e].renewed)
        /\ run[e].renewed \in BOOLEAN /\ run[e].retries \in 0..MaxRetries
    BY <1>1, <2>1, <2>2, MovesAre
  <2> QED BY <1>1, <1>2, <1>5, <2>1, <2>2, <2>3, MovingKeeps
<1>11. CASE code = "unavailable" /\ ~ Cancelled(e)
  <2>1. /\ IF run[e].retries >= MaxRetries THEN Ends(e, "temporarily_failed")
           ELSE run' = Retry(e) /\ UNCHANGED uncertain
        /\ shown' = shown
    BY <1>11 DEF Answered
  <2>2. CASE run[e].retries >= MaxRetries
    <3>1. "temporarily_failed" \in Results /\ "temporarily_failed" \notin Refusals
      BY DEF Results, Refusals
    <3> QED BY <1>1, <1>2, <1>5, <2>1, <2>2, <3>1, EndingKeeps
  <2>3. CASE ~ run[e].retries >= MaxRetries
    <3>1. "delay" \in Pcs \ {"unused"}
      BY DEF Pcs
    <3>2. /\ run' = Moved(e, "delay", run[e].retries + 1, run[e].renewed)
          /\ run[e].renewed \in BOOLEAN /\ run[e].retries \in 0..MaxRetries
      BY <1>1, <2>1, <2>3, <3>1, MovesAre
    <3>3. run[e].retries + 1 \in 0..MaxRetries
      BY <2>3, <3>2, CommandAssumption
    <3> QED BY <1>1, <1>2, <1>5, <2>1, <2>3, <3>1, <3>2, <3>3, MovingKeeps
  <2> QED BY <2>2, <2>3
<1> QED BY <1>3, <1>6, <1>7, <1>8, <1>9, <1>10, <1>11 DEF Codes

\* The control read refuses only after a conflict, and shows a state of the session.
LEMMA ControlReadKeeps ==
  ASSUME ControllerInv, NEW e \in Presses, ControlRead(e)
  PROVE  ControllerInv'
<1>1. /\ run[e].pc \in {"reading_conflict", "reading_lost"}
      /\ UNCHANGED <<game, late, log, net, replies, current>>
  BY DEF ControlRead, server
<1>2. AsksOnly(e) /\ Quiet(e)
  BY <1>1, RequestIs DEF Quiet
<1>3. PICK read \in BOOLEAN, result \in Results :
        /\ shown' = IF read /\ ~ Cancelled(e) THEN Reduced(game) ELSE shown
        /\ Ends(e, result)
        /\ result \in Refusals => run[e].pc = "reading_conflict"
  BY <1>1 DEF ControlRead, Results, Refusals
<1>4. game \in GameStates /\ Past(game)
  BY DEF ControllerInv, TypesInv, Past
<1>5. ShownMoves
  BY <1>3, <1>4, ReducedMoves DEF ShownMoves
<1>6. result \in Refusals => Dead(e)
  BY <1>3 DEF ControllerInv, RefusalInv
<1> QED BY <1>1, <1>2, <1>3, <1>5, <1>6, EndingKeeps
-----------------------------------------------------------------------------
(* The server moves on, and answers.                                        *)

\* A command that is dead stays dead when another one, or a deadline, moves the session.
LEMMA DeadStays ==
  ASSUME ControllerInv, game' \in GameStates, game'.revision = game.revision + 1,
         run' = run, NEW e \in Presses, Used(e), Dead(e), run[e].id \notin DOMAIN log'
  PROVE  Dead(e)'
<1>1. Past(run[e].context) /\ run[e].context \in GameStates /\ game \in GameStates
  BY DEF ControllerInv, PastInv, TypesInv, Runs
<1>2. run[e].context.revision < game'.revision
  BY <1>1 DEF Past, GameStates
<1> QED BY <1>2 DEF Dead

\* A refusal on its way, taken or reported is of an execution that was begun.
LEMMA RefusedIsUsed ==
  ASSUME ControllerInv, NEW e \in Presses,
         \/ replies[e] # None /\ replies[e].code \in Refusals
         \/ run[e].pc = "reading_conflict"
         \/ run[e].result \in Refusals
  PROVE  Used(e)
BY NoneIsNothing DEF ControllerInv, RefusalInv, Used

\* What the client has sent, shown and begun was true of the session before it moved on.
LEMMA GameMoves ==
  ASSUME ControllerInv, game' \in GameStates, Turns(game'),
         game'.revision = game.revision + 1, late' = FALSE,
         UNCHANGED <<shown, run, current, uncertain>>, net' \subseteq net,
         log' \in [DOMAIN log' -> LogRows], DOMAIN log' \subseteq Presses,
         DOMAIN log \subseteq DOMAIN log',
         \A i \in DOMAIN log : log'[i] = log[i],
         \A i \in DOMAIN log' \ DOMAIN log :
           log'[i].state = game' /\ log'[i].revision = game.revision,
         \A i, j \in DOMAIN log' \ DOMAIN log : i = j,
         \A e \in Presses : Used(e) /\ Dead(e) => run[e].id \notin DOMAIN log',
         replies' \in [Presses -> Replies \cup {None}],
         \A e \in Presses :
           \/ replies'[e] = replies[e]
           \/ /\ run[e].pc = "sending" /\ replies'[e].code \notin Refusals
              /\ replies'[e].state \in {game, game'}
  PROVE  ControllerInv'
<1> USE DEF ControllerInv
<1>0. game \in GameStates /\ game.revision \in Nat /\ game'.revision \in Nat
  BY DEF TypesInv, GameStates
<1>1. TypesInv'
  BY DEF TypesInv
<1>2. RevisionInv'
  BY DEF RevisionInv
<1>3. PastInv'
  <2>1. Past(shown)'
    BY PastStays DEF TypesInv, PastInv
  <2>2. ASSUME NEW e \in Presses, Used(e)
        PROVE  Past(run[e].context)'
    BY <2>2, PastStays DEF TypesInv, PastInv, Runs
  <2>3. ASSUME NEW e \in Presses, replies'[e] # None
        PROVE  Past(replies[e].state)'
    <3>1. CASE replies'[e] = replies[e]
      BY <2>3, <3>1, PastStays DEF TypesInv, PastInv, Replies
    <3>2. CASE replies'[e].state \in {game, game'}
      BY <1>0, <3>2 DEF Past
    <3> QED BY <3>1, <3>2
  <2>4. ASSUME NEW i \in DOMAIN log'
        PROVE  Past(log[i].state)'
    <3>1. CASE i \in DOMAIN log
      <4>1. log[i].state \in GameStates /\ Past(log[i].state) /\ log'[i] = log[i]
        BY <3>1 DEF TypesInv, PastInv, LogRows
      <4> QED BY <1>0, <4>1 DEF Past, GameStates
    <3>2. CASE i \notin DOMAIN log
      BY <2>4, <3>2 DEF Past
    <3> QED BY <3>1, <3>2
  <2> QED BY <2>1, <2>2, <2>3, <2>4 DEF PastInv, Used
<1>4. LogInv'
  <2>1. \A i \in DOMAIN log : log[i].revision \in Nat /\ log[i].revision < game.revision
    BY DEF TypesInv, LogRows, LogInv
  <2>2. ASSUME NEW i \in DOMAIN log'
        PROVE  log'[i].revision < game'.revision
    BY <1>0, <2>1
  <2>3. ASSUME NEW i \in DOMAIN log', NEW j \in DOMAIN log', log'[i].revision = log'[j].revision
        PROVE  i = j
    <3>1. CASE i \in DOMAIN log /\ j \in DOMAIN log
      BY <2>3, <3>1 DEF LogInv, OneStatePressMovesOnce
    <3>2. CASE i \in DOMAIN log /\ j \notin DOMAIN log
      BY <1>0, <2>1, <2>3, <3>2
    <3>3. CASE i \notin DOMAIN log /\ j \in DOMAIN log
      BY <1>0, <2>1, <2>3, <3>3
    <3> QED BY <3>1, <3>2, <3>3
  <2> QED BY <2>2, <2>3 DEF LogInv, OneStatePressMovesOnce
<1>5. OrderInv' /\ IdsInv' /\ NetInv' /\ UnknownInv'
  BY DEF OrderInv, IdsInv, NetInv, UnknownInv, Used
<1>6. RefusalInv'
  <2> SUFFICES ASSUME NEW e \in Presses
               PROVE  /\ replies'[e] # None => run[e].pc = "sending"
                      /\ run[e].result # None => run[e].pc = "done"
                      /\ \/ replies'[e] # None /\ replies'[e].code \in Refusals
                         \/ run[e].pc = "reading_conflict"
                         \/ run[e].result \in Refusals
                         => Dead(e)'
    BY DEF RefusalInv
  <2>1. /\ replies'[e] # None => run[e].pc = "sending"
        /\ run[e].result # None => run[e].pc = "done"
    BY DEF RefusalInv
  <2>2. ASSUME \/ replies'[e] # None /\ replies'[e].code \in Refusals
               \/ run[e].pc = "reading_conflict"
               \/ run[e].result \in Refusals
        PROVE  Dead(e)'
    <3>1. \/ replies[e] # None /\ replies[e].code \in Refusals
          \/ run[e].pc = "reading_conflict"
          \/ run[e].result \in Refusals
      BY <2>2
    <3>2. Used(e) /\ Dead(e)
      BY <3>1, RefusedIsUsed DEF RefusalInv
    <3> QED BY <3>2, DeadStays
  <2> QED BY <2>1, <2>2
<1> QED BY <1>1, <1>2, <1>3, <1>4, <1>5, <1>6

\* A deadline moves the session on.
LEMMA MovesOnKeeps ==
  ASSUME ControllerInv, MovesOn
  PROVE  ControllerInv'
<1>1. game' \in GameStates /\ Turns(game') /\ game'.revision = game.revision + 1
  BY AdvancedCounts DEF ControllerInv, TypesInv, RevisionInv, MovesOn
<1>2. /\ log \in [DOMAIN log -> LogRows] /\ DOMAIN log \subseteq Presses
      /\ replies \in [Presses -> Replies \cup {None}]
  BY DEF ControllerInv, TypesInv
<1>3. \A e \in Presses : Dead(e) => run[e].id \notin DOMAIN log
  BY DEF Dead
<1>4. UNCHANGED <<log, net, replies, shown, run, current, uncertain>> /\ late' = FALSE
  BY DEF MovesOn
<1> QED BY <1>1, <1>2, <1>3, <1>4, GameMoves

\* The deadline of the answers passes: what was refused is refused still.
LEMMA DeadlinePassesKeeps ==
  ASSUME ControllerInv, DeadlinePasses
  PROVE  ControllerInv'
<1> USE DEF ControllerInv
<1>1. /\ UNCHANGED <<game, log, net, replies, shown, run, current, uncertain>>
      /\ game.phase = "answering" /\ ~ late /\ late'
  BY DEF DeadlinePasses
<1>2. TypesInv'
  BY <1>1 DEF TypesInv, DeadlinePasses
<1>3. RevisionInv' /\ PastInv' /\ LogInv' /\ OrderInv' /\ IdsInv' /\ NetInv' /\ UnknownInv'
  BY <1>1 DEF RevisionInv, PastInv, Past, LogInv, OneStatePressMovesOnce, OrderInv, IdsInv,
              NetInv, UnknownInv, Used
<1>4. ASSUME NEW e \in Presses, Dead(e) PROVE Dead(e)'
  <2>1. run[e].kind \in Kinds
    BY DEF TypesInv, Runs
  <2>2. ~ Legal(run[e].kind, run[e].context, late) => ~ Legal(run[e].kind, run[e].context, TRUE)
    BY <2>1 DEF Legal, Kinds
  <2> QED BY <1>1, <1>4, <2>2 DEF Dead
<1>5. RefusalInv'
  BY <1>1, <1>4 DEF RefusalInv
<1> QED BY <1>2, <1>3, <1>5

\* An answer finds the execution on the attempt that asked, or nobody.
LEMMA AnswerIs ==
  ASSUME ControllerInv, NEW request \in net, NEW reply \in Replies, Answer(request, reply)
  PROVE  /\ request.press \in Presses
         /\ replies' \in [Presses -> Replies \cup {None}]
         /\ \A f \in Presses :
              \/ replies'[f] = replies[f]
              \/ f = request.press /\ replies'[f] = reply /\ run[f].pc = "sending"
<1>1. request.press \in Presses /\ replies \in [Presses -> Replies \cup {None}]
  BY DEF ControllerInv, TypesInv, Requests
<1> QED BY <1>1 DEF Answer

\* An answer that moves nothing: a refusal of a dead command, or no refusal.
LEMMA AnswerKeeps ==
  ASSUME ControllerInv, NEW request \in net, NEW reply \in Replies, Answer(request, reply),
         Past(reply.state), reply.code \in Refusals => Dead(request.press),
         net' \subseteq net, UNCHANGED <<game, late, log, shown, run, current, uncertain>>
  PROVE  ControllerInv'
<1> USE DEF ControllerInv
<1>1. /\ request.press \in Presses
      /\ replies' \in [Presses -> Replies \cup {None}]
      /\ \A f \in Presses :
           \/ replies'[f] = replies[f]
           \/ f = request.press /\ replies'[f] = reply /\ run[f].pc = "sending"
  BY AnswerIs
<1>2. TypesInv'
  BY <1>1 DEF TypesInv
<1>3. PastInv'
  BY <1>1 DEF PastInv, Past, Used
<1>4. RevisionInv' /\ LogInv' /\ OrderInv' /\ IdsInv' /\ NetInv' /\ UnknownInv'
  BY DEF RevisionInv, LogInv, OneStatePressMovesOnce, OrderInv, IdsInv, NetInv, UnknownInv, Used
<1>5. RefusalInv'
  <2>1. \A f \in Presses : Dead(f)' <=> Dead(f)
    BY DEF Dead
  <2> QED BY <1>1, <2>1 DEF RefusalInv
<1> QED BY <1>2, <1>3, <1>4, <1>5

\* The server takes a request, answers it a second time, or refuses it.
LEMMA ReceiveKeeps ==
  ASSUME ControllerInv, Receive
  PROVE  ControllerInv'
<1> DEFINE Row(request) == [state |-> Applied(request.kind, game),
                            revision |-> request.context.revision]
<1>1. PICK request \in net :
        /\ net' = net \ {request}
        /\ \/ /\ Verdict(request, late) = "apply"
              /\ game' = Applied(request.kind, game) /\ late' = FALSE
              /\ log' = [id \in DOMAIN log \cup {request.id} |->
                           IF id = request.id THEN Row(request) ELSE log[id]]
              /\ Answer(request, [code |-> "ok", state |-> Applied(request.kind, game)])
           \/ /\ Verdict(request, late) = "repeat"
              /\ Answer(request, [code |-> "ok", state |-> log[request.id].state])
              /\ UNCHANGED <<game, late, log>>
           \/ /\ Verdict(request, late) \in Refusals
              /\ Answer(request, [code |-> Verdict(request, late), state |-> game])
              /\ UNCHANGED <<game, late, log>>
           \/ /\ \E code \in Busy : Answer(request, [code |-> code, state |-> game])
              /\ UNCHANGED <<game, late, log>>
  BY DEF Receive, Times
<1> HIDE DEF Row
<1>2. UNCHANGED <<shown, run, current, uncertain>> /\ net' \subseteq net
  BY <1>1 DEF Receive
<1>3. request \in Requests /\ game \in GameStates /\ Past(game) /\ Turns(game)
      /\ log \in [DOMAIN log -> LogRows] /\ DOMAIN log \subseteq Presses /\ late \in BOOLEAN
  BY DEF ControllerInv, TypesInv, RevisionInv, Past
<1>4. /\ request.press \in Presses /\ Used(request.press)
      /\ request.id = run[request.press].id /\ request.kind = run[request.press].kind
      /\ request.context = run[request.press].context
      /\ Past(request.context)
  BY <1>3 DEF ControllerInv, NetInv, PastInv, Requests
<1>5. CASE /\ Verdict(request, late) = "apply"
           /\ game' = Applied(request.kind, game) /\ late' = FALSE
           /\ log' = [id \in DOMAIN log \cup {request.id} |->
                        IF id = request.id THEN Row(request) ELSE log[id]]
           /\ Answer(request, [code |-> "ok", state |-> Applied(request.kind, game)])
  <2>1. /\ request.id \notin DOMAIN log /\ request.context = game
        /\ Legal(request.kind, game, late)
    BY <1>5 DEF Verdict
  <2>2. request.kind \in Kinds /\ request.id \in Presses /\ game.revision \in Nat
    BY <1>3 DEF Requests, GameStates
  <2>3. game' \in GameStates /\ Turns(game') /\ game'.revision = game.revision + 1
    BY <1>3, <1>5, <2>1, <2>2, AppliedCounts
  <2>4. Row(request) \in LogRows /\ Row(request).state = game'
        /\ Row(request).revision = game.revision
    BY <1>5, <2>1, <2>2, <2>3 DEF Row, LogRows
  <2>5. DOMAIN log' = DOMAIN log \cup {request.id}
    BY <1>5
  <2>6. /\ \A i \in DOMAIN log : log'[i] = log[i]
        /\ \A i \in DOMAIN log' \ DOMAIN log : i = request.id /\ log'[i] = Row(request)
    BY <1>5, <2>1, <2>5
  <2>7. log' \in [DOMAIN log' -> LogRows] /\ DOMAIN log' \subseteq Presses
    BY <1>3, <1>5, <2>2, <2>4, <2>5
  <2>8. ASSUME NEW e \in Presses, Used(e), Dead(e)
        PROVE  run[e].id \notin DOMAIN log'
    <3>1. SUFFICES ASSUME run[e].id = request.id PROVE FALSE
      BY <2>5, <2>8 DEF Dead
    <3>2. run[e].kind = request.kind /\ run[e].context = request.context
      BY <1>4, <2>8, <3>1 DEF ControllerInv, IdsInv
    <3> QED BY <2>1, <2>2, <2>8, <3>2 DEF Dead
  <2>9. [code |-> "ok", state |-> Applied(request.kind, game)] \in Replies
    BY <1>5, <2>3 DEF Replies, Codes
  <2>10. /\ replies' \in [Presses -> Replies \cup {None}]
         /\ \A f \in Presses :
              \/ replies'[f] = replies[f]
              \/ /\ run[f].pc = "sending" /\ replies'[f].code \notin Refusals
                 /\ replies'[f].state \in {game, game'}
    BY <1>5, <2>9, AnswerIs DEF Refusals
  <2>11. \A i \in DOMAIN log' \ DOMAIN log :
           log'[i].state = game' /\ log'[i].revision = game.revision
    BY <2>4, <2>6
  <2> QED BY <1>2, <1>5, <2>3, <2>5, <2>6, <2>7, <2>8, <2>10, <2>11, GameMoves
<1>6. CASE /\ Verdict(request, late) = "repeat"
           /\ Answer(request, [code |-> "ok", state |-> log[request.id].state])
           /\ UNCHANGED <<game, late, log>>
  <2>1. request.id \in DOMAIN log
    BY <1>6 DEF Verdict
  <2>2. Past(log[request.id].state) /\ log[request.id].state \in GameStates
    BY <1>3, <2>1 DEF ControllerInv, PastInv, LogRows
  <2>3. [code |-> "ok", state |-> log[request.id].state] \in Replies
    BY <2>2 DEF Replies, Codes
  <2>4. "ok" \notin Refusals
    BY DEF Refusals
  <2> QED BY <1>2, <1>6, <2>2, <2>3, <2>4, AnswerKeeps
<1>7. CASE /\ Verdict(request, late) \in Refusals
           /\ Answer(request, [code |-> Verdict(request, late), state |-> game])
           /\ UNCHANGED <<game, late, log>>
  <2>1. Dead(request.press)
    <3>1. CASE Verdict(request, late) = "state_conflict"
      <4>1. request.id \notin DOMAIN log /\ request.context # game
        BY <3>1 DEF Verdict
      <4> QED BY <1>4, <4>1 DEF Dead, Past
    <3>2. CASE Verdict(request, late) = "conflict"
      <4>1. request.id \notin DOMAIN log /\ request.context = game
            /\ ~ Legal(request.kind, game, late)
        BY <3>2 DEF Verdict
      <4> QED BY <1>4, <4>1 DEF Dead
    <3> QED BY <1>7, <3>1, <3>2 DEF Refusals
  <2>2. [code |-> Verdict(request, late), state |-> game] \in Replies
    BY <1>3, <1>7 DEF Replies, Codes, Refusals
  <2> QED BY <1>2, <1>3, <1>7, <2>1, <2>2, AnswerKeeps
<1>8. CASE /\ \E code \in Busy : Answer(request, [code |-> code, state |-> game])
           /\ UNCHANGED <<game, late, log>>
  <2>1. PICK code \in Busy : Answer(request, [code |-> code, state |-> game])
    BY <1>8
  <2>2. code \in Codes /\ code \notin Refusals
    BY CommandAssumption DEF Codes, Refusals
  <2>3. [code |-> code, state |-> game] \in Replies
    BY <1>3, <2>2 DEF Replies
  <2> QED BY <1>2, <1>3, <1>8, <2>1, <2>2, <2>3, AnswerKeeps
<1> QED BY <1>1, <1>5, <1>6, <1>7, <1>8
-----------------------------------------------------------------------------
(* The screen shows newer states, and presses are made.                     *)

\* A state shown by another part of the screen.
LEMMA ReadStateKeeps ==
  ASSUME ControllerInv, ReadState
  PROVE  ControllerInv'
<1> USE DEF ControllerInv
<1>1. UNCHANGED <<game, late, log, net, replies, run, current, uncertain>>
  BY DEF ReadState, server
<1>2. SameCommands /\ NoNewReply
  BY <1>1 DEF SameCommands, NoNewReply, Used
<1>3. shown \in GameStates /\ game \in GameStates /\ shown.revision < game.revision
      /\ shown' = game
  BY DEF ReadState, TypesInv, PastInv, Past
<1>4. ShownMoves
  BY <1>3 DEF ShownMoves, Past
<1>5. RevisionInv' /\ LogInv' /\ IdsInv' /\ \A f \in Presses : Dead(f)' <=> Dead(f)
  BY <1>1, <1>2, ServerStands
<1>6. PastInv' /\ shown' \in GameStates
  BY <1>1, <1>2, <1>4, ShownStands
<1>7. TypesInv' /\ OrderInv' /\ NetInv'
  BY <1>1, <1>6 DEF TypesInv, OrderInv, NetInv, Used
<1>8. RefusalInv'
  BY <1>1, <1>5 DEF RefusalInv
<1>9. \A f \in Presses :
        run[f].context.revision < shown.revision => run[f].context.revision < shown'.revision
  <2>1. \A f \in Presses : run[f].context \in GameStates
    BY DEF TypesInv, Runs
  <2>2. \A s \in GameStates : s.revision \in Nat
    BY DEF GameStates
  <2> QED BY <1>3, <2>1, <2>2
<1>10. UnknownInv'
  BY <1>1, <1>9 DEF UnknownInv, Used
<1> QED BY <1>5, <1>6, <1>7, <1>8, <1>10

\* An abort ends what is on the wire or waits, and changes no command.
LEMMA AbortedIs ==
  ASSUME ControllerInv
  PROVE  /\ Aborted(run) \in [Presses -> Runs]
         /\ Silenced = [e \in Presses |-> None]
         /\ \A f \in Presses :
              /\ Aborted(run)[f].id = run[f].id /\ Aborted(run)[f].kind = run[f].kind
              /\ Aborted(run)[f].context = run[f].context
              /\ Aborted(run)[f].pc = "unused" <=> run[f].pc = "unused"
              /\ Aborted(run)[f].pc = "reading_conflict" => run[f].pc = "reading_conflict"
              /\ Aborted(run)[f].result \in {run[f].result, "cancelled"}
              /\ Aborted(run)[f].result # None => Aborted(run)[f].pc = "done"
              /\ run[f].pc = "done" => Aborted(run)[f].pc = "done"
<1> USE DEF ControllerInv
<1>1. Silenced = [e \in Presses |-> None]
  BY DEF Silenced, RefusalInv
<1>2. ASSUME NEW f \in Presses
      PROVE  /\ Aborted(run)[f] \in Runs
             /\ Aborted(run)[f].id = run[f].id /\ Aborted(run)[f].kind = run[f].kind
             /\ Aborted(run)[f].context = run[f].context
             /\ Aborted(run)[f].pc = "unused" <=> run[f].pc = "unused"
             /\ Aborted(run)[f].pc = "reading_conflict" => run[f].pc = "reading_conflict"
             /\ Aborted(run)[f].result \in {run[f].result, "cancelled"}
             /\ Aborted(run)[f].result # None => Aborted(run)[f].pc = "done"
             /\ run[f].pc = "done" => Aborted(run)[f].pc = "done"
  <2>1. run[f] \in Runs
    BY DEF TypesInv
  <2>2. CASE run[f].pc \in {"sending", "delay"}
    <3> DEFINE x == [run[f] EXCEPT !.pc = "done", !.result = "cancelled"]
    <3>1. Aborted(run)[f] = x
      BY <2>2 DEF Aborted
    <3>2. "done" \in Pcs /\ "cancelled" \in Results
      BY DEF Pcs, Results
    <3>3. /\ x \in Runs
          /\ x.id = run[f].id /\ x.kind = run[f].kind /\ x.context = run[f].context
          /\ x.pc = "done" /\ x.result = "cancelled"
      BY <2>1, <3>2 DEF Runs
    <3> HIDE DEF x
    <3> QED BY <2>2, <3>1, <3>3
  <2>3. CASE run[f].pc \notin {"sending", "delay"}
    <3>1. Aborted(run)[f] = run[f]
      BY <2>3 DEF Aborted
    <3> QED BY <2>1, <3>1 DEF RefusalInv
  <2> QED BY <2>2, <2>3
<1>3. Aborted(run) \in [Presses -> Runs]
  BY <1>2 DEF Aborted
<1> QED BY <1>1, <1>2, <1>3

\* A state over the socket.
LEMMA ObserveKeeps ==
  ASSUME ControllerInv, Observe
  PROVE  ControllerInv'
<1> USE DEF ControllerInv
<1>1. /\ UNCHANGED <<game, late, log, net>> /\ shown' = game /\ current' = None /\ uncertain' = None
      /\ run' = Aborted(run) /\ replies' = [e \in Presses |-> None]
  BY AbortedIs DEF Observe, server
<1>2. SameCommands /\ NoNewReply
  BY <1>1, AbortedIs DEF SameCommands, NoNewReply, Used
<1>3. shown \in GameStates /\ game \in GameStates /\ shown.revision < game.revision
  BY DEF Observe, TypesInv, PastInv, Past
<1>4. ShownMoves
  BY <1>1, <1>3 DEF ShownMoves, Past
<1>5. RevisionInv' /\ LogInv' /\ IdsInv' /\ \A f \in Presses : Dead(f)' <=> Dead(f)
  BY <1>1, <1>2, ServerStands
<1>6. PastInv' /\ shown' \in GameStates
  BY <1>1, <1>2, <1>4, ShownStands
<1>7. TypesInv'
  BY <1>1, <1>6, AbortedIs DEF TypesInv
<1>8. OrderInv'
  BY <1>1, <1>2 DEF OrderInv, SameCommands
<1>9. NetInv'
  <2>1. \A r \in net : r.press \in Presses
    BY DEF TypesInv, Requests
  <2> QED BY <1>1, <1>2, <2>1 DEF NetInv, SameCommands
<1>10. "cancelled" \notin Refusals \cup {"uncertain"}
  BY DEF Refusals
<1>11. RefusalInv'
  BY <1>1, <1>5, <1>10, AbortedIs DEF RefusalInv
<1>12. \A f \in Presses : run'[f].result = "uncertain" => run[f].result = "uncertain"
  BY <1>1, <1>10, AbortedIs
<1>13. ASSUME NEW f \in Presses, run'[f].result = "uncertain"
       PROVE  run'[f].context.revision < shown'.revision
  <2>1. Used(f) /\ run'[f].context = run[f].context
    BY <1>2, <1>12, <1>13, NoneIsNothing DEF RefusalInv, Used, SameCommands
  <2>2. run[f].context \in GameStates /\ \A s \in GameStates : s.revision \in Nat
    BY DEF TypesInv, Runs, GameStates
  <2> QED BY <1>1, <1>3, <2>1, <2>2 DEF PastInv
<1>14. \A f \in Presses : f # 1 => f - 1 \in Presses
  BY PressesAre
<1>15. UnknownInv'
  BY <1>1, <1>2, <1>12, <1>13, <1>14 DEF UnknownInv, SameCommands
<1> QED BY <1>5, <1>6, <1>7, <1>8, <1>9, <1>11, <1>15

\* The teacher presses.
LEMMA PressKeeps ==
  ASSUME ControllerInv, Press
  PROVE  ControllerInv'
<1> USE DEF ControllerInv
<1>1. PICK e \in Presses, kind \in Kinds :
        /\ run[e].pc = "unused" /\ \A f \in Presses : f < e => run[f].pc # "unused"
        /\ run' = [Aborted(run) EXCEPT ![e] =
                     [Idle EXCEPT !.pc = "ready", !.kind = kind, !.context = shown,
                                  !.id = IF Kept(kind) THEN run[uncertain].id ELSE e]]
        /\ uncertain' = IF Kept(kind) THEN uncertain ELSE None
        /\ replies' = Silenced
        /\ current' = e
        /\ UNCHANGED <<server, shown>>
  BY DEF Press
<1> DEFINE id == IF Kept(kind) THEN run[uncertain].id ELSE e
           x == [Idle EXCEPT !.pc = "ready", !.kind = kind, !.context = shown, !.id = id]
<1>2. UNCHANGED <<game, late, log, net, shown>> /\ replies' = [f \in Presses |-> None]
  BY <1>1, AbortedIs DEF server
<1>3. ~ Used(e) /\ (\A f \in Presses : f < e <=> Used(f))
  <2>1. \A f \in Presses : f < e => Used(f)
    BY <1>1 DEF Used
  <2>2. ~ Used(e)
    BY <1>1 DEF Used
  <2>3. ASSUME NEW f \in Presses, Used(f), ~ f < e
        PROVE  FALSE
    <3>1. f = e \/ e < f
      BY <2>3, PressesAre
    <3> QED BY <2>2, <2>3, <3>1 DEF OrderInv
  <2> QED BY <2>1, <2>2, <2>3
<1>4. shown \in GameStates /\ game \in GameStates /\ uncertain \in Presses \cup {None}
      /\ run \in [Presses -> Runs]
  BY DEF TypesInv
<1>5. ASSUME Kept(kind)
      PROVE  /\ uncertain \in Presses /\ Used(uncertain) /\ uncertain < e
             /\ run[uncertain].kind = kind /\ run[uncertain].context = shown
             /\ run[uncertain].id \in 1..uncertain /\ run[uncertain].id \in Presses
             /\ run[uncertain].id < e /\ Used(run[uncertain].id)
             /\ run[run[uncertain].id].id = run[uncertain].id
             /\ run[run[uncertain].id].kind = kind /\ run[run[uncertain].id].context = shown
  <2>1. /\ uncertain \in Presses /\ run[uncertain].pc = "done"
        /\ run[uncertain].kind = kind /\ run[uncertain].context = shown
    BY <1>4, <1>5 DEF Kept, UnknownInv
  <2>2. Used(uncertain) /\ uncertain < e
    BY <1>3, <2>1 DEF Used
  <2>3. /\ run[uncertain].id \in 1..uncertain /\ Used(run[uncertain].id)
        /\ run[run[uncertain].id].id = run[uncertain].id
        /\ run[run[uncertain].id].kind = kind /\ run[run[uncertain].id].context = shown
    BY <2>1, <2>2 DEF IdsInv
  <2>4. run[uncertain].id \in Presses /\ run[uncertain].id < e
    BY <2>1, <2>2, <2>3, PressesAre
  <2> QED BY <2>1, <2>2, <2>3, <2>4
<1>6. id \in Presses /\ id \in 1..e /\ e \in Nat /\ e \in 1..e
  BY <1>5, PressesAre
<1>7. /\ x \in Runs /\ x.pc = "ready" /\ x.kind = kind /\ x.context = shown /\ x.id = id
      /\ x.result = None
  <2> HIDE DEF id
  <2> DEFINE idle == [pc |-> "unused", id |-> None, kind |-> "finish", context |-> Idle.context,
                      retries |-> 0, renewed |-> FALSE, result |-> None]
  <2>0. idle = Idle
    BY DEF Idle
  <2>1. x = [pc |-> "ready", id |-> id, kind |-> kind, context |-> shown,
             retries |-> 0, renewed |-> FALSE, result |-> None]
    <3>1. x = [idle EXCEPT !.pc = "ready", !.kind = kind, !.context = shown, !.id = id]
      BY <2>0
    <3> HIDE DEF x
    <3> QED BY <3>1
  <2>2. "ready" \in Pcs /\ 0 \in 0..MaxRetries
    BY CommandAssumption DEF Pcs
  <2> QED BY <1>4, <1>6, <2>1, <2>2 DEF Runs
<1>8. run' = [Aborted(run) EXCEPT ![e] = x]
  BY <1>1
<1> HIDE DEF x
<1>9. /\ run' \in [Presses -> Runs] /\ run'[e] = x
      /\ \A f \in Presses \ {e} : run'[f] = Aborted(run)[f]
  BY <1>7, <1>8, AbortedIs
<1>10. \A f \in Presses : Used(f)' <=> Used(f) \/ f = e
  BY <1>7, <1>9, AbortedIs DEF Used
<1>11. \A f \in Presses : Used(f) =>
         /\ f # e
         /\ run'[f].id = run[f].id /\ run'[f].kind = run[f].kind
         /\ run'[f].context = run[f].context
         /\ run'[f].pc = "reading_conflict" => run[f].pc = "reading_conflict"
         /\ run'[f].result \in {run[f].result, "cancelled"}
         /\ run[f].pc = "done" => run'[f].pc = "done"
  BY <1>3, <1>9, AbortedIs
<1>12. TypesInv'
  BY <1>1, <1>2, <1>4, <1>5, <1>9 DEF TypesInv
<1>13. RevisionInv' /\ LogInv'
  BY <1>2 DEF RevisionInv, LogInv, OneStatePressMovesOnce
<1>14. PastInv'
  <2>1. \A f \in Presses : Used(f)' =>
          /\ Past(run'[f].context)
          /\ run'[f].context.revision < shown.revision \/ run'[f].context = shown
    BY <1>7, <1>9, <1>10, <1>11 DEF PastInv
  <2> QED BY <1>2, <2>1 DEF PastInv, Past
<1>15. OrderInv'
  <2>1. \A f, g \in Presses : Used(f)' /\ g < f => Used(g)'
    <3> SUFFICES ASSUME NEW f \in Presses, NEW g \in Presses, Used(f)', g < f
                 PROVE  Used(g)'
      OBVIOUS
    <3>1. f < e \/ f = e
      BY <1>3, <1>10
    <3>2. g < e
      BY <3>1, PressesAre
    <3> QED BY <1>3, <1>10, <3>2
  <2>2. \A f \in Presses : e < f => ~ Used(f)'
    <3> SUFFICES ASSUME NEW f \in Presses, e < f
                 PROVE  ~ Used(f)'
      OBVIOUS
    <3>1. f # e /\ ~ f < e
      BY PressesAre
    <3> QED BY <1>3, <1>10, <3>1
  <2>3. Used(e)'
    BY <1>10
  <2> QED BY <1>1, <2>1, <2>2, <2>3 DEF OrderInv
<1>16. IdsInv'
  <2> SUFFICES ASSUME NEW f \in Presses, Used(f)'
               PROVE  /\ run'[f].id \in 1..f
                      /\ Used(run[f].id)' /\ run'[run'[f].id].id = run'[f].id
                      /\ run'[run'[f].id].kind = run'[f].kind
                      /\ run'[run'[f].id].context = run'[f].context
    BY DEF IdsInv
  <2>1. CASE f # e
    <3>1. Used(f)
      BY <1>10, <2>1
    <3>2. /\ run[f].id \in 1..f /\ Used(run[f].id) /\ run[run[f].id].id = run[f].id
          /\ run[run[f].id].kind = run[f].kind /\ run[run[f].id].context = run[f].context
      BY <3>1 DEF IdsInv
    <3>3. run[f].id \in Presses
      BY <3>2, PressesAre
    <3>4. Used(run[f].id)'
      BY <1>10, <1>11, <3>1, <3>2, <3>3 DEF Used
    <3> QED BY <1>11, <3>1, <3>2, <3>3, <3>4
  <2>2. CASE f = e /\ Kept(kind)
    <3>1. run'[e].id = run[uncertain].id /\ run'[e].kind = kind /\ run'[e].context = shown
      BY <1>7, <1>9, <2>2
    <3> QED BY <1>5, <1>6, <1>10, <1>11, <2>2, <3>1 DEF Used
  <2>3. CASE f = e /\ ~ Kept(kind)
    <3>1. run'[e].id = e
      BY <1>7, <1>9, <2>3
    <3> QED BY <1>6, <2>3, <3>1 DEF Used
  <2> QED BY <2>1, <2>2, <2>3
<1>17. NetInv'
  <2>1. \A r \in net : r.press \in Presses
    BY DEF TypesInv, Requests
  <2> QED BY <1>2, <1>10, <1>11, <2>1 DEF NetInv
<1>18. "cancelled" \notin Refusals \cup {"uncertain"} /\ None \notin Refusals \cup {"uncertain"}
  BY NoneIsNothing DEF Refusals
<1>19. RefusalInv'
  <2> SUFFICES ASSUME NEW f \in Presses
               PROVE  /\ replies'[f] # None => run'[f].pc = "sending"
                      /\ run'[f].result # None => run'[f].pc = "done"
                      /\ \/ replies'[f] # None /\ replies'[f].code \in Refusals
                         \/ run'[f].pc = "reading_conflict"
                         \/ run'[f].result \in Refusals
                         => Dead(f)'
    BY DEF RefusalInv
  <2>1. replies'[f] = None
    BY <1>2
  <2>2. run'[f].result # None => run'[f].pc = "done"
    BY <1>7, <1>9, AbortedIs
  <2>3. ASSUME run'[f].pc = "reading_conflict" \/ run'[f].result \in Refusals
        PROVE  Dead(f)'
    <3>1. f # e
      BY <1>7, <1>9, <1>18, <2>3
    <3>2. run[f].pc = "reading_conflict" \/ run[f].result \in Refusals
      BY <1>9, <1>18, <2>3, <3>1, AbortedIs
    <3>3. Dead(f)
      BY <3>2 DEF RefusalInv
    <3> QED BY <1>2, <1>9, <3>1, <3>3, AbortedIs DEF Dead
  <2> QED BY <2>1, <2>2, <2>3
<1>20. UnknownInv'
  <2>1. uncertain' # None => run'[uncertain'].pc = "done"
    BY <1>1, <1>4, <1>5, <1>11 DEF UnknownInv
  <2>2. ASSUME NEW f \in Presses, run'[f].result = "uncertain"
        PROVE  Used(f) /\ run[f].result = "uncertain"
    <3>1. f # e
      BY <1>7, <1>9, <1>18, <2>2
    <3>2. run[f].result = "uncertain"
      BY <1>9, <1>18, <2>2, <3>1, AbortedIs
    <3> QED BY <1>18, <3>2 DEF RefusalInv, Used
  <2>3. ASSUME NEW f \in Presses, run'[f].result = "uncertain"
        PROVE  \/ run'[f].context.revision < shown'.revision
               \/ f + 1 \in Presses /\ Used(f + 1)'
               \/ uncertain' = f
    <3>1. Used(f) /\ run[f].result = "uncertain" /\ f < e
      BY <1>3, <2>2, <2>3
    <3>2. f + 1 \in Presses /\ (f + 1 = e \/ f + 1 < e)
      BY <3>1, PressesAre
    <3> QED BY <1>3, <1>10, <3>2
  <2>4. ASSUME NEW f \in Presses \ {1}, Used(f)', run'[f - 1].result = "uncertain"
        PROVE  \/ run'[f].kind # run'[f - 1].kind
               \/ run'[f].context # run'[f - 1].context
               \/ run'[f].id = run'[f - 1].id
    <3>1. f - 1 \in Presses
      BY PressesAre
    <3>2. Used(f - 1) /\ run[f - 1].result = "uncertain"
      BY <2>2, <2>4, <3>1
    <3>3. CASE f # e
      <4>1. Used(f)
        BY <1>10, <2>4, <3>3
      <4> QED BY <1>11, <3>1, <3>2, <4>1 DEF UnknownInv
    <3>4. CASE f = e
      <4>1. run'[e].kind = kind /\ run'[e].context = shown /\ run'[e].id = id
        BY <1>7, <1>9
      <4>2. (f - 1) + 1 = e
        BY <1>6, <3>4
      <4>3. \/ uncertain = f - 1
            \/ run[f - 1].context.revision < shown.revision
        BY <1>3, <3>1, <3>2, <4>2 DEF UnknownInv
      <4>4. CASE uncertain = f - 1
        <5>1. Kept(kind) \/ run[f - 1].kind # kind \/ run[f - 1].context # shown
          BY <3>1, <4>4, NoneIsNothing DEF Kept
        <5> QED BY <1>11, <3>1, <3>2, <3>4, <4>1, <4>4, <5>1
      <4>5. CASE run[f - 1].context.revision < shown.revision
        <5>1. run[f - 1].context # shown
          BY <1>4, <4>5 DEF GameStates
        <5> QED BY <1>11, <3>1, <3>2, <3>4, <4>1, <5>1
      <4> QED BY <4>3, <4>4, <4>5
    <3> QED BY <3>3, <3>4
  <2> QED BY <2>1, <2>3, <2>4 DEF UnknownInv
<1> QED BY <1>12, <1>13, <1>14, <1>15, <1>16, <1>17, <1>19, <1>20
-----------------------------------------------------------------------------
(* The theorems.                                                            *)

\* The invariant holds at first.
LEMMA ControllerStarts == Init => ControllerInv
<1> SUFFICES ASSUME Init PROVE ControllerInv
  OBVIOUS
<1>1. /\ game = Idle.context /\ shown = Idle.context /\ DOMAIN log = {} /\ net = {}
      /\ replies = [e \in Presses |-> None] /\ run = [e \in Presses |-> Idle]
      /\ current = None /\ uncertain = None /\ late = FALSE /\ log = [id \in {} |-> None]
  BY DEF Init
<1>2. Idle.context \in GameStates /\ Turns(Idle.context)
  BY CommandAssumption DEF Idle, GameStates, Phases, Turns
<1>3. Idle \in Runs /\ Idle.pc = "unused" /\ Idle.result = None
  BY <1>2, CommandAssumption DEF Idle, Runs, Pcs, Kinds
<1>4. TypesInv
  BY <1>1, <1>2, <1>3 DEF TypesInv
<1>5. \A e \in Presses : ~ Used(e)
  BY <1>1, <1>3 DEF Used
<1>6. RevisionInv /\ PastInv /\ LogInv /\ OrderInv /\ IdsInv /\ NetInv
  BY <1>1, <1>2, <1>5
     DEF RevisionInv, PastInv, Past, LogInv, OneStatePressMovesOnce, OrderInv, IdsInv, NetInv
<1>7. None \notin Refusals /\ None # "uncertain"
  BY NoneIsNothing
<1>8. RefusalInv
  BY <1>1, <1>3, <1>7 DEF RefusalInv
<1>9. UnknownInv
  BY <1>1, <1>3, <1>5, <1>7 DEF UnknownInv
<1> QED BY <1>4, <1>6, <1>8, <1>9 DEF ControllerInv

\* Every step keeps it.
LEMMA ControllerSteps == ControllerInv /\ [Next]_vars => ControllerInv'
<1> SUFFICES ASSUME ControllerInv, [Next]_vars PROVE ControllerInv'
  OBVIOUS
<1>1. CASE Receive
  BY <1>1, ReceiveKeeps
<1>2. CASE MovesOn
  BY <1>2, MovesOnKeeps
<1>8. CASE DeadlinePasses
  BY <1>8, DeadlinePassesKeeps
<1>3. CASE Press
  BY <1>3, PressKeeps
<1>4. CASE Observe
  BY <1>4, ObserveKeeps
<1>5. CASE ReadState
  BY <1>5, ReadStateKeeps
<1>6. ASSUME NEW e \in Presses, Step(e)
      PROVE  ControllerInv'
  BY <1>6, SendKeeps, RefreshedKeeps, AnsweredKeeps, LostKeeps, RepeatKeeps, ControlReadKeeps
     DEF Step
<1>7. CASE UNCHANGED vars
  BY <1>7
     DEF vars, ControllerInv, TypesInv, RevisionInv, PastInv, Past, LogInv,
         OneStatePressMovesOnce, OrderInv, IdsInv, NetInv, RefusalInv, UnknownInv, Dead, Used
<1> QED BY <1>1, <1>2, <1>3, <1>4, <1>5, <1>6, <1>7, <1>8 DEF Next

\* What the screen says of a command and what became of it agree, for every number of
\* presses, of questions and of automatic repeats (session_command_controller.dart:75-257).
LEMMA ControllerIsSafe == ControllerInv => CommandsAreSafe
<1> SUFFICES ASSUME ControllerInv PROVE CommandsAreSafe
  OBVIOUS
<1> USE DEF ControllerInv
<1>1. TypeOK
  <2>1. game \in GameStates /\ shown \in GameStates /\ Questions \in Nat
        /\ \A s \in GameStates : s.revision \in Nat
    BY CommandAssumption DEF TypesInv, GameStates
  <2>2. game.revision <= 3 * Questions
    <3>1. game.question \in 1..Questions /\ game.revision \in Nat /\ game.phase \in Phases
      BY <2>1 DEF GameStates
    <3>2. game.revision <= 3 * game.question
      BY <3>1 DEF RevisionInv, Turns, Phases
    <3> QED BY <2>1, <3>1, <3>2
  <2>3. \A s \in GameStates : Past(s) => s \in States
    <3> SUFFICES ASSUME NEW s \in GameStates, Past(s) PROVE s \in States
      OBVIOUS
    <3>1. s.revision \in Nat /\ game.revision \in Nat /\ s.revision <= game.revision
      BY <2>1 DEF Past
    <3>2. s.revision \in 0..(3 * Questions)
      BY <2>1, <2>2, <3>1
    <3> QED BY <3>2 DEF GameStates, States, Phases
  <2>4. game \in States /\ shown \in States /\ shown.revision <= game.revision
    BY <2>1, <2>3 DEF PastInv, Past
  <2>5. DOMAIN log \subseteq Presses
    BY DEF TypesInv
  <2>10. late \in BOOLEAN /\ (late => game.phase = "answering")
    BY DEF TypesInv
  <2>6. \A r \in net : r.press \in Presses /\ r.id \in Presses
                       /\ r.attempt \in (0..MaxRetries) \X BOOLEAN
    BY DEF TypesInv, Requests
  <2>7. ASSUME NEW e \in Presses, replies[e] # None
        PROVE  run[e].pc = "sending" /\ replies[e].state \in States
    BY <2>3, <2>7 DEF TypesInv, Replies, RefusalInv, PastInv
  <2>8. ASSUME NEW e \in Presses, Active(e)
        PROVE  run[e].id \in 1..e /\ run[e].retries \in 0..MaxRetries
    BY <2>8 DEF TypesInv, Runs, IdsInv, Active, Used
  <2>9. current \in Presses \cup {None} /\ uncertain \in Presses \cup {None}
    BY DEF TypesInv
  <2> QED BY <2>4, <2>5, <2>6, <2>7, <2>8, <2>9, <2>10 DEF TypeOK
<1>2. RefusedWasNeverDone
  BY DEF RefusedWasNeverDone, RefusalInv, Dead
<1>3. OneStatePressMovesOnce
  BY DEF LogInv
<1>4. UnknownIsAskedAgain
  <2> SUFFICES ASSUME NEW e \in Presses \ {1},
                      run[e - 1].result = "uncertain", run[e - 1].id \in DOMAIN log,
                      run[e].kind = run[e - 1].kind, run[e].context = run[e - 1].context,
                      run[e].result \in Refusals
               PROVE  FALSE
    BY DEF UnknownIsAskedAgain
  <2>1. Dead(e) /\ Used(e)
    BY RefusedIsUsed DEF RefusalInv
  <2>2. run[e].id = run[e - 1].id
    BY <2>1 DEF UnknownInv
  <2> QED BY <2>1, <2>2 DEF Dead
<1> QED BY <1>1, <1>2, <1>3, <1>4 DEF CommandsAreSafe

\* No command that the screen reports as refused was or will be done, two presses on one
\* shown state move the session once, and a press repeated after an unknown result is not
\* refused when the first one was done: whatever the network loses, delays and answers
\* late, for every number of presses, of questions and of automatic repeats
\* (session_command_controller.dart:75-257).
THEOREM CommandsStaySafe == Spec => []CommandsAreSafe
<1>1. Spec => []ControllerInv
  BY ControllerStarts, ControllerSteps, PTL DEF Spec
<1> QED BY <1>1, ControllerIsSafe, PTL
-----------------------------------------------------------------------------
(* The socket of the screen and the renewal of its token.                   *)

Awaits == {"waits", "joined", "yes", "no"}
Supervisors == [stopped : BOOLEAN, era : Nat, auth : Nat, tries : [Sup!Failures -> Nat]]
Sockets == [id : Nat, era : Nat, used : Nat]
Tasks == [id : Nat, era : Nat, pc : Awaits]
Sendings ==
  {r \in [pc : {"idle", "sent", "joined", "yes", "no", "again"}, used : Nat] :
     r.pc = "sent" => r.used # 0}

InCharge(x) == Sup!Current(x.era)

ShapesInv ==
  /\ sup \in Supervisors /\ sockets \subseteq Sockets /\ tasks \subseteq Tasks
  /\ made \in 1..MaxToken /\ token \in {0, made} /\ expired \in 0..made
  /\ flight \in {"none", "asks", "stores"} /\ http \in [HttpRequests -> Sendings]
  /\ renewals \in [1..MaxToken -> Nat] /\ opens \in Nat

\* A supervisor is stopped once more at most than one is started, and a generation that
\* has ended does not come back.
EraInv ==
  /\ sup.era <= (IF sup.stopped THEN MaxEras + 1 ELSE MaxEras)
  /\ sup.auth <= made /\ (~ sup.stopped => sup.auth >= 1)
  /\ \A f \in Sup!Failures : sup.tries[f] <= Budget(f)
  /\ \A t \in tasks : t.era <= sup.era

\* A supervisor in charge has a socket, opened with its token, or awaits one retry.
OneInv ==
  /\ \A s \in sockets : InCharge(s) /\ s.used = sup.auth /\ s.id <= opens /\ s.id >= 1
  /\ \A s, r \in sockets : s = r
  /\ \A t, u \in tasks : InCharge(t) /\ InCharge(u) => t = u
  /\ \A t \in tasks : InCharge(t) => sockets = {}

\* The current token has no renewal behind it, but one that is under way.
RenewalInv ==
  /\ \A t \in 1..MaxToken : renewals[t] <= 1 /\ (t > made => renewals[t] = 0)
  /\ token # 0 /\ flight # "asks" => renewals[token] = 0
  /\ flight = "stores" => expired < made

\* The tokens that were refused are not newer than the supervisor's, and whoever waits
\* for a renewal will find a newer one, or none.
RefusedInv ==
  /\ \A r \in refused : r \in 1..expired /\ r <= sup.auth
  /\ \A t \in tasks : InCharge(t) /\ t.pc = "joined" /\ flight = "stores" => sup.auth < made
  /\ \A t \in tasks : InCharge(t) /\ t.pc = "yes" => token = 0 \/ token > sup.auth

SocketInv == ShapesInv /\ EraInv /\ OneInv /\ RenewalInv /\ RefusedInv

\* What follows a recovery is a socket with another token than those that were refused.
NewerToken ==
  \A t \in tasks \ tasks' : t.pc = "yes" =>
    \A s \in sockets' \ sockets : s.used \notin refused

\* While a supervisor is in charge its sockets are all there are.
LEMMA OursAreAll == ASSUME OneInv PROVE \/ sup.stopped /\ sockets = {}
                                        \/ ~ sup.stopped /\ sockets \ Sup!Ours = {}
BY DEF OneInv, InCharge, Sup!Current, Sup!Ours

LEMMA StopsIs ==
  ASSUME sup \in Supervisors, sup' = Sup!Stops(sup)
  PROVE  /\ sup' \in Supervisors /\ sup'.stopped /\ sup'.era = sup.era + 1
         /\ sup'.auth = sup.auth /\ sup'.tries = sup.tries
<1>1. sup' = [stopped |-> TRUE, era |-> sup.era + 1, auth |-> sup.auth, tries |-> sup.tries]
  BY DEF Supervisors, Sup!Stops
<1>2. sup.era + 1 \in Nat /\ sup.auth \in Nat /\ sup.tries \in [Sup!Failures -> Nat]
  BY DEF Supervisors
<1> QED BY <1>1, <1>2 DEF Supervisors

\* A supervisor that is stopped has no socket and no retry.
LEMMA Stopping ==
  ASSUME SocketInv, ~ sup.stopped, sup' = Sup!Stops(sup), sockets' = {}, tasks' \subseteq tasks,
         made' \in Nat, made <= made'
  PROVE  /\ sup' \in Supervisors /\ sockets' \subseteq Sockets /\ tasks' \subseteq Tasks
         /\ EraInv' /\ OneInv' /\ sup'.auth = sup.auth /\ \A t \in tasks' : ~ InCharge(t)'
<1>1. sup \in Supervisors /\ tasks \subseteq Tasks /\ EraInv /\ MaxEras \in Nat /\ made \in Nat
  BY ScreenAssumption DEF SocketInv, ShapesInv
<1>2. /\ sup' \in Supervisors /\ sup'.stopped /\ sup'.era = sup.era + 1
      /\ sup'.auth = sup.auth /\ sup'.tries = sup.tries
  BY <1>1, StopsIs
<1>3. \A t : ~ InCharge(t)'
  BY <1>2 DEF InCharge, Sup!Current
<1>4. \A t \in tasks' : t.era <= sup'.era
  BY <1>1, <1>2 DEF EraInv, Supervisors, Tasks
<1>5. sup.era \in Nat /\ sup.auth \in Nat
  BY <1>1 DEF Supervisors
<1>6. EraInv'
  BY <1>1, <1>2, <1>4, <1>5 DEF EraInv, Sup!Failures
<1>7. OneInv'
  BY <1>3 DEF OneInv
<1> QED BY <1>1, <1>2, <1>3, <1>6, <1>7

\* A socket is opened when there is no other one, and no retry under way.
LEMMA Opening ==
  ASSUME SocketInv, NEW s \in Supervisors, NEW left \in SUBSET tasks, Sup!Opens(s, {}, left),
         ~ s.stopped, s.era \in sup.era..MaxEras, s.auth \in 1..made',
         \A f \in Sup!Failures : s.tries[f] <= Budget(f),
         \A t \in left : t.era # s.era, made' = made
  PROVE  /\ sup' = s /\ sockets' \subseteq Sockets /\ tasks' \subseteq Tasks /\ opens' \in Nat
         /\ EraInv' /\ OneInv' /\ tasks' = left
         /\ \A t \in tasks' : ~ InCharge(t)'
         /\ \A r \in sockets' : r.used = s.auth
<1>1. /\ sup \in Supervisors /\ tasks \subseteq Tasks /\ EraInv /\ opens \in Nat /\ made \in Nat
      /\ MaxEras \in Nat
  BY ScreenAssumption DEF SocketInv, ShapesInv
<1>2. /\ sup' = s /\ tasks' = left /\ opens' = opens + 1
      /\ sockets' = {[id |-> opens + 1, era |-> s.era, used |-> s.auth]}
  BY DEF Sup!Opens
<1>3. [id |-> opens + 1, era |-> s.era, used |-> s.auth] \in Sockets
  BY <1>1 DEF Sockets, Supervisors
<1>4. \A t \in tasks' : ~ InCharge(t)' /\ t.era <= s.era
  BY <1>1, <1>2 DEF InCharge, Sup!Current, EraInv, Supervisors, Tasks
<1>5. EraInv'
  BY <1>1, <1>2, <1>4 DEF EraInv, Supervisors
<1>6. OneInv'
  BY <1>1, <1>2, <1>4 DEF OneInv, InCharge, Sup!Current
<1> QED BY <1>1, <1>2, <1>3, <1>4, <1>5, <1>6

\* Its end is followed by one retry.
LEMMA Retrying ==
  ASSUME SocketInv, NEW s \in sockets, NEW pc \in Awaits, sup' \in Supervisors,
         sockets' = sockets \ {s},
         tasks' = tasks \cup {[id |-> s.id, era |-> s.era, pc |-> pc]},
         sup'.stopped = sup.stopped, sup'.era = sup.era, sup'.auth = sup.auth,
         \A f \in Sup!Failures : sup'.tries[f] <= Budget(f), made' = made, opens' = opens
  PROVE  /\ sockets' = {} /\ tasks' \subseteq Tasks /\ EraInv' /\ OneInv'
         /\ \A t \in tasks' : InCharge(t)' => t.pc = pc
<1> DEFINE new == [id |-> s.id, era |-> s.era, pc |-> pc]
<1>1. /\ sup \in Supervisors /\ tasks \subseteq Tasks /\ EraInv /\ OneInv /\ made \in Nat
      /\ sockets \subseteq Sockets /\ s.era = sup.era
  BY DEF SocketInv, ShapesInv, OneInv, InCharge, Sup!Current
<1>2. new \in Tasks /\ new.era = sup.era /\ new.pc = pc
  BY <1>1 DEF Tasks, Sockets
<1>3. sockets' = {}
  BY <1>1 DEF OneInv
<1>4. \A t \in tasks : ~ InCharge(t) /\ ~ InCharge(t)'
  BY <1>1 DEF OneInv, InCharge, Sup!Current
<1>5. \A t \in tasks' : InCharge(t)' => t = new
  BY <1>4
<1>6. EraInv'
  BY <1>1, <1>2 DEF EraInv, Supervisors
<1>7. OneInv'
  BY <1>3, <1>5 DEF OneInv
<1> QED BY <1>1, <1>2, <1>3, <1>5, <1>6, <1>7

\* Actions that leave the renewal alone.
LEMMA RenewalStands ==
  ASSUME RenewalInv, made' = made, token' = token, flight' = flight, renewals' = renewals,
         expired' = expired
  PROVE  RenewalInv'
BY DEF RenewalInv

\* Nobody is refused, and no task of the supervisor in charge gets further.
LEMMA RefusedStands ==
  ASSUME RefusedInv, refused' = refused, expired' = expired, token' \in {token, 0},
         flight' = flight, made' = made, sup'.auth >= sup.auth, sup'.auth \in Nat, sup.auth \in Nat,
         expired \in Nat, 0 \notin refused,
         \A t \in tasks' : InCharge(t)' => t \in tasks /\ InCharge(t) /\ sup'.auth = sup.auth
  PROVE  RefusedInv'
BY DEF RefusedInv

LEMMA ZeroIsFine == SocketInv => 0 \notin refused /\ sup.auth \in Nat /\ expired \in Nat /\ made \in Nat
BY ScreenAssumption DEF SocketInv, RefusedInv, ShapesInv, Supervisors

LEMMA StopKeeps == SocketInv /\ Sup!Stop => SocketInv' /\ NewerToken
<1> SUFFICES ASSUME SocketInv, Sup!Stop PROVE SocketInv' /\ NewerToken
  OBVIOUS
<1>1. /\ ~ sup.stopped /\ sup' = Sup!Stops(sup) /\ sockets' = sockets \ Sup!Ours
      /\ UNCHANGED <<tasks, token, made, flight, http, renewals, expired, opens, refused>>
  BY DEF Sup!Stop, Sup!screen
<1>2. sockets' = {} /\ made \in Nat
  BY <1>1, OursAreAll, ZeroIsFine DEF SocketInv
<1>3. /\ sup' \in Supervisors /\ sockets' \subseteq Sockets /\ tasks' \subseteq Tasks
      /\ EraInv' /\ OneInv' /\ sup'.auth = sup.auth /\ \A t \in tasks' : ~ InCharge(t)'
  BY <1>1, <1>2, Stopping
<1>4. ShapesInv'
  BY <1>1, <1>3 DEF SocketInv, ShapesInv
<1>5. RenewalInv'
  BY <1>1, RenewalStands DEF SocketInv
<1>6. RefusedInv'
  BY <1>1, <1>3, RefusedStands, ZeroIsFine DEF SocketInv
<1>7. NewerToken
  BY <1>1 DEF NewerToken
<1> QED BY <1>3, <1>4, <1>5, <1>6, <1>7 DEF SocketInv

LEMMA ConnectKeeps == SocketInv /\ Sup!Connect => SocketInv' /\ NewerToken
<1> SUFFICES ASSUME SocketInv, Sup!Connect PROVE SocketInv' /\ NewerToken
  OBVIOUS
<1> DEFINE s == [stopped |-> FALSE, era |-> sup.era + 1, auth |-> token,
                 tries |-> Sup!NoFailures]
<1>1. /\ token # 0 /\ sup.era < MaxEras /\ Sup!Opens(s, sockets \ Sup!Ours, tasks)
      /\ UNCHANGED <<token, made, flight, http, renewals, expired, refused>>
  BY DEF Sup!Connect, Sup!screen
<1>2. sockets \ Sup!Ours = {}
  BY OursAreAll DEF SocketInv
<1>3. /\ sup.era \in Nat /\ sup.auth \in Nat /\ token = made /\ made \in Nat /\ made >= 1
      /\ MaxEras \in Nat /\ sup.auth <= made
  BY <1>1, ScreenAssumption DEF SocketInv, ShapesInv, Supervisors, EraInv
<1>4. s \in Supervisors /\ \A f \in Sup!Failures : s.tries[f] <= Budget(f)
  BY <1>3, ScreenAssumption DEF Supervisors, Sup!NoFailures, Sup!Failures
<1>5. \A t \in tasks : t.era # s.era
  BY <1>3 DEF SocketInv, ShapesInv, EraInv, Tasks
<1>6. ~ s.stopped /\ s.era \in sup.era..MaxEras /\ s.auth \in 1..made' /\ s.auth = token
  BY <1>1, <1>3
<1> HIDE DEF s
<1>7. /\ sup' = s /\ sockets' \subseteq Sockets /\ tasks' \subseteq Tasks /\ opens' \in Nat
      /\ EraInv' /\ OneInv' /\ tasks' = tasks /\ \A t \in tasks' : ~ InCharge(t)'
  BY <1>1, <1>2, <1>4, <1>5, <1>6, Opening
<1>8. ShapesInv'
  BY <1>1, <1>4, <1>7 DEF SocketInv, ShapesInv
<1>9. RenewalInv'
  BY <1>1, RenewalStands DEF SocketInv
<1>10. RefusedInv'
  BY <1>1, <1>3, <1>6, <1>7, RefusedStands, ZeroIsFine DEF SocketInv
<1>11. NewerToken
  BY <1>7 DEF NewerToken
<1> QED BY <1>7, <1>8, <1>9, <1>10, <1>11 DEF SocketInv

LEMMA HearsKeeps ==
  ASSUME SocketInv, NEW s \in sockets, Sup!Hears(s) PROVE SocketInv' /\ NewerToken
<1>1. /\ sup' = [sup EXCEPT !.tries = Sup!NoFailures]
      /\ UNCHANGED <<sockets, tasks, token, made, flight, http, renewals, expired, opens, refused>>
  BY DEF Sup!Hears, Sup!screen
<1>2. sup \in Supervisors
  BY DEF SocketInv, ShapesInv
<1>3. /\ sup' \in Supervisors /\ sup'.stopped = sup.stopped /\ sup'.era = sup.era
      /\ sup'.auth = sup.auth /\ \A f \in Sup!Failures : sup'.tries[f] <= Budget(f)
  BY <1>1, <1>2, ScreenAssumption DEF Supervisors, Sup!NoFailures, Sup!Failures
<1>4. \A x : InCharge(x)' = InCharge(x)
  BY <1>3 DEF InCharge, Sup!Current
<1>5. ShapesInv'
  BY <1>1, <1>3 DEF SocketInv, ShapesInv
<1>6. EraInv'
  BY <1>1, <1>3 DEF SocketInv, EraInv
<1>7. OneInv'
  BY <1>1, <1>3 DEF SocketInv, OneInv, InCharge, Sup!Current
<1>8. RenewalInv'
  BY <1>1, RenewalStands DEF SocketInv
<1>9. RefusedInv'
  BY <1>1, <1>3, <1>4 DEF SocketInv, RefusedInv
<1>10. NewerToken
  BY <1>1 DEF NewerToken
<1> QED BY <1>5, <1>6, <1>7, <1>8, <1>9, <1>10 DEF SocketInv

\* The end of a socket that is retried after a wait, or ends its supervisor.
LEMMA FailedKeeps ==
  ASSUME SocketInv, NEW s \in sockets, NEW f \in Sup!Failures, Sup!Failed(s, f)
  PROVE  SocketInv' /\ NewerToken
<1>1. /\ sockets' = sockets \ {s} /\ Sup!Current(s.era)
      /\ \/ sup.tries[f] >= Budget(f) /\ sup' = Sup!Stops(sup) /\ tasks' = tasks
         \/ /\ sup.tries[f] < Budget(f) /\ sup' = [sup EXCEPT !.tries[f] = @ + 1]
            /\ tasks' = tasks \cup {[id |-> s.id, era |-> s.era, pc |-> "waits"]}
      /\ UNCHANGED <<token, made, flight, http, renewals, expired, opens, refused>>
  <2>1. sup.tries[f] \in Nat /\ Budget(f) \in Nat /\ Sup!Current(s.era)
    BY ScreenAssumption
       DEF SocketInv, ShapesInv, Supervisors, OneInv, InCharge, Sup!Failures
  <2> QED BY <2>1 DEF Sup!Failed, Sup!Waits, Sup!screen
<1>2. sockets' = {} /\ ~ sup.stopped /\ sup \in Supervisors /\ made \in Nat
  BY <1>1, ZeroIsFine DEF SocketInv, ShapesInv, OneInv, Sup!Current
<1>3. CASE sup' = Sup!Stops(sup) /\ tasks' = tasks
  <2>1. /\ sup' \in Supervisors /\ sockets' \subseteq Sockets /\ tasks' \subseteq Tasks
        /\ EraInv' /\ OneInv' /\ sup'.auth = sup.auth /\ \A t \in tasks' : ~ InCharge(t)'
    BY <1>1, <1>2, <1>3, Stopping
  <2>2. ShapesInv'
    BY <1>1, <2>1 DEF SocketInv, ShapesInv
  <2>3. RefusedInv'
    BY <1>1, <2>1, RefusedStands, ZeroIsFine DEF SocketInv
  <2>4. NewerToken
    BY <1>3 DEF NewerToken
  <2> QED BY <1>1, <2>1, <2>2, <2>3, <2>4, RenewalStands DEF SocketInv
<1>4. CASE /\ sup.tries[f] < Budget(f) /\ sup' = [sup EXCEPT !.tries[f] = @ + 1]
           /\ tasks' = tasks \cup {[id |-> s.id, era |-> s.era, pc |-> "waits"]}
  <2>1. /\ sup' \in Supervisors /\ sup'.stopped = sup.stopped /\ sup'.era = sup.era
        /\ sup'.auth = sup.auth
    BY <1>2, <1>4 DEF Supervisors
  <2>2. \A g \in Sup!Failures : sup'.tries[g] <= Budget(g)
    BY <1>2, <1>4, ScreenAssumption DEF Supervisors, SocketInv, EraInv, Sup!Failures
  <2>7. "waits" \in Awaits
    BY DEF Awaits
  <2>3. /\ tasks' \subseteq Tasks /\ EraInv' /\ OneInv'
        /\ \A t \in tasks' : InCharge(t)' => t.pc = "waits"
    BY <1>1, <1>4, <2>1, <2>2, <2>7, Retrying
  <2>4. ShapesInv'
    BY <1>1, <1>2, <2>1, <2>3 DEF SocketInv, ShapesInv
  <2>5. RefusedInv'
    BY <1>1, <2>1, <2>3 DEF SocketInv, RefusedInv
  <2>6. NewerToken
    BY <1>4 DEF NewerToken
  <2> QED BY <1>1, <2>3, <2>4, <2>5, <2>6, RenewalStands DEF SocketInv
<1> QED BY <1>1, <1>3, <1>4

\* The end of a socket that is final.
LEMMA FinishedKeeps ==
  ASSUME SocketInv, NEW s \in sockets, Sup!Finished(s) PROVE SocketInv' /\ NewerToken
<1>1. /\ sockets' = {} /\ ~ sup.stopped /\ sup' = Sup!Stops(sup)
      /\ UNCHANGED <<tasks, token, made, flight, http, renewals, expired, opens, refused>>
  BY DEF SocketInv, OneInv, InCharge, Sup!Current, Sup!Finished, Sup!screen
<1>2. /\ sup' \in Supervisors /\ sockets' \subseteq Sockets /\ tasks' \subseteq Tasks
      /\ EraInv' /\ OneInv' /\ sup'.auth = sup.auth /\ \A t \in tasks' : ~ InCharge(t)'
  BY <1>1, Stopping, ZeroIsFine
<1>3. ShapesInv'
  BY <1>1, <1>2 DEF SocketInv, ShapesInv
<1>4. RenewalInv'
  BY <1>1, RenewalStands DEF SocketInv
<1>5. RefusedInv'
  BY <1>1, <1>2, RefusedStands, ZeroIsFine DEF SocketInv
<1>6. NewerToken
  BY <1>1 DEF NewerToken
<1> QED BY <1>2, <1>3, <1>4, <1>5, <1>6 DEF SocketInv

\* Whoever used the current token joins its renewal, which only the first one begins.
LEMMA JoinsIs ==
  ASSUME SocketInv, NEW used \in 1..expired, Sup!Joins(used),
         made' = made, token' = token, expired' = expired
  PROVE  /\ flight' \in {flight, "asks"} /\ renewals' \in [1..MaxToken -> Nat] /\ RenewalInv'
         /\ token = used => flight' = "asks"
         /\ flight = "asks" => flight' = "asks"
<1>1. /\ made \in 1..MaxToken /\ token \in {0, made} /\ expired \in 0..made /\ RenewalInv
      /\ MaxToken \in Nat /\ flight \in {"none", "asks", "stores"}
      /\ renewals \in [1..MaxToken -> Nat]
  BY ScreenAssumption DEF SocketInv, ShapesInv
<1>2. CASE token = used /\ flight = "none"
  <2>1. /\ flight' = "asks" /\ renewals' = [renewals EXCEPT ![used] = @ + 1]
        /\ used \in 1..MaxToken /\ token = made /\ token # 0 /\ renewals[used] = 0
    BY <1>1, <1>2 DEF Sup!Joins, Sup!NoFlight, RenewalInv
  <2>2. renewals' \in [1..MaxToken -> Nat] /\ \A t \in 1..MaxToken : renewals'[t] <= 1
    BY <1>1, <2>1 DEF RenewalInv
  <2>3. \A t \in 1..MaxToken : t > made' => renewals'[t] = 0
    BY <1>1, <2>1 DEF RenewalInv
  <2> QED BY <2>1, <2>2, <2>3 DEF RenewalInv
<1>3. CASE ~ (token = used /\ flight = "none")
  <2>1. flight' = flight /\ renewals' = renewals
    BY <1>3 DEF Sup!Joins, Sup!NoFlight
  <2>2. RenewalInv'
    BY <1>1, <2>1, RenewalStands
  <2>3. token = used => flight = "asks"
    BY <1>1, <1>3 DEF RenewalInv
  <2> QED BY <1>1, <2>1, <2>2, <2>3
<1> QED BY <1>2, <1>3

\* A socket whose token has expired.
LEMMA ExpiredKeeps ==
  ASSUME SocketInv, NEW s \in sockets, Sup!Expired(s) PROVE SocketInv' /\ NewerToken
<1> DEFINE pc == Sup!Known(s.used)
<1>1. /\ s.used <= expired /\ sockets' = sockets \ {s} /\ refused' = refused \cup {s.used}
      /\ tasks' = tasks \cup {[id |-> s.id, era |-> s.era, pc |-> pc]} /\ Sup!Joins(s.used)
      /\ UNCHANGED <<sup, token, made, http, expired, opens>> /\ s.used = sup.auth
      /\ ~ sup.stopped
  BY DEF SocketInv, OneInv, InCharge, Sup!Current, Sup!Expired
<1>2. /\ sup \in Supervisors /\ EraInv /\ made \in Nat /\ expired \in 0..made /\ token \in {0, made}
      /\ RefusedInv /\ flight \in {"none", "asks", "stores"} /\ RenewalInv
  BY ScreenAssumption DEF SocketInv, ShapesInv
<1>3. s.used \in Nat /\ s.used \in 1..expired
  BY <1>1, <1>2 DEF EraInv, Supervisors
<1>4. /\ pc \in Awaits /\ pc \in {"joined", "yes", "no"} /\ (pc = "joined" <=> token = s.used)
      /\ (pc = "yes" => token # 0)
  BY DEF Sup!Known, Awaits
<1>5. /\ flight' \in {flight, "asks"} /\ renewals' \in [1..MaxToken -> Nat] /\ RenewalInv'
      /\ token = s.used => flight' = "asks"
      /\ flight = "asks" => flight' = "asks"
  BY <1>1, <1>3, JoinsIs
<1> HIDE DEF pc
<1>6. /\ sockets' = {} /\ tasks' \subseteq Tasks /\ EraInv' /\ OneInv'
      /\ \A t \in tasks' : InCharge(t)' => t.pc = pc
  <2>1. \A f \in Sup!Failures : sup'.tries[f] <= Budget(f)
    BY <1>1, <1>2 DEF EraInv
  <2>2. sup' \in Supervisors /\ sup'.stopped = sup.stopped /\ sup'.era = sup.era
        /\ sup'.auth = sup.auth
    BY <1>1, <1>2
  <2> QED BY <1>1, <1>4, <2>1, <2>2, Retrying
<1>7. ShapesInv'
  BY <1>1, <1>5, <1>6 DEF SocketInv, ShapesInv
<1>8. RefusedInv'
  <2>1. \A r \in refused' : r \in 1..expired' /\ r <= sup'.auth
    BY <1>1, <1>2, <1>3 DEF RefusedInv, Supervisors
  <2>3. ASSUME NEW t \in tasks', InCharge(t)', t.pc = "joined", flight' = "stores"
        PROVE  sup'.auth < made'
    BY <1>1, <1>4, <1>5, <1>6, <2>3
  <2>4. ASSUME NEW t \in tasks', InCharge(t)', t.pc = "yes"
        PROVE  token' = 0 \/ token' > sup'.auth
    <3>1. token # s.used /\ token = made
      BY <1>2, <1>4, <1>6, <2>4
    <3> QED BY <1>1, <1>2, <3>1 DEF EraInv, Supervisors
  <2> QED BY <2>1, <2>3, <2>4 DEF RefusedInv
<1>9. NewerToken
  BY <1>1 DEF NewerToken
<1> QED BY <1>5, <1>6, <1>7, <1>8, <1>9 DEF SocketInv

\* The end of a wait.
LEMMA WaitOverKeeps ==
  ASSUME SocketInv, NEW t \in tasks, Sup!WaitOver(t) PROVE SocketInv' /\ NewerToken
<1>1. /\ t.pc = "waits" /\ tasks' = tasks \ {t}
      /\ UNCHANGED <<token, made, flight, http, renewals, expired, refused>>
  BY DEF Sup!WaitOver, Sup!Opens, Sup!screen
<1>2. NewerToken
  BY <1>1 DEF NewerToken
<1>3. RenewalInv'
  BY <1>1, RenewalStands DEF SocketInv
<1>4. CASE InCharge(t)
  <2>1. Sup!Opens(sup, sockets, tasks \ {t}) /\ sockets = {} /\ ~ sup.stopped /\ t.era = sup.era
    BY <1>4 DEF Sup!WaitOver, InCharge, Sup!Current, SocketInv, OneInv
  <2>2. /\ sup \in Supervisors /\ EraInv /\ sup.era \in Nat /\ made \in Nat /\ MaxEras \in Nat
        /\ sup.era \in sup.era..MaxEras
    BY <2>1, ScreenAssumption DEF SocketInv, ShapesInv, Supervisors, EraInv
  <2>3. \A u \in tasks \ {t} : u.era # sup.era
    BY <1>4, <2>1 DEF SocketInv, OneInv, InCharge, Sup!Current
  <2>4. sup.auth \in 1..made' /\ \A f \in Sup!Failures : sup.tries[f] <= Budget(f)
    BY <1>1, <2>1, <2>2 DEF EraInv, Supervisors
  <2>5. /\ sup' = sup /\ sockets' \subseteq Sockets /\ tasks' \subseteq Tasks /\ opens' \in Nat
        /\ EraInv' /\ OneInv' /\ \A u \in tasks' : ~ InCharge(u)'
    BY <1>1, <2>1, <2>2, <2>3, <2>4, Opening
  <2>6. ShapesInv'
    BY <1>1, <2>2, <2>5 DEF SocketInv, ShapesInv
  <2>7. RefusedInv'
    BY <1>1, <2>5, RefusedStands, ZeroIsFine DEF SocketInv
  <2> QED BY <1>2, <1>3, <2>5, <2>6, <2>7 DEF SocketInv
<1>5. CASE ~ InCharge(t)
  <2>1. UNCHANGED <<sup, sockets, opens>>
    BY <1>5 DEF Sup!WaitOver, InCharge
  <2>2. \A x : InCharge(x)' = InCharge(x)
    BY <2>1 DEF InCharge, Sup!Current
  <2>3. ShapesInv' /\ EraInv'
    BY <1>1, <2>1 DEF SocketInv, ShapesInv, EraInv
  <2>4. OneInv'
    BY <1>1, <2>1, <2>2 DEF SocketInv, OneInv
  <2>5. RefusedInv'
    BY <1>1, <2>1, <2>2, RefusedStands, ZeroIsFine DEF SocketInv
  <2> QED BY <1>2, <1>3, <2>3, <2>4, <2>5 DEF SocketInv
<1> QED BY <1>4, <1>5

\* The end of a renewal that was waited for: a socket with the newer token, or none.
LEMMA RecoveredKeeps ==
  ASSUME SocketInv, NEW t \in tasks, Sup!Recovered(t) PROVE SocketInv' /\ NewerToken
<1> DEFINE s == [sup EXCEPT !.auth = token]
<1>1. /\ tasks' = tasks \ {t} /\ t.pc \in {"yes", "no"}
      /\ UNCHANGED <<token, made, flight, http, renewals, expired, refused>>
  BY DEF Sup!Recovered, Sup!Opens, Sup!screen
<1>2. RenewalInv'
  BY <1>1, RenewalStands DEF SocketInv
<1>3. CASE ~ InCharge(t)
  <2>1. UNCHANGED <<sup, sockets, opens>>
    BY <1>3 DEF Sup!Recovered, InCharge
  <2>2. \A x : InCharge(x)' = InCharge(x)
    BY <2>1 DEF InCharge, Sup!Current
  <2>3. ShapesInv' /\ EraInv'
    BY <1>1, <2>1 DEF SocketInv, ShapesInv, EraInv
  <2>4. OneInv'
    BY <1>1, <2>1, <2>2 DEF SocketInv, OneInv
  <2>5. RefusedInv'
    BY <1>1, <2>1, <2>2, RefusedStands, ZeroIsFine DEF SocketInv
  <2>6. NewerToken
    BY <2>1 DEF NewerToken
  <2> QED BY <1>2, <2>3, <2>4, <2>5, <2>6 DEF SocketInv
<1>4. CASE InCharge(t) /\ t.pc = "yes" /\ token # 0
  <2>1. Sup!Opens(s, sockets, tasks \ {t}) /\ sockets = {} /\ ~ sup.stopped /\ t.era = sup.era
    BY <1>4 DEF Sup!Recovered, InCharge, Sup!Current, SocketInv, OneInv
  <2>2. /\ sup \in Supervisors /\ EraInv /\ sup.era \in Nat /\ made \in Nat /\ MaxEras \in Nat
        /\ made >= 1 /\ token = made /\ sup.era \in sup.era..MaxEras
    BY <1>4, <2>1, ScreenAssumption DEF SocketInv, ShapesInv, Supervisors, EraInv
  <2>3. \A u \in tasks \ {t} : u.era # sup.era
    BY <1>4, <2>1 DEF SocketInv, OneInv, InCharge, Sup!Current
  <2>4. /\ s \in Supervisors /\ s.stopped = sup.stopped /\ s.era = sup.era /\ s.auth = token
        /\ s.tries = sup.tries
    BY <2>2 DEF Supervisors
  <2> HIDE DEF s
  <2>5. s.auth \in 1..made' /\ \A f \in Sup!Failures : s.tries[f] <= Budget(f)
    BY <1>1, <2>2, <2>4 DEF EraInv
  <2>6. /\ sup' = s /\ sockets' \subseteq Sockets /\ tasks' \subseteq Tasks /\ opens' \in Nat
        /\ EraInv' /\ OneInv' /\ \A u \in tasks' : ~ InCharge(u)'
        /\ \A r \in sockets' : r.used = token
    <3>1. \A u \in tasks \ {t} : u.era # s.era
      BY <2>3, <2>4
    <3>2. Sup!Opens(s, {}, tasks \ {t})
      BY <2>1
    <3>3. tasks \ {t} \in SUBSET tasks /\ ~ s.stopped /\ s.era \in sup.era..MaxEras
      BY <2>1, <2>2, <2>4
    <3> QED BY <1>1, <2>4, <2>5, <3>1, <3>2, <3>3, Opening
  <2>7. ShapesInv'
    BY <1>1, <2>4, <2>6 DEF SocketInv, ShapesInv
  <2>8. token > sup.auth
    BY <1>4 DEF SocketInv, RefusedInv
  <2>9. RefusedInv'
    <3>1. sup'.auth >= sup.auth /\ sup'.auth \in Nat
      BY <2>2, <2>4, <2>6, <2>8, ZeroIsFine
    <3> QED BY <1>1, <2>6, <3>1, RefusedStands, ZeroIsFine DEF SocketInv
  <2>10. token \notin refused
    BY <2>2, <2>8, ZeroIsFine DEF SocketInv, RefusedInv
  <2>11. NewerToken
    BY <2>6, <2>10 DEF NewerToken
  <2> QED BY <1>2, <2>6, <2>7, <2>9, <2>11 DEF SocketInv
<1>5. CASE InCharge(t) /\ ~ (t.pc = "yes" /\ token # 0)
  <2>1. /\ sup' = Sup!Stops(sup) /\ UNCHANGED <<sockets, opens>> /\ ~ sup.stopped /\ sockets = {}
    BY <1>5 DEF Sup!Recovered, InCharge, Sup!Current, SocketInv, OneInv
  <2>2. /\ sup' \in Supervisors /\ sockets' \subseteq Sockets /\ tasks' \subseteq Tasks
        /\ EraInv' /\ OneInv' /\ sup'.auth = sup.auth /\ \A u \in tasks' : ~ InCharge(u)'
    BY <1>1, <2>1, Stopping, ZeroIsFine
  <2>3. ShapesInv'
    BY <1>1, <2>1, <2>2 DEF SocketInv, ShapesInv
  <2>4. RefusedInv'
    BY <1>1, <2>2, RefusedStands, ZeroIsFine DEF SocketInv
  <2>5. NewerToken
    BY <2>1 DEF NewerToken
  <2> QED BY <1>2, <2>2, <2>3, <2>4, <2>5 DEF SocketInv
<1> QED BY <1>3, <1>4, <1>5

\* A newer token, with no renewal behind it and not refused yet.
LEMMA NewTokenKeeps ==
  ASSUME SocketInv, made < MaxToken, made' = made + 1, token' = made + 1,
         flight' \in {flight, "stores"}, flight' # flight => flight = "asks",
         token # 0 => flight' = "stores", flight' = "stores" => flight = "asks" \/ token = 0,
         UNCHANGED <<sup, sockets, tasks, expired, http, opens, renewals, refused>>
  PROVE  SocketInv' /\ NewerToken
<1>1. /\ made \in 1..MaxToken /\ made' \in 1..MaxToken /\ MaxToken \in Nat /\ expired \in 0..made
      /\ sup.auth \in Nat /\ sup.auth <= made /\ RefusedInv
      /\ RenewalInv /\ flight' \in {"none", "asks", "stores"} /\ token' > sup.auth
  BY ScreenAssumption DEF SocketInv, ShapesInv, EraInv, Supervisors
<1>2. \A x : InCharge(x)' = InCharge(x)
  BY DEF InCharge, Sup!Current
<1>3. ShapesInv'
  BY <1>1 DEF SocketInv, ShapesInv
<1>4. EraInv'
  BY <1>1 DEF SocketInv, EraInv
<1>5. OneInv'
  BY <1>2 DEF SocketInv, OneInv
<1>6. RenewalInv'
  BY <1>1 DEF RenewalInv, ShapesInv
<1>7. RefusedInv'
  BY <1>1, <1>2 DEF RefusedInv
<1>8. NewerToken
  BY DEF NewerToken
<1> QED BY <1>3, <1>4, <1>5, <1>6, <1>7, <1>8 DEF SocketInv

LEMMA RenewedKeeps == SocketInv /\ (Sup!Renewed \/ Sup!Login) => SocketInv' /\ NewerToken
<1> SUFFICES ASSUME SocketInv, Sup!Renewed \/ Sup!Login PROVE SocketInv' /\ NewerToken
  OBVIOUS
<1> QED BY NewTokenKeeps DEF Sup!Renewed, Sup!Login

\* What the end of a flight makes of the tasks and the requests.
LEMMA LandsIs ==
  ASSUME ShapesInv, NEW answer \in {"yes", "no"}, Sup!Lands(answer)
  PROVE  /\ flight' = "none" /\ tasks' \subseteq Tasks /\ http' \in [HttpRequests -> Sendings]
         /\ \A t \in tasks' : \E u \in tasks :
              /\ t.id = u.id /\ t.era = u.era
              /\ u.pc # "joined" => t = u
              /\ u.pc = "joined" => t.pc = answer
         /\ \A t \in tasks : t.pc # "joined" => t \in tasks'
<1>1. /\ flight' = "none"
      /\ tasks' = {[t EXCEPT !.pc = IF @ = "joined" THEN answer ELSE @] : t \in tasks}
      /\ http' = [r \in HttpRequests |->
                    [http[r] EXCEPT !.pc = IF @ = "joined" THEN answer ELSE @]]
  BY DEF Sup!Lands, Sup!NoFlight
<1>2. tasks \subseteq Tasks /\ http \in [HttpRequests -> Sendings] /\ answer \in Awaits
  BY DEF ShapesInv, Awaits
<1>3. ASSUME NEW t \in tasks
      PROVE  LET u == [t EXCEPT !.pc = IF @ = "joined" THEN answer ELSE @]
             IN  /\ u \in Tasks /\ u.id = t.id /\ u.era = t.era
                 /\ t.pc # "joined" => u = t
                 /\ t.pc = "joined" => u.pc = answer
  <2>1. t \in Tasks
    BY <1>2
  <2> QED BY <1>2, <2>1 DEF Tasks
<1>4. tasks' \subseteq Tasks
  BY <1>1, <1>3
<1>5. http' \in [HttpRequests -> Sendings]
  <2>1. ASSUME NEW r \in HttpRequests
        PROVE  [http[r] EXCEPT !.pc = IF @ = "joined" THEN answer ELSE @] \in Sendings
    <3>1. http[r] \in Sendings
      BY <1>2
    <3> QED BY <3>1 DEF Sendings
  <2> QED BY <1>1, <2>1
<1>6. \A t \in tasks' : \E u \in tasks :
        /\ t.id = u.id /\ t.era = u.era
        /\ u.pc # "joined" => t = u
        /\ u.pc = "joined" => t.pc = answer
  <2> SUFFICES ASSUME NEW t \in tasks'
               PROVE  \E u \in tasks : /\ t.id = u.id /\ t.era = u.era
                                       /\ u.pc # "joined" => t = u
                                       /\ u.pc = "joined" => t.pc = answer
    OBVIOUS
  <2>1. PICK u \in tasks : t = [u EXCEPT !.pc = IF @ = "joined" THEN answer ELSE @]
    BY <1>1
  <2> QED BY <1>3, <2>1
<1>7. \A t \in tasks : t.pc # "joined" => t \in tasks'
  BY <1>1, <1>3
<1> QED BY <1>1, <1>4, <1>5, <1>6, <1>7

\* The end of a flight leaves at most one retry of the supervisor in charge.
LEMMA LandedIsOne ==
  ASSUME SocketInv, NEW answer \in {"yes", "no"}, Sup!Lands(answer),
         UNCHANGED <<sup, sockets, made, opens>>
  PROVE  EraInv' /\ OneInv'
<1>1. UNCHANGED <<sup, sockets, made, opens>>
  OBVIOUS
<1>2. /\ flight' = "none" /\ tasks' \subseteq Tasks /\ http' \in [HttpRequests -> Sendings]
      /\ \A t \in tasks' : \E u \in tasks :
           /\ t.id = u.id /\ t.era = u.era
           /\ u.pc # "joined" => t = u
           /\ u.pc = "joined" => t.pc = answer
      /\ \A t \in tasks : t.pc # "joined" => t \in tasks'
  BY LandsIs DEF SocketInv
<1>3. OneInv /\ EraInv
  BY DEF SocketInv
<1>4. \A x : InCharge(x)' = (~ sup.stopped /\ x.era = sup.era)
  BY <1>1 DEF InCharge, Sup!Current
<1>5. EraInv'
  BY <1>1, <1>2, <1>3 DEF EraInv
<1>6. OneInv'
  <2>1. ASSUME NEW t \in tasks', NEW v \in tasks', InCharge(t)', InCharge(v)'
        PROVE  t = v
    <3>1. PICK u \in tasks : /\ t.id = u.id /\ t.era = u.era
                             /\ u.pc # "joined" => t = u
                             /\ u.pc = "joined" => t.pc = answer
      BY <1>2
    <3>2. PICK w \in tasks : /\ v.id = w.id /\ v.era = w.era
                             /\ w.pc # "joined" => v = w
                             /\ w.pc = "joined" => v.pc = answer
      BY <1>2
    <3>3. u = w
      BY <1>3, <1>4, <2>1, <3>1, <3>2 DEF OneInv, InCharge, Sup!Current
    <3>4. CASE u.pc = "joined"
      <4>1. t \in Tasks /\ v \in Tasks
        BY <1>2
      <4>2. t.id = v.id /\ t.era = v.era /\ t.pc = v.pc
        BY <3>1, <3>2, <3>3, <3>4
      <4> QED BY <4>1, <4>2 DEF Tasks
    <3>5. CASE u.pc # "joined"
      BY <3>1, <3>2, <3>3, <3>5
    <3> QED BY <3>4, <3>5
  <2>2. \A t \in tasks' : InCharge(t)' => sockets' = {}
    BY <1>1, <1>2, <1>3, <1>4 DEF OneInv, InCharge, Sup!Current
  <2> QED BY <1>1, <1>3, <2>1, <2>2 DEF OneInv, InCharge, Sup!Current
<1> QED BY <1>5, <1>6

LEMMA StoredKeeps == SocketInv /\ Sup!Stored => SocketInv' /\ NewerToken
<1> SUFFICES ASSUME SocketInv, Sup!Stored PROVE SocketInv' /\ NewerToken
  OBVIOUS
<1>1. /\ flight = "stores" /\ Sup!Lands("yes")
      /\ UNCHANGED <<sup, sockets, token, made, expired, opens, renewals, refused>>
  BY DEF Sup!Stored
<1>2. /\ flight' = "none" /\ tasks' \subseteq Tasks /\ http' \in [HttpRequests -> Sendings]
      /\ \A t \in tasks' : \E u \in tasks :
           /\ t.id = u.id /\ t.era = u.era
           /\ u.pc # "joined" => t = u
           /\ u.pc = "joined" => t.pc = "yes"
      /\ \A t \in tasks : t.pc # "joined" => t \in tasks'
  BY <1>1, LandsIs DEF SocketInv
<1>3. /\ token \in {0, made} /\ made \in Nat /\ sup.auth \in Nat /\ expired \in Nat
      /\ RefusedInv /\ RenewalInv /\ OneInv /\ EraInv
  BY ZeroIsFine DEF SocketInv, ShapesInv
<1>4. \A x : InCharge(x)' = (~ sup.stopped /\ x.era = sup.era)
  BY <1>1 DEF InCharge, Sup!Current
<1>5. ShapesInv'
  BY <1>1, <1>2 DEF SocketInv, ShapesInv
<1>6. EraInv' /\ OneInv'
  BY <1>1, LandedIsOne
<1>8. RenewalInv'
  BY <1>1, <1>2, <1>3 DEF RenewalInv
<1>9. RefusedInv'
  <2>1. \A t \in tasks' : InCharge(t)' /\ t.pc = "yes" => token' = 0 \/ token' > sup'.auth
    BY <1>1, <1>2, <1>3, <1>4 DEF RefusedInv, InCharge, Sup!Current
  <2> QED BY <1>1, <1>2, <1>3, <2>1 DEF RefusedInv
<1>10. NewerToken
  BY <1>1 DEF NewerToken
<1> QED BY <1>5, <1>6, <1>8, <1>9, <1>10 DEF SocketInv

\* A renewal that is given up: whoever waited for it is told no.
LEMMA GivenUpKeeps == SocketInv /\ Sup!GivenUp => SocketInv' /\ NewerToken
<1> SUFFICES ASSUME SocketInv, Sup!GivenUp PROVE SocketInv' /\ NewerToken
  OBVIOUS
<1>1. /\ flight = "asks" /\ Sup!Lands("no")
      /\ renewals' = IF token = 0 THEN renewals ELSE [renewals EXCEPT ![token] = 0]
      /\ UNCHANGED <<sup, sockets, token, made, expired, opens, refused>>
  BY DEF Sup!GivenUp
<1>2. /\ flight' = "none" /\ tasks' \subseteq Tasks /\ http' \in [HttpRequests -> Sendings]
      /\ \A t \in tasks' : \E u \in tasks :
           /\ t.id = u.id /\ t.era = u.era
           /\ u.pc # "joined" => t = u
           /\ u.pc = "joined" => t.pc = "no"
  BY <1>1, LandsIs DEF SocketInv
<1>3. /\ token \in {0, made} /\ made \in 1..MaxToken /\ MaxToken \in Nat
      /\ renewals \in [1..MaxToken -> Nat] /\ RefusedInv /\ RenewalInv
  BY ScreenAssumption DEF SocketInv, ShapesInv
<1>4. \A x : InCharge(x)' = InCharge(x)
  BY <1>1 DEF InCharge, Sup!Current
<1>5. /\ renewals' \in [1..MaxToken -> Nat] /\ (token # 0 => renewals'[token] = 0)
      /\ \A t \in 1..MaxToken : renewals'[t] \in {renewals[t], 0}
  BY <1>1, <1>3
<1>6. ShapesInv'
  BY <1>1, <1>2, <1>5 DEF SocketInv, ShapesInv
<1>7. EraInv' /\ OneInv'
  BY <1>1, LandedIsOne
<1>8. RenewalInv'
  BY <1>1, <1>2, <1>3, <1>5 DEF RenewalInv
<1>9. RefusedInv'
  <2>1. \A t \in tasks' : InCharge(t)' /\ t.pc = "yes" => token' = 0 \/ token' > sup'.auth
    BY <1>1, <1>2, <1>3, <1>4 DEF RefusedInv, InCharge, Sup!Current
  <2> QED BY <1>1, <1>2, <1>3, <2>1 DEF RefusedInv
<1>10. NewerToken
  BY <1>1 DEF NewerToken
<1> QED BY <1>6, <1>7, <1>8, <1>9, <1>10 DEF SocketInv

\* The teacher is logged out: her supervisor is stopped with its socket.
LEMMA LoggedOut ==
  ASSUME SocketInv,
         sup' = IF sup.stopped THEN sup ELSE Sup!Stops(sup),
         sockets' = IF sup.stopped THEN sockets ELSE sockets \ Sup!Ours,
         tasks' \subseteq Tasks, \A t \in tasks' : \E u \in tasks : t.era = u.era,
         token' = 0, flight' \in {flight, "none"}, http' \in [HttpRequests -> Sendings],
         UNCHANGED <<made, expired, opens, renewals, refused>>
  PROVE  SocketInv'
<1>1. sockets' = {} /\ sup \in Supervisors /\ EraInv /\ sup.era \in Nat /\ MaxEras \in Nat
  BY OursAreAll, ScreenAssumption DEF SocketInv, ShapesInv, Supervisors
<1>2. /\ sup' \in Supervisors /\ sup'.stopped /\ sup'.era \in {sup.era, sup.era + 1}
      /\ sup'.era <= MaxEras + 1 /\ sup'.auth = sup.auth /\ sup'.tries = sup.tries
  BY <1>1, StopsIs DEF EraInv
<1>3. \A x : ~ InCharge(x)'
  BY <1>2 DEF InCharge, Sup!Current
<1>4. ShapesInv'
  BY <1>1, <1>2 DEF SocketInv, ShapesInv
<1>5. EraInv'
  <2>1. \A t \in tasks' : t.era <= sup'.era
    BY <1>1, <1>2 DEF EraInv, SocketInv, ShapesInv, Tasks
  <2> QED BY <1>1, <1>2, <2>1 DEF EraInv
<1>6. OneInv'
  BY <1>1, <1>3 DEF OneInv
<1>7. RenewalInv'
  BY DEF SocketInv, RenewalInv
<1>8. RefusedInv'
  BY <1>2, <1>3, ZeroIsFine DEF SocketInv, RefusedInv
<1> QED BY <1>4, <1>5, <1>6, <1>7, <1>8 DEF SocketInv

LEMMA NotRenewedKeeps == SocketInv /\ Sup!NotRenewed => SocketInv' /\ NewerToken
<1> SUFFICES ASSUME SocketInv, Sup!NotRenewed PROVE SocketInv' /\ NewerToken
  OBVIOUS
<1>1. /\ Sup!Lands("no") /\ token' = 0 /\ UNCHANGED <<made, expired, opens, renewals, refused>>
      /\ sup' = IF sup.stopped THEN sup ELSE Sup!Stops(sup)
      /\ sockets' = IF sup.stopped THEN sockets ELSE sockets \ Sup!Ours
  BY DEF Sup!NotRenewed
<1>2. /\ flight' = "none" /\ tasks' \subseteq Tasks /\ http' \in [HttpRequests -> Sendings]
      /\ \A t \in tasks' : \E u \in tasks : t.era = u.era
  BY <1>1, LandsIs DEF SocketInv
<1>3. SocketInv'
  BY <1>1, <1>2, LoggedOut
<1>4. NewerToken
  BY <1>1 DEF NewerToken
<1> QED BY <1>3, <1>4

LEMMA LogoutKeeps == SocketInv /\ Sup!Logout => SocketInv' /\ NewerToken
<1> SUFFICES ASSUME SocketInv, Sup!Logout PROVE SocketInv' /\ NewerToken
  OBVIOUS
<1>1. /\ token' = 0 /\ UNCHANGED <<tasks, made, expired, flight, http, opens, renewals, refused>>
      /\ sup' = IF sup.stopped THEN sup ELSE Sup!Stops(sup)
      /\ sockets' = IF sup.stopped THEN sockets ELSE sockets \ Sup!Ours
  BY DEF Sup!Logout
<1>2. tasks' \subseteq Tasks /\ http' \in [HttpRequests -> Sendings]
  BY <1>1 DEF SocketInv, ShapesInv
<1>3. SocketInv'
  BY <1>1, <1>2, LoggedOut
<1>4. NewerToken
  BY <1>1 DEF NewerToken
<1> QED BY <1>3, <1>4

\* Nothing of the supervisor changes: a token expires, a request goes on, or nothing happens.
LEMMA SupervisorStands ==
  ASSUME SocketInv, UNCHANGED <<sup, sockets, tasks, token, made, opens, refused>>,
         ShapesInv', RenewalInv', expired <= expired', flight' \in {flight, "asks"}
  PROVE  SocketInv' /\ NewerToken
<1>1. \A x : InCharge(x)' = InCharge(x)
  BY DEF InCharge, Sup!Current
<1>2. EraInv' /\ OneInv'
  BY <1>1 DEF SocketInv, EraInv, OneInv
<1>3. \A r \in refused' : r \in 1..expired' /\ r <= sup'.auth
  BY DEF SocketInv, ShapesInv, RefusedInv
<1>4. RefusedInv'
  BY <1>1, <1>3 DEF SocketInv, RefusedInv
<1>5. NewerToken
  BY DEF NewerToken
<1> QED BY <1>2, <1>4, <1>5 DEF SocketInv

LEMMA ExpiresKeeps == SocketInv /\ Sup!Expires => SocketInv' /\ NewerToken
<1> SUFFICES ASSUME SocketInv, Sup!Expires PROVE SocketInv' /\ NewerToken
  OBVIOUS
<1>1. /\ flight # "stores" /\ expired < made /\ expired' = expired + 1
      /\ UNCHANGED <<sup, sockets, tasks, token, made, flight, http, renewals, opens, refused>>
  BY DEF Sup!Expires, Sup!screen
<1>2. expired \in 0..made /\ made \in Nat
  BY ZeroIsFine DEF SocketInv, ShapesInv
<1>3. ShapesInv'
  BY <1>1, <1>2 DEF SocketInv, ShapesInv
<1>4. RenewalInv'
  BY <1>1 DEF SocketInv, RenewalInv
<1> QED BY <1>1, <1>2, <1>3, <1>4, SupervisorStands DEF SocketInv, RefusedInv

LEMMA RequestKeeps ==
  ASSUME SocketInv, NEW r \in HttpRequests,
         Sup!Send(r) \/ Sup!Unauthorized(r) \/ Sup!SentAgain(r) \/ Sup!Answered(r)
  PROVE  SocketInv' /\ NewerToken
<1>1. /\ http \in [HttpRequests -> Sendings] /\ token \in Nat /\ http[r].used \in Nat
      /\ expired \in Nat
  BY ZeroIsFine DEF SocketInv, ShapesInv, Sendings
<1>2. /\ UNCHANGED <<sup, sockets, tasks, token, made, expired, opens, refused>>
      /\ \E pc, used : http' = [http EXCEPT ![r] = [pc |-> pc, used |-> used]]
  BY DEF Sup!Send, Sup!Unauthorized, Sup!SentAgain, Sup!Answered, Sup!Goes
<1>3. http' \in [HttpRequests -> Sendings]
  <2>1. ASSUME NEW pc \in {"idle", "sent", "joined", "yes", "no", "again"}, NEW used \in Nat,
               pc = "sent" => used # 0, Sup!Goes(r, pc, used)
        PROVE  http' \in [HttpRequests -> Sendings]
    <3>1. [pc |-> pc, used |-> used] \in Sendings
      BY <2>1 DEF Sendings
    <3> QED BY <1>1, <2>1, <3>1 DEF Sup!Goes
  <2>2. Sup!Known(http[r].used) \in {"joined", "yes", "no"}
    BY DEF Sup!Known
  <2>3. CASE Sup!Send(r)
    BY <1>1, <2>1, <2>3 DEF Sup!Send
  <2>4. CASE Sup!Unauthorized(r)
    BY <1>1, <2>1, <2>2, <2>4 DEF Sup!Unauthorized
  <2>5. CASE Sup!SentAgain(r)
    BY <1>1, <2>1, <2>5 DEF Sup!SentAgain
  <2>6. CASE Sup!Answered(r)
    BY <2>1, <2>6 DEF Sup!Answered
  <2> QED BY <2>3, <2>4, <2>5, <2>6
<1>4. CASE Sup!Unauthorized(r)
  <2>1. Sup!Joins(http[r].used) /\ http[r].used \in 1..expired
    BY <1>1, <1>4 DEF Sup!Unauthorized, Sendings
  <2>2. /\ flight' \in {flight, "asks"} /\ renewals' \in [1..MaxToken -> Nat] /\ RenewalInv'
        /\ flight = "asks" => flight' = "asks"
    BY <1>2, <2>1, JoinsIs
  <2>3. ShapesInv'
    BY <1>2, <1>3, <2>2 DEF SocketInv, ShapesInv
  <2> QED BY <1>1, <1>2, <2>2, <2>3, SupervisorStands DEF SocketInv, RefusedInv
<1>5. CASE ~ Sup!Unauthorized(r)
  <2>1. UNCHANGED <<flight, renewals>>
    BY <1>5 DEF Sup!Send, Sup!SentAgain, Sup!Answered
  <2>2. ShapesInv'
    BY <1>2, <1>3, <2>1 DEF SocketInv, ShapesInv
  <2>3. RenewalInv'
    BY <1>2, <2>1, RenewalStands DEF SocketInv
  <2> QED BY <1>1, <1>2, <2>1, <2>2, <2>3, SupervisorStands DEF SocketInv, RefusedInv
<1> QED BY <1>4, <1>5

\* The invariant holds at first.
LEMMA SocketStarts == Sup!Init => SocketInv
<1> SUFFICES ASSUME Sup!Init PROVE SocketInv
  OBVIOUS
<1>1. /\ sup = [stopped |-> TRUE, era |-> 0, auth |-> 0, tries |-> Sup!NoFailures]
      /\ sockets = {} /\ tasks = {} /\ opens = 0 /\ token = 1 /\ made = 1 /\ expired = 0
      /\ refused = {} /\ flight = "none" /\ renewals = [t \in 1..MaxToken |-> 0]
      /\ http = [r \in HttpRequests |-> [pc |-> "idle", used |-> 0]]
  BY DEF Sup!Init, Sup!NoFlight
<1>2. sup \in Supervisors /\ \A f \in Sup!Failures : sup.tries[f] <= Budget(f)
  BY <1>1, ScreenAssumption DEF Supervisors, Sup!NoFailures, Sup!Failures
<1>3. [pc |-> "idle", used |-> 0] \in Sendings
  BY DEF Sendings
<1>4. http \in [HttpRequests -> Sendings]
  BY <1>1, <1>3
<1>5. ShapesInv
  BY <1>1, <1>2, <1>4, ScreenAssumption DEF ShapesInv
<1>6. EraInv /\ OneInv
  BY <1>1, <1>2, ScreenAssumption DEF EraInv, OneInv
<1>7. RenewalInv /\ RefusedInv
  BY <1>1, ScreenAssumption DEF RenewalInv, RefusedInv
<1> QED BY <1>5, <1>6, <1>7 DEF SocketInv

\* Every step keeps it, and opens no socket with a refused token after a recovery.
LEMMA SocketSteps == SocketInv /\ [Sup!Next]_(Sup!vars) => SocketInv' /\ NewerToken
<1> SUFFICES ASSUME SocketInv, [Sup!Next]_(Sup!vars) PROVE SocketInv' /\ NewerToken
  OBVIOUS
<1>1. CASE Sup!Connect \/ Sup!Stop \/ Sup!Login \/ Sup!Logout \/ Sup!Expires
  BY <1>1, ConnectKeeps, StopKeeps, RenewedKeeps, LogoutKeeps, ExpiresKeeps
<1>2. CASE Sup!Flies
  BY <1>2, RenewedKeeps, StoredKeeps, NotRenewedKeeps, GivenUpKeeps DEF Sup!Flies
<1>3. ASSUME NEW s \in sockets, Sup!Ends(s) \/ Sup!Hears(s)
      PROVE  SocketInv' /\ NewerToken
  BY <1>3, FinishedKeeps, ExpiredKeeps, FailedKeeps, HearsKeeps DEF Sup!Ends
<1>4. ASSUME NEW t \in tasks, Sup!Resumes(t)
      PROVE  SocketInv' /\ NewerToken
  BY <1>4, WaitOverKeeps, RecoveredKeeps DEF Sup!Resumes
<1>5. ASSUME NEW r \in HttpRequests,
             Sup!Send(r) \/ Sup!Unauthorized(r) \/ Sup!SentAgain(r) \/ Sup!Answered(r)
      PROVE  SocketInv' /\ NewerToken
  BY <1>5, RequestKeeps
<1>6. CASE UNCHANGED Sup!vars
  <2>1. UNCHANGED <<sup, sockets, tasks, token, made, expired, flight, http, opens, renewals, refused>>
    BY <1>6 DEF Sup!vars
  <2>2. ShapesInv' /\ RenewalInv'
    BY <2>1 DEF SocketInv, ShapesInv, RenewalInv
  <2>3. expired \in Nat
    BY ZeroIsFine
  <2> QED BY <2>1, <2>2, <2>3, SupervisorStands DEF SocketInv, RefusedInv
<1> QED BY <1>1, <1>2, <1>3, <1>4, <1>5, <1>6 DEF Sup!Next

\* The definitions of SocketSupervisor follow from the invariant.
LEMMA SocketIsSafe == SocketInv => Sup!TypeOK /\ Sup!OneSocket /\ Sup!RenewedOnce
<1> SUFFICES ASSUME SocketInv PROVE Sup!TypeOK /\ Sup!OneSocket /\ Sup!RenewedOnce
  OBVIOUS
<1>1. /\ ShapesInv /\ EraInv /\ OneInv /\ RenewalInv /\ RefusedInv
      /\ MaxToken \in Nat /\ MaxEras \in Nat /\ opens \in Nat
  BY ScreenAssumption DEF SocketInv, ShapesInv
<1>2. Sup!TypeOK
  <2>1. sup \in [stopped : BOOLEAN, era : 0..(MaxEras + 1), auth : 0..MaxToken,
                 tries : [Sup!Failures -> Nat]]
    <3>1. sup.era \in 0..(MaxEras + 1) /\ sup.auth \in 0..MaxToken
      BY <1>1 DEF ShapesInv, EraInv, Supervisors
    <3> QED BY <1>1, <3>1 DEF ShapesInv, Supervisors
  <2>2. \A s \in sockets : s.id \in 1..opens /\ s.used \in 1..made
    BY <1>1 DEF ShapesInv, EraInv, OneInv, InCharge, Sup!Current, Sockets, Supervisors
  <2>3. \A t \in tasks : t.pc \in {"waits", "joined", "yes", "no"}
    BY <1>1 DEF ShapesInv, Tasks, Awaits
  <2>4. \A r \in HttpRequests : http[r].pc \in {"idle", "sent", "joined", "yes", "no", "again"}
    BY <1>1 DEF ShapesInv, Sendings
  <2> QED BY <1>1, <2>1, <2>2, <2>3, <2>4
          DEF Sup!TypeOK, ShapesInv, EraInv, RefusedInv, Sup!NoFlight
<1>3. Sup!OneSocket
  <2> DEFINE waiting == {t \in tasks : Sup!Current(t.era)}
  <2>1. \A s \in sockets : Sup!Current(s.era)
    BY <1>1 DEF OneInv, InCharge
  <2>2. \A S : Sup!Cardinality(S) = Cardinality(S)
    BY DEF Sup!Cardinality, Cardinality
  <2>3. Cardinality(sockets) \in {0, 1} /\ Cardinality(waiting) \in {0, 1}
    <3>1. ASSUME NEW S, \A x, y \in S : x = y
          PROVE  Cardinality(S) \in {0, 1}
      <4>1. S = {} \/ \E x : S = {x}
        BY <3>1
      <4> QED BY <4>1, FS_EmptySet, FS_Singleton
    <3>2. \A x, y \in waiting : x = y
      BY <1>1 DEF OneInv, InCharge
    <3>3. \A x, y \in sockets : x = y
      BY <1>1 DEF OneInv
    <3> HIDE DEF waiting
    <3> QED BY <3>1, <3>2, <3>3
  <2>4. Cardinality(sockets) = 0 \/ Cardinality(waiting) = 0
    <3>1. sockets = {} \/ waiting = {}
      BY <1>1 DEF OneInv, InCharge
    <3> QED BY <3>1, FS_EmptySet
  <2>5. Cardinality(sockets) + Cardinality(waiting) <= 1
    <3> HIDE DEF waiting
    <3> QED BY <2>3, <2>4
  <2> QED BY <2>1, <2>2, <2>5 DEF Sup!OneSocket
<1>4. Sup!RenewedOnce
  BY <1>1 DEF RenewalInv, Sup!RenewedOnce
<1> QED BY <1>2, <1>3, <1>4

\* However sockets fail and expire, waits end late, requests over HTTP are refused at the
\* same time and the teacher logs out and in: the screen has one socket or one retry at a
\* time, renews a token once, and never opens a socket after a recovery with a token that
\* was refused (live_socket_supervisor.dart:66-275, teacher_panel.dart:380).
THEOREM OneSocketStays == Sup!Spec => OneSocketOneRenewal
<1>1. SocketInv /\ [Sup!Next]_(Sup!vars) => [NewerToken]_(Sup!vars)
  BY SocketSteps
<1>2. NewerToken <=> \A t \in tasks \ tasks' : t.pc = "yes" =>
                       \A s \in sockets' \ sockets : s.used \notin refused
  BY DEF NewerToken
<1> QED BY SocketStarts, SocketSteps, SocketIsSafe, <1>1, <1>2, PTL
        DEF Sup!Spec, OneSocketOneRenewal, Sup!NoRefusedTokenAgain
=============================================================================
