------------------------------- MODULE LockOrder -------------------------------
(***************************************************************************)
(* The rows that the transactions of several sessions of one quiz lock,    *)
(* and in which order.  Sessions share the quiz and its questions: the     *)
(* statement that locks a run locks its question as well, and a new run    *)
(* takes a foreign key lock on the next question.                          *)
(***************************************************************************)
EXTENDS Naturals, Sequences

CONSTANTS
  ByKey,         \* the sessions of the quiz in the order of their keys
  Last,          \* questions of the quiz, 1..Last
  Transactions,  \* bound: the transactions that are open at once
  KindOf(_),     \* what a transaction does, one of Kinds
  SessionOf(_)   \* the session of a transaction; any for "archive"

Sessions == {ByKey[i] : i \in DOMAIN ByKey}
Kinds == {"move", "finalize", "press", "join", "archive"}

ASSUME LocksAssumption ==
  /\ ByKey \in Seq(Sessions) /\ Last \in Nat
  /\ \A t \in Transactions : KindOf(t) \in Kinds /\ SessionOf(t) \in Sessions

VARIABLES
  position,  \* the current question of each session, 0 in the lobby
  plan,      \* the locks a transaction still asks for
  held       \* the locks that are granted

vars == <<position, plan, held>>

Modes == {"update", "share", "key_share"}
\* FOR UPDATE excludes everybody else; FOR SHARE and foreign keys go together.
Conflict(m, n) == "update" \in {m, n}

Lock(mode, row) == [mode |-> mode, row |-> row]
Quiz == <<"quiz", 0, 0>>
Session(s) == <<"session", s, 0>>
Run(s, k) == <<"run", s, k>>
Question(k) == <<"question", 0, k>>
Member(s) == <<"member", s, 0>>
User == <<"user", 0, 0>>

\* select_for_update().select_related('question'): both rows, in either order.
CurrentRun(s, k, flip) ==
  IF k = 0 THEN <<>>
  ELSE LET run == Lock("update", Run(s, k))
           question == Lock("update", Question(k))
       IN  IF flip THEN <<question, run>> ELSE <<run, question>>

\* The next run and the session refer to the next question.
NextRun(k) == IF k < Last THEN <<Lock("key_share", Question(k + 1))>> ELSE <<>>

PressLocks_Bug(s, k) == <<Lock("update", Member(s)), Lock("share", Run(s, k))>>
PressLocks(s, k) == <<Lock("share", Run(s, k)), Lock("update", Member(s))>>

\* Archiving and deleting lock the sessions of the quiz by their keys.
ArchiveLocks ==
  <<Lock("update", Quiz)>> \o [i \in DOMAIN ByKey |-> Lock("update", Session(ByKey[i]))]

Locks(kind, s, k, flip) ==
  CASE kind = "move" -> <<Lock("update", Session(s))>> \o CurrentRun(s, k, flip) \o NextRun(k)
    [] kind = "finalize" ->
         <<Lock("update", Session(s))>> \o CurrentRun(s, k, flip)
           \o <<Lock("key_share", Member(s))>>
    [] kind = "press" -> PressLocks(s, k)
    [] kind = "join" ->
         <<Lock("update", Session(s)), Lock("update", User), Lock("update", Member(s))>>
    [] kind = "archive" -> ArchiveLocks
-----------------------------------------------------------------------------
Open(t) == plan[t] # <<>> \/ \E h \in held : h.by = t

\* The position does not change while a transaction waits for its session: one
\* that had to wait reads it again, as if it began then.
Begin(t) ==
  /\ ~ Open(t)
  /\ KindOf(t) = "press" => position[SessionOf(t)] > 0
  /\ KindOf(t) = "join" => position[SessionOf(t)] = 0
  /\ \E flip \in BOOLEAN :
       plan' = [plan EXCEPT ![t] = Locks(KindOf(t), SessionOf(t), position[SessionOf(t)], flip)]
  /\ UNCHANGED <<position, held>>

Blockers(t) ==
  {h.by : h \in {h \in held : /\ plan[t] # <<>> /\ h.by # t
                              /\ h.row = Head(plan[t]).row
                              /\ Conflict(h.mode, Head(plan[t]).mode)}}

\* The wanted lock is granted; who waited for the session decides now.
Acquire(t) ==
  /\ plan[t] # <<>> /\ Blockers(t) = {}
  /\ held' = held \cup {[by |-> t, mode |-> Head(plan[t]).mode, row |-> Head(plan[t]).row]}
  /\ IF Head(plan[t]).row = Session(SessionOf(t)) /\ KindOf(t) \in {"move", "finalize"}
     THEN \E flip \in BOOLEAN :
            plan' = [plan EXCEPT ![t] =
                       Tail(Locks(KindOf(t), SessionOf(t), position[SessionOf(t)], flip))]
     ELSE plan' = [plan EXCEPT ![t] = Tail(@)]
  /\ UNCHANGED position

Commit(t) ==
  /\ plan[t] = <<>> /\ Open(t)
  /\ held' = {h \in held : h.by # t}
  /\ position' =
       IF KindOf(t) = "move" /\ position[SessionOf(t)] < Last
       THEN [position EXCEPT ![SessionOf(t)] = @ + 1] ELSE position
  /\ UNCHANGED plan

\* A process dies or a check fails: everything it holds or waits for is released.
RollBack(t) ==
  /\ Open(t)
  /\ held' = {h \in held : h.by # t}
  /\ plan' = [plan EXCEPT ![t] = <<>>]
  /\ UNCHANGED position

Init ==
  /\ position \in [Sessions -> 0..Last]
  /\ plan = [t \in Transactions |-> <<>>]
  /\ held = {}

Next == \E t \in Transactions : Begin(t) \/ Acquire(t) \/ Commit(t) \/ RollBack(t)

Spec == Init /\ [][Next]_vars
-----------------------------------------------------------------------------
\* Two transactions hold one row only in modes that go together.
TypeOK ==
  /\ position \in [Sessions -> 0..Last]
  /\ \A h \in held : h.by \in Transactions /\ h.mode \in Modes
  /\ \A g, h \in held : g.row = h.row /\ g.by # h.by => ~ Conflict(g.mode, h.mode)

\* There are no transactions that wait for each other only: some transaction of
\* every set can go on or waits for one outside.  The shared questions delay the
\* sessions of a quiz but never tie them up, whatever question each is at
\* (gameplay.py 52-124, 197-246, quiz/services.py 352-362).
NobodyTiedUp ==
  \A D \in (SUBSET Transactions) \ {{}} : \E t \in D : Blockers(t) \cap D = {}

\* Locks exclude those they must and tie nobody up.
NoDeadlock == TypeOK /\ NobodyTiedUp
=============================================================================
