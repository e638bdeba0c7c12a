-------------------------- MODULE VersioningMigrations --------------------------
(***************************************************************************)
(* The four migrations that gave quizzes their versions (quiz 0005, 0006,  *)
(* session 0007, 0008), applied and taken back by processes that know      *)
(* nothing of each other, while the application goes on.                   *)
(*                                                                         *)
(* A migration is one transaction: its check reads the tables, which       *)
(* writers do not notice; its changes of the schema then wait for the      *)
(* readers of the other migration processes and lock the writers out until *)
(* it commits.  docker-compose.yml starts `migrate' in three containers,   *)
(* each of which is started again when it fails.                           *)
(*                                                                         *)
(* Of the data, quizzes of the old schema (content in columns of the       *)
(* card), quizzes of the new one (content in versions) and sessions of     *)
(* versions are counted.                                                   *)
(***************************************************************************)
EXTENDS Naturals, Sequences

CONSTANTS
  Processes,  \* of `manage.py migrate'
  Running,    \* code of the application that runs: of "old" and "new"
  MaxRows,    \* bound: rows of a kind
  Reversals   \* bound: times that the migrations are taken back

VARIABLES
  applied,   \* how many of Chain are applied
  data,      \* number of rows of a kind
  proc,      \* process -> what it is at
  reversals

vars == <<applied, data, proc, reversals>>

\* Each depends on the one before it.
Chain == <<"quiz_prepare", "session_prepare", "quiz_switch", "session_switch">>
Kinds == {"old", "new", "session"}
Empty == \A k \in Kinds : data[k] = 0

Stopped == [pc |-> "stopped", up |-> TRUE, next |-> 1]

Init ==
  /\ applied \in {0, 4}
  /\ data = [k \in Kinds |-> 0]
  /\ proc = [p \in Processes |-> Stopped]
  /\ reversals = 0
-----------------------------------------------------------------------------
(* The application.  Code before the migrations knows nothing of            *)
(* content_revision, which has no default in the database, and needs        *)
(* the title of the card; code after them has neither title nor quiz.       *)

CanCreate(kind) ==
  CASE kind = "old" -> "old" \in Running /\ applied = 0
    [] kind = "new" -> "new" \in Running /\ applied >= 3
    [] kind = "session" -> "new" \in Running /\ applied = 4 /\ data.new > 0

Create ==
  /\ \E k \in Kinds :
       /\ CanCreate(k) /\ data[k] < MaxRows
       /\ data' = [data EXCEPT ![k] = @ + 1]
  /\ UNCHANGED <<applied, proc, reversals>>
-----------------------------------------------------------------------------
(* A process.                                                               *)

Is(p, s) == proc' = [proc EXCEPT ![p] = s]

\* The plan is made once, from what is applied.
Start(p) ==
  /\ proc[p].pc = "stopped"
  /\ \/ /\ Is(p, [pc |-> "plan", up |-> TRUE, next |-> applied + 1])
        /\ UNCHANGED reversals
     \/ /\ reversals < Reversals /\ reversals' = reversals + 1
        /\ Is(p, [pc |-> "plan", up |-> FALSE, next |-> applied])
  /\ UNCHANGED <<applied, data>>

\* The migrations whose first operation looks for rows.
Checks_Bug(s) == s.next = IF s.up THEN 1 ELSE 4
Checks(s) == s.next \in IF s.up THEN {1, 3} ELSE {4}

\* The check is a read: it queues behind whoever waits to change the schema.
Check(p) ==
  LET s == proc[p] IN
  /\ s.pc = "plan" /\ s.next \in DOMAIN Chain
  /\ Checks(s) => \A q \in Processes : proc[q].pc # "waiting"
  /\ Is(p, IF Checks(s) /\ ~Empty THEN Stopped ELSE [s EXCEPT !.pc = "checked"])
  /\ UNCHANGED <<applied, data, reversals>>

Queue(p) ==
  /\ proc[p].pc = "checked" /\ Is(p, [proc[p] EXCEPT !.pc = "waiting"])
  /\ UNCHANGED <<applied, data, reversals>>

Finish(p) ==
  /\ proc[p].pc = "plan" /\ proc[p].next \notin DOMAIN Chain
  /\ Is(p, [proc[p] EXCEPT !.pc = "done"])
  /\ UNCHANGED <<applied, data, reversals>>

\* The check leaves the tables locked against changes of the schema.
Reads(p) == proc[p].pc \in {"checked", "waiting"} /\ Checks(proc[p])

\* A column or table that is there already, or no longer; a column without a
\* default for rows that exist.
Fails_Bug(s) == applied # (IF s.up THEN s.next - 1 ELSE s.next)
Fails(s) ==
  \/ applied # (IF s.up THEN s.next - 1 ELSE s.next)
  \/ ~s.up /\ s.next = 4 /\ data.session > 0
  \/ ~s.up /\ s.next = 3 /\ data.old + data.new > 0

\* What loses its content with the columns and tables that go.
Dropped(s) ==
  CASE s.up /\ s.next = 3 -> {"old"}
    [] ~s.up /\ s.next = 2 -> {"session"}
    [] ~s.up /\ s.next = 1 -> {"new"}
    [] OTHER -> {}

Alter(p) ==
  LET s == proc[p] IN
  /\ s.pc = "waiting" /\ \A q \in Processes \ {p} : ~Reads(q)
  /\ IF Fails(s)
       THEN Is(p, Stopped) /\ UNCHANGED <<applied, data>>
       ELSE /\ applied' = IF s.up THEN s.next ELSE s.next - 1
            /\ data' = [k \in Kinds |-> IF k \in Dropped(s) THEN 0 ELSE data[k]]
            /\ Is(p, [s EXCEPT !.pc = "plan", !.next = IF s.up THEN @ + 1 ELSE @ - 1])
  /\ UNCHANGED reversals

\* Two processes wait for each other's read: PostgreSQL ends one of them.
Victim_Bug(p) == FALSE /\ UNCHANGED vars
Victim(p) ==
  /\ \E q \in Processes \ {p} : \A r \in {p, q} : Reads(r) /\ proc[r].pc = "waiting"
  /\ Is(p, Stopped)
  /\ UNCHANGED <<applied, data, reversals>>

Step(p) == Start(p) \/ Check(p) \/ Queue(p) \/ Finish(p) \/ Alter(p) \/ Victim(p)

Next == Create \/ \E p \in Processes : Step(p)

Spec == Init /\ [][Next]_vars

\* A container whose process ended is started again, and a process goes on.
Fairness == \A p \in Processes : WF_vars(Step(p))
-----------------------------------------------------------------------------
TypeOK ==
  /\ applied \in 0..4
  /\ data \in [Kinds -> 0..MaxRows]
  /\ proc \in [Processes -> [pc : {"stopped", "plan", "checked", "waiting", "done"},
                             up : BOOLEAN, next : 0..5]]
  /\ reversals \in 0..Reversals

\* No migration, forward or back, drops the content of a row that somebody has
\* created since its check.
NothingIsLost == [][proc' # proc => data' = data]_vars

\* A quiz is of the schema that is in force: none of the old ones is left when
\* versions become mandatory, and none of the new ones when they are taken back.
QuizzesFitTheSchema ==
  (applied >= 3 => data.old = 0) /\ (applied <= 2 => data.new = 0) /\ (applied < 4 => data.session = 0)

\* Containers that start together all come up with the new schema.
AllComeUp == <>(applied = 4 /\ \A p \in Processes : proc[p].pc = "done")
=============================================================================
