----------------------------- MODULE GameDataReset -----------------------------
(***************************************************************************)
(* The command that empties the tables of the game, as a test or for good  *)
(* (management/commands/stage_v_game_data.py), while the application goes  *)
(* on.  It counts the rows, locks the tables one after the other, counts   *)
(* again, deletes, counts, commits or rolls back, and counts once more.    *)
(*                                                                         *)
(* Two tables stand for the thirteen, in the order of TARGET_TABLES:       *)
(* sessions, and the quizzes they refer to; Accounts stands for the tables *)
(* that are preserved and never locked.  Only numbers of rows are kept, as *)
(* the command knows nothing else.                                         *)
(***************************************************************************)
EXTENDS Naturals, Sequences

CONSTANTS
  Requests,  \* transactions of the application that may run at a time
  MaxRows,   \* bound: rows of a table
  Writes     \* bound: transactions of the application

VARIABLES
  rows,      \* table -> number of committed rows
  app,       \* request -> its transaction: steps left, tables held, kind
  cmd,       \* the command
  writes     \* transactions begun

vars == <<rows, app, cmd, writes>>

Targets == <<"sessions", "quizzes">>
Game == {"sessions", "quizzes"}
Tables == Game \cup {"accounts"}
Order == Targets \o <<"accounts">>

\* What the transactions of the application touch, in order, and add.
Kinds == {"create_quiz", "delete_quiz", "open_session", "login"}
Path(kind) ==
  CASE kind = "open_session" -> <<"quizzes", "sessions">>
    [] kind = "login" -> <<"accounts">>
    [] OTHER -> <<"quizzes">>
After(kind) ==
  CASE kind = "open_session" -> [rows EXCEPT !.sessions = @ + 1]
    [] kind = "create_quiz" -> [rows EXCEPT !.quizzes = @ + 1]
    [] kind = "delete_quiz" -> [rows EXCEPT !.quizzes = @ - 1]
    [] kind = "login" -> [rows EXCEPT !.accounts = @ + 1]

\* The constraints: a session refers to a quiz, and so protects it.
Possible(kind) ==
  /\ \A t \in Tables : After(kind)[t] <= MaxRows
  /\ kind = "open_session" => rows.quizzes > 0
  /\ kind = "delete_quiz" => rows.quizzes > 0 /\ rows.sessions = 0

NoCounts == [t \in {} |-> 0]
Idle == [kind |-> "none", left |-> <<>>, held |-> {}]
NewCommand(mode) == [mode |-> mode, pc |-> "before", before |-> NoCounts, held |-> {},
               deleted |-> NoCounts, after |-> NoCounts, outcome |-> "none"]

Init ==
  /\ rows \in [Tables -> 0..1] /\ (rows.sessions > 0 => rows.quizzes > 0)
  /\ app = [r \in Requests |-> Idle]
  /\ \E mode \in {"rollback_test", "apply"} : cmd = NewCommand(mode)
  /\ writes = 0
-----------------------------------------------------------------------------
(* The application.                                                         *)

Begin(r) ==
  /\ app[r].kind = "none" /\ writes < Writes
  /\ \E k \in Kinds : app' = [app EXCEPT ![r] = [kind |-> k, left |-> Path(k), held |-> {}]]
  /\ writes' = writes + 1
  /\ UNCHANGED <<rows, cmd>>

\* A statement waits for a table that is locked exclusively.
Touch(r) ==
  /\ app[r].left # <<>> /\ Head(app[r].left) \notin cmd.held
  /\ app' = [app EXCEPT ![r].held = @ \cup {Head(app[r].left)}, ![r].left = Tail(@)]
  /\ UNCHANGED <<rows, cmd, writes>>

Finish(r) ==
  /\ app[r].kind # "none" /\ app[r].left = <<>>
  /\ rows' = IF Possible(app[r].kind) THEN After(app[r].kind) ELSE rows
  /\ app' = [app EXCEPT ![r] = Idle]
  /\ UNCHANGED <<cmd, writes>>

\* PostgreSQL finds a deadlock and ends the transaction of the application.
Victim(r) ==
  /\ app[r].left # <<>> /\ Head(app[r].left) \in cmd.held
  /\ cmd.pc = "lock" /\ Targets[1] \in cmd.held /\ Targets[2] \in app[r].held
  /\ app' = [app EXCEPT ![r] = Idle]
  /\ UNCHANGED <<rows, cmd, writes>>
-----------------------------------------------------------------------------
(* The command.                                                             *)

Fill(counts, t) == [u \in DOMAIN counts \cup {t} |-> IF u = t THEN rows[t] ELSE counts[u]]
Uncounted(counts) ==
  {i \in 1..Len(Order) : Order[i] \notin DOMAIN counts /\ \A j \in 1..(i - 1) : Order[j] \in DOMAIN counts}

Ended(outcome) == cmd' = [cmd EXCEPT !.pc = "done", !.held = {}, !.outcome = outcome]

\* _inventory outside a transaction: every count is a statement of its own.
CountBefore ==
  /\ cmd.pc = "before"
  /\ \E i \in Uncounted(cmd.before) :
       cmd' = [cmd EXCEPT !.before = Fill(@, Order[i]),
                          !.pc = IF i = Len(Order) THEN "lock" ELSE @]
  /\ UNCHANGED <<rows, app, writes>>

Wanted == Targets[IF cmd.held = {} THEN 1 ELSE 2]
InUse(t) == \E r \in Requests : t \in app[r].held

\* LOCK TABLE ... IN ACCESS EXCLUSIVE MODE takes the tables one by one.
LockNext ==
  /\ cmd.pc = "lock" /\ ~InUse(Wanted)
  /\ cmd' = [cmd EXCEPT !.held = @ \cup {Wanted},
                        !.pc = IF Wanted = Targets[2] THEN "locked" ELSE @]
  /\ UNCHANGED <<rows, app, writes>>

\* lock_timeout.
LockTimeout_Bug == cmd.pc = "lock" /\ FALSE /\ UNCHANGED vars
LockTimeout ==
  /\ cmd.pc = "lock" /\ InUse(Wanted)
  /\ Ended("error")
  /\ UNCHANGED <<rows, app, writes>>

\* The second count decides whether anything is deleted.
Delete_Bug ==
  /\ cmd.pc = "locked"
  /\ cmd' = [cmd EXCEPT !.pc = "deleted", !.deleted = [t \in Game |-> rows[t]]]
  /\ UNCHANGED <<rows, app, writes>>
Delete ==
  /\ cmd.pc = "locked"
  /\ IF rows = cmd.before
       THEN cmd' = [cmd EXCEPT !.pc = "deleted", !.deleted = [t \in Game |-> rows[t]]]
       ELSE Ended("error")
  /\ UNCHANGED <<rows, app, writes>>

Emptied == [t \in Tables |-> IF t \in Game THEN 0 ELSE rows[t]]

\* The third count looks at the preserved tables, then the transaction ends.
EndTransaction_Bug ==
  /\ cmd.pc = "deleted"
  /\ IF rows.accounts # cmd.before.accounts
       THEN Ended("error") /\ UNCHANGED rows
       ELSE /\ cmd' = [cmd EXCEPT !.pc = "after", !.held = {}]
            /\ rows' = IF cmd.mode = "apply" THEN rows ELSE Emptied
  /\ UNCHANGED <<app, writes>>
EndTransaction ==
  /\ cmd.pc = "deleted"
  /\ IF rows.accounts # cmd.before.accounts
       THEN Ended("error") /\ UNCHANGED rows
       ELSE /\ cmd' = [cmd EXCEPT !.pc = "after", !.held = {}]
            /\ rows' = IF cmd.mode = "rollback_test" THEN rows
                       ELSE Emptied
  /\ UNCHANGED <<app, writes>>

CountAfter ==
  /\ cmd.pc = "after"
  /\ \E i \in Uncounted(cmd.after) :
       cmd' = [cmd EXCEPT !.after = Fill(@, Order[i]),
                          !.pc = IF i = Len(Order) THEN "judge" ELSE @]
  /\ UNCHANGED <<rows, app, writes>>

Judge ==
  LET good == IF cmd.mode = "rollback_test" THEN cmd.after = cmd.before
              ELSE /\ \A t \in Game : cmd.after[t] = 0
                   /\ cmd.after["accounts"] = cmd.before["accounts"]
  IN /\ cmd.pc = "judge"
     /\ Ended(IF ~good THEN "late error"
              ELSE IF cmd.mode = "apply" THEN "committed" ELSE "rolled_back")
     /\ UNCHANGED <<rows, app, writes>>

\* The process dies: an open transaction is rolled back.
Dies ==
  /\ cmd.pc # "done" /\ Ended("dead")
  /\ UNCHANGED <<rows, app, writes>>

Work == CountBefore \/ LockNext \/ LockTimeout \/ Delete \/ EndTransaction \/ CountAfter \/ Judge
Application == \E r \in Requests : Begin(r) \/ Touch(r) \/ Finish(r) \/ Victim(r)

Next == Work \/ Dies \/ Application

Spec == Init /\ [][Next]_vars

\* The command goes on: no wait is longer than lock_timeout.  The application
\* owes nothing, and the process may die.
Fairness == WF_vars(Work)
-----------------------------------------------------------------------------
CommandPcs == {"before", "lock", "locked", "deleted", "after", "judge", "done"}
Counts == UNION {[D -> 0..MaxRows] : D \in SUBSET Tables}

TypeOK ==
  /\ rows \in [Tables -> 0..MaxRows]
  /\ \A r \in Requests :
       app[r].kind \in Kinds \cup {"none"} /\ app[r].held \subseteq Tables
  /\ cmd.pc \in CommandPcs /\ cmd.held \subseteq Game
  /\ {cmd.before, cmd.deleted, cmd.after} \subseteq Counts
  /\ writes \in 0..Writes

\* What the command takes away is what it counted before it asked for the
\* locks, whatever the application did in between.
DeletedAsCounted ==
  [][cmd' # cmd => \A t \in Game : rows'[t] # rows[t] => rows[t] = cmd.before[t]]_vars

\* A test takes nothing away.
TestKeepsRows ==
  [][cmd.mode = "rollback_test" /\ cmd' # cmd => rows' = rows]_vars

\* Nothing but a write of the application can make the command fail, and a
\* command that says it has committed has emptied the tables it counted.
QuietRunSucceeds ==
  /\ cmd.pc = "done" /\ writes = 0 => cmd.outcome \in {"committed", "rolled_back", "dead"}
  /\ cmd.outcome = "committed" => \A t \in Game : cmd.deleted[t] = cmd.before[t]

\* The command ends, though its locks and those of the application may wait for
\* each other.
EveryRunEnds == <>(cmd.pc = "done")
=============================================================================
