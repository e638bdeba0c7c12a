---------------------------- MODULE QuizVersioning ----------------------------
(***************************************************************************)
(* One quiz card, its versions and its sessions under concurrent requests  *)
(* (backend/apps/quiz/services.py, backend/apps/session/services.py).      *)
(*                                                                         *)
(* Every writer first takes the card FOR UPDATE.  save, launch, restore    *)
(* and direct_delete take no lock after it that they could wait for, so    *)
(* each is one action, enabled when nobody holds the card.  archive and    *)
(* delete go on to lock session rows, which commands of running sessions   *)
(* hold: they keep the card and the rows they have while they wait.       *)
(* Readers take no lock: an editor's form is filled by separate statements *)
(* that other requests may commit between.                                 *)
(*                                                                         *)
(* versions[n] is version number n.  A session is named by the call that   *)
(* opened it.                                                              *)
(***************************************************************************)
EXTENDS QuizContent, FiniteSets

CONSTANTS
  Calls,       \* bound: the requests of a behaviour, each sent once
  KindOf(_),   \* the kind of a request
  Edits(_),    \* the changes, as validated, an editor may make of a content it was shown
  NewContent,  \* the content the card was created with
  Game,        \* a command or a transition of the game of a session
  Null

Kinds == {"save", "launch", "archive", "restore", "delete", "direct_delete"}

ASSUME CallsAssumption ==
  /\ \A c \in Calls : KindOf(c) \in Kinds
  /\ Null \notin Calls /\ Game \notin Calls

VARIABLES
  quiz,       \* the Quiz row
  versions,   \* QuizVersion rows with their questions and choices
  sessions,   \* opened sessions -> their LiveSession rows
  quiz_lock,  \* holder of FOR UPDATE on the card
  row_lock,   \* opened sessions -> holder of FOR UPDATE, Game or a request
  call        \* Calls -> local state

vars == <<quiz, versions, sessions, quiz_lock, row_lock, call>>
-----------------------------------------------------------------------------
Numbers == DOMAIN versions
Drafts == {n \in Numbers : versions[n].status = "draft"}
Fixed == Numbers \ Drafts

Latest(S) == CHOOSE n \in S : \A m \in S : m <= n

\* The draft, else the last fixed version.
Effective == Latest(Numbers)

OpenStatuses_Bug == {"live"}
OpenStatuses == {"waiting", "live"}
OpenSessions == {s \in DOMAIN sessions : sessions[s].status \in OpenStatuses}

NothingRead == [revision |-> 0, number |-> 0, content |-> Null]

Init ==
  /\ quiz = [exists |-> TRUE, archived |-> FALSE, content_revision |-> 1]
  /\ versions = [n \in {1} |->
       [status |-> "draft", content |-> CreatedGraph(NewContent, 1)]]
  /\ sessions = [s \in {} |-> Null]
  /\ quiz_lock = Null
  /\ row_lock = [s \in {} |-> Null]
  /\ call = [c \in Calls |-> [pc |-> "idle", seen |-> NothingRead, changes |-> NoFields]]

Goto(c, pc) == call' = [call EXCEPT ![c].pc = pc]

\* f with one more entry.
With(f, x, e) == [y \in DOMAIN f \cup {x} |-> IF y = x THEN e ELSE f[y]]
-----------------------------------------------------------------------------
(* An editor's form: the card, then the version, then its questions.        *)

ReadCard(c) ==
  /\ KindOf(c) = "save" /\ call[c].pc = "idle"
  /\ IF ~quiz.exists THEN Goto(c, "not_found")
     ELSE call' = [call EXCEPT ![c].pc = "card",
            ![c].seen.revision = quiz.content_revision]
  /\ UNCHANGED <<quiz, versions, sessions, quiz_lock, row_lock>>

\* A card deleted meanwhile has no version; its editor has nothing to edit.
ReadVersion(c) ==
  /\ call[c].pc = "card"
  /\ IF Numbers = {} THEN Goto(c, "gone")
     ELSE call' = [call EXCEPT ![c].pc = "version",
            ![c].seen = [@ EXCEPT !.number = Effective,
                                  !.content = versions[Effective].content]]
  /\ UNCHANGED <<quiz, versions, sessions, quiz_lock, row_lock>>

ReadQuestions_Bug(c) ==
  /\ call[c].pc = "version"
  /\ IF Numbers = {} THEN Goto(c, "gone")
     ELSE call' = [call EXCEPT ![c].pc = "seen",
            ![c].seen.content.questions =
               versions[call[c].seen.number].content.questions,
            ![c].seen.revision = quiz.content_revision]
  /\ UNCHANGED <<quiz, versions, sessions, quiz_lock, row_lock>>
ReadQuestions(c) ==
  /\ call[c].pc = "version"
  /\ IF Numbers = {} THEN Goto(c, "gone")
     ELSE call' = [call EXCEPT ![c].pc = "seen",
            ![c].seen.content.questions =
               versions[call[c].seen.number].content.questions]
  /\ UNCHANGED <<quiz, versions, sessions, quiz_lock, row_lock>>

\* An editor names rows by the ids it was shown.
Send(c) ==
  /\ call[c].pc = "seen"
  /\ \E changes \in Edits(call[c].seen.content) :
       /\ IdsBelong(call[c].seen.content, changes)
       /\ call' = [call EXCEPT ![c].pc = "waiting", ![c].changes = changes]
  /\ UNCHANGED <<quiz, versions, sessions, quiz_lock, row_lock>>
-----------------------------------------------------------------------------
(* The writers.                                                             *)

Refuse(c, why) ==
  /\ Goto(c, why)
  /\ UNCHANGED <<quiz, versions, sessions, quiz_lock, row_lock>>

\* The draft is changed in place; a fixed version is continued by the next.
AddVersion(number, content) ==
  versions' = With(versions, number, [status |-> "draft", content |-> content])

Keep_Bug(content) ==
  AddVersion(Effective + 1, CreatedGraph(content, quiz.content_revision + 1))
Keep(content) ==
  LET tag == quiz.content_revision + 1 IN
  IF Drafts # {}
    THEN versions' = [versions EXCEPT ![Latest(Drafts)].content = Stored(content, tag)]
    ELSE AddVersion(Latest(Fixed) + 1, CreatedGraph(content, tag))

RevisionConflict_Bug(c) == FALSE
RevisionConflict(c) == quiz.content_revision # call[c].seen.revision

\* save_quiz_content
Save(c) ==
  /\ KindOf(c) = "save" /\ call[c].pc = "waiting" /\ quiz_lock = Null
  /\ IF ~quiz.exists THEN Refuse(c, "not_found")
     ELSE IF quiz.archived THEN Refuse(c, "archived")
     ELSE IF RevisionConflict(c) THEN Refuse(c, "conflict")
     ELSE LET base == versions[Effective].content
              content == MergeContent(base, call[c].changes)
          IN IF ~IdsBelong(base, call[c].changes) THEN Refuse(c, "foreign_id")
             ELSE IF ~Valid(content) THEN Refuse(c, "invalid")
             ELSE IF Canonical(content) = Canonical(base) THEN Refuse(c, "unchanged")
             ELSE /\ Keep(content)
                  /\ quiz' = [quiz EXCEPT !.content_revision = @ + 1]
                  /\ Goto(c, "done")
                  /\ UNCHANGED <<sessions, quiz_lock, row_lock>>

\* The draft is fixed and played unless it repeats the last fixed version.
DraftIsPlayed ==
  /\ Drafts # {}
  /\ Fixed = {} \/ Canonical(versions[Latest(Drafts)].content)
                     # Canonical(versions[Latest(Fixed)].content)

\* create_live_session
Launch(c) ==
  /\ KindOf(c) = "launch" /\ call[c].pc = "idle" /\ quiz_lock = Null
  /\ IF ~quiz.exists THEN Refuse(c, "not_found")
     ELSE IF quiz.archived THEN Refuse(c, "archived")
     ELSE LET selected == Latest(IF DraftIsPlayed THEN Drafts ELSE Fixed) IN
          IF DraftIsPlayed /\ ~Valid(versions[selected].content) THEN Refuse(c, "invalid")
          ELSE /\ versions' = [versions EXCEPT ![selected].status = "fixed"]
               /\ sessions' = With(sessions, c, [version |-> selected, status |-> "waiting"])
               /\ row_lock' = With(row_lock, c, Null)
               /\ Goto(c, "done")
               /\ UNCHANGED <<quiz, quiz_lock>>

\* archive_quiz takes the card, then the rows of the open sessions.
ArchiveLocks(c) ==
  /\ KindOf(c) = "archive" /\ call[c].pc = "idle" /\ quiz_lock = Null
  /\ IF ~quiz.exists THEN Refuse(c, "not_found")
     ELSE IF quiz.archived THEN Refuse(c, "unchanged")
     ELSE /\ quiz_lock' = c
          /\ Goto(c, "locking")
          /\ UNCHANGED <<quiz, versions, sessions, row_lock>>

\* The rows that the statement of _lock_quiz_sessions still waits for; a status
\* that changed while it waited is looked at again.
Wanted(c) ==
  {s \in IF KindOf(c) = "archive" THEN OpenSessions ELSE DOMAIN sessions :
     row_lock[s] # c}

RowLocked(c, s) ==
  /\ call[c].pc = "locking"
  /\ s \in Wanted(c) /\ row_lock[s] = Null
  /\ row_lock' = [row_lock EXCEPT ![s] = c]
  /\ UNCHANGED <<quiz, versions, sessions, quiz_lock, call>>

\* The end of the transaction of c.
Released_Bug(c) ==
  /\ row_lock' = [s \in DOMAIN row_lock |-> IF row_lock[s] = c THEN Null ELSE row_lock[s]]
  /\ UNCHANGED quiz_lock
Released(c) ==
  /\ quiz_lock' = Null
  /\ row_lock' = [s \in DOMAIN row_lock |-> IF row_lock[s] = c THEN Null ELSE row_lock[s]]

ArchiveDecides(c) ==
  /\ KindOf(c) = "archive" /\ call[c].pc = "locking"
  /\ Wanted(c) = {}
  /\ quiz' = [quiz EXCEPT !.archived = (OpenSessions = {})]
  /\ Goto(c, IF OpenSessions = {} THEN "done" ELSE "conflict")
  /\ Released(c)
  /\ UNCHANGED <<versions, sessions>>

\* restore_quiz
Restore(c) ==
  /\ KindOf(c) = "restore" /\ call[c].pc = "idle" /\ quiz_lock = Null
  /\ IF ~quiz.exists THEN Refuse(c, "not_found")
     ELSE /\ quiz' = [quiz EXCEPT !.archived = FALSE]
          /\ Goto(c, "done")
          /\ UNCHANGED <<versions, sessions, quiz_lock, row_lock>>

\* quiz.delete() takes the versions, questions and choices with the card.
Gone ==
  /\ quiz' = [quiz EXCEPT !.exists = FALSE]
  /\ versions' = [n \in {} |-> Null]

\* delete_quiz takes the card, then the rows of all its sessions.
DeleteLocks(c) ==
  /\ KindOf(c) = "delete" /\ call[c].pc = "idle" /\ quiz_lock = Null
  /\ IF ~quiz.exists THEN Refuse(c, "not_found")
     ELSE /\ quiz_lock' = c
          /\ Goto(c, "locking")
          /\ UNCHANGED <<quiz, versions, sessions, row_lock>>

DeleteDecides_Bug(c) ==
  /\ KindOf(c) = "delete" /\ call[c].pc = "locking"
  /\ Wanted(c) = {}
  /\ IF OpenSessions = {} THEN Gone ELSE UNCHANGED <<quiz, versions>>
  /\ Goto(c, IF OpenSessions = {} THEN "done" ELSE "conflict")
  /\ Released(c)
  /\ UNCHANGED sessions
DeleteDecides(c) ==
  /\ KindOf(c) = "delete" /\ call[c].pc = "locking"
  /\ Wanted(c) = {}
  /\ IF DOMAIN sessions = {} THEN Gone ELSE UNCHANGED <<quiz, versions>>
  /\ Goto(c, IF DOMAIN sessions = {} THEN "done" ELSE "conflict")
  /\ Released(c)
  /\ UNCHANGED sessions

\* GuardedQuerySet.delete outside the service: lock the card, look, delete.
DirectDelete(c) ==
  /\ KindOf(c) = "direct_delete" /\ call[c].pc = "idle" /\ quiz_lock = Null
  /\ IF ~quiz.exists THEN Refuse(c, "unchanged")
     ELSE IF DOMAIN sessions # {} THEN Refuse(c, "conflict")
     ELSE /\ Gone
          /\ Goto(c, "done")
          /\ UNCHANGED <<sessions, quiz_lock, row_lock>>

\* The connection of a request that waits is lost: its transaction rolls back.
CallDies(c) ==
  /\ call[c].pc = "locking"
  /\ Released(c)
  /\ Goto(c, "died")
  /\ UNCHANGED <<quiz, versions, sessions>>
-----------------------------------------------------------------------------
(* The game of a session, of which only its status matters here.            *)

NextStatuses(status) ==
  CASE status = "waiting" -> {"waiting", "live", "aborted"}
    [] status = "live" -> {"live", "finished", "aborted"}
    [] OTHER -> {status}

GameLocks(s) ==
  /\ row_lock[s] = Null
  /\ row_lock' = [row_lock EXCEPT ![s] = Game]
  /\ UNCHANGED <<quiz, versions, sessions, quiz_lock, call>>

GameMoves_Bug(s) ==
  /\ row_lock[s] = Game /\ quiz_lock = Null
  /\ \E status \in NextStatuses(sessions[s].status) :
       sessions' = [sessions EXCEPT ![s].status = status]
  /\ row_lock' = [row_lock EXCEPT ![s] = Null]
  /\ UNCHANGED <<quiz, versions, quiz_lock, call>>
GameMoves(s) ==
  /\ row_lock[s] = Game
  /\ \E status \in NextStatuses(sessions[s].status) :
       sessions' = [sessions EXCEPT ![s].status = status]
  /\ row_lock' = [row_lock EXCEPT ![s] = Null]
  /\ UNCHANGED <<quiz, versions, quiz_lock, call>>
-----------------------------------------------------------------------------
Handle(c) ==
  \/ ReadCard(c) \/ ReadVersion(c) \/ ReadQuestions(c) \/ Send(c) \/ Save(c)
  \/ Launch(c) \/ Restore(c) \/ DirectDelete(c)
  \/ ArchiveLocks(c) \/ ArchiveDecides(c)
  \/ DeleteLocks(c) \/ DeleteDecides(c)

\* Every request of the bounded behaviour was answered.
Answered ==
  {"done", "unchanged", "not_found", "gone", "archived", "conflict",
   "foreign_id", "invalid", "died"}
Done ==
  /\ \A c \in Calls : call[c].pc \in Answered
  /\ UNCHANGED vars

Next ==
  \/ \E c \in Calls : Handle(c) \/ CallDies(c)
  \/ \E c \in Calls, s \in DOMAIN sessions : RowLocked(c, s)
  \/ \E s \in DOMAIN sessions : GameLocks(s) \/ GameMoves(s)
  \/ Done

Spec == Init /\ [][Next]_vars

\* One request at a time holds the card.  Waiters for one row are served in turn
\* (PostgreSQL queues them), and a transaction that has its rows goes on.
Fairness ==
  /\ WF_vars(\E c \in Calls : ArchiveDecides(c) \/ DeleteDecides(c))
  /\ SF_vars(\E c \in Calls, s \in DOMAIN sessions : RowLocked(c, s))
  /\ \A s \in {c \in Calls : KindOf(c) = "launch"} :
       WF_vars(s \in DOMAIN sessions /\ GameMoves(s))
FairSpec == Spec /\ Fairness
-----------------------------------------------------------------------------
(* What editors and sessions of a quiz card rely on.                        *)

\* Types, the numbers of the versions and the places of the two kinds of locks.
TypeOK ==
  /\ quiz.exists \in BOOLEAN /\ quiz.archived \in BOOLEAN
  /\ quiz.content_revision \in Nat
  /\ Numbers = 1..Cardinality(Numbers)
  /\ \A n \in Numbers : versions[n].status \in {"draft", "fixed"}
  /\ DOMAIN sessions \subseteq Calls
  /\ \A s \in DOMAIN sessions :
       sessions[s].status \in {"waiting", "live", "finished", "aborted"}
  /\ row_lock \in [DOMAIN sessions -> Calls \cup {Game, Null}]
  /\ quiz_lock \in Calls \cup {Null}
  /\ quiz_lock # Null => call[quiz_lock].pc = "locking"

\* Editing goes on in one place: there is at most one draft, it is the newest
\* version, and a card that exists has something to edit (services.py:331-347).
OnlyTheNewestIsADraft ==
  /\ \A n \in Drafts, m \in Numbers : m <= n
  /\ quiz.exists <=> Numbers # {}

\* A session plays a version that exists, is fixed and is valid, for as long as
\* the session is kept (services.py:47-68, 407-417; LiveSession.quiz_version).
SessionsPlayFixedVersions ==
  \A s \in DOMAIN sessions :
    /\ sessions[s].version \in Fixed
    /\ Valid(versions[sessions[s].version].content)

\* A save that is accepted changes exactly the content its editor was shown,
\* although the form was read by several statements (services.py:326-349).
NoLostUpdate ==
  [][\A c \in Calls :
       Save(c) /\ call'[c].pc = "done" =>
         versions[Effective].content = call[c].seen.content]_vars

\* An editor whose revision still holds is never told that an id it was shown
\* is foreign, also after the version it read became fixed (services.py:172-209).
ShownIdsAreAccepted == \A c \in Calls : call[c].pc # "foreign_id"

\* The versions of a card are sound under every order of the requests.
VersionsAreSound ==
  TypeOK /\ OnlyTheNewestIsADraft /\ ShownIdsAreAccepted /\ SessionsPlayFixedVersions

\* Implementation of the card, its history and its archive.
Content(n) == Canonical(versions[n].content)

Card ==
  INSTANCE QuizCard WITH
    Sessions <- Calls,
    current <- IF quiz.exists THEN Content(Effective) ELSE Null,
    deleted <- ~quiz.exists,
    archived <- quiz.archived,
    played <- [s \in DOMAIN sessions |-> Content(sessions[s].version)],
    open <- {s \in DOMAIN sessions : sessions[s].status \in {"waiting", "live"}}

\* Every request acts on the card as a whole: a session plays for ever what the
\* card showed when it was opened, an archived card has no open session, and a
\* card that was played is not deleted (services.py:38-69, quiz/services.py:314-417).
ImplementsCard == Card!Spec

\* A request that keeps the card while it waits for running commands gets its
\* rows and answers (services.py:380, 413).
LockHoldersAnswer ==
  \A c \in {d \in Calls : KindOf(d) \in {"archive", "delete"}} :
    call[c].pc = "locking" ~> call[c].pc \in Answered
=============================================================================
