-------------------------- MODULE QuizVersioningProofs --------------------------
(***************************************************************************)
(* Proofs that the history of a quiz card is sound: for every set of       *)
(* requests, every set of edits and every content, whatever the order in   *)
(* which the requests and the games of the sessions take their steps.      *)
(*                                                                         *)
(* What an edit makes of a content (MergeContent), when a content is valid *)
(* (Valid) and what two contents have in common (Canonical) stay           *)
(* unexpanded: the results hold for any such operators.                    *)
(***************************************************************************)
EXTENDS QuizVersioning, FiniteSetTheorems, TLAPS

\* f is a function: what EXCEPT and a function constructor return.
IsFun(f) == f = [x \in DOMAIN f |-> f[x]]

Statuses == {"waiting", "live", "finished", "aborted"}

\* The card, and its versions: numbered from one on, the newest alone a draft.
CardInv ==
  /\ quiz \in [exists : BOOLEAN, archived : BOOLEAN, content_revision : Nat]
  /\ \E k \in Nat : Numbers = 1..k
  /\ OnlyTheNewestIsADraft

\* What was played is valid and no request changes it.
RowInv(n) ==
  /\ versions[n] = [status |-> versions[n].status, content |-> versions[n].content]
  /\ versions[n].status \in {"draft", "fixed"}
  /\ IsFun(versions[n].content)
VersionsInv ==
  /\ IsFun(versions)
  /\ \A n \in Numbers : RowInv(n)
  /\ \A n \in Fixed : Valid(versions[n].content)

SessionsInv ==
  /\ IsFun(sessions)
  /\ DOMAIN sessions \subseteq Calls
  /\ \A s \in DOMAIN sessions :
       /\ sessions[s] \in [version : Fixed, status : Statuses]
       /\ call[s].pc = "done"

\* A request that waits for rows holds the card, which therefore stays as the
\* request saw it when it took it.
LocksInv ==
  /\ row_lock \in [DOMAIN sessions -> Calls \cup {Game, Null}]
  /\ quiz_lock \in Calls \cup {Null}
  /\ quiz_lock # Null => call[quiz_lock].pc = "locking"
  /\ \A c \in Calls : call[c].pc = "locking" =>
       /\ quiz_lock = c
       /\ quiz.exists
       /\ KindOf(c) = "archive" => ~quiz.archived

\* The local state of a request has its fields.
Whole(x) ==
  /\ x = [pc |-> x.pc, seen |-> x.seen, changes |-> x.changes]
  /\ x.seen = [revision |-> x.seen.revision, number |-> x.seen.number,
               content |-> x.seen.content]
CallsInv == call = [c \in Calls |-> call[c]] /\ \A c \in Calls : Whole(call[c])

\* While the revision that an editor was shown is the card's, so is the content,
\* whatever was committed between the statements that read it.
SeenIsTrue(c) ==
  call[c].pc \in {"card", "version", "seen", "waiting"} =>
    /\ call[c].seen.revision \in Nat
    /\ call[c].seen.revision <= quiz.content_revision
    /\ call[c].pc # "card" /\ quiz.exists /\ call[c].seen.revision = quiz.content_revision
         => /\ call[c].seen.number = Effective
            /\ call[c].seen.content = versions[Effective].content
    /\ call[c].pc = "waiting" => IdsBelong(call[c].seen.content, call[c].changes)
SeenInv == \A c \in Calls : SeenIsTrue(c)

CardHistoryInv ==
  CardInv /\ VersionsInv /\ SessionsInv /\ LocksInv /\ CallsInv /\ SeenInv
-----------------------------------------------------------------------------
(* Lemmas about the operators.                                              *)

\* The greatest element of a set of numbers is its Latest.
LEMMA LatestIs ==
  ASSUME NEW S \in SUBSET Nat, NEW n \in S, \A m \in S : m <= n
  PROVE  Latest(S) = n
<1> DEFINE P(i) == i \in S /\ \A m \in S : m <= i
<1>1. P(n) /\ \A i \in S : P(i) => i = n
  OBVIOUS
<1> QED BY <1>1 DEF Latest

\* A content that was written is a function of its fields.
LEMMA StoredIsFun ==
  ASSUME NEW content, NEW tag
  PROVE  IsFun(Stored(content, tag)) /\ IsFun(CreatedGraph(content, tag))
BY DEF Stored, CreatedGraph, IsFun

\* Reading the questions of a content that was read changes nothing of it.
LEMMA SameQuestions ==
  ASSUME NEW f, IsFun(f)
  PROVE  [f EXCEPT !.questions = f.questions] = f
BY DEF IsFun

\* Where the draft and the last fixed version of a card are.
LEMMA NewestVersion ==
  ASSUME CardInv, quiz.exists
  PROVE  \E k \in Nat \ {0} :
           /\ Numbers = 1..k
           /\ Effective = k
           /\ Drafts # {} => Drafts = {k} /\ Latest(Drafts) = k
           /\ Drafts = {} => Fixed = Numbers /\ Latest(Fixed) = k
           /\ Fixed # {} => Latest(Fixed) \in Fixed
<1>1. PICK k \in Nat : Numbers = 1..k
  BY DEF CardInv
<1>2. k # 0
  <2>1. Numbers # {}
    BY DEF CardInv, OnlyTheNewestIsADraft
  <2> QED BY <2>1, <1>1
<1>3. Effective = k
  BY <1>1, <1>2, LatestIs DEF Effective
<1>4. ASSUME Drafts # {} PROVE Drafts = {k} /\ Latest(Drafts) = k
  <2>1. \A n \in Drafts : n \in 1..k /\ k <= n
    BY <1>1, <1>2 DEF Drafts, CardInv, OnlyTheNewestIsADraft
  <2>2. Drafts = {k}
    BY <1>4, <2>1
  <2> QED BY <2>2, LatestIs
<1>5. ASSUME Drafts = {} PROVE Fixed = Numbers /\ Latest(Fixed) = k
  <2>1. Fixed = Numbers
    BY <1>5 DEF Fixed
  <2> QED BY <1>1, <1>2, <2>1, LatestIs
<1>6. ASSUME Fixed # {} PROVE Latest(Fixed) \in Fixed
  <2>1. CASE Drafts = {}
    BY <1>6, <1>1, <1>2, <1>5, <2>1
  <2>2. CASE Drafts # {}
    <3>1. Fixed = 1..(k - 1)
      BY <1>1, <1>4, <2>2 DEF Fixed
    <3>2. k - 1 \in Fixed
      BY <3>1, <1>6
    <3> QED BY <3>1, <3>2, LatestIs
  <2> QED BY <2>1, <2>2
<1> QED BY <1>1, <1>2, <1>3, <1>4, <1>5, <1>6

\* The requests other than c do not move, and c keeps its fields.
OnlyMoves(c) ==
  /\ call' = [d \in Calls |-> call'[d]]
  /\ Whole(call'[c])
  /\ \A d \in Calls \ {c} : call'[d] = call[d]

\* A step of one request.
LEMMA OneCallMoves ==
  ASSUME CallsInv, NEW c \in Calls, OnlyMoves(c)
  PROVE  CallsInv'
BY DEF CallsInv, OnlyMoves

\* Goto moves one request and leaves what it read.
LEMMA GotoMoves ==
  ASSUME CallsInv, NEW c \in Calls, NEW pc, Goto(c, pc)
  PROVE  /\ CallsInv' /\ OnlyMoves(c)
         /\ call'[c].pc = pc
         /\ call'[c].seen = call[c].seen /\ call'[c].changes = call[c].changes
<1>1. call = [d \in Calls |-> call[d]] /\ Whole(call[c])
  BY DEF CallsInv
<1>2. OnlyMoves(c)
  BY <1>1 DEF Goto, OnlyMoves, Whole
<1>3. /\ call'[c].pc = pc
      /\ call'[c].seen = call[c].seen /\ call'[c].changes = call[c].changes
  BY <1>1 DEF Goto, Whole
<1> QED BY <1>2, <1>3, OneCallMoves
-----------------------------------------------------------------------------
(* Lemmas about what a step leaves alone.                                   *)

Reading == {"card", "version", "seen", "waiting"}

\* What an editor was shown stays true while the card shows the same.
CardShowsTheSame ==
  /\ quiz'.exists = quiz.exists
  /\ quiz'.content_revision = quiz.content_revision
  /\ quiz.exists =>
       Effective' = Effective /\ versions'[Effective].content = versions[Effective].content

\* A request that does not move keeps what is true of its form.
LEMMA ShownStays ==
  ASSUME NEW d \in Calls, SeenIsTrue(d), call'[d] = call[d], CardShowsTheSame
  PROVE  SeenIsTrue(d)'
BY DEF SeenIsTrue, CardShowsTheSame

\* A request that reads and waits no more has nothing to be true.
LEMMA ReadersOnly ==
  ASSUME NEW d \in Calls, call'[d].pc \notin Reading
  PROVE  SeenIsTrue(d)'
BY DEF SeenIsTrue, Reading

\* The card with its versions is as it was.
LEMMA CardUntouched ==
  ASSUME CardInv, VersionsInv, UNCHANGED <<quiz, versions>>
  PROVE  CardInv' /\ VersionsInv' /\ CardShowsTheSame /\ Fixed' = Fixed
<1>1. CardInv'
  BY DEF CardInv, OnlyTheNewestIsADraft, Numbers, Drafts
<1>2. VersionsInv'
  BY DEF VersionsInv, RowInv, Fixed, Numbers, Drafts
<1>3. CardShowsTheSame /\ Fixed' = Fixed
  BY DEF CardShowsTheSame, Effective, Numbers, Fixed, Drafts
<1> QED BY <1>1, <1>2, <1>3

\* No session is opened or moved, and no version it may play is lost.
LEMMA SessionsUntouched ==
  ASSUME SessionsInv, sessions' = sessions, Fixed \subseteq Fixed',
         \A s \in Calls : call[s].pc = "done" => call'[s].pc = "done"
  PROVE  SessionsInv'
BY DEF SessionsInv, IsFun

\* The locks are as they were, and the card that their holder saw.
LEMMA LocksUntouched ==
  ASSUME LocksInv, UNCHANGED <<quiz, quiz_lock, row_lock, sessions>>,
         \A d \in Calls : call'[d].pc = "locking" <=> call[d].pc = "locking"
  PROVE  LocksInv'
BY DEF LocksInv

\* Nobody holds the card before or after the step.
LEMMA CardStaysFree ==
  ASSUME LocksInv, quiz_lock = Null, quiz_lock' = Null,
         row_lock' \in [DOMAIN sessions' -> Calls \cup {Game, Null}],
         \A d \in Calls : call'[d].pc = "locking" => call[d].pc = "locking"
  PROVE  LocksInv'
BY CallsAssumption DEF LocksInv

\* A request that reads, is sent or is refused changes only itself.
LEMMA OneRequestKeeps ==
  ASSUME CardHistoryInv, NEW c \in Calls,
         UNCHANGED <<quiz, versions, sessions, quiz_lock, row_lock>>,
         call[c].pc \notin {"done", "locking"}, call'[c].pc # "locking",
         OnlyMoves(c),
         SeenIsTrue(c)'
  PROVE  CardHistoryInv'
<1> USE DEF CardHistoryInv, OnlyMoves
<1>1. CardInv' /\ VersionsInv' /\ CardShowsTheSame /\ Fixed' = Fixed
  BY CardUntouched
<1>2. SessionsInv'
  BY <1>1, SessionsUntouched
<1>3. LocksInv'
  BY LocksUntouched
<1>4. SeenInv'
  BY <1>1, ShownStays DEF SeenInv
<1> QED BY <1>1, <1>2, <1>3, <1>4, OneCallMoves

\* A request that is refused, or finds nothing to read.
LEMMA RefuseKeeps ==
  ASSUME CardHistoryInv, NEW c \in Calls, NEW why, Refuse(c, why),
         call[c].pc \notin {"done", "locking"},
         why \notin Reading \cup {"locking"}
  PROVE  CardHistoryInv'
<1>1. UNCHANGED <<quiz, versions, sessions, quiz_lock, row_lock>> /\ Goto(c, why)
  BY DEF Refuse
<1>2. OnlyMoves(c) /\ call'[c].pc = why
  BY <1>1, GotoMoves DEF CardHistoryInv
<1> QED BY <1>1, <1>2, ReadersOnly, OneRequestKeeps

-----------------------------------------------------------------------------
(* The form of an editor.                                                   *)

\* ReadCard shows the revision of the card.
LEMMA ReadCardKeeps ==
  ASSUME CardHistoryInv, NEW c \in Calls, ReadCard(c)
  PROVE  CardHistoryInv'
<1>1. CASE ~quiz.exists
  <2>1. Refuse(c, "not_found")
    BY <1>1 DEF ReadCard, Refuse
  <2> QED BY <2>1, RefuseKeeps DEF ReadCard, Reading
<1>2. CASE quiz.exists
  <2>1. call' = [call EXCEPT ![c].pc = "card",
                             ![c].seen.revision = quiz.content_revision]
    BY <1>2 DEF ReadCard
  <2>2. call = [d \in Calls |-> call[d]] /\ Whole(call[c])
    BY DEF CardHistoryInv, CallsInv
  <2>3. OnlyMoves(c)
    BY <2>1, <2>2 DEF OnlyMoves, Whole
  <2>4. call'[c].pc = "card" /\ call'[c].seen.revision = quiz.content_revision
    BY <2>1, <2>2 DEF Whole
  <2>5. UNCHANGED <<quiz, versions, sessions, quiz_lock, row_lock>>
    BY DEF ReadCard
  <2>6. SeenIsTrue(c)'
    BY <2>4, <2>5 DEF SeenIsTrue, CardHistoryInv, CardInv
  <2> QED BY <2>3, <2>4, <2>5, <2>6, OneRequestKeeps DEF ReadCard
<1> QED BY <1>1, <1>2

\* ReadVersion shows the content of the version that is edited now.
LEMMA ReadVersionKeeps ==
  ASSUME CardHistoryInv, NEW c \in Calls, ReadVersion(c)
  PROVE  CardHistoryInv'
<1>1. CASE Numbers = {}
  <2>1. Refuse(c, "gone")
    BY <1>1 DEF ReadVersion, Refuse
  <2> QED BY <2>1, RefuseKeeps DEF ReadVersion, Reading
<1>2. CASE Numbers # {}
  <2> DEFINE rev == call[c].seen.revision
             num == Effective
             con == versions[Effective].content
  <2>1. call' = [call EXCEPT ![c].pc = "version",
           ![c].seen = [@ EXCEPT !.number = num, !.content = con]]
    BY <1>2 DEF ReadVersion
  <2>2. call = [d \in Calls |-> call[d]] /\ Whole(call[c])
    BY DEF CardHistoryInv, CallsInv
  <2>3. OnlyMoves(c)
    <3> HIDE DEF num, con
    <3> QED BY <2>1, <2>2 DEF OnlyMoves, Whole
  <2>4. /\ call'[c].pc = "version" /\ call'[c].seen.revision = rev
        /\ call'[c].seen.number = num /\ call'[c].seen.content = con
    <3> HIDE DEF num, con
    <3> QED BY <2>1, <2>2 DEF Whole
  <2>5. UNCHANGED <<quiz, versions, sessions, quiz_lock, row_lock>>
    BY DEF ReadVersion
  <2>6. rev \in Nat /\ rev <= quiz.content_revision
    BY DEF ReadVersion, CardHistoryInv, SeenInv, SeenIsTrue
  <2>7. CardShowsTheSame
    BY <2>5, CardUntouched DEF CardHistoryInv
  <2>8. quiz.exists => num' = num /\ con' = con
    BY <2>5 DEF Effective, Numbers
  <2>9. SeenIsTrue(c)'
    <3> HIDE DEF rev
    <3> QED BY <2>4, <2>5, <2>6, <2>8 DEF SeenIsTrue
  <2> QED BY <2>3, <2>4, <2>5, <2>9, OneRequestKeeps DEF ReadVersion
<1> QED BY <1>1, <1>2

\* ReadQuestions reads nothing else while the revision holds.
LEMMA ReadQuestionsKeeps ==
  ASSUME CardHistoryInv, NEW c \in Calls, ReadQuestions(c)
  PROVE  CardHistoryInv'
<1>1. CASE Numbers = {}
  <2>1. Refuse(c, "gone")
    BY <1>1 DEF ReadQuestions, Refuse
  <2> QED BY <2>1, RefuseKeeps DEF ReadQuestions, Reading
<1>2. CASE Numbers # {}
  <2> DEFINE rev == call[c].seen.revision
             num == call[c].seen.number
             que == versions[num].content.questions
             con == [call[c].seen.content EXCEPT !.questions = que]
  <2>1. call' = [call EXCEPT ![c].pc = "seen", ![c].seen.content.questions = que]
    BY <1>2 DEF ReadQuestions
  <2>2. call = [d \in Calls |-> call[d]] /\ Whole(call[c])
    BY DEF CardHistoryInv, CallsInv
  <2>3. OnlyMoves(c)
    <3> HIDE DEF que
    <3> QED BY <2>1, <2>2 DEF OnlyMoves, Whole
  <2>4. /\ call'[c].pc = "seen" /\ call'[c].seen.revision = rev
        /\ call'[c].seen.number = num /\ call'[c].seen.content = con
    <3> HIDE DEF que
    <3> QED BY <2>1, <2>2 DEF Whole
  <2>5. UNCHANGED <<quiz, versions, sessions, quiz_lock, row_lock>>
    BY DEF ReadQuestions
  <2>6. rev \in Nat /\ rev <= quiz.content_revision
    BY DEF ReadQuestions, CardHistoryInv, SeenInv, SeenIsTrue
  <2>7. ASSUME quiz.exists, rev = quiz.content_revision
        PROVE  num = Effective /\ con = versions[Effective].content
    <3>1. num = Effective /\ call[c].seen.content = versions[Effective].content
      BY <2>7 DEF ReadQuestions, CardHistoryInv, SeenInv, SeenIsTrue
    <3>2. Effective \in Numbers
      BY <2>7, NewestVersion DEF CardHistoryInv
    <3>3. IsFun(versions[Effective].content)
      BY <3>2 DEF CardHistoryInv, VersionsInv, RowInv
    <3> QED BY <3>1, <3>3, SameQuestions
  <2>8. Effective' = Effective /\ versions' = versions
    BY <2>5 DEF Effective, Numbers
  <2>9. SeenIsTrue(c)'
    <3> HIDE DEF rev, num, con
    <3> QED BY <2>4, <2>5, <2>6, <2>7, <2>8 DEF SeenIsTrue
  <2> QED BY <2>3, <2>4, <2>5, <2>9, OneRequestKeeps DEF ReadQuestions
<1> QED BY <1>1, <1>2

\* Send names only ids that were shown.
LEMMA SendKeeps ==
  ASSUME CardHistoryInv, NEW c \in Calls, Send(c)
  PROVE  CardHistoryInv'
<1>1. PICK changes \in Edits(call[c].seen.content) :
        /\ IdsBelong(call[c].seen.content, changes)
        /\ call' = [call EXCEPT ![c].pc = "waiting", ![c].changes = changes]
  BY DEF Send
<1> DEFINE rev == call[c].seen.revision
           num == call[c].seen.number
           con == call[c].seen.content
<1>2. call = [d \in Calls |-> call[d]] /\ Whole(call[c])
  BY DEF CardHistoryInv, CallsInv
<1>3. OnlyMoves(c)
  BY <1>1, <1>2 DEF OnlyMoves, Whole
<1>4. /\ call'[c].pc = "waiting" /\ call'[c].changes = changes
      /\ call'[c].seen.revision = rev
      /\ call'[c].seen.number = num /\ call'[c].seen.content = con
  BY <1>1, <1>2 DEF Whole
<1>5. UNCHANGED <<quiz, versions, sessions, quiz_lock, row_lock>> /\ call[c].pc = "seen"
  BY DEF Send
<1>6. SeenIsTrue(c)
  BY DEF CardHistoryInv, SeenInv
<1>7. Effective' = Effective /\ versions' = versions
  BY <1>5 DEF Effective, Numbers
<1>8. SeenIsTrue(c)'
  BY <1>1, <1>4, <1>5, <1>6, <1>7 DEF SeenIsTrue
<1> QED BY <1>3, <1>4, <1>5, <1>8, OneRequestKeeps
-----------------------------------------------------------------------------
(* The requests that write.                                                 *)

\* A draft is changed in place, a fixed version is continued by the next one, and
\* no fixed version changes.
LEMMA KeepKeeps ==
  ASSUME CardInv, VersionsInv, quiz.exists, NEW content, Keep(content),
         quiz' = [quiz EXCEPT !.content_revision = @ + 1]
  PROVE  /\ CardInv' /\ VersionsInv'
         /\ Fixed' = Fixed
         /\ \A n \in Fixed : versions'[n] = versions[n]
<1>1. PICK k \in Nat \ {0} :
        /\ Numbers = 1..k
        /\ Drafts # {} => Drafts = {k} /\ Latest(Drafts) = k
        /\ Drafts = {} => Fixed = Numbers /\ Latest(Fixed) = k
  BY NewestVersion
<1>2. /\ quiz' \in [exists : BOOLEAN, archived : BOOLEAN, content_revision : Nat]
      /\ quiz'.exists
  BY DEF CardInv
<1>3. CASE Drafts # {}
  <2> DEFINE new == Stored(content, quiz.content_revision + 1)
  <2>1. versions' = [versions EXCEPT ![k].content = new] /\ IsFun(new)
    BY <1>1, <1>3, StoredIsFun DEF Keep
  <2> HIDE DEF new
  <2>2. Numbers' = Numbers /\ IsFun(versions')
    BY <2>1 DEF Numbers, VersionsInv, IsFun
  <2>3. \A n \in Numbers \ {k} : versions'[n] = versions[n]
    BY <2>1 DEF Numbers, VersionsInv, IsFun
  <2>4. k \in Numbers /\ versions'[k] = [versions[k] EXCEPT !.content = new]
    BY <2>1, <1>1 DEF Numbers, VersionsInv, IsFun
  <2>5. versions[k] = [status |-> versions[k].status, content |-> versions[k].content]
    BY <2>4 DEF VersionsInv, RowInv
  <2>6. versions'[k] = [status |-> versions[k].status, content |-> new]
    BY <2>4, <2>5
  <2>7. Drafts' = Drafts /\ Fixed' = Fixed
    BY <2>2, <2>3, <2>6 DEF Drafts, Fixed
  <2>8. CardInv'
    BY <1>1, <1>2, <2>2, <2>7 DEF CardInv, OnlyTheNewestIsADraft
  <2>9. \A n \in Fixed : versions'[n] = versions[n]
    BY <1>1, <1>3, <2>3 DEF Fixed
  <2>10. ASSUME NEW n \in Numbers' PROVE RowInv(n)'
    <3>1. CASE n = k
      <4>1. RowInv(k)
        BY <2>4 DEF VersionsInv
      <4>2. versions'[k].status = versions[k].status /\ versions'[k].content = new
        BY <2>6
      <4> QED BY <2>1, <2>6, <3>1, <4>1, <4>2 DEF RowInv
    <3>2. CASE n # k
      BY <2>2, <2>3, <3>2 DEF VersionsInv, RowInv
    <3> QED BY <3>1, <3>2
  <2>11. VersionsInv'
    BY <2>2, <2>7, <2>9, <2>10 DEF VersionsInv
  <2> QED BY <2>7, <2>8, <2>9, <2>11
<1>4. CASE Drafts = {}
  <2> DEFINE new == CreatedGraph(content, quiz.content_revision + 1)
             row == [status |-> "draft", content |-> new]
  <2>1. versions' = With(versions, k + 1, row) /\ IsFun(new)
    BY <1>1, <1>4, StoredIsFun DEF Keep, AddVersion
  <2>2. row.status = "draft" /\ row.content = new
    OBVIOUS
  <2>3. row = [status |-> row.status, content |-> row.content]
    OBVIOUS
  <2> HIDE DEF new, row
  <2>4. /\ IsFun(versions') /\ Numbers' = Numbers \cup {k + 1}
        /\ versions'[k + 1] = row
        /\ \A n \in Numbers \ {k + 1} : versions'[n] = versions[n]
    <3>1. /\ IsFun(With(versions, k + 1, row))
          /\ DOMAIN With(versions, k + 1, row) = DOMAIN versions \cup {k + 1}
          /\ With(versions, k + 1, row)[k + 1] = row
          /\ \A n \in DOMAIN versions \ {k + 1} :
               With(versions, k + 1, row)[n] = versions[n]
      BY DEF With, IsFun
    <3> QED BY <2>1, <3>1 DEF Numbers
  <2>5. /\ k + 1 \notin Numbers /\ k + 1 \in Nat
        /\ Numbers \cup {k + 1} = 1..(k + 1)
    BY <1>1
  <2>6. \A n \in Numbers : versions'[n] = versions[n]
    BY <2>4, <2>5
  <2>7. Drafts' = {k + 1}
    BY <2>2, <2>4, <2>5, <2>6, <1>4 DEF Drafts
  <2>8. Fixed' = Fixed /\ Fixed = Numbers
    BY <2>4, <2>5, <2>7, <1>1, <1>4 DEF Fixed
  <2>9. CardInv'
    BY <1>1, <1>2, <2>4, <2>5, <2>7 DEF CardInv, OnlyTheNewestIsADraft
  <2>10. ASSUME NEW n \in Numbers' PROVE RowInv(n)'
    <3>1. CASE n = k + 1
      BY <2>1, <2>2, <2>3, <2>4, <3>1 DEF RowInv
    <3>2. CASE n # k + 1
      BY <2>4, <2>6, <3>2 DEF VersionsInv, RowInv
    <3> QED BY <3>1, <3>2
  <2>11. VersionsInv'
    BY <2>4, <2>6, <2>8, <2>10 DEF VersionsInv
  <2> QED BY <2>6, <2>8, <2>9, <2>11
<1> QED BY <1>3, <1>4

\* Save: the revision moves on, and every form that was read becomes old.
LEMMA SaveKeeps ==
  ASSUME CardHistoryInv, NEW c \in Calls, Save(c)
  PROVE  CardHistoryInv'
<1> USE DEF CardHistoryInv
<1>1. quiz_lock = Null /\ call[c].pc = "waiting"
  BY DEF Save
<1>2. CASE \E why \in {"not_found", "archived", "conflict", "foreign_id", "invalid",
                       "unchanged"} : Refuse(c, why)
  BY <1>1, <1>2, RefuseKeeps DEF Reading
<1>3. CASE /\ quiz.exists
           /\ \E content : Keep(content)
           /\ quiz' = [quiz EXCEPT !.content_revision = @ + 1]
           /\ Goto(c, "done")
           /\ UNCHANGED <<sessions, quiz_lock, row_lock>>
  <2>1. CardInv' /\ VersionsInv' /\ Fixed' = Fixed
    BY <1>3, KeepKeeps
  <2>2. CallsInv' /\ OnlyMoves(c) /\ call'[c].pc = "done"
    BY <1>3, GotoMoves
  <2>3. SessionsInv'
    BY <1>1, <1>3, <2>1, <2>2, SessionsUntouched DEF OnlyMoves
  <2>4. LocksInv'
    BY <1>1, <1>3, <2>2, CardStaysFree DEF OnlyMoves, LocksInv
  <2>5. quiz'.content_revision = quiz.content_revision + 1 /\ quiz.content_revision \in Nat
    BY <1>3 DEF CardInv
  <2>6. ASSUME NEW d \in Calls, d # c PROVE SeenIsTrue(d)'
    <3>1. call'[d] = call[d] /\ SeenIsTrue(d)
      BY <2>2, <2>6 DEF OnlyMoves, SeenInv
    <3> QED BY <2>5, <3>1 DEF SeenIsTrue
  <2>7. SeenInv'
    BY <2>2, <2>6, ReadersOnly DEF SeenInv, Reading
  <2> QED BY <2>1, <2>2, <2>3, <2>4, <2>7
<1> QED BY <1>2, <1>3 DEF Save

\* The version that an opened session plays.
Selected == Latest(IF DraftIsPlayed THEN Drafts ELSE Fixed)

\* It is the draft, or a fixed version that says the same as what is edited.
LEMMA SelectedIs ==
  ASSUME CardInv, quiz.exists
  PROVE  /\ Selected \in Numbers
         /\ DraftIsPlayed => Selected = Effective
         /\ ~DraftIsPlayed =>
              Selected \in Fixed /\ Content(Selected) = Content(Effective)
<1>1. PICK k \in Nat \ {0} :
        /\ Numbers = 1..k /\ Effective = k
        /\ Drafts # {} => Drafts = {k} /\ Latest(Drafts) = k
        /\ Drafts = {} => Fixed = Numbers /\ Latest(Fixed) = k
        /\ Fixed # {} => Latest(Fixed) \in Fixed
  BY NewestVersion
<1>2. CASE DraftIsPlayed
  BY <1>1, <1>2 DEF Selected, DraftIsPlayed
<1>3. CASE ~DraftIsPlayed /\ Drafts = {}
  BY <1>1, <1>3 DEF Selected
<1>4. CASE ~DraftIsPlayed /\ Drafts # {}
  <2>1. /\ Selected = Latest(Fixed) /\ Fixed # {}
        /\ Canonical(versions[Latest(Drafts)].content)
             = Canonical(versions[Latest(Fixed)].content)
    BY <1>4 DEF Selected, DraftIsPlayed
  <2>2. Content(Selected) = Content(Effective)
    BY <1>1, <1>4, <2>1 DEF Content
  <2> QED BY <1>1, <1>4, <2>1, <2>2 DEF Fixed
<1> QED BY <1>2, <1>3, <1>4
-----------------------------------------------------------------------------
\* The part of Launch that opens a session.
Opens(c) ==
  /\ quiz.exists /\ ~quiz.archived
  /\ DraftIsPlayed => Valid(versions[Selected].content)
  /\ versions' = [versions EXCEPT ![Selected].status = "fixed"]
  /\ sessions' = With(sessions, c, [version |-> Selected, status |-> "waiting"])
  /\ row_lock' = With(row_lock, c, Null)
  /\ Goto(c, "done")
  /\ UNCHANGED <<quiz, quiz_lock>>

\* It fixes what is played, which is valid, and shows nobody another content.
LEMMA OpensKeeps ==
  ASSUME CardHistoryInv, NEW c \in Calls, quiz_lock = Null, call[c].pc = "idle", Opens(c)
  PROVE  /\ CardHistoryInv'
         /\ CardShowsTheSame
         /\ \A m \in Numbers : versions'[m].content = versions[m].content
         /\ DOMAIN sessions' = DOMAIN sessions \cup {c}
         /\ sessions'[c] = [version |-> Selected, status |-> "waiting"]
         /\ \A s \in DOMAIN sessions \ {c} : sessions'[s] = sessions[s]
<1> USE DEF CardHistoryInv
<1>1. CallsInv' /\ OnlyMoves(c) /\ call'[c].pc = "done"
  BY GotoMoves DEF Opens
<1>2. PICK n \in Numbers : n = Selected
  BY SelectedIs DEF Opens
<1>3. RowInv(n)
  BY DEF VersionsInv
<1>4. /\ Numbers' = Numbers /\ IsFun(versions')
      /\ versions'[n] = [versions[n] EXCEPT !.status = "fixed"]
      /\ \A m \in Numbers \ {n} : versions'[m] = versions[m]
  BY <1>2 DEF Numbers, VersionsInv, IsFun, Opens
<1>5. versions'[n] = [status |-> "fixed", content |-> versions[n].content]
  BY <1>3, <1>4 DEF RowInv
<1>6. versions'[n].status = "fixed" /\ versions'[n].content = versions[n].content
  BY <1>5
<1>7. Drafts' = Drafts \ {n} /\ Fixed' = Fixed \cup {n}
  BY <1>4, <1>6 DEF Drafts, Fixed
<1>8. CardInv'
  BY <1>4, <1>7 DEF CardInv, OnlyTheNewestIsADraft, Opens
<1>9. Valid(versions[n].content)
  BY <1>2, SelectedIs DEF VersionsInv, Opens
<1>10. ASSUME NEW m \in Numbers' PROVE RowInv(m)'
  <2>1. CASE m = n
    BY <1>3, <1>5, <1>6, <2>1 DEF RowInv
  <2>2. CASE m # n
    BY <1>4, <2>2 DEF VersionsInv, RowInv
  <2> QED BY <2>1, <2>2
<1>11. ASSUME NEW m \in Fixed' PROVE Valid(versions'[m].content)
  <2>1. CASE m = n
    BY <1>6, <1>9, <2>1
  <2>2. CASE m # n
    BY <1>4, <1>7, <2>2 DEF VersionsInv, Fixed
  <2> QED BY <2>1, <2>2
<1>12. VersionsInv'
  BY <1>4, <1>10, <1>11 DEF VersionsInv
<1>13. SessionsInv'
  <2> DEFINE row == [version |-> n, status |-> "waiting"]
  <2>1. row \in [version : Fixed', status : Statuses]
    BY <1>7 DEF Statuses
  <2>2. sessions' = With(sessions, c, row)
    BY <1>2 DEF Opens
  <2> HIDE DEF row
  <2>3. /\ IsFun(sessions') /\ DOMAIN sessions' = DOMAIN sessions \cup {c}
        /\ sessions'[c] = row
        /\ \A s \in DOMAIN sessions \ {c} : sessions'[s] = sessions[s]
    BY <2>2 DEF With, IsFun
  <2>4. \A s \in DOMAIN sessions : sessions[s] \in [version : Fixed', status : Statuses]
    BY <1>7 DEF SessionsInv
  <2> QED BY <1>1, <2>1, <2>3, <2>4 DEF SessionsInv, OnlyMoves
<1>14. LocksInv'
  <2>1. row_lock' \in [DOMAIN sessions' -> Calls \cup {Game, Null}]
    BY DEF With, LocksInv, Opens
  <2> QED BY <1>1, <2>1, CardStaysFree DEF OnlyMoves, Opens
<1>15. CardShowsTheSame
  <2>1. Effective' = Effective
    BY <1>4 DEF Effective
  <2>2. Effective \in Numbers
    BY NewestVersion DEF Opens
  <2> QED BY <1>4, <1>6, <2>1, <2>2 DEF CardShowsTheSame, Opens
<1>16. SeenInv'
  BY <1>1, <1>15, ShownStays, ReadersOnly DEF SeenInv, OnlyMoves, Reading
<1>17. \A m \in Numbers : versions'[m].content = versions[m].content
  BY <1>4, <1>6
<1>18. /\ DOMAIN sessions' = DOMAIN sessions \cup {c}
       /\ sessions'[c] = [version |-> Selected, status |-> "waiting"]
       /\ \A s \in DOMAIN sessions \ {c} : sessions'[s] = sessions[s]
  <2> DEFINE row == [version |-> Selected, status |-> "waiting"]
  <2>1. sessions' = With(sessions, c, row)
    BY DEF Opens
  <2> HIDE DEF row
  <2>2. /\ DOMAIN sessions' = DOMAIN sessions \cup {c}
        /\ sessions'[c] = row
        /\ \A s \in DOMAIN sessions \ {c} : sessions'[s] = sessions[s]
    BY <2>1 DEF With
  <2> QED BY <2>2 DEF row
<1> QED BY <1>1, <1>8, <1>12, <1>13, <1>14, <1>15, <1>16, <1>17, <1>18

\* Launch
LEMMA LaunchKeeps ==
  ASSUME CardHistoryInv, NEW c \in Calls, Launch(c)
  PROVE  CardHistoryInv'
<1>1. quiz_lock = Null /\ call[c].pc = "idle"
  BY DEF Launch
<1>2. CASE \E why \in {"not_found", "archived", "invalid"} : Refuse(c, why)
  BY <1>1, <1>2, RefuseKeeps DEF Reading
<1>3. CASE Opens(c)
  BY <1>1, <1>3, OpensKeeps
<1> QED BY <1>2, <1>3 DEF Launch, Selected, Opens

\* The card moves into the archive or back: its revision and versions stay.
LEMMA ArchivedChanges ==
  ASSUME CardInv, VersionsInv, versions' = versions,
         NEW archived \in BOOLEAN, quiz' = [quiz EXCEPT !.archived = archived]
  PROVE  /\ CardInv' /\ VersionsInv' /\ CardShowsTheSame /\ Fixed' = Fixed
         /\ quiz'.archived = archived
<1>1. /\ quiz' \in [exists : BOOLEAN, archived : BOOLEAN, content_revision : Nat]
      /\ quiz'.exists = quiz.exists
      /\ quiz'.content_revision = quiz.content_revision
      /\ quiz'.archived = archived
  BY DEF CardInv
<1>2. CardInv'
  BY <1>1 DEF CardInv, OnlyTheNewestIsADraft, Numbers, Drafts
<1>3. VersionsInv'
  BY DEF VersionsInv, RowInv, Fixed, Numbers, Drafts
<1>4. CardShowsTheSame /\ Fixed' = Fixed
  BY <1>1 DEF CardShowsTheSame, Effective, Numbers, Fixed, Drafts
<1> QED BY <1>1, <1>2, <1>3, <1>4

\* Restore
LEMMA RestoreKeeps ==
  ASSUME CardHistoryInv, NEW c \in Calls, Restore(c)
  PROVE  CardHistoryInv'
<1> USE DEF CardHistoryInv
<1>1. quiz_lock = Null /\ call[c].pc = "idle"
  BY DEF Restore
<1>2. CASE ~quiz.exists
  BY <1>1, <1>2, RefuseKeeps DEF Restore, Reading
<1>3. CASE quiz.exists
  <2>1. /\ quiz' = [quiz EXCEPT !.archived = FALSE] /\ Goto(c, "done")
        /\ UNCHANGED <<versions, sessions, quiz_lock, row_lock>>
    BY <1>3 DEF Restore
  <2>2. CardInv' /\ VersionsInv' /\ CardShowsTheSame /\ Fixed' = Fixed
    BY <2>1, ArchivedChanges
  <2>3. CallsInv' /\ OnlyMoves(c) /\ call'[c].pc = "done"
    BY <2>1, GotoMoves
  <2>4. SessionsInv'
    BY <1>1, <2>1, <2>2, <2>3, SessionsUntouched DEF OnlyMoves
  <2>5. LocksInv'
    BY <1>1, <2>1, <2>3, CardStaysFree DEF OnlyMoves, LocksInv
  <2>6. SeenInv'
    BY <2>2, <2>3, ShownStays, ReadersOnly DEF SeenInv, OnlyMoves, Reading
  <2> QED BY <2>2, <2>3, <2>4, <2>5, <2>6
<1> QED BY <1>2, <1>3

\* A card without sessions is deleted: nothing is left to edit.
LEMMA GoneKeeps ==
  ASSUME CardInv, VersionsInv, SessionsInv, SeenInv, Gone, DOMAIN sessions = {},
         sessions' = sessions, NEW c \in Calls, OnlyMoves(c), call'[c].pc \notin Reading
  PROVE  CardInv' /\ VersionsInv' /\ SessionsInv' /\ SeenInv'
<1>1. /\ quiz' \in [exists : BOOLEAN, archived : BOOLEAN, content_revision : Nat]
      /\ ~quiz'.exists
      /\ quiz'.content_revision = quiz.content_revision
  BY DEF CardInv, Gone
<1>2. Numbers' = {} /\ Drafts' = {} /\ Fixed' = {} /\ IsFun(versions')
  BY DEF Gone, Numbers, Drafts, Fixed, IsFun
<1>3. CardInv'
  <2>1. Numbers' = 1..0
    BY <1>2
  <2> QED BY <1>1, <1>2, <2>1 DEF CardInv, OnlyTheNewestIsADraft
<1>4. VersionsInv'
  BY <1>2 DEF VersionsInv
<1>5. SessionsInv'
  BY DEF SessionsInv, IsFun
<1>6. ASSUME NEW d \in Calls PROVE SeenIsTrue(d)'
  <2>1. CASE d = c
    BY <2>1, ReadersOnly
  <2>2. CASE d # c
    BY <1>1, <2>2 DEF SeenInv, SeenIsTrue, OnlyMoves
  <2> QED BY <2>1, <2>2
<1> QED BY <1>3, <1>4, <1>5, <1>6 DEF SeenInv

\* DirectDelete
LEMMA DirectDeleteKeeps ==
  ASSUME CardHistoryInv, NEW c \in Calls, DirectDelete(c)
  PROVE  CardHistoryInv'
<1> USE DEF CardHistoryInv
<1>1. quiz_lock = Null /\ call[c].pc = "idle"
  BY DEF DirectDelete
<1>2. CASE Refuse(c, "unchanged") \/ Refuse(c, "conflict")
  BY <1>1, <1>2, RefuseKeeps DEF Reading
<1>3. CASE DOMAIN sessions = {} /\ Gone /\ Goto(c, "done")
             /\ UNCHANGED <<sessions, quiz_lock, row_lock>>
  <2>1. CallsInv' /\ OnlyMoves(c) /\ call'[c].pc = "done"
    BY <1>3, GotoMoves
  <2>2. CardInv' /\ VersionsInv' /\ SessionsInv' /\ SeenInv'
    BY <1>3, <2>1, GoneKeeps DEF Reading
  <2>3. LocksInv'
    BY <1>1, <1>3, <2>1, CardStaysFree DEF OnlyMoves, LocksInv
  <2> QED BY <2>1, <2>2, <2>3
<1> QED BY <1>2, <1>3 DEF DirectDelete
-----------------------------------------------------------------------------
(* The requests that keep the card while they wait for rows.                *)

\* ArchiveLocks and DeleteLocks take the card.
LEMMA TakesTheCard ==
  ASSUME CardHistoryInv, NEW c \in Calls, ArchiveLocks(c) \/ DeleteLocks(c)
  PROVE  CardHistoryInv'
<1> USE DEF CardHistoryInv
<1>1. quiz_lock = Null /\ call[c].pc = "idle"
  BY DEF ArchiveLocks, DeleteLocks
<1>2. CASE Refuse(c, "not_found") \/ Refuse(c, "unchanged")
  BY <1>1, <1>2, RefuseKeeps DEF Reading
<1>3. CASE /\ quiz.exists /\ (KindOf(c) = "archive" => ~quiz.archived)
           /\ quiz_lock' = c /\ Goto(c, "locking")
           /\ UNCHANGED <<quiz, versions, sessions, row_lock>>
  <2>1. CallsInv' /\ OnlyMoves(c) /\ call'[c].pc = "locking"
    BY <1>3, GotoMoves
  <2>2. CardInv' /\ VersionsInv' /\ CardShowsTheSame /\ Fixed' = Fixed
    BY <1>3, CardUntouched
  <2>3. SessionsInv'
    BY <1>1, <1>3, <2>1, <2>2, SessionsUntouched DEF OnlyMoves
  <2>4. \A d \in Calls : call[d].pc # "locking"
    BY <1>1, CallsAssumption DEF LocksInv
  <2>5. LocksInv'
    BY <1>3, <2>1, <2>4 DEF LocksInv, OnlyMoves
  <2>6. SeenInv'
    BY <2>1, <2>2, ShownStays, ReadersOnly DEF SeenInv, OnlyMoves, Reading
  <2> QED BY <2>1, <2>2, <2>3, <2>5, <2>6
<1>4. KindOf(c) = "delete" => KindOf(c) # "archive"
  OBVIOUS
<1> QED BY <1>2, <1>3, <1>4 DEF ArchiveLocks, DeleteLocks

\* At the end of its transaction a request that waited holds nothing.
LEMMA ReleasedFrees ==
  ASSUME LocksInv, NEW c \in Calls, call[c].pc = "locking", Released(c),
         sessions' = sessions, OnlyMoves(c), call'[c].pc # "locking"
  PROVE  LocksInv'
<1>1. \A d \in Calls : call'[d].pc # "locking"
  BY DEF LocksInv, OnlyMoves
<1>2. row_lock' \in [DOMAIN sessions' -> Calls \cup {Game, Null}]
  BY DEF Released, LocksInv
<1> QED BY <1>1, <1>2 DEF LocksInv, Released

\* ArchiveDecides
LEMMA ArchiveDecidesKeeps ==
  ASSUME CardHistoryInv, NEW c \in Calls, ArchiveDecides(c)
  PROVE  CardHistoryInv'
<1> USE DEF CardHistoryInv
<1> DEFINE pc == IF OpenSessions = {} THEN "done" ELSE "conflict"
           archived == (OpenSessions = {})
<1>1. /\ call[c].pc = "locking" /\ Released(c) /\ Goto(c, pc)
      /\ UNCHANGED <<versions, sessions>>
      /\ quiz' = [quiz EXCEPT !.archived = archived]
  BY DEF ArchiveDecides
<1>2. pc \in {"done", "conflict"} /\ archived \in BOOLEAN
  OBVIOUS
<1> HIDE DEF pc, archived
<1>3. CallsInv' /\ OnlyMoves(c) /\ call'[c].pc \in {"done", "conflict"}
  BY <1>1, <1>2, GotoMoves
<1>4. CardInv' /\ VersionsInv' /\ CardShowsTheSame /\ Fixed' = Fixed
  BY <1>1, <1>2, ArchivedChanges
<1>5. SessionsInv'
  BY <1>1, <1>3, <1>4, SessionsUntouched DEF OnlyMoves
<1>6. LocksInv'
  BY <1>1, <1>3, ReleasedFrees
<1>7. SeenInv'
  BY <1>3, <1>4, ShownStays, ReadersOnly DEF SeenInv, OnlyMoves, Reading
<1> QED BY <1>3, <1>4, <1>5, <1>6, <1>7

\* DeleteDecides
LEMMA DeleteDecidesKeeps ==
  ASSUME CardHistoryInv, NEW c \in Calls, DeleteDecides(c)
  PROVE  CardHistoryInv'
<1> USE DEF CardHistoryInv
<1> DEFINE pc == IF DOMAIN sessions = {} THEN "done" ELSE "conflict"
<1>1. /\ call[c].pc = "locking" /\ Released(c) /\ Goto(c, pc) /\ sessions' = sessions
      /\ IF DOMAIN sessions = {} THEN Gone ELSE UNCHANGED <<quiz, versions>>
  BY DEF DeleteDecides
<1>2. pc \in {"done", "conflict"}
  OBVIOUS
<1> HIDE DEF pc
<1>3. CallsInv' /\ OnlyMoves(c) /\ call'[c].pc \in {"done", "conflict"}
  BY <1>1, <1>2, GotoMoves
<1>4. LocksInv'
  BY <1>1, <1>3, ReleasedFrees
<1>5. CASE DOMAIN sessions = {}
  <2>1. CardInv' /\ VersionsInv' /\ SessionsInv' /\ SeenInv'
    BY <1>1, <1>3, <1>5, GoneKeeps DEF Reading
  <2> QED BY <1>3, <1>4, <2>1
<1>6. CASE DOMAIN sessions # {}
  <2>1. CardInv' /\ VersionsInv' /\ CardShowsTheSame /\ Fixed' = Fixed
    BY <1>1, <1>6, CardUntouched
  <2>2. SessionsInv'
    BY <1>1, <1>3, <2>1, SessionsUntouched DEF OnlyMoves
  <2>3. SeenInv'
    BY <1>3, <2>1, ShownStays, ReadersOnly DEF SeenInv, OnlyMoves, Reading
  <2> QED BY <1>3, <1>4, <2>1, <2>2, <2>3
<1> QED BY <1>5, <1>6

\* CallDies
LEMMA CallDiesKeeps ==
  ASSUME CardHistoryInv, NEW c \in Calls, CallDies(c)
  PROVE  CardHistoryInv'
<1> USE DEF CardHistoryInv
<1>1. /\ call[c].pc = "locking" /\ Released(c) /\ Goto(c, "died")
      /\ UNCHANGED <<quiz, versions, sessions>>
  BY DEF CallDies
<1>2. CallsInv' /\ OnlyMoves(c) /\ call'[c].pc = "died"
  BY <1>1, GotoMoves
<1>3. CardInv' /\ VersionsInv' /\ CardShowsTheSame /\ Fixed' = Fixed
  BY <1>1, CardUntouched
<1>4. SessionsInv'
  BY <1>1, <1>2, <1>3, SessionsUntouched DEF OnlyMoves
<1>5. LocksInv'
  BY <1>1, <1>2, ReleasedFrees
<1>6. SeenInv'
  BY <1>2, <1>3, ShownStays, ReadersOnly DEF SeenInv, OnlyMoves, Reading
<1> QED BY <1>2, <1>3, <1>4, <1>5, <1>6

\* A row is locked, by a request or by a game.
LEMMA RowsAreLocked ==
  ASSUME CardHistoryInv, NEW s \in DOMAIN sessions, NEW holder \in Calls \cup {Game},
         row_lock' = [row_lock EXCEPT ![s] = holder],
         UNCHANGED <<quiz, versions, sessions, quiz_lock, call>>
  PROVE  CardHistoryInv'
<1> USE DEF CardHistoryInv
<1>1. CardInv' /\ VersionsInv' /\ CardShowsTheSame /\ Fixed' = Fixed
  BY CardUntouched
<1>2. SessionsInv'
  BY <1>1, SessionsUntouched
<1>3. LocksInv'
  BY DEF LocksInv
<1>4. CallsInv'
  BY DEF CallsInv
<1>5. SeenInv'
  BY <1>1, ShownStays DEF SeenInv
<1> QED BY <1>1, <1>2, <1>3, <1>4, <1>5

\* A game moves its session on: the version that it plays stays.
LEMMA GameMovesKeeps ==
  ASSUME CardHistoryInv, NEW s \in DOMAIN sessions, GameMoves(s)
  PROVE  /\ CardHistoryInv'
         /\ DOMAIN sessions' = DOMAIN sessions
         /\ sessions'[s].status \in NextStatuses(sessions[s].status)
         /\ sessions'[s].version = sessions[s].version
         /\ \A t \in DOMAIN sessions \ {s} : sessions'[t] = sessions[t]
<1> USE DEF CardHistoryInv
<1>1. PICK status \in NextStatuses(sessions[s].status) :
        sessions' = [sessions EXCEPT ![s].status = status]
  BY DEF GameMoves
<1>2. /\ row_lock' = [row_lock EXCEPT ![s] = Null]
      /\ UNCHANGED <<quiz, versions, quiz_lock, call>>
  BY DEF GameMoves
<1>3. CardInv' /\ VersionsInv' /\ CardShowsTheSame /\ Fixed' = Fixed
  BY <1>2, CardUntouched
<1>4. sessions[s] \in [version : Fixed, status : Statuses]
  BY DEF SessionsInv
<1>5. status \in Statuses
  BY <1>4 DEF NextStatuses, Statuses
<1>6. /\ IsFun(sessions') /\ DOMAIN sessions' = DOMAIN sessions
      /\ \A t \in DOMAIN sessions \ {s} : sessions'[t] = sessions[t]
      /\ sessions'[s] = [sessions[s] EXCEPT !.status = status]
  BY <1>1 DEF SessionsInv, IsFun
<1>7. /\ sessions'[s] \in [version : Fixed, status : Statuses]
      /\ sessions'[s].version = sessions[s].version /\ sessions'[s].status = status
  BY <1>4, <1>5, <1>6
<1>8. SessionsInv'
  BY <1>2, <1>3, <1>6, <1>7 DEF SessionsInv
<1>9. LocksInv'
  BY <1>2, <1>6 DEF LocksInv
<1>10. CallsInv'
  BY <1>2 DEF CallsInv
<1>11. SeenInv'
  BY <1>2, <1>3, ShownStays DEF SeenInv
<1> QED BY <1>3, <1>6, <1>7, <1>8, <1>9, <1>10, <1>11
-----------------------------------------------------------------------------
(* The invariant.                                                           *)

\* A card is created with one draft, and nobody has read it.
LEMMA CardHistoryStarts == Init => CardHistoryInv
<1> SUFFICES ASSUME Init PROVE CardHistoryInv
  OBVIOUS
<1>1. Numbers = 1..1 /\ quiz.exists
  BY DEF Init, Numbers
<1> DEFINE new == CreatedGraph(NewContent, 1)
<1>2. versions = [n \in {1} |-> [status |-> "draft", content |-> new]] /\ IsFun(new)
  BY StoredIsFun DEF Init
<1> HIDE DEF new
<1>3. Drafts = {1} /\ Fixed = {}
  BY <1>1, <1>2 DEF Drafts, Fixed
<1>4. CardInv
  BY <1>1, <1>3 DEF Init, CardInv, OnlyTheNewestIsADraft
<1>5. VersionsInv
  <2>1. RowInv(1)
    BY <1>2 DEF RowInv
  <2> QED BY <1>1, <1>2, <1>3, <2>1 DEF VersionsInv, IsFun
<1>6. SessionsInv
  BY DEF Init, SessionsInv, IsFun
<1>7. CallsInv
  BY DEF Init, CallsInv, Whole, NothingRead
<1>8. \A c \in Calls : call[c].pc = "idle"
  BY DEF Init
<1>9. LocksInv
  BY <1>8 DEF Init, LocksInv
<1>10. SeenInv
  BY <1>8 DEF SeenInv, SeenIsTrue
<1> QED BY <1>4, <1>5, <1>6, <1>7, <1>9, <1>10 DEF CardHistoryInv

\* Nothing moves.
LEMMA StutterKeeps ==
  ASSUME CardHistoryInv, UNCHANGED vars
  PROVE  CardHistoryInv'
<1> USE DEF CardHistoryInv, vars
<1>1. CardInv' /\ VersionsInv' /\ CardShowsTheSame /\ Fixed' = Fixed
  BY CardUntouched
<1>2. SessionsInv'
  BY <1>1, SessionsUntouched
<1>3. LocksInv'
  BY DEF LocksInv
<1>4. CallsInv'
  BY DEF CallsInv
<1>5. SeenInv'
  BY <1>1, ShownStays DEF SeenInv
<1> QED BY <1>1, <1>2, <1>3, <1>4, <1>5

\* No step of a request or a game disturbs the history of the card.
LEMMA CardHistoryStep == CardHistoryInv /\ [Next]_vars => CardHistoryInv'
<1> SUFFICES ASSUME CardHistoryInv, [Next]_vars PROVE CardHistoryInv'
  OBVIOUS
<1>1. CASE UNCHANGED vars
  BY <1>1, StutterKeeps
<1>2. CASE Done
  BY <1>2, StutterKeeps DEF Done
<1>3. ASSUME NEW c \in Calls, Handle(c) \/ CallDies(c) PROVE CardHistoryInv'
  <2>1. CASE ReadCard(c) \/ ReadVersion(c) \/ ReadQuestions(c) \/ Send(c)
    BY <2>1, ReadCardKeeps, ReadVersionKeeps, ReadQuestionsKeeps, SendKeeps
  <2>2. CASE Save(c) \/ Launch(c) \/ Restore(c) \/ DirectDelete(c)
    BY <2>2, SaveKeeps, LaunchKeeps, RestoreKeeps, DirectDeleteKeeps
  <2>3. CASE ArchiveLocks(c) \/ DeleteLocks(c)
    BY <2>3, TakesTheCard
  <2>4. CASE ArchiveDecides(c) \/ DeleteDecides(c) \/ CallDies(c)
    BY <2>4, ArchiveDecidesKeeps, DeleteDecidesKeeps, CallDiesKeeps
  <2> QED BY <1>3, <2>1, <2>2, <2>3, <2>4 DEF Handle
<1>4. ASSUME NEW c \in Calls, NEW s \in DOMAIN sessions, RowLocked(c, s)
      PROVE  CardHistoryInv'
  BY <1>4, RowsAreLocked DEF RowLocked
<1>5. ASSUME NEW s \in DOMAIN sessions, GameLocks(s) \/ GameMoves(s)
      PROVE  CardHistoryInv'
  BY <1>5, RowsAreLocked, GameMovesKeeps DEF GameLocks
<1> QED BY <1>1, <1>2, <1>3, <1>4, <1>5 DEF Next

\* The history of a card is sound in every reachable state.
THEOREM CardHistoryIsSound == Spec => []CardHistoryInv
BY CardHistoryStarts, CardHistoryStep, PTL DEF Spec
-----------------------------------------------------------------------------
(* The versions are sound.                                                  *)

\* The ids of a form whose revision holds are those of the content it changes.
LEMMA NoForeignId ==
  ASSUME CardHistoryInv, ShownIdsAreAccepted, [Next]_vars
  PROVE  ShownIdsAreAccepted'
<1> USE DEF CardHistoryInv
<1>1. ASSUME NEW c \in Calls, NEW pc, pc # "foreign_id", Goto(c, pc)
      PROVE  ShownIdsAreAccepted'
  BY <1>1, GotoMoves DEF ShownIdsAreAccepted, OnlyMoves
<1>2. ASSUME call' = call PROVE ShownIdsAreAccepted'
  BY <1>2 DEF ShownIdsAreAccepted
<1>3. ASSUME NEW c \in Calls, OnlyMoves(c), call'[c].pc # "foreign_id"
      PROVE  ShownIdsAreAccepted'
  BY <1>3 DEF ShownIdsAreAccepted, OnlyMoves
<1>4. ASSUME NEW c \in Calls, Handle(c) PROVE ShownIdsAreAccepted'
  <2>1. call = [d \in Calls |-> call[d]] /\ Whole(call[c])
    BY DEF CallsInv
  <2>2. CASE ReadCard(c)
    <3>1. CASE Goto(c, "not_found")
      BY <3>1, <1>1
    <3>2. CASE call' = [call EXCEPT ![c].pc = "card",
                          ![c].seen.revision = quiz.content_revision]
      <4>1. OnlyMoves(c) /\ call'[c].pc = "card"
        BY <2>1, <3>2 DEF OnlyMoves, Whole
      <4> QED BY <1>3, <4>1
    <3> QED BY <2>2, <3>1, <3>2 DEF ReadCard
  <2>3. CASE ReadVersion(c)
    <3>1. CASE Goto(c, "gone")
      BY <3>1, <1>1
    <3> DEFINE num == Effective
               con == versions[Effective].content
    <3>2. CASE call' = [call EXCEPT ![c].pc = "version",
                          ![c].seen = [@ EXCEPT !.number = num, !.content = con]]
      <4> HIDE DEF num, con
      <4>1. OnlyMoves(c) /\ call'[c].pc = "version"
        BY <2>1, <3>2 DEF OnlyMoves, Whole
      <4> QED BY <1>3, <4>1
    <3> QED BY <2>3, <3>1, <3>2 DEF ReadVersion
  <2>4. CASE ReadQuestions(c)
    <3>1. CASE Goto(c, "gone")
      BY <3>1, <1>1
    <3> DEFINE que == versions[call[c].seen.number].content.questions
    <3>2. CASE call' = [call EXCEPT ![c].pc = "seen", ![c].seen.content.questions = que]
      <4> HIDE DEF que
      <4>1. OnlyMoves(c) /\ call'[c].pc = "seen"
        BY <2>1, <3>2 DEF OnlyMoves, Whole
      <4> QED BY <1>3, <4>1
    <3> QED BY <2>4, <3>1, <3>2 DEF ReadQuestions
  <2>5. CASE Send(c)
    <3>1. PICK changes :
            call' = [call EXCEPT ![c].pc = "waiting", ![c].changes = changes]
      BY <2>5 DEF Send
    <3>2. OnlyMoves(c) /\ call'[c].pc = "waiting"
      BY <2>1, <3>1 DEF OnlyMoves, Whole
    <3> QED BY <1>3, <3>2
  <2>6. CASE Save(c)
    <3>1. ASSUME quiz.exists, ~RevisionConflict(c)
          PROVE  IdsBelong(versions[Effective].content, call[c].changes)
      <4>1. SeenIsTrue(c) /\ call[c].pc = "waiting"
        BY <2>6 DEF Save, SeenInv
      <4> QED BY <3>1, <4>1 DEF SeenIsTrue, RevisionConflict
    <3>2. \E pc \in {"not_found", "archived", "conflict", "invalid", "unchanged", "done"} :
            Goto(c, pc)
      BY <2>6, <3>1 DEF Save, Refuse
    <3> QED BY <1>1, <3>2
  <2>7. CASE \/ Launch(c) \/ Restore(c) \/ DirectDelete(c)
             \/ ArchiveLocks(c) \/ ArchiveDecides(c)
             \/ DeleteLocks(c) \/ DeleteDecides(c)
    <3>1. \E pc \in {"not_found", "archived", "invalid", "unchanged", "conflict",
                     "locking", "done"} : Goto(c, pc)
      BY <2>7 DEF Launch, Restore, DirectDelete, ArchiveLocks, ArchiveDecides,
                  DeleteLocks, DeleteDecides, Refuse
    <3> QED BY <1>1, <3>1
  <2> QED BY <1>4, <2>2, <2>3, <2>4, <2>5, <2>6, <2>7 DEF Handle
<1>5. ASSUME NEW c \in Calls, CallDies(c) PROVE ShownIdsAreAccepted'
  BY <1>1, <1>5 DEF CallDies
<1>6. CASE UNCHANGED vars \/ Done
  BY <1>2, <1>6 DEF Done, vars
<1>7. ASSUME NEW s \in DOMAIN sessions,
             GameLocks(s) \/ GameMoves(s) \/ \E c \in Calls : RowLocked(c, s)
      PROVE  ShownIdsAreAccepted'
  BY <1>2, <1>7 DEF GameLocks, GameMoves, RowLocked
<1> QED BY <1>4, <1>5, <1>6, <1>7 DEF Next

\* VersionsAreSound says no more than the history and the ids.
LEMMA HistoryIsSoundness ==
  ASSUME CardHistoryInv, ShownIdsAreAccepted
  PROVE  VersionsAreSound
<1> USE DEF CardHistoryInv
<1>1. Numbers = 1..Cardinality(Numbers)
  <2>1. PICK k \in Nat : Numbers = 1..k
    BY DEF CardInv
  <2>2. Cardinality(1..k) = k
    BY FS_Interval
  <2> QED BY <2>1, <2>2
<1>2. TypeOK
  BY <1>1 DEF TypeOK, CardInv, VersionsInv, RowInv, SessionsInv, LocksInv, Statuses
<1>3. OnlyTheNewestIsADraft
  BY DEF CardInv
<1>4. SessionsPlayFixedVersions
  BY DEF SessionsPlayFixedVersions, SessionsInv, VersionsInv
<1> QED BY <1>2, <1>3, <1>4 DEF VersionsAreSound

\* The versions of a card are sound under every order of the requests
\* (quiz/services.py:326-349, 407-417, session/services.py:47-68).
THEOREM VersionsStaySound == Spec => []VersionsAreSound
<1>1. Init => ShownIdsAreAccepted
  BY DEF Init, ShownIdsAreAccepted
<1> QED BY <1>1, CardHistoryIsSound, NoForeignId, HistoryIsSoundness, PTL DEF Spec

\* A save that is accepted changes exactly what its editor was shown, although
\* the form was read by several statements (quiz/services.py:326-349).
THEOREM NoUpdateIsLost == Spec => NoLostUpdate
<1>1. ASSUME CardHistoryInv, NEW c \in Calls, Save(c), call'[c].pc = "done"
      PROVE  versions[Effective].content = call[c].seen.content
  <2>1. SeenIsTrue(c) /\ call[c].pc = "waiting"
    BY <1>1 DEF Save, CardHistoryInv, SeenInv
  <2>2. ASSUME NEW why, Refuse(c, why), why # "done" PROVE FALSE
    BY <1>1, <2>2, GotoMoves DEF Refuse, CardHistoryInv
  <2>3. quiz.exists /\ ~RevisionConflict(c)
    BY <1>1, <2>2 DEF Save
  <2> QED BY <2>1, <2>3 DEF SeenIsTrue, RevisionConflict
<1>2. CardHistoryInv /\ [Next]_vars =>
        [\A c \in Calls : Save(c) /\ call'[c].pc = "done" =>
           versions[Effective].content = call[c].seen.content]_vars
  BY <1>1
<1> QED BY <1>2, CardHistoryIsSound, PTL DEF Spec, NoLostUpdate
-----------------------------------------------------------------------------
(* Implementation of the card.                                              *)

\* What the card of QuizCard is here.
Shown == IF quiz.exists THEN Content(Effective) ELSE Null
Played == [s \in DOMAIN sessions |-> Content(sessions[s].version)]
Open == {s \in DOMAIN sessions : sessions[s].status \in {"waiting", "live"}}

\* A step that changes neither the card nor what is played is a stutter.
LEMMA CardStutters ==
  ASSUME versions' = versions, sessions' = sessions,
         quiz'.exists = quiz.exists, quiz'.archived = quiz.archived
  PROVE  UNCHANGED Card!vars
<1>1. Numbers' = Numbers /\ Effective' = Effective
  BY DEF Numbers, Effective
<1>2. Shown' = Shown
  BY <1>1 DEF Shown, Content
<1>3. Played' = Played /\ Open' = Open
  BY DEF Played, Open, Content
<1> QED BY <1>2, <1>3 DEF Card!vars, Shown, Played, Open

\* A created card was never played.
LEMMA CardStarts == Init => Card!Init
<1> SUFFICES ASSUME Init PROVE Card!Init
  OBVIOUS
<1>1. quiz.exists /\ ~quiz.archived /\ DOMAIN sessions = {}
  BY DEF Init
<1>2. Played = [s \in {} |-> Shown] /\ Open = {}
  BY <1>1 DEF Played, Open
<1>3. Open = {} /\ quiz.exists = TRUE /\ quiz.archived = FALSE
  BY <1>2 DEF Init
<1> QED BY <1>2, <1>3 DEF Card!Init, Shown, Played, Open

\* A save that is accepted is an Edit: what was played stays.
LEMMA SaveIsEdit ==
  ASSUME CardHistoryInv, NEW c \in Calls, Save(c)
  PROVE  [Card!Next]_Card!vars
<1>1. CASE \E why : Refuse(c, why)
  BY <1>1, CardStutters DEF Refuse
<1>2. CASE /\ quiz.exists /\ ~quiz.archived
           /\ \E content : Keep(content)
           /\ quiz' = [quiz EXCEPT !.content_revision = @ + 1]
           /\ sessions' = sessions
  <2>1. Fixed' = Fixed /\ \A n \in Fixed : versions'[n] = versions[n]
    BY <1>2, KeepKeeps DEF CardHistoryInv
  <2>2. \A s \in DOMAIN sessions : sessions[s].version \in Fixed
    BY DEF CardHistoryInv, SessionsInv
  <2>3. Played' = Played /\ Open' = Open
    BY <1>2, <2>1, <2>2 DEF Played, Open, Content
  <2>4. quiz'.exists = quiz.exists /\ quiz'.archived = quiz.archived
    BY <1>2 DEF CardHistoryInv, CardInv
  <2>5. Card!Edit
    BY <1>2, <2>3, <2>4 DEF Card!Edit, Played, Open
  <2> QED BY <2>5 DEF Card!Next
<1> QED BY <1>1, <1>2 DEF Save

\* An opened session plays what the card shows.
LEMMA LaunchIsOpen ==
  ASSUME CardHistoryInv, NEW c \in Calls, Launch(c)
  PROVE  [Card!Next]_Card!vars
<1>1. CASE \E why : Refuse(c, why)
  BY <1>1, CardStutters DEF Refuse
<1>2. CASE Opens(c)
  <2>1. quiz_lock = Null /\ call[c].pc = "idle"
    BY DEF Launch
  <2>2. /\ CardShowsTheSame
        /\ \A m \in Numbers : versions'[m].content = versions[m].content
        /\ DOMAIN sessions' = DOMAIN sessions \cup {c}
        /\ sessions'[c] = [version |-> Selected, status |-> "waiting"]
        /\ \A s \in DOMAIN sessions \ {c} : sessions'[s] = sessions[s]
    BY <1>2, <2>1, OpensKeeps
  <2>3. c \notin DOMAIN sessions
    BY <2>1 DEF CardHistoryInv, SessionsInv
  <2>4. Content(Selected) = Content(Effective) /\ Selected \in Numbers
    BY <1>2, SelectedIs DEF Opens, CardHistoryInv
  <2>5. \A s \in DOMAIN sessions : sessions[s].version \in Numbers
    BY DEF CardHistoryInv, SessionsInv, Fixed
  <2>6. Shown = Content(Effective) /\ Shown' = Shown
    BY <1>2, <2>2 DEF Opens, Shown, Content, CardShowsTheSame
  <2>7. Content(sessions[c].version)' = Shown
    BY <2>2, <2>4, <2>6 DEF Content
  <2>8. \A s \in DOMAIN sessions :
          Content(sessions[s].version)' = Content(sessions[s].version)
    BY <2>2, <2>3, <2>5 DEF Content
  <2>9. Played' = [t \in DOMAIN Played \cup {c} |-> IF t = c THEN Shown ELSE Played[t]]
    <3> DEFINE C(s) == Content(sessions[s].version)
    <3>1. /\ Played' = [t \in DOMAIN sessions' |-> C(t)'] /\ C(c)' = Shown
          /\ \A t \in DOMAIN sessions : C(t)' = C(t)
      BY <2>7, <2>8 DEF Played
    <3>2. DOMAIN Played = DOMAIN sessions /\ \A t \in DOMAIN sessions : Played[t] = C(t)
      BY DEF Played
    <3> HIDE DEF C
    <3> QED BY <2>2, <2>3, <3>1, <3>2
  <2>10. Open' = Open \cup {c}
    BY <2>2, <2>3 DEF Open
  <2>11. c \notin DOMAIN Played
    BY <2>3 DEF Played
  <2>12. quiz' = quiz /\ quiz.exists /\ ~quiz.archived
    BY <1>2 DEF Opens
  <2>13. Card!Open(c)
    BY <2>6, <2>9, <2>10, <2>11, <2>12 DEF Card!Open, Shown, Played, Open
  <2> QED BY <2>13 DEF Card!Next
<1> QED BY <1>1, <1>2 DEF Launch, Selected, Opens

\* The archive takes a card without open sessions, which stays as it was seen.
LEMMA ArchiveDecidesIsArchive ==
  ASSUME CardHistoryInv, NEW c \in Calls, ArchiveDecides(c)
  PROVE  [Card!Next]_Card!vars
<1>1. /\ call[c].pc = "locking" /\ KindOf(c) = "archive"
      /\ quiz' = [quiz EXCEPT !.archived = (OpenSessions = {})]
      /\ UNCHANGED <<versions, sessions>>
  BY DEF ArchiveDecides
<1>2. quiz.exists /\ ~quiz.archived /\ quiz.archived \in BOOLEAN
  BY <1>1 DEF CardHistoryInv, LocksInv, CardInv
<1>3. quiz'.exists = quiz.exists /\ quiz'.archived = (OpenSessions = {})
  BY <1>1 DEF CardHistoryInv, CardInv
<1>4. Open = OpenSessions
  BY DEF Open, OpenSessions, OpenStatuses
<1>5. CASE OpenSessions = {}
  <2>1. Shown' = Shown /\ Played' = Played /\ Open' = Open
    BY <1>1, <1>3 DEF Shown, Played, Open, Content, Effective, Numbers
  <2>2. Card!Archive
    BY <1>2, <1>3, <1>4, <1>5, <2>1 DEF Card!Archive, Shown, Played, Open
  <2> QED BY <2>2 DEF Card!Next
<1>6. CASE OpenSessions # {}
  <2>1. quiz'.archived = quiz.archived
    BY <1>2, <1>3, <1>6
  <2> QED BY <1>1, <1>3, <2>1, CardStutters
<1> QED BY <1>5, <1>6

\* Restore takes an archived card back, or finds nothing to do.
LEMMA RestoreIsRestore ==
  ASSUME CardHistoryInv, NEW c \in Calls, Restore(c)
  PROVE  [Card!Next]_Card!vars
<1>1. CASE \E why : Refuse(c, why)
  BY <1>1, CardStutters DEF Refuse
<1>2. CASE /\ quiz.exists /\ quiz' = [quiz EXCEPT !.archived = FALSE]
           /\ UNCHANGED <<versions, sessions>>
  <2>1. quiz'.exists = quiz.exists /\ ~quiz'.archived /\ quiz.archived \in BOOLEAN
        /\ quiz'.archived = FALSE
    BY <1>2 DEF CardHistoryInv, CardInv
  <2>2. Shown' = Shown /\ Played' = Played /\ Open' = Open
    BY <1>2, <2>1 DEF Shown, Played, Open, Content, Effective, Numbers
  <2>3. CASE quiz.archived
    <3>1. Card!Restore
      BY <1>2, <2>1, <2>2, <2>3 DEF Card!Restore, Shown, Played, Open
    <3> QED BY <3>1 DEF Card!Next
  <2>4. CASE ~quiz.archived
    BY <1>2, <2>1, <2>4, CardStutters
  <2> QED BY <2>3, <2>4
<1> QED BY <1>1, <1>2 DEF Restore

\* Only a card that was never played is deleted.
LEMMA GoneIsDelete ==
  ASSUME CardHistoryInv, quiz.exists, Gone, DOMAIN sessions = {}, sessions' = sessions
  PROVE  Card!Next
<1>1. quiz'.exists = FALSE /\ quiz'.archived = quiz.archived
  BY DEF Gone, CardHistoryInv, CardInv
<1>2. Played' = Played /\ Open' = Open /\ DOMAIN Played = {}
  BY DEF Played, Open
<1>3. Card!Delete
  BY <1>1, <1>2 DEF Card!Delete, Played, Open
<1> QED BY <1>3 DEF Card!Next

\* DirectDelete, DeleteDecides
LEMMA DeletionIsDelete ==
  ASSUME CardHistoryInv, NEW c \in Calls, DirectDelete(c) \/ DeleteDecides(c)
  PROVE  [Card!Next]_Card!vars
<1>1. CASE UNCHANGED <<quiz, versions, sessions>>
  BY <1>1, CardStutters
<1>2. CASE quiz.exists /\ Gone /\ DOMAIN sessions = {} /\ sessions' = sessions
  BY <1>2, GoneIsDelete
<1>3. DeleteDecides(c) => quiz.exists
  BY DEF DeleteDecides, CardHistoryInv, LocksInv
<1> QED BY <1>1, <1>2, <1>3 DEF DirectDelete, DeleteDecides, Refuse

\* A game closes its session, or leaves it open or closed as it was.
LEMMA GameMovesIsClose ==
  ASSUME CardHistoryInv, NEW s \in DOMAIN sessions, GameMoves(s)
  PROVE  [Card!Next]_Card!vars
<1>1. /\ DOMAIN sessions' = DOMAIN sessions
      /\ sessions'[s].status \in NextStatuses(sessions[s].status)
      /\ sessions'[s].version = sessions[s].version
      /\ \A t \in DOMAIN sessions \ {s} : sessions'[t] = sessions[t]
  BY GameMovesKeeps
<1>2. UNCHANGED <<quiz, versions>>
  BY DEF GameMoves
<1>3. Shown' = Shown
  BY <1>2 DEF Shown, Content, Effective, Numbers
<1>4. Played' = Played
  BY <1>1, <1>2 DEF Played, Content
<1>5. s \in Open' => s \in Open
  BY <1>1 DEF Open, NextStatuses, CardHistoryInv, SessionsInv, Statuses
<1>6. \A t \in DOMAIN sessions \ {s} : t \in Open' <=> t \in Open
  BY <1>1 DEF Open
<1>7. CASE s \in Open /\ s \notin Open'
  <2>1. Open' = Open \ {s}
    BY <1>1, <1>6, <1>7 DEF Open
  <2>2. Card!Close(s)
    BY <1>2, <1>3, <1>4, <1>7, <2>1 DEF Card!Close, Shown, Played, Open
  <2>3. s \in Calls
    BY DEF CardHistoryInv, SessionsInv
  <2> QED BY <2>2, <2>3 DEF Card!Next
<1>8. CASE ~(s \in Open /\ s \notin Open')
  <2>1. Open' = Open
    BY <1>1, <1>5, <1>6, <1>8 DEF Open
  <2> QED BY <1>2, <1>3, <1>4, <2>1 DEF Card!vars, Shown, Played, Open
<1> QED BY <1>7, <1>8

\* Every step of the requests and the games is a step of the card, or none.
LEMMA CardStep == CardHistoryInv /\ [Next]_vars => [Card!Next]_Card!vars
<1> SUFFICES ASSUME CardHistoryInv, [Next]_vars PROVE [Card!Next]_Card!vars
  OBVIOUS
<1>1. CASE UNCHANGED <<quiz, versions, sessions>>
  BY <1>1, CardStutters
<1>2. ASSUME NEW c \in Calls, Handle(c) \/ CallDies(c) PROVE [Card!Next]_Card!vars
  <2>1. CASE \/ ReadCard(c) \/ ReadVersion(c) \/ ReadQuestions(c) \/ Send(c)
             \/ ArchiveLocks(c) \/ DeleteLocks(c) \/ CallDies(c)
    BY <1>1, <2>1 DEF ReadCard, ReadVersion, ReadQuestions, Send, ArchiveLocks,
                      DeleteLocks, CallDies, Refuse
  <2> QED BY <1>2, <2>1, SaveIsEdit, LaunchIsOpen, RestoreIsRestore, DeletionIsDelete,
             ArchiveDecidesIsArchive DEF Handle
<1>3. ASSUME NEW c \in Calls, NEW s \in DOMAIN sessions, RowLocked(c, s)
      PROVE  [Card!Next]_Card!vars
  BY <1>1, <1>3 DEF RowLocked
<1>4. ASSUME NEW s \in DOMAIN sessions, GameLocks(s) \/ GameMoves(s)
      PROVE  [Card!Next]_Card!vars
  BY <1>1, <1>4, GameMovesIsClose DEF GameLocks
<1>5. CASE UNCHANGED vars \/ Done
  BY <1>1, <1>5 DEF vars, Done
<1> QED BY <1>2, <1>3, <1>4, <1>5 DEF Next

\* Under every order of the requests a session plays for ever what the card showed
\* when it was opened, an archived card has no open session, and a card that was
\* played is not deleted (session/services.py:38-69, quiz/services.py:314-417).
THEOREM CardIsImplemented == Spec => ImplementsCard
BY CardStarts, CardStep, CardHistoryIsSound, PTL DEF Spec, ImplementsCard, Card!Spec
=============================================================================
