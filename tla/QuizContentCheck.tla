--------------------------- MODULE QuizContentCheck ---------------------------
(***************************************************************************)
(* The loop that writes a content into the rows of the draft               *)
(* (_update_draft_graph) against the operators of QuizContent, for many    *)
(* requests at once: a behaviour takes one request, validates and merges   *)
(* it and writes it statement by statement.  Nobody else writes the draft  *)
(* meanwhile: the transaction holds the card (QuizVersioning).             *)
(***************************************************************************)
EXTENDS QuizContent, FiniteSets

VARIABLES
  base,      \* the content of the draft before the request
  request,   \* the keys that were sent
  partial,   \* the verb is PATCH
  version,   \* the QuizVersion row
  rows,      \* the Question rows of the draft
  choices,   \* the Choice rows, each with its question
  position,  \* the question the outer loop is at
  item,      \* the choice the inner loop is at, 0 before it
  retained   \* retained_questions and retained_choices

vars == <<base, request, partial, version, rows, choices, position, item, retained>>

Seqs == INSTANCE SequencesExt

Choice(text, is_correct) == [text |-> text, is_correct |-> is_correct]
TwoChoices == << Choice("yes", TRUE), Choice("no", FALSE) >>
Question(text) == [text |-> text, time_limit_sec |-> 30, choices |-> TwoChoices]

\* The draft has two questions; its rows were written by revision 1.
Draft == Stored([title |-> "quiz", reading_time_sec |-> 15,
                 questions |-> << Question("first"), Question("second") >>], 1)

\* bound: a request names at most two questions and two choices of each.  An
\* entry has the id of a row or none, and any keys beside it.
ChoiceEntries(question) ==
  {[text |-> "new", is_correct |-> TRUE], [text |-> "new"]}
    \cup UNION {{named, named @@ [text |-> "same"],
                 named @@ Choice("same", TRUE)}
               : named \in {[id |-> question.choices[j].id] : j \in 1..2}}
ChoiceLists(question) == {<<a, b>> : a, b \in ChoiceEntries(question)}

Entries ==
  UNION {{[id |-> q.id], [id |-> q.id, text |-> "renamed"],
          [id |-> q.id, text |-> "renamed", time_limit_sec |-> 40]}
           \cup {[id |-> q.id, choices |-> list] : list \in ChoiceLists(q)}
           \cup {[id |-> q.id, text |-> "renamed", choices |-> list]
                 : list \in ChoiceLists(q)}
         : q \in {Draft.questions[1], Draft.questions[2]}}
    \cup {[text |-> "new", choices |-> TwoChoices], [text |-> "new"]}

\* Entries the merged content of which can be valid: of the choices one is correct.
Fitting(whole) ==
  {e \in Entries :
     LET merged == MergeContent(Draft, Validated([questions |-> <<e>>], ~whole)) IN
     /\ whole => Complete([questions |-> <<e>>])
     /\ IdsBelong(Draft, [questions |-> <<e>>])
     /\ Valid(merged)}

Requests(whole) ==
  LET entries == Fitting(whole) IN
  {[title |-> "other"]}
    \cup {[questions |-> <<a>>] : a \in entries}
    \cup {[questions |-> <<a, b>>] : a, b \in entries}

Changes == Validated(request, partial)
Content == MergeContent(base, Changes)
Tag == 2

RowsOf(content) ==
  {[id |-> content.questions[i].id, order |-> i, text |-> content.questions[i].text,
    time_limit_sec |-> content.questions[i].time_limit_sec]
   : i \in DOMAIN content.questions}

ChoicesOf(content, i) ==
  LET list == content.questions[i].choices IN
  {[id |-> list[j].id, order |-> j, question |-> content.questions[i].id,
    text |-> list[j].text, is_correct |-> list[j].is_correct] : j \in DOMAIN list}

Init ==
  /\ base = Draft
  /\ partial \in BOOLEAN
  /\ request \in {r \in Requests(~partial) :
                  IdsBelong(Draft, r) /\ Valid(MergeContent(Draft, Validated(r, partial)))}
  /\ version = [title |-> Draft.title, reading_time_sec |-> Draft.reading_time_sec]
  /\ rows = RowsOf(Draft)
  /\ choices = UNION {ChoicesOf(Draft, i) : i \in DOMAIN Draft.questions}
  /\ position = 0
  /\ item = 0
  /\ retained = {}

Data == Content.questions[position]
QuestionId == Get(Data, "id", <<Tag, position>>)
ChoiceId == Get(Data.choices[item], "id", <<Tag, position, item>>)

InLoop == position \in DOMAIN Content.questions

\* The fields of the version are saved first.
SaveVersion ==
  /\ position = 0
  /\ version' = [title |-> Content.title, reading_time_sec |-> Content.reading_time_sec]
  /\ position' = 1
  /\ UNCHANGED <<base, request, partial, rows, choices, item, retained>>

\* The row of the question is found by its id or inserted.
SaveQuestion ==
  /\ InLoop /\ item = 0
  /\ rows' = {r \in rows : r.id # QuestionId}
               \cup {[id |-> QuestionId, order |-> position, text |-> Data.text,
                      time_limit_sec |-> Data.time_limit_sec]}
  /\ retained' = retained \cup {QuestionId}
  /\ item' = 1
  /\ UNCHANGED <<base, request, partial, version, choices, position>>

\* One choice of it is updated or inserted.
SaveChoice ==
  /\ InLoop /\ item \in DOMAIN Data.choices
  /\ choices' = {c \in choices : c.id # ChoiceId}
                  \cup {[id |-> ChoiceId, order |-> item, question |-> QuestionId,
                         text |-> Data.choices[item].text,
                         is_correct |-> Data.choices[item].is_correct]}
  /\ retained' = retained \cup {ChoiceId}
  /\ item' = item + 1
  /\ UNCHANGED <<base, request, partial, version, rows, position>>

\* The choices of this question that were not among them are deleted.
DeleteChoices_Bug ==
  /\ InLoop /\ item = Len(Data.choices) + 1
  /\ position' = position + 1
  /\ item' = 0
  /\ UNCHANGED <<base, request, partial, version, rows, choices, retained>>
DeleteChoices ==
  /\ InLoop /\ item = Len(Data.choices) + 1
  /\ choices' = {c \in choices : c.question = QuestionId => c.id \in retained}
  /\ position' = position + 1
  /\ item' = 0
  /\ UNCHANGED <<base, request, partial, version, rows, retained>>

\* Last, the other questions are deleted with their choices.
DeleteOthers ==
  /\ position = Len(Content.questions) + 1
  /\ rows' = {r \in rows : r.id \in retained}
  /\ choices' = {c \in choices : c.question \in retained}
  /\ position' = position + 1
  /\ UNCHANGED <<base, request, partial, version, item, retained>>

Written == position = Len(Content.questions) + 2

Next ==
  \/ SaveVersion \/ SaveQuestion \/ SaveChoice \/ DeleteChoices \/ DeleteOthers
  \/ Written /\ UNCHANGED vars
Spec == Init /\ [][Next]_vars
-----------------------------------------------------------------------------
\* The rows as version_data reads them, by order and id.
ByOrder(S) == Seqs!SetToSortSeq(S, LAMBDA r, s : r.order < s.order)
Bare(row) == [f \in DOMAIN row \ {"order", "question"} |-> row[f]]
VersionQuestions ==
  LET list == ByOrder(rows) IN
  [i \in DOMAIN list |->
     LET own == ByOrder({c \in choices : c.question = list[i].id}) IN
     [choices |-> [j \in DOMAIN own |-> Bare(own[j])]] @@ Bare(list[i])]

\* What the statements leave in the rows is read back as exactly the merged
\* content: no row of a removed question or choice stays, no order is taken
\* twice, no choice is without its question, and a row that was named keeps its
\* id (services.py:249-289).
RowsHoldTheContent ==
  Written =>
    /\ version = [title |-> Content.title, reading_time_sec |-> Content.reading_time_sec]
    /\ VersionQuestions = Stored(Content, Tag).questions
    /\ \A r, s \in rows : r.order = s.order => r = s
    /\ \A c, d \in choices : c.question = d.question /\ c.order = d.order => c = d
    /\ \A c \in choices : \E r \in rows : r.id = c.question

\* A repeat of the request on what it left is recognised as no change, so it
\* makes no revision of its own (services.py:148-220, 339).
RepeatIsNoChange ==
  LET stored == [Content EXCEPT !.questions = Stored(Content, Tag).questions] IN
  Written /\ IdsBelong(stored, Changes) =>
    Canonical(MergeContent(stored, Changes)) = Canonical(Content)

\* The value a field has after the request: what was sent, else, in a whole
\* request, the default of the serializer if the field has one, else what the
\* row with that id held.
Meant(source, old, field, defaults) ==
  IF field \in DOMAIN source THEN source[field]
  ELSE IF ~partial /\ field \in DOMAIN defaults THEN defaults[field]
  ELSE old[field]

\* Whatever position an entry moved to, a PATCH changes only the keys it has; a
\* PUT without time_limit_sec or is_correct resets them to 20 and to False, in
\* the rows of its entries only; a list of choices that was not sent stays in
\* either, with its marks (serializers.py:11-24, services.py:183-218).
FieldsAreMeant ==
  Written /\ "questions" \in DOMAIN request =>
    \A i \in DOMAIN request.questions : \A q \in DOMAIN base.questions :
      LET source == request.questions[i]
          old == base.questions[q]
          new == VersionQuestions[i]
      IN Get(source, "id", Blank) = old.id =>
           /\ \A f \in {"id", "text", "time_limit_sec"} :
                new[f] = Meant(source, old, f, [time_limit_sec |-> 20])
           /\ "choices" \notin DOMAIN source => new.choices = old.choices
           /\ \A j \in DOMAIN Get(source, "choices", <<>>) : \A k \in DOMAIN old.choices :
                Get(source.choices[j], "id", Blank) = old.choices[k].id =>
                  \A f \in {"id", "text", "is_correct"} :
                    new.choices[j][f] = Meant(source.choices[j], old.choices[k], f,
                                              [is_correct |-> FALSE])
=============================================================================
