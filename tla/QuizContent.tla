----------------------------- MODULE QuizContent -----------------------------
(***************************************************************************)
(* The content of a quiz version: what an editor's changes make of it,     *)
(* when it is valid and when two contents are the same                     *)
(* (backend/apps/quiz/services.py, serializers.py, validation.py).         *)
(*                                                                         *)
(* A dictionary is a record whose DOMAIN holds the keys that were sent, so *)
(* {**old, **source} is source @@ old.  A list is a sequence; the field    *)
(* "order", always the position plus one, is the position.  title stands   *)
(* for the text fields and the two flags, reading_time_sec for the two     *)
(* times.  Blank is a text that strip() empties.                           *)
(***************************************************************************)
EXTENDS Integers, Sequences, TLC

CONSTANT Blank

NoFields == [f \in {} |-> f]

Get(r, field, default) == IF field \in DOMAIN r THEN r[field] ELSE default

\* The entry of items that source names by its id, if any.
Old(items, source) ==
  LET named == {i \in DOMAIN items : "id" \in DOMAIN source /\ items[i].id = source.id}
  IN IF named = {} THEN NoFields ELSE items[CHOOSE i \in named : TRUE]

\* Every id that sources name is the id of one of items and is named once.
NamesOnce(items, sources) ==
  \A i \in DOMAIN sources : "id" \in DOMAIN sources[i] =>
    /\ \E k \in DOMAIN items : items[k].id = sources[i].id
    /\ \A j \in 1..i - 1 : Get(sources[j], "id", Blank) # sources[i].id

IdsBelong(base, changes) ==
  LET sources == Get(changes, "questions", <<>>) IN
  /\ NamesOnce(base.questions, sources)
  /\ \A i \in DOMAIN sources :
       NamesOnce(Get(Old(base.questions, sources[i]), "choices", <<>>),
                 Get(sources[i], "choices", <<>>))

MergedChoices(old, sources) ==
  [j \in DOMAIN sources |->
     sources[j] @@ Old(old, sources[j]) @@ [is_correct |-> FALSE]]

MergedQuestion_Bug(old, source) ==
  LET old_choices == Get(old, "choices", <<>>)
      choices == IF "choices" \in DOMAIN source
                   THEN MergedChoices(old_choices, source.choices)
                   ELSE old_choices
  IN [choices |-> choices] @@ source @@ [time_limit_sec |-> 20] @@ old
MergedQuestion_Adds_Bug(old, source) ==
  LET old_choices == Get(old, "choices", <<>>)
      added == SelectSeq(MergedChoices(old_choices, Get(source, "choices", <<>>)),
                         LAMBDA choice : "id" \notin DOMAIN choice)
  IN [choices |-> old_choices \o added] @@ source @@ old @@ [time_limit_sec |-> 20]
MergedQuestion(old, source) ==
  LET old_choices == Get(old, "choices", <<>>)
      choices == IF "choices" \in DOMAIN source
                   THEN MergedChoices(old_choices, source.choices)
                   ELSE old_choices
  IN [choices |-> choices] @@ source @@ old @@ [time_limit_sec |-> 20]

\* A request is validated before it is merged.  A whole one (PUT, the verb of the
\* client, and POST) must give every text and gets the defaults of the fields
\* it leaves out; a partial one (PATCH) stays as it was sent.
Complete(request) ==
  \A i \in DOMAIN Get(request, "questions", <<>>) :
    LET question == request.questions[i] IN
    /\ "text" \in DOMAIN question
    /\ \A j \in DOMAIN Get(question, "choices", <<>>) :
         "text" \in DOMAIN question.choices[j]

Filled(question) ==
  LET choices == Get(question, "choices", <<>>) IN
  [f \in DOMAIN question \cap {"choices"} |->
     [j \in DOMAIN choices |-> choices[j] @@ [is_correct |-> FALSE]]]
    @@ question @@ [time_limit_sec |-> 20]

Validated_Bug(request, partial) ==
  IF "questions" \in DOMAIN request
    THEN [request EXCEPT !.questions = [i \in DOMAIN @ |-> Filled(@[i])]]
    ELSE request
Validated(request, partial) ==
  IF ~partial /\ "questions" \in DOMAIN request
    THEN [request EXCEPT !.questions = [i \in DOMAIN @ |-> Filled(@[i])]]
    ELSE request

Defaults == [title |-> Blank, reading_time_sec |-> 15, questions |-> <<>>]

MergeContent(base, changes) ==
  LET sources == Get(changes, "questions", <<>>)
      questions == IF "questions" \in DOMAIN changes
                     THEN [i \in DOMAIN sources |->
                             MergedQuestion(Old(base.questions, sources[i]), sources[i])]
                     ELSE base.questions
  IN [questions |-> questions] @@ changes @@ base @@ Defaults

ValidQuestion(question) ==
  LET choices == Get(question, "choices", <<>>) IN
  /\ Get(question, "text", Blank) # Blank
  /\ Get(question, "time_limit_sec", 20) \in 5..180
  /\ Len(choices) >= 2
  /\ \E j \in DOMAIN choices : \A k \in DOMAIN choices : choices[k].is_correct <=> k = j
  /\ \A j \in DOMAIN choices : Get(choices[j], "text", Blank) # Blank

Valid(content) ==
  /\ content.title # Blank
  /\ content.reading_time_sec \in 3..120
  /\ content.questions # <<>>
  /\ \A i \in DOMAIN content.questions : ValidQuestion(content.questions[i])

\* What is compared and played: the content without the ids of its rows.
Canonical(content) ==
  [title |-> content.title, reading_time_sec |-> content.reading_time_sec,
   questions |-> [i \in DOMAIN content.questions |->
     LET question == content.questions[i] IN
     [text |-> question.text, time_limit_sec |-> question.time_limit_sec,
      choices |-> [j \in DOMAIN question.choices |->
        [text |-> question.choices[j].text,
         is_correct |-> question.choices[j].is_correct]]]]]

\* New rows get ids nobody has used; tag is unique to the transaction.
Stored(content, tag) ==
  [content EXCEPT !.questions = [i \in DOMAIN @ |->
     [choices |-> [j \in DOMAIN @[i].choices |->
                     @[i].choices[j] @@ [id |-> <<tag, i, j>>]]]
       @@ @[i] @@ [id |-> <<tag, i>>]]]

Unstored(content) ==
  [content EXCEPT !.questions = Canonical(content).questions]

CreatedGraph(content, tag) == Stored(Unstored(content), tag)
=============================================================================
