------------------------------- MODULE QuizCard -------------------------------
(***************************************************************************)
(* What a quiz card promises: an editable content, sessions that play the  *)
(* content of the moment they were opened for ever, an archive without     *)
(* open sessions, and no deletion once it was played.                      *)
(***************************************************************************)
CONSTANT Sessions

VARIABLES
  current,   \* the content on the card
  deleted,
  archived,
  played,    \* opened sessions -> the content a session plays
  open       \* the sessions that wait or run

vars == <<current, deleted, archived, played, open>>

Init == /\ deleted = FALSE
        /\ archived = FALSE
        /\ played = [s \in {} |-> current]
        /\ open = {}

Edit == /\ ~archived /\ ~deleted
        /\ UNCHANGED <<deleted, archived, played, open>>

Open(s) == /\ ~archived /\ ~deleted /\ s \notin DOMAIN played
           /\ played' = [t \in DOMAIN played \cup {s} |->
                           IF t = s THEN current ELSE played[t]]
           /\ open' = open \cup {s}
           /\ UNCHANGED <<current, deleted, archived>>

Close(s) == /\ s \in open
            /\ open' = open \ {s}
            /\ UNCHANGED <<current, deleted, archived, played>>

Archive == /\ ~archived /\ ~deleted /\ open = {}
           /\ archived' = TRUE
           /\ UNCHANGED <<current, deleted, played, open>>

Restore == /\ archived /\ ~deleted
           /\ archived' = FALSE
           /\ UNCHANGED <<current, deleted, played, open>>

Delete == /\ ~deleted /\ DOMAIN played = {}
          /\ deleted' = TRUE
          /\ UNCHANGED <<archived, played, open>>

Next == \/ Edit \/ Archive \/ Restore \/ Delete
        \/ \E s \in Sessions : Open(s) \/ Close(s)

Spec == Init /\ [][Next]_vars
=============================================================================
