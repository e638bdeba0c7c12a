------------------------------ MODULE Admission ------------------------------
(***************************************************************************)
(* PINs, joining and returning (backend/apps/session/models.py,            *)
(* participation.py, access.py).                                           *)
(*                                                                         *)
(* A creation draws a PIN and inserts the session; the unique index on the *)
(* PINs of open sessions may refuse it, and the creation then looks, in    *)
(* another statement, whether a session with this PIN is open.             *)
(*                                                                         *)
(* A request to join finds its session without a lock; the rest of it is   *)
(* one action, as it holds the session row from its next statement on.     *)
(* A participation and its token are named by the request that made them.  *)
(***************************************************************************)
EXTENDS Naturals, FiniteSets

CONSTANTS
  Sessions, Pins,
  Calls,         \* bound: requests to join, each sent once
  PersonOf(_),   \* who sends a request
  Accounts,      \* the persons that are signed in; the others are guests
  MaxAttempts,   \* 20
  None

ASSUME AttemptsAssumption == MaxAttempts \in Nat \ {0}
ASSUME NoneAssumption == None \notin Pins /\ None \notin Calls

VARIABLES
  session,        \* session -> its row
  creation,       \* session -> progress of the request that creates it
  join,           \* request -> its progress
  participation,  \* requests that registered -> the session and the person
  known           \* person -> tokens that an answer brought

vars == <<session, creation, join, participation, known>>

Open == {s \in Sessions : session[s].status \in {"waiting", "live"}}
OpenWith(pin) == {s \in Open : session[s].pin = pin}
Tokens == DOMAIN participation

Init ==
  /\ session = [s \in Sessions |-> [status |-> "none", pin |-> None]]
  /\ creation = [s \in Sessions |-> [pc |-> "drawing", attempt |-> 1, pin |-> None]]
  /\ join = [c \in Calls |-> [pc |-> "idle", pin |-> None, target |-> None,
                              token |-> None, registered |-> FALSE, given |-> None]]
  /\ participation = [c \in {} |-> None]
  /\ known = [p \in {PersonOf(c) : c \in Calls} |-> {}]
-----------------------------------------------------------------------------
(* Creating a session.                                                      *)

Insert(s) ==
  /\ creation[s].pc = "drawing"
  /\ \E pin \in Pins :
       IF OpenWith(pin) = {}
       THEN /\ session' = [session EXCEPT ![s] = [status |-> "waiting", pin |-> pin]]
            /\ creation' = [creation EXCEPT ![s].pc = "created"]
       ELSE /\ creation' = [creation EXCEPT ![s] = [@ EXCEPT !.pc = "collided", !.pin = pin]]
            /\ UNCHANGED session
  /\ UNCHANGED <<join, participation, known>>

HandleCollision_Bug(s) ==
  LET c == creation[s] IN
  /\ c.pc = "collided"
  /\ creation' = [creation EXCEPT ![s] =
       IF OpenWith(c.pin) = {} THEN [c EXCEPT !.pc = "integrity_error"]
       ELSE [c EXCEPT !.pc = "drawing", !.attempt = @ + 1]]
  /\ UNCHANGED <<session, join, participation, known>>
HandleCollision(s) ==
  LET c == creation[s] IN
  /\ c.pc = "collided"
  /\ creation' = [creation EXCEPT ![s] =
       IF OpenWith(c.pin) = {} THEN [c EXCEPT !.pc = "integrity_error"]
       ELSE IF c.attempt = MaxAttempts THEN [c EXCEPT !.pc = "no_free_pin"]
       ELSE [c EXCEPT !.pc = "drawing", !.attempt = @ + 1]]
  /\ UNCHANGED <<session, join, participation, known>>

Start(s) ==
  /\ session[s].status = "waiting"
  /\ session' = [session EXCEPT ![s].status = "live"]
  /\ UNCHANGED <<creation, join, participation, known>>

Finish(s) ==
  /\ s \in Open
  /\ session' = [session EXCEPT ![s].status = "finished"]
  /\ UNCHANGED <<creation, join, participation, known>>
-----------------------------------------------------------------------------
(* Joining, with a PIN or the public UUID, with or without a token.         *)

RegisteredWith(c, s) ==
  PersonOf(c) \in Accounts /\
    \E t \in Tokens : participation[t] = [session |-> s, person |-> PersonOf(c)]

Found(c, s, pin, token) ==
  join' = [join EXCEPT ![c] = [@ EXCEPT !.pc = "found", !.pin = pin, !.target = s,
             !.token = token, !.registered = RegisteredWith(c, s)]]

Resolve(c) ==
  /\ join[c].pc = "idle"
  /\ \E token \in known[PersonOf(c)] \cup {None} :
       \/ \E pin \in Pins :
            IF OpenWith(pin) = {} THEN join' = [join EXCEPT ![c].pc = "not_found"]
            ELSE \E s \in OpenWith(pin) : Found(c, s, pin, token)
       \/ \E s \in Sessions :
            session[s].status # "none" /\ Found(c, s, None, token)
  /\ UNCHANGED <<session, creation, participation, known>>

Answer(c, pc, given) ==
  join' = [join EXCEPT ![c] = [@ EXCEPT !.pc = pc, !.given = given]]

\* A token decides alone: it returns its participation, or is refused.
Return_Bug(c) ==
  /\ join[c].pc = "found" /\ join[c].token # None
  /\ Answer(c, "returned", join[c].token)
  /\ UNCHANGED <<session, creation, participation, known>>
Return(c) ==
  /\ join[c].pc = "found" /\ join[c].token # None
  /\ IF participation[join[c].token].session # join[c].target
     THEN Answer(c, "denied", None)
     ELSE Answer(c, "returned", join[c].token)
  /\ UNCHANGED <<session, creation, participation, known>>

MayRegister_Unlocked_Bug(c) ==
  /\ ~join[c].registered
  /\ session[join[c].target].status = "waiting"
MayRegister_Bug(c) == ~RegisteredWith(c, join[c].target)
MayRegister(c) ==
  /\ ~RegisteredWith(c, join[c].target)
  /\ session[join[c].target].status = "waiting"

Refuse(c) ==
  /\ join[c].pc = "found" /\ join[c].token = None /\ ~MayRegister(c)
  /\ Answer(c, "conflict", None)
  /\ UNCHANGED <<session, creation, participation, known>>

\* The answer with the secret may never arrive.
Register(c) ==
  /\ join[c].pc = "found" /\ join[c].token = None /\ MayRegister(c)
  /\ participation' = [t \in Tokens \cup {c} |->
       IF t = c THEN [session |-> join[c].target, person |-> PersonOf(c)]
       ELSE participation[t]]
  /\ Answer(c, "registered", c)
  /\ \/ known' = [known EXCEPT ![PersonOf(c)] = @ \cup {c}]
     \/ UNCHANGED known
  /\ UNCHANGED <<session, creation>>

Next ==
  \/ \E s \in Sessions : Insert(s) \/ HandleCollision(s) \/ Start(s) \/ Finish(s)
  \/ \E c \in Calls : Resolve(c) \/ Return(c) \/ Refuse(c) \/ Register(c)

Spec == Init /\ [][Next]_vars
-----------------------------------------------------------------------------
TypeOK ==
  /\ \A s \in Sessions :
       /\ session[s].status \in {"none", "waiting", "live", "finished"}
       /\ session[s].pin \in Pins \cup {None}
       /\ creation[s].attempt \in 1..MaxAttempts
       /\ creation[s].pc \in {"drawing", "collided", "created", "no_free_pin",
                              "integrity_error"}
  /\ Tokens \subseteq Calls
  /\ \A t \in Tokens : participation[t].session \in Sessions
  /\ \A c \in Calls : join[c].given \in Tokens \cup {None}

\* However long a request takes between finding its session and registering in
\* it, and whoever gets the PIN meanwhile: it registers in the session that its
\* PIN names at that moment, and only before that session starts.
RegistersWhereThePinLeads ==
  [][\A c \in Calls : c \notin Tokens /\ c \in Tokens' =>
       LET s == participation'[c].session IN
       /\ session[s].status = "waiting"
       /\ join[c].pin # None => OpenWith(join[c].pin) = {s}]_vars

\* An account takes part in a session once, whatever its requests overlap with.
OneParticipationPerAccount ==
  \A t, u \in Tokens :
    participation[t] = participation[u] /\ participation[t].person \in Accounts =>
      t = u

\* docs/block-1-requirements.md:97: a token never opens the session that got the
\* PIN of its own one: what a request is given belongs to where it was addressed.
TokensStayInTheirSession ==
  \A c \in Calls : join[c].given # None =>
    /\ participation[join[c].given].session = join[c].target
    /\ participation[join[c].given].person = PersonOf(c)

\* Joining is safe: the right session, in time, once (participation.py 15-55).
JoiningIsSafe ==
  /\ [](TypeOK /\ OneParticipationPerAccount /\ TokensStayInTheirSession)
  /\ RegistersWhereThePinLeads
=============================================================================
