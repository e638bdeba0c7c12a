----------------------------- MODULE AccessProofs -----------------------------
(***************************************************************************)
(* What is proved of the ways into a session, for every number of          *)
(* sessions, PINs, persons, requests, grants, buckets and processes:       *)
(* JoiningIsSafe of Admission, DisplaysAreSafe and LimiterHolds of Access. *)
(*                                                                         *)
(* A request to join that has found its session keeps pointing at it, as a *)
(* session never changes its PIN and no other open one has it; what        *)
(* registers is decided under the lock of the session row.                 *)
(***************************************************************************)
EXTENDS Access, Integers, FiniteSetTheorems, WellFoundedInduction, TLAPS

Persons == {PersonOf(c) : c \in Calls}

JoinRow ==
  [pc : {"idle", "not_found", "found", "returned", "denied", "conflict", "registered"},
   pin : Pins \cup {None}, target : Sessions \cup {None}, token : Calls \cup {None},
   registered : BOOLEAN, given : Calls \cup {None}]

SessionRow ==
  [status : {"none", "waiting", "live", "finished"}, pin : Pins \cup {None}]

CreationRow ==
  [pc : {"drawing", "collided", "created", "no_free_pin", "integrity_error"},
   attempt : 1..MaxAttempts, pin : Pins \cup {None}]

Types ==
  /\ session \in [Sessions -> SessionRow]
  /\ creation \in [Sessions -> CreationRow]
  /\ join \in [Calls -> JoinRow]
  /\ Tokens \subseteq Calls
  /\ participation \in [Tokens -> [session : Sessions, person : Persons]]
  /\ known \in [Persons -> SUBSET Calls]

\* A session is there exactly when its creation has succeeded.
Created == \A s \in Sessions : session[s].status # "none" <=> creation[s].pc = "created"

OpenPinsDiffer ==
  \A s, t \in Open : session[s].pin = session[t].pin => s = t

\* What a request has found is a session, the one of its PIN as long as it is open.
FoundIsThere ==
  \A c \in Calls : join[c].pc = "found" =>
    /\ join[c].target \in Sessions /\ session[join[c].target].status # "none"
    /\ join[c].pin # None => session[join[c].target].pin = join[c].pin
    /\ join[c].token # None => join[c].token \in known[PersonOf(c)]

\* Tokens are those of requests that registered, and known to nobody else.
TokensAreOwn ==
  /\ \A t \in Tokens : join[t].pc = "registered"
  /\ \A p \in Persons : \A t \in known[p] : t \in Tokens /\ participation[t].person = p

\* A request is given something only at its end, and then a token.
GivenAtTheEnd ==
  \A c \in Calls : join[c].given # None =>
    join[c].pc \in {"returned", "registered"} /\ join[c].given \in Tokens

IndInv ==
  /\ Types /\ Created /\ OpenPinsDiffer /\ FoundIsThere /\ TokensAreOwn /\ GivenAtTheEnd
  /\ OneParticipationPerAccount /\ TokensStayInTheirSession

\* The invariant holds before anything is created.
LEMMA InitInv == Init => IndInv
<1> SUFFICES ASSUME Init PROVE IndInv
  OBVIOUS
<1>1. Tokens = {}
  BY DEF Init, Tokens
<1>2. Open = {}
  BY DEF Init, Open
<1>3. \A c \in Calls : join[c].pc = "idle" /\ join[c].given = None
  BY DEF Init
<1>4. \A p \in Persons : known[p] = {}
  BY DEF Init, Persons
<1>5. Types
  BY <1>1, AttemptsAssumption DEF Init, Types, JoinRow, Persons, SessionRow, CreationRow
<1>6. Created
  BY DEF Init, Created
<1> QED
  BY <1>1, <1>2, <1>3, <1>4, <1>5, <1>6 DEF IndInv, OpenPinsDiffer, FoundIsThere, TokensAreOwn,
     GivenAtTheEnd, OneParticipationPerAccount, TokensStayInTheirSession
-----------------------------------------------------------------------------
(* Creating, starting and finishing a session touch no request.             *)

\* Sessions that are there keep their PIN and stay there.
SessionsKeep ==
  \A s \in Sessions : session[s].status # "none" =>
    session'[s].status # "none" /\ session'[s].pin = session[s].pin

\* What is said of the requests survives a step that touches sessions only and keeps their PINs.
LEMMA RequestsKeep ==
  ASSUME IndInv, SessionsKeep, UNCHANGED <<join, participation, known>>
  PROVE  /\ FoundIsThere' /\ TokensAreOwn' /\ GivenAtTheEnd'
         /\ OneParticipationPerAccount' /\ TokensStayInTheirSession'
<1>1. FoundIsThere'
  BY DEF IndInv, FoundIsThere, SessionsKeep
<1>2. Tokens' = Tokens
  BY DEF Tokens
<1> QED
  BY <1>1, <1>2 DEF IndInv, TokensAreOwn, GivenAtTheEnd, OneParticipationPerAccount,
     TokensStayInTheirSession

\* A session is created: its PIN leads nowhere else.
LEMMA InsertInv ==
  ASSUME IndInv, NEW s \in Sessions, Insert(s)
  PROVE  IndInv'
<1>1. Types /\ Created
  BY DEF IndInv
<1>2. /\ creation[s].pc = "drawing" /\ session[s].status = "none"
      /\ UNCHANGED <<join, participation, known>>
  BY <1>1 DEF Insert, Created
<1>3. PICK pin \in Pins :
        IF OpenWith(pin) = {}
        THEN /\ session' = [session EXCEPT ![s] = [status |-> "waiting", pin |-> pin]]
             /\ creation' = [creation EXCEPT ![s].pc = "created"]
        ELSE /\ creation' = [creation EXCEPT ![s] = [@ EXCEPT !.pc = "collided", !.pin = pin]]
             /\ UNCHANGED session
  BY DEF Insert
<1>4. CASE OpenWith(pin) = {}
  <2>1. /\ session'[s] = [status |-> "waiting", pin |-> pin]
        /\ \A t \in Sessions \ {s} : session'[t] = session[t]
        /\ creation'[s].pc = "created"
        /\ \A t \in Sessions \ {s} : creation'[t] = creation[t]
    <3>1. PICK new \in CreationRow :
            new.pc = "created" /\ creation' = [creation EXCEPT ![s] = new]
      <4>1. creation[s] \in CreationRow
        BY <1>1 DEF Types
      <4> QED
        BY <1>3, <1>4, <4>1 DEF CreationRow
    <3> QED
      BY <1>1, <1>3, <1>4, <3>1 DEF Types
  <2>2. Types'
    <3>1. [status |-> "waiting", pin |-> pin] \in SessionRow
      BY DEF SessionRow
    <3>2. [creation[s] EXCEPT !.pc = "created"] \in CreationRow
      BY <1>1 DEF Types, CreationRow
    <3>3. session' \in [Sessions -> SessionRow] /\ creation' \in [Sessions -> CreationRow]
      BY <1>1, <1>3, <1>4, <3>1, <3>2 DEF Types
    <3> QED
      BY <1>1, <1>2, <3>3 DEF Types, Tokens
  <2>3. Created'
    BY <1>1, <2>1 DEF Created
  <2>4. OpenPinsDiffer'
    <3>1. \A t \in Open : session[t].pin # pin
      BY <1>4 DEF OpenWith
    <3>2. \A t \in Sessions \ {s} : t \in Open' <=> t \in Open
      BY <2>1 DEF Open
    <3> QED
      BY <2>1, <3>1, <3>2 DEF IndInv, OpenPinsDiffer, Open
  <2>5. SessionsKeep
    BY <1>2, <2>1 DEF SessionsKeep
  <2> QED
    BY <1>2, <2>2, <2>3, <2>4, <2>5, RequestsKeep DEF IndInv
<1>5. CASE OpenWith(pin) # {}
  <2>1. /\ session' = session
        /\ creation'[s].pc = "collided"
        /\ \A t \in Sessions \ {s} : creation'[t] = creation[t]
    <3>1. PICK new \in CreationRow :
            new.pc = "collided" /\ creation' = [creation EXCEPT ![s] = new]
      <4>1. creation[s] \in CreationRow
        BY <1>1 DEF Types
      <4> QED
        BY <1>3, <1>5, <4>1 DEF CreationRow
    <3> QED
      BY <1>1, <1>3, <1>5, <3>1 DEF Types
  <2>2. Types'
    <3>1. [creation[s] EXCEPT !.pc = "collided", !.pin = pin] \in CreationRow
      BY <1>1 DEF Types, CreationRow
    <3>2. creation' \in [Sessions -> CreationRow]
      BY <1>1, <1>3, <1>5, <3>1 DEF Types
    <3> QED
      BY <1>1, <1>2, <2>1, <3>2 DEF Types, Tokens
  <2>3. Created'
    BY <1>1, <1>2, <2>1 DEF Created
  <2>4. OpenPinsDiffer'
    BY <2>1 DEF IndInv, OpenPinsDiffer, Open
  <2>5. SessionsKeep
    BY <2>1 DEF SessionsKeep
  <2> QED
    BY <1>2, <2>2, <2>3, <2>4, <2>5, RequestsKeep DEF IndInv
<1> QED
  BY <1>4, <1>5

\* A PIN that is taken is drawn again, or the creation fails.
LEMMA HandleCollisionInv ==
  ASSUME IndInv, NEW s \in Sessions, HandleCollision(s)
  PROVE  IndInv'
<1>1. Types /\ Created
  BY DEF IndInv
<1>2. /\ creation[s].pc = "collided" /\ UNCHANGED <<session, join, participation, known>>
  BY DEF HandleCollision
<1>3. PICK new \in CreationRow :
        new.pc # "created" /\ creation' = [creation EXCEPT ![s] = new]
  <2>1. creation[s] \in CreationRow
    BY <1>1 DEF Types
  <2>2. CASE OpenWith(creation[s].pin) = {}
    BY <2>1, <2>2 DEF HandleCollision, CreationRow
  <2>3. CASE OpenWith(creation[s].pin) # {} /\ creation[s].attempt = MaxAttempts
    BY <2>1, <2>3 DEF HandleCollision, CreationRow
  <2>4. CASE OpenWith(creation[s].pin) # {} /\ creation[s].attempt # MaxAttempts
    <3>1. creation[s].attempt + 1 \in 1..MaxAttempts
      BY <2>1, <2>4, AttemptsAssumption DEF CreationRow
    <3> QED
      BY <2>1, <2>4, <3>1 DEF HandleCollision, CreationRow
  <2> QED
    BY <2>2, <2>3, <2>4
<1>4. Types'
  BY <1>1, <1>2, <1>3 DEF Types, Tokens
<1>5. Created'
  BY <1>1, <1>2, <1>3 DEF Created, Types
<1>6. OpenPinsDiffer' /\ SessionsKeep
  BY <1>2 DEF IndInv, OpenPinsDiffer, Open, SessionsKeep
<1> QED
  BY <1>2, <1>4, <1>5, <1>6, RequestsKeep DEF IndInv

\* A session starts or finishes; a PIN that is closed may be given again.
LEMMA StatusInv ==
  ASSUME IndInv, NEW s \in Sessions, Start(s) \/ Finish(s)
  PROVE  IndInv'
<1>1. Types /\ Created
  BY DEF IndInv
<1>2. PICK status \in {"live", "finished"} :
        session' = [session EXCEPT ![s].status = status]
  BY DEF Start, Finish
<1>3. s \in Open /\ UNCHANGED <<creation, join, participation, known>>
  BY DEF Start, Finish, Open
<1>4. /\ session'[s].status = status /\ session'[s].pin = session[s].pin
      /\ \A t \in Sessions \ {s} : session'[t] = session[t]
  BY <1>1, <1>2 DEF Types
<1>5. Types'
  <2>1. [session[s] EXCEPT !.status = status] \in SessionRow
    BY <1>1 DEF Types, SessionRow
  <2> QED
    BY <1>1, <1>2, <1>3, <2>1 DEF Types, Tokens
<1>6. Created'
  BY <1>1, <1>3, <1>4 DEF Created, Open
<1>7. OpenPinsDiffer'
  BY <1>3, <1>4 DEF IndInv, OpenPinsDiffer, Open
<1>8. SessionsKeep
  BY <1>3, <1>4 DEF SessionsKeep, Open
<1> QED
  BY <1>3, <1>5, <1>6, <1>7, <1>8, RequestsKeep DEF IndInv
-----------------------------------------------------------------------------
(* Requests that do not register change their own row of join and nothing   *)
(* else.                                                                    *)

\* What remains to be shown when one request alone changes its own row.
LEMMA JoinRowInv ==
  ASSUME IndInv, NEW c \in Calls, NEW new \in JoinRow,
         join' = [join EXCEPT ![c] = new],
         UNCHANGED <<session, creation, participation, known>>,
         join[c].pc # "registered",
         new.pc = "found" =>
           /\ new.target \in Sessions /\ session[new.target].status # "none"
           /\ new.pin # None => session[new.target].pin = new.pin
           /\ new.token # None => new.token \in known[PersonOf(c)],
         new.given # None =>
           /\ new.pc \in {"returned", "registered"} /\ new.given \in Tokens
           /\ participation[new.given].session = new.target
           /\ participation[new.given].person = PersonOf(c)
  PROVE  IndInv'
<1>1. /\ join'[c] = new
      /\ \A d \in Calls \ {c} : join'[d] = join[d]
  BY DEF IndInv, Types
<1>2. Tokens' = Tokens /\ Open' = Open
  BY DEF Tokens, Open
<1>3. Types'
  BY <1>2 DEF IndInv, Types
<1>4. Created' /\ OpenPinsDiffer' /\ OneParticipationPerAccount'
  BY <1>2 DEF IndInv, Created, OpenPinsDiffer, OneParticipationPerAccount
<1>5. FoundIsThere'
  BY <1>1 DEF IndInv, FoundIsThere
<1>6. TokensAreOwn'
  BY <1>1, <1>2 DEF IndInv, TokensAreOwn, Types
<1>7. GivenAtTheEnd'
  BY <1>1, <1>2 DEF IndInv, GivenAtTheEnd
<1>8. TokensStayInTheirSession'
  BY <1>1, <1>2 DEF IndInv, TokensStayInTheirSession
<1> QED
  BY <1>3, <1>4, <1>5, <1>6, <1>7, <1>8 DEF IndInv

\* A request looks for the session of its PIN and for its participation.
LEMMA ResolveInv ==
  ASSUME IndInv, NEW c \in Calls, Resolve(c)
  PROVE  IndInv'
<1>1. /\ join[c] \in JoinRow /\ join[c].pc = "idle" /\ join[c].given = None
      /\ UNCHANGED <<session, creation, participation, known>>
  BY DEF IndInv, Types, GivenAtTheEnd, Resolve
<1>2. PICK token \in known[PersonOf(c)] \cup {None} :
       \/ \E pin \in Pins :
            IF OpenWith(pin) = {} THEN join' = [join EXCEPT ![c].pc = "not_found"]
            ELSE \E s \in OpenWith(pin) : Found(c, s, pin, token)
       \/ \E s \in Sessions :
            session[s].status # "none" /\ Found(c, s, None, token)
  BY DEF Resolve
<1>3. token \in Calls \cup {None}
  BY <1>2 DEF IndInv, Types, Persons
<1>4. ASSUME NEW s \in Sessions, NEW pin \in Pins \cup {None},
             session[s].status # "none", pin # None => session[s].pin = pin,
             Found(c, s, pin, token)
      PROVE  IndInv'
  <2>1. RegisteredWith(c, s) \in BOOLEAN
    BY DEF RegisteredWith
  <2>2. PICK new \in JoinRow :
          /\ join' = [join EXCEPT ![c] = new]
          /\ new.pc = "found" /\ new.pin = pin /\ new.target = s
          /\ new.token = token /\ new.given = None
    <3> DEFINE new == [join[c] EXCEPT !.pc = "found", !.pin = pin, !.target = s,
                         !.token = token, !.registered = RegisteredWith(c, s)]
    <3>1. /\ new \in JoinRow /\ new.pc = "found" /\ new.pin = pin /\ new.target = s
          /\ new.token = token /\ new.given = None
      BY <1>1, <1>3, <2>1 DEF JoinRow
    <3>2. join' = [join EXCEPT ![c] = new]
      BY <1>4 DEF Found
    <3> QED
      BY <3>1, <3>2
  <2> QED
    BY <1>1, <1>2, <1>4, <2>2, JoinRowInv
<1>5. CASE join' = [join EXCEPT ![c].pc = "not_found"]
  <2>1. PICK new \in JoinRow :
          join' = [join EXCEPT ![c] = new] /\ new.pc = "not_found" /\ new.given = None
    <3> DEFINE new == [join[c] EXCEPT !.pc = "not_found"]
    <3>1. new \in JoinRow /\ new.pc = "not_found" /\ new.given = None
      BY <1>1 DEF JoinRow
    <3>2. join' = [join EXCEPT ![c] = new]
      BY <1>5
    <3> QED
      BY <3>1, <3>2
  <2> QED
    BY <1>1, <2>1, JoinRowInv
<1>6. CASE \E pin \in Pins : \E s \in OpenWith(pin) : Found(c, s, pin, token)
  BY <1>4, <1>6 DEF OpenWith, Open
<1>7. CASE \E s \in Sessions : session[s].status # "none" /\ Found(c, s, None, token)
  BY <1>4, <1>7
<1> QED
  BY <1>2, <1>5, <1>6, <1>7

\* A participant who was found gets the token again.
LEMMA ReturnInv ==
  ASSUME IndInv, NEW c \in Calls, Return(c)
  PROVE  IndInv'
<1>1. /\ join[c] \in JoinRow /\ join[c].pc = "found" /\ join[c].token # None
      /\ UNCHANGED <<session, creation, participation, known>>
  BY DEF IndInv, Types, Return
<1>2. /\ join[c].token \in Tokens
      /\ participation[join[c].token].person = PersonOf(c)
  BY <1>1 DEF IndInv, FoundIsThere, TokensAreOwn, Persons
<1>3. CASE participation[join[c].token].session # join[c].target
  <2>1. PICK new \in JoinRow :
          join' = [join EXCEPT ![c] = new] /\ new.pc = "denied" /\ new.given = None
    <3> DEFINE new == [join[c] EXCEPT !.pc = "denied", !.given = None]
    <3>1. new \in JoinRow /\ new.pc = "denied" /\ new.given = None
      BY <1>1 DEF JoinRow
    <3>2. join' = [join EXCEPT ![c] = new]
      BY <1>3 DEF Return, Answer
    <3> QED
      BY <3>1, <3>2
  <2> QED
    BY <1>1, <2>1, JoinRowInv
<1>4. CASE participation[join[c].token].session = join[c].target
  <2>1. PICK new \in JoinRow :
          /\ join' = [join EXCEPT ![c] = new] /\ new.pc = "returned"
          /\ new.given = join[c].token /\ new.target = join[c].target
    <3> DEFINE new == [join[c] EXCEPT !.pc = "returned", !.given = join[c].token]
    <3>1. new \in JoinRow /\ new.pc = "returned"
          /\ new.given = join[c].token /\ new.target = join[c].target
      BY <1>1 DEF JoinRow
    <3>2. join' = [join EXCEPT ![c] = new]
      BY <1>4 DEF Return, Answer
    <3> QED
      BY <3>1, <3>2
  <2> QED
    BY <1>1, <1>2, <1>4, <2>1, JoinRowInv
<1> QED
  BY <1>3, <1>4

\* A request that found nothing it may enter ends.
LEMMA RefuseInv ==
  ASSUME IndInv, NEW c \in Calls, Refuse(c)
  PROVE  IndInv'
<1>1. /\ join[c] \in JoinRow /\ join[c].pc = "found"
      /\ UNCHANGED <<session, creation, participation, known>>
  BY DEF IndInv, Types, Refuse
<1>2. PICK new \in JoinRow :
        join' = [join EXCEPT ![c] = new] /\ new.pc = "conflict" /\ new.given = None
  <2> DEFINE new == [join[c] EXCEPT !.pc = "conflict", !.given = None]
  <2>1. new \in JoinRow /\ new.pc = "conflict" /\ new.given = None
    BY <1>1 DEF JoinRow
  <2>2. join' = [join EXCEPT ![c] = new]
    BY DEF Refuse, Answer
  <2> QED
    BY <2>1, <2>2
<1> QED
  BY <1>1, <1>2, JoinRowInv
-----------------------------------------------------------------------------
(* Registering.                                                             *)

\* A request registers under the locks of the session and of the account.
LEMMA RegisterInv ==
  ASSUME IndInv, NEW c \in Calls, Register(c)
  PROVE  IndInv'
<1> DEFINE p == PersonOf(c)
           s == join[c].target
           row == [session |-> s, person |-> p]
<1>1. /\ join[c] \in JoinRow /\ join[c].pc = "found" /\ ~RegisteredWith(c, s)
      /\ UNCHANGED <<session, creation>>
      /\ p \in Persons /\ s \in Sessions
  BY DEF IndInv, Types, FoundIsThere, Register, MayRegister, Persons
<1>2. c \notin Tokens /\ c # None
  BY <1>1, NoneAssumption DEF IndInv, TokensAreOwn
<1>3. /\ Tokens' = Tokens \cup {c} /\ participation'[c] = row
      /\ \A t \in Tokens : participation'[t] = participation[t]
      /\ participation' \in [Tokens \cup {c} -> [session : Sessions, person : Persons]]
  <2>1. participation' = [t \in Tokens \cup {c} |-> IF t = c THEN row ELSE participation[t]]
    BY DEF Register
  <2>2. row \in [session : Sessions, person : Persons]
    BY <1>1
  <2> HIDE DEF row
  <2> QED
    BY <1>2, <2>1, <2>2 DEF IndInv, Types, Tokens
<1>4. PICK new \in JoinRow :
        /\ join' = [join EXCEPT ![c] = new] /\ new.pc = "registered"
        /\ new.given = c /\ new.target = s
  <2> DEFINE new == [join[c] EXCEPT !.pc = "registered", !.given = c]
  <2>1. new \in JoinRow /\ new.pc = "registered" /\ new.given = c /\ new.target = s
    BY <1>1 DEF JoinRow
  <2>2. join' = [join EXCEPT ![c] = new]
    BY DEF Register, Answer
  <2> QED
    BY <2>1, <2>2
<1>5. /\ join'[c] = new
      /\ \A d \in Calls \ {c} : join'[d] = join[d]
  BY <1>4 DEF IndInv, Types
<1>6. /\ known' \in [Persons -> SUBSET Calls]
      /\ \A q \in Persons : known[q] \subseteq known'[q]
      /\ \A q \in Persons : \A t \in known'[q] : t \in known[q] \/ (t = c /\ q = p)
  BY <1>1 DEF IndInv, Types, Register
<1>7. row.session = s /\ row.person = p
  OBVIOUS
<1> HIDE DEF row
<1>8. Types'
  BY <1>1, <1>3, <1>4, <1>6 DEF IndInv, Types
<1>9. Created' /\ OpenPinsDiffer'
  BY <1>1 DEF IndInv, Created, OpenPinsDiffer, Open
<1>10. FoundIsThere'
  <2>1. \A d \in Calls : PersonOf(d) \in Persons
    BY DEF Persons
  <2> QED
    BY <1>1, <1>4, <1>5, <1>6, <2>1 DEF IndInv, FoundIsThere
<1>11. TokensAreOwn'
  BY <1>2, <1>3, <1>4, <1>5, <1>6, <1>7 DEF IndInv, Types, TokensAreOwn
<1>12. GivenAtTheEnd'
  BY <1>3, <1>4, <1>5 DEF IndInv, GivenAtTheEnd
<1>13. OneParticipationPerAccount'
  <2>1. \A t \in Tokens : p \in Accounts => participation[t] # row
    BY <1>1 DEF RegisteredWith, row
  <2> QED
    BY <1>3, <1>7, <2>1 DEF IndInv, OneParticipationPerAccount
<1>14. TokensStayInTheirSession'
  BY <1>2, <1>3, <1>4, <1>5, <1>7 DEF IndInv, GivenAtTheEnd, TokensStayInTheirSession
<1> QED
  BY <1>8, <1>9, <1>10, <1>11, <1>12, <1>13, <1>14 DEF IndInv

\* Every step keeps the invariant.
LEMMA NextInv == IndInv /\ [Next]_vars => IndInv'
<1> SUFFICES ASSUME IndInv, [Next]_vars PROVE IndInv'
  OBVIOUS
<1>1. CASE UNCHANGED vars
  <2>1. Tokens' = Tokens /\ Open' = Open
    BY <1>1 DEF vars, Tokens, Open
  <2> QED
    BY <1>1, <2>1 DEF vars, IndInv, Types, Created, OpenPinsDiffer, FoundIsThere,
       TokensAreOwn, GivenAtTheEnd, OneParticipationPerAccount, TokensStayInTheirSession
<1>2. CASE Next
  BY <1>2, InsertInv, HandleCollisionInv, StatusInv, ResolveInv, ReturnInv, RefuseInv,
     RegisterInv DEF Next
<1> QED
  BY <1>1, <1>2
-----------------------------------------------------------------------------
(* A request registers in the session that its PIN names now: the one it    *)
(* found still waits, so it is open, and no other open one has its PIN.     *)

Registers(c) ==
  c \notin Tokens /\ c \in Tokens' =>
    LET s == participation'[c].session IN
    /\ session[s].status = "waiting"
    /\ join[c].pin # None => OpenWith(join[c].pin) = {s}

\* A step that gives a token does so in the session that the PIN names then.
LEMMA RegistersRight ==
  ASSUME IndInv, [Next]_vars, NEW c \in Calls, c \notin Tokens, c \in Tokens'
  PROVE  Registers(c)
<1>1. PICK d \in Calls : Register(d)
  BY DEF Next, vars, Tokens, Insert, HandleCollision, Start, Finish, Resolve, Return, Refuse
<1>2. Tokens' = Tokens \cup {d}
  BY <1>1 DEF Register, Tokens
<1>3. c = d
  BY <1>2
<1>4. /\ participation'[c].session = join[c].target
      /\ join[c].pc = "found" /\ session[join[c].target].status = "waiting"
  BY <1>1, <1>3 DEF Register, MayRegister
<1>5. join[c].target \in Sessions
      /\ (join[c].pin # None => session[join[c].target].pin = join[c].pin)
  BY <1>4 DEF IndInv, FoundIsThere
<1>6. join[c].pin # None => OpenWith(join[c].pin) = {join[c].target}
  BY <1>4, <1>5 DEF IndInv, OpenPinsDiffer, OpenWith, Open
<1> QED
  BY <1>4, <1>6 DEF Registers

\* The types of the invariant are the types of the run.
LEMMA TypesSuffice == IndInv => TypeOK
<1> SUFFICES ASSUME IndInv PROVE TypeOK
  OBVIOUS
<1>1. \A s \in Sessions : session[s] \in SessionRow /\ creation[s] \in CreationRow
  BY DEF IndInv, Types
<1>2. \A t \in Tokens : participation[t].session \in Sessions
  BY DEF IndInv, Types
<1>3. \A c \in Calls : join[c].given \in Tokens \cup {None}
  BY DEF IndInv, GivenAtTheEnd
<1>4. Tokens \subseteq Calls
  BY DEF IndInv, Types
<1> QED
  BY <1>1, <1>2, <1>3, <1>4 DEF TypeOK, SessionRow, CreationRow

\* Requests to join are safe: each registers in the session that its PIN or
\* public UUID names, before it starts; an account takes part once; and a token
\* stays in its session (participation.py 15-55).
THEOREM JoinersAreSafe == Spec => JoiningIsSafe
<1>1. Spec => []IndInv
  BY InitInv, NextInv, PTL DEF Spec
<1>2. IndInv => TypeOK /\ OneParticipationPerAccount /\ TokensStayInTheirSession
  BY TypesSuffice DEF IndInv
<1>3. IndInv /\ [Next]_vars =>
        [\A c \in Calls : c \notin Tokens /\ c \in Tokens' =>
           LET s == participation'[c].session IN
           /\ session[s].status = "waiting"
           /\ join[c].pin # None => OpenWith(join[c].pin) = {s}]_vars
  BY RegistersRight DEF Registers
<1> QED
  BY <1>1, <1>2, <1>3, PTL DEF Spec, JoiningIsSafe, RegistersWhereThePinLeads
-----------------------------------------------------------------------------
(* The display: who issues holds the session row, and by the time it issues *)
(* the row of every active grant, so it revokes all there is.               *)

\* How far a request of the display is.
CallRow ==
  [pc : {"idle", "locking", "issuing", "revoking", "issued", "conflict", "done", "dead"},
   grant : Issues \cup {None}, locked : SUBSET Issues, at : 0 .. MaxNow \cup {None}]

DisplayTypes ==
  /\ now \in 0 .. MaxNow
  /\ Display!Granted \subseteq Issues
  /\ grants \in [Display!Granted -> 0 .. MaxNow \cup {None}]
  /\ session_lock \in Issues \cup {None}
  /\ grant_lock \in [Issues -> Display!Requests \cup {None}]
  /\ call \in [Display!Requests -> CallRow]

\* A request that issues is the one that holds the session row.
SessionRowIsHeld ==
  \A r \in Display!Requests :
    call[r].pc \in {"locking", "issuing"} => r \in Issues /\ session_lock = r

\* What it has locked is active and stays so, as only who holds the row of a grant
\* revokes it; when it issues it has locked all there is, at a moment of the clock.
LockedStaysActive ==
  \A r \in Display!Requests :
    /\ call[r].pc \in {"locking", "issuing"} =>
         \A g \in call[r].locked : g \in Display!Active /\ grant_lock[g] = r
    /\ call[r].pc = "issuing" => Display!Active \subseteq call[r].locked /\ call[r].at # None
    /\ call[r].pc = "revoking" =>
         call[r].grant \in Display!Granted /\ grant_lock[call[r].grant] = r

\* A request that waits for the session row or its first grant has locked nothing.
IdleHoldsNothing == \A r \in Display!Requests : call[r].pc = "idle" => call[r].locked = {}

\* A grant is there when its request has issued it.
GrantsAreIssued == \A g \in Display!Granted : call[g].pc = "issued"

\* At most one grant is active.
OneActive == \A g, h \in Display!Active : g = h

DisplayInv ==
  /\ DisplayTypes /\ SessionRowIsHeld /\ LockedStaysActive /\ IdleHoldsNothing
  /\ GrantsAreIssued /\ OneActive

\* The invariant holds before anything is issued.
LEMMA DisplayInitInv == Display!Init => DisplayInv
<1> SUFFICES ASSUME Display!Init PROVE DisplayInv
  OBVIOUS
<1>1. Display!Granted = {} /\ Display!Active = {}
  BY DEF Display!Init, Display!Granted, Display!Active
<1>2. \A r \in Display!Requests : call[r].pc = "idle" /\ call[r].locked = {}
  BY DEF Display!Init
<1>3. DisplayTypes
  BY <1>1, DisplayAssumption DEF Display!Init, DisplayTypes, CallRow, Display!Granted
<1> QED
  BY <1>1, <1>2, <1>3 DEF DisplayInv, SessionRowIsHeld, LockedStaysActive, IdleHoldsNothing,
     GrantsAreIssued, OneActive

\* What a step of one request keeps of the others, when it changes its own call
\* only and gives or takes locks that nobody else holds.
LEMMA OneCallMoves ==
  ASSUME DisplayInv, NEW r \in Display!Requests, NEW new,
         call' = [call EXCEPT ![r] = new]
  PROVE  /\ call'[r] = new
         /\ \A q \in Display!Requests \ {r} : call'[q] = call[q]
  BY DEF DisplayInv, DisplayTypes

\* The session row is taken when nobody has it.
LEMMA LockSessionInv ==
  ASSUME DisplayInv, NEW i \in Issues, Display!LockSession(i)
  PROVE  DisplayInv'
<1> DEFINE new == [call[i] EXCEPT !.pc = "locking"]
<1>1. /\ i \in Display!Requests /\ call[i].pc = "idle" /\ session_lock = None
      /\ session_lock' = i /\ call' = [call EXCEPT ![i] = new]
      /\ UNCHANGED <<now, finished_at, grants, grant_lock>>
  BY DEF Display!LockSession, Display!Goto, Display!Requests
<1>2. new.pc = "locking" /\ new.locked = {} /\ new \in CallRow
  <2>1. call[i] \in CallRow /\ call[i].locked = {}
    BY <1>1 DEF DisplayInv, DisplayTypes, IdleHoldsNothing
  <2> QED
    BY <2>1 DEF CallRow
<1> HIDE DEF new
<1>3. /\ call'[i] = new
      /\ \A q \in Display!Requests \ {i} : call'[q] = call[q]
  BY <1>1, OneCallMoves
<1>4. Display!Granted' = Display!Granted /\ Display!Active' = Display!Active
  BY <1>1 DEF Display!Granted, Display!Active
<1>5. DisplayTypes'
  <2>1. call' \in [Display!Requests -> CallRow] /\ session_lock' \in Issues
    BY <1>1, <1>2 DEF DisplayInv, DisplayTypes
  <2> QED
    BY <1>1, <1>4, <2>1 DEF DisplayInv, DisplayTypes
<1>6. SessionRowIsHeld'
  BY <1>1, <1>2, <1>3, DisplayAssumption DEF DisplayInv, SessionRowIsHeld
<1>7. LockedStaysActive'
  BY <1>1, <1>2, <1>3, <1>4 DEF DisplayInv, LockedStaysActive
<1>8. IdleHoldsNothing' /\ GrantsAreIssued' /\ OneActive'
  BY <1>1, <1>2, <1>3, <1>4 DEF DisplayInv, DisplayTypes, IdleHoldsNothing, GrantsAreIssued, OneActive,
     Display!Requests
<1> QED
  BY <1>5, <1>6, <1>7, <1>8 DEF DisplayInv

\* The row of a grant is taken when nobody has it and it is active.
LEMMA LockGrantInv ==
  ASSUME DisplayInv, NEW i \in Issues, Display!LockGrant(i)
  PROVE  DisplayInv'
<1>1. PICK g \in Display!Active \ call[i].locked :
        /\ grant_lock[g] = None
        /\ grant_lock' = [grant_lock EXCEPT ![g] = i]
        /\ call' = [call EXCEPT ![i].locked = @ \cup {g}]
  BY DEF Display!LockGrant
<1> DEFINE new == [call[i] EXCEPT !.locked = @ \cup {g}]
<1>2. /\ i \in Display!Requests /\ i # None /\ call[i].pc = "locking"
      /\ g \in Issues /\ call' = [call EXCEPT ![i] = new]
      /\ UNCHANGED <<now, finished_at, grants, session_lock>>
  BY <1>1, DisplayAssumption DEF DisplayInv, DisplayTypes, Display!LockGrant, Display!Requests, Display!Active
<1>3. /\ new.pc = "locking" /\ new.locked = call[i].locked \cup {g} /\ new \in CallRow
  BY <1>2 DEF DisplayInv, DisplayTypes, CallRow
<1> HIDE DEF new
<1>4. /\ call'[i] = new
      /\ \A q \in Display!Requests \ {i} : call'[q] = call[q]
  BY <1>2, OneCallMoves
<1>5. Display!Granted' = Display!Granted /\ Display!Active' = Display!Active
  BY <1>2 DEF Display!Granted, Display!Active
<1>6. /\ grant_lock'[g] = i
      /\ \A h \in Issues \ {g} : grant_lock'[h] = grant_lock[h]
  BY <1>1, <1>2 DEF DisplayInv, DisplayTypes
<1>7. DisplayTypes'
  BY <1>1, <1>2, <1>3, <1>5 DEF DisplayInv, DisplayTypes
<1>8. SessionRowIsHeld'
  BY <1>2, <1>3, <1>4 DEF DisplayInv, SessionRowIsHeld
<1>9. LockedStaysActive'
  <2> SUFFICES ASSUME NEW r \in Display!Requests
               PROVE  /\ call'[r].pc \in {"locking", "issuing"} =>
                           \A h \in call'[r].locked : h \in Display!Active /\ grant_lock'[h] = r
                      /\ call'[r].pc = "issuing" =>
                           Display!Active \subseteq call'[r].locked /\ call'[r].at # None
                      /\ call'[r].pc = "revoking" =>
                           call'[r].grant \in Display!Granted /\ grant_lock'[call'[r].grant] = r
    BY <1>5 DEF LockedStaysActive
  <2>1. Display!Active \subseteq Issues /\ Display!Granted \subseteq Issues
    BY DEF DisplayInv, DisplayTypes, Display!Active
  <2>2. CASE r = i
    BY <1>1, <1>2, <1>3, <1>4, <1>6, <2>1, <2>2 DEF DisplayInv, LockedStaysActive
  <2>3. CASE r # i
    <3>1. call'[r] = call[r] /\ r # None
      BY <1>4, <2>3, DisplayAssumption DEF Display!Requests
    <3> QED
      BY <1>1, <1>6, <2>1, <3>1 DEF DisplayInv, LockedStaysActive
  <2> QED
    BY <2>2, <2>3
<1>10. IdleHoldsNothing' /\ GrantsAreIssued' /\ OneActive'
  BY <1>2, <1>3, <1>4, <1>5 DEF DisplayInv, DisplayTypes, IdleHoldsNothing, GrantsAreIssued, OneActive,
     Display!Requests
<1> QED
  BY <1>7, <1>8, <1>9, <1>10 DEF DisplayInv

\* All that is active is locked: the moment of the revocation is taken.
LEMMA LockedAllInv ==
  ASSUME DisplayInv, NEW i \in Issues, Display!LockedAll(i)
  PROVE  DisplayInv'
<1> DEFINE new == [call[i] EXCEPT !.pc = "issuing", !.at = now]
<1>1. /\ i \in Display!Requests /\ call[i].pc = "locking"
      /\ Display!Active \subseteq call[i].locked
      /\ call' = [call EXCEPT ![i] = new]
      /\ UNCHANGED <<now, finished_at, grants, session_lock, grant_lock>>
  BY DEF Display!LockedAll, Display!Requests
<1>2. /\ new.pc = "issuing" /\ new.locked = call[i].locked /\ new.at # None
      /\ new \in CallRow
  <2>1. call[i] \in CallRow /\ now \in 0 .. MaxNow /\ now # None
    BY <1>1, DisplayAssumption DEF DisplayInv, DisplayTypes
  <2> QED
    BY <2>1 DEF CallRow
<1> HIDE DEF new
<1>3. /\ call'[i] = new
      /\ \A q \in Display!Requests \ {i} : call'[q] = call[q]
  BY <1>1, OneCallMoves
<1>4. Display!Granted' = Display!Granted /\ Display!Active' = Display!Active
  BY <1>1 DEF Display!Granted, Display!Active
<1>5. DisplayTypes'
  BY <1>1, <1>2, <1>4 DEF DisplayInv, DisplayTypes
<1>6. SessionRowIsHeld'
  BY <1>1, <1>2, <1>3 DEF DisplayInv, SessionRowIsHeld
<1>7. LockedStaysActive'
  BY <1>1, <1>2, <1>3, <1>4 DEF DisplayInv, LockedStaysActive
<1>8. IdleHoldsNothing' /\ GrantsAreIssued' /\ OneActive'
  BY <1>1, <1>2, <1>3, <1>4 DEF DisplayInv, DisplayTypes, IdleHoldsNothing, GrantsAreIssued, OneActive,
     Display!Requests
<1> QED
  BY <1>5, <1>6, <1>7, <1>8 DEF DisplayInv

\* What giving back one's locks does to those of the others: nothing.
LEMMA OthersKeepTheirs ==
  ASSUME DisplayInv, NEW r \in Display!Requests, grant_lock' = Display!Unlocked(r)
  PROVE  /\ grant_lock' \in [Issues -> Display!Requests \cup {None}]
         /\ \A g \in Issues, q \in Display!Requests \ {r} :
              grant_lock[g] = q => grant_lock'[g] = q
  BY DEF DisplayInv, DisplayTypes, Display!Unlocked

\* A request that ends gives its locks back; when it issued nothing and revoked
\* nothing, whether it was refused or died, the grants stay as they were.
LEMMA EndsWithNothing ==
  ASSUME DisplayInv, NEW r \in Display!Requests, NEW pc \in {"conflict", "done", "dead"},
         call[r].pc \in {"locking", "issuing", "revoking"},
         Display!Goto(r, pc), grant_lock' = Display!Unlocked(r),
         session_lock' \in {session_lock, None}, session_lock # r => session_lock' = session_lock,
         UNCHANGED <<now, finished_at, grants>>
  PROVE  DisplayInv'
<1> DEFINE new == [call[r] EXCEPT !.pc = pc]
<1>1. call' = [call EXCEPT ![r] = new]
  BY DEF Display!Goto
<1>2. new.pc = pc /\ new \in CallRow
  BY DEF DisplayInv, DisplayTypes, CallRow
<1> HIDE DEF new
<1>3. /\ call'[r] = new
      /\ \A q \in Display!Requests \ {r} : call'[q] = call[q]
  BY <1>1, OneCallMoves
<1>4. Display!Granted' = Display!Granted /\ Display!Active' = Display!Active
  BY DEF Display!Granted, Display!Active
<1>5. DisplayTypes'
  BY <1>1, <1>2, <1>4, OthersKeepTheirs DEF DisplayInv, DisplayTypes
<1>6. SessionRowIsHeld'
  BY <1>2, <1>3 DEF DisplayInv, SessionRowIsHeld
<1>7. LockedStaysActive'
  <2>1. Display!Active \subseteq Issues /\ Display!Granted \subseteq Issues
    BY DEF DisplayInv, DisplayTypes, Display!Active
  <2> QED
    BY <1>2, <1>3, <1>4, <2>1, OthersKeepTheirs DEF DisplayInv, LockedStaysActive
<1>8. IdleHoldsNothing' /\ GrantsAreIssued' /\ OneActive'
  BY <1>2, <1>3, <1>4 DEF DisplayInv, DisplayTypes, IdleHoldsNothing, GrantsAreIssued, OneActive,
     Display!Requests
<1> QED
  BY <1>5, <1>6, <1>7, <1>8 DEF DisplayInv

\* The process of a request dies and its transaction is rolled back.
LEMMA DieInv ==
  ASSUME DisplayInv, NEW r \in Display!Requests, Display!Die(r)
  PROVE  DisplayInv'
<1>1. /\ call[r].pc \in {"locking", "issuing", "revoking"}
      /\ Display!Goto(r, "dead") /\ grant_lock' = Display!Unlocked(r)
      /\ session_lock' = IF session_lock = r THEN None ELSE session_lock
      /\ UNCHANGED <<now, finished_at, grants>>
  BY DEF Display!Die
<1>2. session_lock' \in {session_lock, None} /\ (session_lock # r => session_lock' = session_lock)
  BY <1>1
<1> QED
  BY <1>1, <1>2, EndsWithNothing

\* What was active is revoked and a new grant is issued.
LEMMA GrantInv ==
  ASSUME DisplayInv, NEW i \in Issues, Display!Issue(i), Display!Grant(i)
  PROVE  /\ DisplayInv'
         /\ Display!Granted' = Display!Granted \cup {i} /\ i \notin Display!Granted
         /\ grants'[i] = None
         /\ \A g \in Display!Granted : grants[g] # None => grants'[g] = grants[g]
<1> DEFINE new == [call[i] EXCEPT !.pc = "issued"]
<1>1. /\ i \in Display!Requests /\ call[i].pc = "issuing"
      /\ call' = [call EXCEPT ![i] = new]
      /\ session_lock = i /\ session_lock' = None /\ grant_lock' = Display!Unlocked(i)
      /\ UNCHANGED <<now, finished_at>>
      /\ call[i] \in CallRow
  BY DEF Display!Issue, Display!Grant, Display!Goto, Display!Requests, DisplayInv, DisplayTypes,
     SessionRowIsHeld
<1>2. new.pc = "issued" /\ new \in CallRow
  BY <1>1 DEF CallRow
<1> HIDE DEF new
<1>3. /\ call'[i] = new
      /\ \A q \in Display!Requests \ {i} : call'[q] = call[q]
  BY <1>1, OneCallMoves
<1>4. /\ i \notin Display!Granted /\ Display!Granted \subseteq Issues
      /\ Display!Granted \subseteq Display!Requests
  BY <1>1 DEF DisplayInv, DisplayTypes, GrantsAreIssued, Display!Requests
<1>5. /\ Display!Active \subseteq call[i].locked /\ call[i].locked \subseteq Display!Active
      /\ call[i].at # None /\ call[i].at \in 0 .. MaxNow
  BY <1>1 DEF DisplayInv, LockedStaysActive, CallRow
<1>6. /\ Display!Granted' = Display!Granted \cup {i}
      /\ grants'[i] = None
      /\ \A g \in Display!Granted :
           grants'[g] = IF g \in Display!Active THEN call[i].at ELSE grants[g]
  BY <1>4, <1>5 DEF Display!Grant, Display!RevokedBy, Display!Granted
<1>7. \A g \in Display!Granted : g \in Display!Active <=> grants[g] = None
  BY DEF Display!Active
<1>8. Display!Active' = {i}
  BY <1>4, <1>5, <1>6, <1>7 DEF Display!Active
<1>9. grants' \in [Display!Granted' -> 0 .. MaxNow \cup {None}]
  <2>1. \A g \in Display!Granted : grants[g] \in 0 .. MaxNow \cup {None}
    BY DEF DisplayInv, DisplayTypes
  <2>2. \A g \in Display!Granted \cup {i} : grants'[g] \in 0 .. MaxNow \cup {None}
    BY <1>5, <1>6, <2>1
  <2>3. grants' = [g \in Display!Granted \cup {i} |-> grants'[g]]
    BY <1>6 DEF Display!Grant
  <2> QED
    BY <1>6, <2>2, <2>3
<1>10. DisplayTypes'
  <2>1. call' \in [Display!Requests -> CallRow]
    BY <1>1, <1>2 DEF DisplayInv, DisplayTypes
  <2> QED
    BY <1>1, <1>4, <1>6, <1>9, <2>1, OthersKeepTheirs DEF DisplayInv, DisplayTypes
<1>11. SessionRowIsHeld'
  BY <1>1, <1>2, <1>3 DEF DisplayInv, SessionRowIsHeld
<1>12. \A q \in Display!Requests \ {i} : call[q].pc \notin {"locking", "issuing"}
  BY <1>1 DEF DisplayInv, SessionRowIsHeld
<1>13. LockedStaysActive'
  BY <1>1, <1>2, <1>3, <1>4, <1>6, <1>12, OthersKeepTheirs DEF DisplayInv, LockedStaysActive
<1>14. IdleHoldsNothing' /\ GrantsAreIssued' /\ OneActive'
  BY <1>1, <1>2, <1>3, <1>4, <1>6, <1>8 DEF DisplayInv, IdleHoldsNothing, GrantsAreIssued, OneActive
<1> QED
  BY <1>4, <1>6, <1>7, <1>10, <1>11, <1>13, <1>14 DEF DisplayInv

\* A request to issue ends, with a grant or with a refusal.
LEMMA IssueInv ==
  ASSUME DisplayInv, NEW i \in Issues, Display!Issue(i)
  PROVE  DisplayInv'
<1>1. CASE Display!Grant(i)
  BY <1>1, GrantInv
<1>2. CASE Display!Refused(i)
  <2>1. /\ i \in Display!Requests /\ call[i].pc = "issuing" /\ Display!Goto(i, "conflict")
        /\ session_lock' = None /\ session_lock = i /\ grant_lock' = Display!Unlocked(i)
        /\ UNCHANGED <<now, finished_at, grants>>
    BY <1>2 DEF Display!Issue, Display!Refused, Display!Requests, DisplayInv, SessionRowIsHeld
  <2> QED
    BY <2>1, EndsWithNothing
<1> QED
  BY <1>1, <1>2 DEF Display!Issue

\* A request to revoke takes the row of its grant.
LEMMA LockForRevokeInv ==
  ASSUME DisplayInv, NEW r \in Revokes, Display!LockForRevoke(r)
  PROVE  DisplayInv'
<1>1. PICK g \in Display!Granted :
        /\ grant_lock[g] = None
        /\ grant_lock' = [grant_lock EXCEPT ![g] = r]
        /\ call' = [call EXCEPT ![r] = [@ EXCEPT !.pc = "revoking", !.grant = g]]
  BY DEF Display!LockForRevoke
<1> DEFINE new == [call[r] EXCEPT !.pc = "revoking", !.grant = g]
<1>2. /\ r \in Display!Requests /\ call[r].pc = "idle" /\ g \in Issues
      /\ call' = [call EXCEPT ![r] = new] /\ call[r] \in CallRow
      /\ UNCHANGED <<now, finished_at, grants, session_lock>>
  BY <1>1 DEF Display!LockForRevoke, Display!Requests, DisplayInv, DisplayTypes
<1>3. new.pc = "revoking" /\ new.grant = g /\ new \in CallRow
  BY <1>2 DEF CallRow
<1> HIDE DEF new
<1>4. /\ call'[r] = new
      /\ \A q \in Display!Requests \ {r} : call'[q] = call[q]
  BY <1>2, OneCallMoves
<1>5. Display!Granted' = Display!Granted /\ Display!Active' = Display!Active
  BY <1>2 DEF Display!Granted, Display!Active
<1>6. /\ grant_lock'[g] = r
      /\ \A h \in Issues \ {g} : grant_lock'[h] = grant_lock[h]
  BY <1>1, <1>2 DEF DisplayInv, DisplayTypes
<1>7. DisplayTypes'
  <2>1. call' \in [Display!Requests -> CallRow]
    BY <1>2, <1>3 DEF DisplayInv, DisplayTypes
  <2>2. grant_lock' \in [Issues -> Display!Requests \cup {None}]
    BY <1>1, <1>2 DEF DisplayInv, DisplayTypes
  <2> QED
    BY <1>2, <1>5, <2>1, <2>2 DEF DisplayInv, DisplayTypes
<1>8. SessionRowIsHeld'
  BY <1>2, <1>3, <1>4 DEF DisplayInv, SessionRowIsHeld
<1>9. LockedStaysActive'
  <2>1. Display!Active \subseteq Issues /\ Display!Granted \subseteq Issues
    BY DEF DisplayInv, DisplayTypes, Display!Active
  <2>2. \A q \in Display!Requests : q # None
    BY DisplayAssumption DEF Display!Requests
  <2> QED
    BY <1>1, <1>3, <1>4, <1>5, <1>6, <2>1, <2>2 DEF DisplayInv, LockedStaysActive
<1>10. IdleHoldsNothing' /\ GrantsAreIssued' /\ OneActive'
  BY <1>2, <1>3, <1>4, <1>5 DEF DisplayInv, DisplayTypes, IdleHoldsNothing, GrantsAreIssued, OneActive,
     Display!Requests
<1> QED
  BY <1>7, <1>8, <1>9, <1>10 DEF DisplayInv

\* A grant is revoked by who holds its row, once.
LEMMA RevokeInv ==
  ASSUME DisplayInv, NEW r \in Revokes, Display!Revoke(r)
  PROVE  /\ DisplayInv'
         /\ Display!Granted' = Display!Granted
         /\ \A g \in Display!Granted : grants[g] # None => grants'[g] = grants[g]
         /\ \A g \in Display!Granted : g # call[r].grant => grants'[g] = grants[g]
<1> DEFINE new == [call[r] EXCEPT !.pc = "done"]
           g == call[r].grant
<1>1. /\ r \in Display!Requests /\ call[r].pc = "revoking"
      /\ call' = [call EXCEPT ![r] = new] /\ call[r] \in CallRow
      /\ grant_lock' = Display!Unlocked(r)
      /\ UNCHANGED <<now, finished_at, session_lock>>
  BY DEF Display!Revoke, Display!Goto, Display!Requests, DisplayInv, DisplayTypes
<1>2. new.pc = "done" /\ new \in CallRow
  BY <1>1 DEF CallRow
<1>3. g \in Display!Granted /\ grant_lock[g] = r
  BY <1>1 DEF DisplayInv, LockedStaysActive
<1>4. IF grants[g] # None THEN UNCHANGED grants
      ELSE grants' = [h \in Display!Granted |-> IF h \in {g} THEN now ELSE grants[h]]
  BY DEF Display!Revoke, Display!RevokedBy
<1> HIDE DEF new, g
<1>5. /\ call'[r] = new
      /\ \A q \in Display!Requests \ {r} : call'[q] = call[q]
  BY <1>1, OneCallMoves
<1>6. /\ Display!Granted' = Display!Granted
      /\ \A h \in Display!Granted : h # g => grants'[h] = grants[h]
      /\ grants'[g] = IF grants[g] # None THEN grants[g] ELSE now
  BY <1>3, <1>4 DEF Display!Granted
<1>7. now \in 0 .. MaxNow /\ now # None
  BY DisplayAssumption DEF DisplayInv, DisplayTypes
<1>8. Display!Active' = Display!Active \ {g}
  BY <1>3, <1>6, <1>7 DEF Display!Active
<1>9. grants' \in [Display!Granted -> 0 .. MaxNow \cup {None}]
  <2>1. \A h \in Display!Granted : grants[h] \in 0 .. MaxNow \cup {None}
    BY DEF DisplayInv, DisplayTypes
  <2>2. grants' = [h \in Display!Granted |-> grants'[h]]
    BY <1>4 DEF DisplayInv, DisplayTypes
  <2> QED
    BY <1>3, <1>6, <1>7, <2>1, <2>2
<1>10. DisplayTypes'
  <2>1. call' \in [Display!Requests -> CallRow]
    BY <1>1, <1>2 DEF DisplayInv, DisplayTypes
  <2> QED
    BY <1>1, <1>6, <1>9, <2>1, OthersKeepTheirs DEF DisplayInv, DisplayTypes
<1>11. SessionRowIsHeld'
  BY <1>1, <1>2, <1>5 DEF DisplayInv, SessionRowIsHeld
<1>12. LockedStaysActive'
  <2> SUFFICES ASSUME NEW q \in Display!Requests
               PROVE  /\ call'[q].pc \in {"locking", "issuing"} =>
                           \A h \in call'[q].locked : h \in Display!Active' /\ grant_lock'[h] = q
                      /\ call'[q].pc = "issuing" =>
                           Display!Active' \subseteq call'[q].locked /\ call'[q].at # None
                      /\ call'[q].pc = "revoking" =>
                           call'[q].grant \in Display!Granted' /\ grant_lock'[call'[q].grant] = q
    BY DEF LockedStaysActive
  <2>1. Display!Active \subseteq Issues /\ Display!Granted \subseteq Issues
    BY DEF DisplayInv, DisplayTypes, Display!Active
  <2>2. CASE q = r
    BY <1>2, <1>5, <2>2
  <2>3. CASE q # r
    <3>1. call'[q] = call[q]
      BY <1>5, <2>3
    <3>2. ASSUME call[q].pc \in {"locking", "issuing"}, NEW h \in call[q].locked
          PROVE  h \in Display!Active' /\ grant_lock'[h] = q
      <4>1. h \in Display!Active /\ grant_lock[h] = q
        BY <3>2 DEF DisplayInv, LockedStaysActive
      <4> QED
        BY <1>1, <1>3, <1>8, <2>1, <2>3, <4>1, OthersKeepTheirs
    <3>3. call[q].pc = "issuing" => Display!Active' \subseteq call[q].locked /\ call[q].at # None
      BY <1>8 DEF DisplayInv, LockedStaysActive
    <3>4. call[q].pc = "revoking" =>
            call[q].grant \in Display!Granted' /\ grant_lock'[call[q].grant] = q
      BY <1>1, <1>6, <2>1, <2>3, OthersKeepTheirs DEF DisplayInv, LockedStaysActive
    <3> QED
      BY <3>1, <3>2, <3>3, <3>4
  <2> QED
    BY <2>2, <2>3
<1>13. IdleHoldsNothing' /\ GrantsAreIssued' /\ OneActive'
  BY <1>1, <1>2, <1>5, <1>6, <1>8 DEF DisplayInv, DisplayTypes, IdleHoldsNothing, GrantsAreIssued,
     OneActive, Display!Requests
<1> QED
  BY <1>6, <1>10, <1>11, <1>12, <1>13 DEF DisplayInv, g

\* Every step keeps the invariant.
LEMMA DisplayNextInv == DisplayInv /\ [Display!Next]_display => DisplayInv'
<1> SUFFICES ASSUME DisplayInv, [Display!Next]_display PROVE DisplayInv'
  OBVIOUS
<1>1. ASSUME now' \in 0 .. MaxNow, UNCHANGED <<grants, session_lock, grant_lock, call>>
      PROVE  DisplayInv'
  <2>1. Display!Granted' = Display!Granted /\ Display!Active' = Display!Active
    BY <1>1 DEF Display!Granted, Display!Active
  <2> QED
    BY <1>1, <2>1 DEF DisplayInv, DisplayTypes, SessionRowIsHeld, LockedStaysActive,
       IdleHoldsNothing, GrantsAreIssued, OneActive
<1>2. now \in 0 .. MaxNow /\ (Display!Tick => now' \in 0 .. MaxNow)
  BY DisplayAssumption DEF DisplayInv, DisplayTypes, Display!Tick
<1>3. CASE UNCHANGED display
  BY <1>1, <1>2, <1>3 DEF display
<1>4. CASE Display!FinishSession \/ Display!Tick
  BY <1>1, <1>2, <1>4 DEF Display!FinishSession, Display!Tick
<1>5. ASSUME NEW r \in Display!Requests, Display!Step(r) PROVE DisplayInv'
  BY <1>5, LockSessionInv, LockGrantInv, LockedAllInv, IssueInv, LockForRevokeInv, RevokeInv
     DEF Display!Step
<1>6. ASSUME NEW r \in Display!Requests, Display!Die(r) PROVE DisplayInv'
  BY <1>6, DieInv
<1> QED
  BY <1>3, <1>4, <1>5, <1>6 DEF Display!Next

\* What a step may do to the grants: nothing, issue one, or revoke one under its row.
LEMMA GrantsMove ==
  ASSUME DisplayInv, [Display!Next]_display
  PROVE  \/ grants' = grants
         \/ \E i \in Issues : Display!Issue(i) /\ Display!Grant(i)
         \/ \E r \in Revokes : Display!Revoke(r)
<1>1. ASSUME NEW r \in Display!Requests, Display!Step(r)
      PROVE  \/ grants' = grants
             \/ \E i \in Issues : Display!Issue(i) /\ Display!Grant(i)
             \/ \E q \in Revokes : Display!Revoke(q)
  BY <1>1 DEF Display!Step, Display!LockSession, Display!LockGrant, Display!LockedAll, Display!Issue,
     Display!Refused, Display!LockForRevoke
<1> QED
  BY <1>1 DEF Display!Next, Display!Die, Display!FinishSession, Display!Tick, display

\* A grant that was revoked stays as it was, and one that was active is lost to the
\* next one or to a revocation of it.
LEMMA GrantsMoveRight ==
  ASSUME DisplayInv, [Display!Next]_display, NEW g \in Display!Granted
  PROVE  /\ g \in DOMAIN grants'
         /\ grants[g] # None => grants'[g] = grants[g]
         /\ \/ grants'[g] = grants[g]
            \/ \E i \in DOMAIN grants' \ Display!Granted : grants'[i] = None
            \/ \E r \in Revokes : call[r].pc = "revoking" /\ call[r].grant = g
<1>1. Display!Granted = DOMAIN grants
  BY DEF Display!Granted
<1>2. CASE grants' = grants
  BY <1>1, <1>2
<1>3. ASSUME NEW i \in Issues, Display!Issue(i), Display!Grant(i)
      PROVE  /\ g \in DOMAIN grants'
             /\ grants[g] # None => grants'[g] = grants[g]
             /\ \E j \in DOMAIN grants' \ Display!Granted : grants'[j] = None
  <2>1. /\ Display!Granted' = Display!Granted \cup {i} /\ i \notin Display!Granted
        /\ grants'[i] = None
        /\ \A h \in Display!Granted : grants[h] # None => grants'[h] = grants[h]
    BY <1>3, GrantInv
  <2>2. DOMAIN grants' = Display!Granted \cup {i}
    BY <2>1 DEF Display!Granted
  <2> QED
    BY <2>1, <2>2
<1>4. ASSUME NEW r \in Revokes, Display!Revoke(r)
      PROVE  /\ g \in DOMAIN grants'
             /\ grants[g] # None => grants'[g] = grants[g]
             /\ grants'[g] = grants[g] \/ (call[r].pc = "revoking" /\ call[r].grant = g)
  <2>1. /\ Display!Granted' = Display!Granted
        /\ \A h \in Display!Granted : grants[h] # None => grants'[h] = grants[h]
        /\ \A h \in Display!Granted : h # call[r].grant => grants'[h] = grants[h]
    BY <1>4, RevokeInv
  <2>2. DOMAIN grants' = Display!Granted /\ call[r].pc = "revoking"
    BY <1>4, <2>1 DEF Display!Granted, Display!Revoke
  <2> QED
    BY <2>1, <2>2
<1> QED
  BY <1>2, <1>3, <1>4, GrantsMove

\* The instance has the cardinality of the library.
LEMMA DisplayCardinality == ASSUME NEW S PROVE Display!Cardinality(S) = Cardinality(S)
  BY DEF Display!Cardinality, Cardinality

\* The invariant says what the run checks.
LEMMA DisplayInvSuffices == DisplayInv => Display!TypeOK /\ Display!OneDisplayAtATime
<1> SUFFICES ASSUME DisplayInv PROVE Display!TypeOK /\ Display!OneDisplayAtATime
  OBVIOUS
<1>1. Display!TypeOK
  BY DEF DisplayInv, DisplayTypes, Display!TypeOK
<1>2. CASE Display!Active = {}
  <2>1. Display!Cardinality(Display!Active) = 0
    BY <1>2, FS_EmptySet, DisplayCardinality
  <2> QED
    BY <1>1, <2>1 DEF Display!OneDisplayAtATime
<1>3. CASE Display!Active # {}
  <2>1. PICK g : Display!Active = {g}
    BY <1>3 DEF DisplayInv, OneActive
  <2>2. Display!Cardinality(Display!Active) = 1
    BY <2>1, FS_Singleton, DisplayCardinality
  <2> QED
    BY <1>1, <2>2 DEF Display!OneDisplayAtATime
<1> QED
  BY <1>1, <1>2, <1>3

\* One display is open at most; what was revoked stays so, and an open one is lost
\* to a revocation of it or to its successor only, whatever requests overlap, are
\* refused or die (views.py 103-193).
THEOREM DisplaysStaySafe == Display!Spec => DisplaysAreSafe
<1>1. Display!Spec => []DisplayInv
  BY DisplayInitInv, DisplayNextInv, PTL DEF Display!Spec, Display!vars, display
<1>2. DisplayInv /\ [Display!Next]_display =>
        [\A g \in Display!Granted : grants[g] # None =>
           g \in DOMAIN grants' /\ grants'[g] = grants[g]]_display
  BY GrantsMoveRight
<1>3. DisplayInv /\ [Display!Next]_display =>
        [\A g \in Display!Active : g \notin {h \in DOMAIN grants' : grants'[h] = None} =>
           \/ \E i \in DOMAIN grants' \ Display!Granted : grants'[i] = None
           \/ \E r \in Revokes : call[r].pc = "revoking" /\ call[r].grant = g]_display
  BY GrantsMoveRight DEF Display!Active
<1> QED
  BY <1>1, <1>2, <1>3, DisplayInvSuffices, PTL DEF Display!Spec, Display!vars, display, DisplaysAreSafe,
     Display!RevokedForGood, Display!ClosedOnlyForAReason
-----------------------------------------------------------------------------
(* The buckets: what was taken is covered by what a bucket held and by the  *)
(* time that passed, and a key lives until its bucket could be full again.  *)

\* The hash of a bucket.
HashOf(b) == [tokens : 0 .. Capacity(b), last : 0 .. MaxTime, expires : Nat]

LimiterTypes ==
  /\ redis_time \in 0 .. MaxTime
  /\ passed \in Nat
  /\ DOMAIN stored \subseteq Buckets
  /\ \A b \in DOMAIN stored : stored[b] \in HashOf(b)
  /\ spent \in [Buckets -> Nat]

\* What was taken from a bucket, what is in it and what its next look brings have
\* been there at the start or earned since.
StoredIsCovered ==
  \A b \in DOMAIN stored :
    spent[b] + stored[b].tokens + Limiter!Higher(0, redis_time - stored[b].last) * Refill(b)
      <= Capacity(b) + passed * Refill(b)

\* A key lives until all that was taken has been earned, a full bucket included.
KeysOutliveDebts ==
  \A b \in DOMAIN stored :
    spent[b] + Capacity(b) <= (passed + stored[b].expires - redis_time) * Refill(b)

\* A bucket whose key is gone owes nothing.
AbsentOwesNothing == \A b \in Buckets \ DOMAIN stored : spent[b] <= passed * Refill(b)

LimiterInv == LimiterTypes /\ StoredIsCovered /\ KeysOutliveDebts /\ AbsentOwesNothing

\* The rate of a bucket and what it holds.
LEMMA BucketTypes ==
  ASSUME NEW b \in Buckets
  PROVE  /\ Capacity(b) \in Nat /\ Refill(b) \in Nat /\ Refill(b) > 0
         /\ Cost \in Nat /\ Cost <= Capacity(b)
         /\ MinTtl \in Nat /\ Second \in Nat /\ Second > 0 /\ MaxTime \in Nat
  BY LimiterAssumption

\* A quotient that is rounded up times its divisor gives the dividend back at least.
LEMMA CeilingIsEnough ==
  ASSUME NEW x \in Nat, NEW y \in Nat, y > 0
  PROVE  /\ Limiter!Ceiling(x, y) \in Nat
         /\ x <= Limiter!Ceiling(x, y) * y
         /\ Limiter!Ceiling(x, y) <= x
<1>1. Limiter!Ceiling(x, y) \in Nat
  BY DEF Limiter!Ceiling
<1>2. x <= Limiter!Ceiling(x, y) * y
  BY DEF Limiter!Ceiling
<1>3. Limiter!Ceiling(x, y) <= x
  BY DEF Limiter!Ceiling
<1> QED
  BY <1>1, <1>2, <1>3

\* More time brings more, and what two spans bring adds up.
LEMMA Earns ==
  ASSUME NEW x \in Int, NEW y \in Int, NEW r \in Nat
  PROVE  /\ x * r \in Int /\ (x + y) * r = x * r + y * r
         /\ (x - y) * r = x * r - y * r
         /\ x <= y => x * r <= y * r
         /\ x \in Nat => x * r \in Nat
<1>1. x * r \in Int /\ y * r \in Int /\ (x + y) * r = x * r + y * r /\ (x - y) * r = x * r - y * r
  OBVIOUS
<1>2. x <= y => x * r <= y * r
  OBVIOUS
<1>3. x \in Nat => x * r \in Nat
  OBVIOUS
<1> QED
  BY <1>1, <1>2, <1>3

\* The life of a key is long enough to fill its bucket twice.
LEMMA TtlFillsTwice ==
  ASSUME NEW b \in Buckets
  PROVE  Limiter!Ttl(b) \in Nat /\ 2 * Capacity(b) <= Limiter!Ttl(b) * Refill(b)
<1> DEFINE n == Limiter!Ceiling(Capacity(b), Refill(b))
<1>1. n \in Nat /\ Capacity(b) <= n * Refill(b)
  BY BucketTypes, CeilingIsEnough
<1>2. Limiter!Ttl(b) = IF MinTtl < 2 * n THEN 2 * n ELSE MinTtl
  BY DEF Limiter!Ttl, Limiter!Higher
<1> HIDE DEF n
<1>3. Limiter!Ttl(b) \in Nat /\ n + n <= Limiter!Ttl(b)
  <2>1. MinTtl \in Nat
    BY BucketTypes
  <2>2. CASE MinTtl < 2 * n
    BY <1>1, <1>2, <2>2
  <2>3. CASE ~(MinTtl < 2 * n)
    BY <1>1, <1>2, <2>1, <2>3
  <2> QED
    BY <2>2, <2>3
<1>4. (n + n) * Refill(b) <= Limiter!Ttl(b) * Refill(b)
  BY <1>1, <1>3, BucketTypes, Earns
<1>5. (n + n) * Refill(b) = n * Refill(b) + n * Refill(b)
  BY <1>1, BucketTypes, Earns
<1>6. n * Refill(b) \in Int /\ Limiter!Ttl(b) * Refill(b) \in Int
  BY <1>1, <1>3, BucketTypes, Earns
<1> QED
  BY <1>1, <1>3, <1>4, <1>5, <1>6, BucketTypes

\* What a bucket whose key lives holds at a time.
LEMMA TokensOfLiving ==
  ASSUME LimiterInv, NEW b \in DOMAIN stored, NEW time \in Nat, time < stored[b].expires
  PROVE  /\ Limiter!Bucket(b, time) = stored[b]
         /\ Limiter!Tokens(b, time) =
              Limiter!Lower(Capacity(b),
                stored[b].tokens + Limiter!Higher(0, time - stored[b].last) * Refill(b))
         /\ stored[b].tokens \in 0 .. Capacity(b) /\ stored[b].last \in 0 .. MaxTime
         /\ b \in Buckets
<1>1. Limiter!Bucket(b, time) = stored[b]
  BY DEF Limiter!Bucket
<1> QED
  BY <1>1 DEF Limiter!Tokens, LimiterInv, LimiterTypes, HashOf

\* One whose key is gone, or should be, is full.
LEMMA TokensOfGone ==
  ASSUME NEW b \in Buckets, NEW time \in Nat,
         b \notin DOMAIN stored \/ ~(time < stored[b].expires)
  PROVE  /\ Limiter!Tokens(b, time) = Capacity(b)
         /\ Limiter!Bucket(b, time).last = time
<1>1. Limiter!Bucket(b, time) = [tokens |-> Capacity(b), last |-> time, expires |-> 0]
  BY DEF Limiter!Bucket, Limiter!Absent
<1>2. Limiter!Tokens(b, time) = Limiter!Lower(Capacity(b), Capacity(b) + Limiter!Higher(0, time - time) * Refill(b))
  BY <1>1 DEF Limiter!Tokens
<1>3. Limiter!Higher(0, time - time) = 0
  BY DEF Limiter!Higher
<1>4. 0 * Refill(b) = 0
  BY BucketTypes
<1>5. Limiter!Tokens(b, time) = Capacity(b)
  BY <1>2, <1>3, <1>4, BucketTypes DEF Limiter!Lower
<1> QED
  BY <1>1, <1>5

\* A bucket whose key has had its time owes nothing either.
LEMMA ExpiredOwesNothing ==
  ASSUME LimiterInv, NEW b \in DOMAIN stored, ~(redis_time < stored[b].expires)
  PROVE  spent[b] <= passed * Refill(b)
<1> DEFINE x == passed + stored[b].expires - redis_time
           r == Refill(b)
<1>1. /\ spent[b] \in Nat /\ Capacity(b) \in Nat /\ passed \in Nat /\ redis_time \in Nat
      /\ stored[b].expires \in Nat /\ r \in Nat
  BY BucketTypes DEF LimiterInv, LimiterTypes, HashOf
<1>2. spent[b] + Capacity(b) <= x * r
  BY DEF LimiterInv, KeysOutliveDebts
<1>3. x \in Int /\ x <= passed
  BY <1>1
<1> HIDE DEF x, r
<1>4. x * r \in Int /\ x * r <= passed * r /\ passed * r \in Int
  BY <1>1, <1>3, Earns
<1>5. spent[b] <= passed * r
  BY <1>1, <1>2, <1>4
<1> QED
  BY <1>5 DEF r

\* What a bucket holds now has been there at the start or earned since.
LEMMA TokensNow ==
  ASSUME LimiterInv, NEW b \in Buckets
  PROVE  /\ Limiter!Tokens(b, redis_time) \in 0 .. Capacity(b)
         /\ Limiter!Last(b, redis_time) \in redis_time .. MaxTime
         /\ spent[b] + Limiter!Tokens(b, redis_time) <= Capacity(b) + passed * Refill(b)
<1> DEFINE t == redis_time
           r == Refill(b)
           cap == Capacity(b)
           w == stored[b]
<1>1. /\ t \in 0 .. MaxTime /\ t \in Nat /\ passed \in Nat /\ spent[b] \in Nat
      /\ cap \in Nat /\ r \in Nat /\ r > 0 /\ MaxTime \in Nat /\ passed * r \in Nat
  BY BucketTypes, Earns DEF LimiterInv, LimiterTypes
<1>2. CASE b \in DOMAIN stored /\ t < w.expires
  <2>1. /\ Limiter!Bucket(b, t) = w
        /\ Limiter!Tokens(b, t) = Limiter!Lower(cap, w.tokens + Limiter!Higher(0, t - w.last) * r)
        /\ w.tokens \in 0 .. cap /\ w.last \in 0 .. MaxTime
    BY <1>1, <1>2, TokensOfLiving
  <2>2. Limiter!Last(b, t) = Limiter!Higher(w.last, t)
    BY <2>1 DEF Limiter!Last
  <2>3. spent[b] + w.tokens + Limiter!Higher(0, t - w.last) * r <= cap + passed * r
    BY <1>2 DEF LimiterInv, StoredIsCovered
  <2> DEFINE earned == Limiter!Higher(0, t - w.last) * r
  <2>4. earned \in Nat
    <3>1. Limiter!Higher(0, t - w.last) \in Nat
      BY <1>1, <2>1 DEF Limiter!Higher
    <3> QED
      BY <1>1, <3>1, Earns
  <2>5. Limiter!Last(b, t) \in t .. MaxTime
    BY <1>1, <2>1, <2>2 DEF Limiter!Higher
  <2> HIDE DEF earned, w, r, cap, t
  <2>6. /\ Limiter!Tokens(b, t) = Limiter!Lower(cap, w.tokens + earned)
        /\ spent[b] + w.tokens + earned <= cap + passed * r
    BY <2>1, <2>3 DEF earned
  <2>7. Limiter!Tokens(b, t) \in 0 .. cap /\ Limiter!Tokens(b, t) <= w.tokens + earned
    BY <1>1, <2>1, <2>4, <2>6 DEF Limiter!Lower
  <2>8. spent[b] + Limiter!Tokens(b, t) <= cap + passed * r
    BY <1>1, <2>1, <2>4, <2>6, <2>7
  <2> QED
    BY <2>5, <2>7, <2>8 DEF t, r, cap
<1>3. CASE b \notin DOMAIN stored \/ ~(t < w.expires)
  <2>1. Limiter!Tokens(b, t) = cap /\ Limiter!Bucket(b, t).last = t
    BY <1>1, <1>3, TokensOfGone
  <2>2. Limiter!Last(b, t) = t
    BY <1>1, <2>1 DEF Limiter!Last, Limiter!Higher
  <2>3. spent[b] <= passed * r
    <3>1. CASE b \notin DOMAIN stored
      BY <3>1 DEF LimiterInv, AbsentOwesNothing
    <3>2. CASE b \in DOMAIN stored
      BY <1>3, <3>2, ExpiredOwesNothing
    <3> QED
      BY <3>1, <3>2
  <2> HIDE DEF r, cap, t, w
  <2>4. Limiter!Tokens(b, t) \in 0 .. cap /\ Limiter!Last(b, t) \in t .. MaxTime
    BY <1>1, <2>1, <2>2
  <2>5. spent[b] + Limiter!Tokens(b, t) <= cap + passed * r
    BY <1>1, <2>1, <2>3
  <2> QED
    BY <2>4, <2>5 DEF t, r, cap
<1> QED
  BY <1>2, <1>3

\* A check takes a token from each of its buckets or from none.
LEMMA TakenIs ==
  ASSUME LimiterInv, NEW check \in Checks, NEW b \in check
  PROVE  /\ b \in Buckets
         /\ Limiter!Taken(check, b) \in 0 .. Limiter!Tokens(b, redis_time)
<1>1. b \in Buckets
  BY LimiterAssumption
<1>2. Limiter!Tokens(b, redis_time) \in Nat /\ Cost \in Nat
  BY <1>1, TokensNow, BucketTypes
<1>3. CASE Limiter!Short(check, redis_time) = {}
  <2>1. Limiter!Taken(check, b) = Cost /\ ~(Limiter!Tokens(b, redis_time) < Cost)
    BY <1>3 DEF Limiter!Taken, Limiter!Short
  <2> QED
    BY <1>1, <1>2, <2>1
<1>4. CASE Limiter!Short(check, redis_time) # {}
  <2>1. Limiter!Taken(check, b) = 0
    BY <1>4 DEF Limiter!Taken
  <2> QED
    BY <1>1, <1>2, <2>1
<1> QED
  BY <1>3, <1>4

\* The invariant holds as long as nobody has asked.
LEMMA LimiterInitInv == Limiter!Init => LimiterInv
<1> SUFFICES ASSUME Limiter!Init PROVE LimiterInv
  OBVIOUS
<1>1. DOMAIN stored = {} /\ passed = 0 /\ redis_time = StartTime /\ spent = [b \in Buckets |-> 0]
  BY DEF Limiter!Init
<1>2. LimiterTypes
  BY <1>1, LimiterAssumption DEF LimiterTypes
<1>3. AbsentOwesNothing
  <2> SUFFICES ASSUME NEW b \in Buckets PROVE spent[b] <= passed * Refill(b)
    BY DEF AbsentOwesNothing
  <2>1. 0 * Refill(b) = 0
    BY BucketTypes
  <2> QED
    BY <1>1, <2>1
<1> QED
  BY <1>1, <1>2, <1>3 DEF LimiterInv, StoredIsCovered, KeysOutliveDebts

\* A check keeps the books of its buckets, whether it lets the request in or not.
LEMMA CheckInv ==
  ASSUME LimiterInv, NEW check \in Checks, Limiter!Check(check)
  PROVE  LimiterInv'
<1>1. /\ DOMAIN stored' = DOMAIN stored \cup check
      /\ \A b \in DOMAIN stored \ check : stored'[b] = stored[b]
      /\ \A b \in check : stored'[b] =
           [tokens |-> Limiter!Tokens(b, redis_time) - Limiter!Taken(check, b),
            last |-> Limiter!Last(b, redis_time), expires |-> redis_time + Limiter!Ttl(b)]
      /\ redis_time' = redis_time /\ passed' = passed
  BY DEF Limiter!Check
<1>2. /\ \A b \in check : spent'[b] = spent[b] + Limiter!Taken(check, b)
      /\ \A b \in Buckets \ check : spent'[b] = spent[b]
      /\ spent' \in [Buckets -> Nat]
  <2>1. \A b \in Buckets : spent[b] \in Nat
    BY DEF LimiterInv, LimiterTypes
  <2>2. \A b \in check : b \in Buckets /\ Limiter!Taken(check, b) \in Nat
    <3> SUFFICES ASSUME NEW b \in check PROVE b \in Buckets /\ Limiter!Taken(check, b) \in Nat
      OBVIOUS
    <3>1. b \in Buckets /\ Limiter!Taken(check, b) \in 0 .. Limiter!Tokens(b, redis_time)
      BY TakenIs
    <3>2. Limiter!Tokens(b, redis_time) \in 0 .. Capacity(b)
      BY <3>1, TokensNow
    <3> QED
      BY <3>1, <3>2
  <2>3. spent' = [b \in Buckets |-> spent[b] + (IF b \in check THEN Limiter!Taken(check, b) ELSE 0)]
    BY DEF Limiter!Check
  <2>4. /\ \A b \in check : spent'[b] = spent[b] + Limiter!Taken(check, b)
        /\ \A b \in Buckets \ check : spent'[b] = spent[b]
    BY <2>1, <2>2, <2>3
  <2>5. \A b \in Buckets : spent'[b] \in Nat
    BY <2>1, <2>2, <2>4
  <2> QED
    BY <2>3, <2>4, <2>5
<1>3. ASSUME NEW b \in check
      PROVE  /\ b \in Buckets /\ stored'[b] \in HashOf(b)
             /\ spent'[b] + stored'[b].tokens + Limiter!Higher(0, redis_time - stored'[b].last) * Refill(b)
                  <= Capacity(b) + passed * Refill(b)
             /\ spent'[b] + Capacity(b) <= (passed + stored'[b].expires - redis_time) * Refill(b)
  <2> DEFINE tokens == Limiter!Tokens(b, redis_time)
             taken == Limiter!Taken(check, b)
             last == Limiter!Last(b, redis_time)
             ttl == Limiter!Ttl(b)
             r == Refill(b)
             cap == Capacity(b)
  <2>1. b \in Buckets /\ taken \in 0 .. tokens
    BY TakenIs
  <2>2. /\ tokens \in 0 .. cap /\ last \in redis_time .. MaxTime
        /\ spent[b] + tokens <= cap + passed * r
    BY <2>1, TokensNow
  <2>3. /\ cap \in Nat /\ r \in Nat /\ MaxTime \in Nat /\ ttl \in Nat /\ 2 * cap <= ttl * r
        /\ passed \in Nat /\ redis_time \in 0 .. MaxTime /\ spent[b] \in Nat
    BY <2>1, BucketTypes, TtlFillsTwice DEF LimiterInv, LimiterTypes
  <2>4. /\ stored'[b] = [tokens |-> tokens - taken, last |-> last, expires |-> redis_time + ttl]
        /\ spent'[b] = spent[b] + taken
    BY <1>1, <1>2
  <2>5. passed * r \in Nat /\ ttl * r \in Nat /\ (passed + ttl) * r = passed * r + ttl * r /\ 0 * r = 0
    BY <2>3, Earns
  <2> HIDE DEF tokens, taken, last, ttl, r, cap
  <2>6. /\ stored'[b].tokens = tokens - taken /\ stored'[b].last = last
        /\ stored'[b].expires = redis_time + ttl
    BY <2>4
  <2>7. stored'[b] \in [tokens : 0 .. cap, last : 0 .. MaxTime, expires : Nat]
    <3>1. tokens - taken \in 0 .. cap /\ last \in 0 .. MaxTime /\ redis_time + ttl \in Nat
      BY <2>1, <2>2, <2>3
    <3> QED
      BY <2>4, <3>1
  <2>8. Limiter!Higher(0, redis_time - stored'[b].last) = 0
    BY <2>2, <2>3, <2>6 DEF Limiter!Higher
  <2>9. spent'[b] + stored'[b].tokens + 0 <= cap + passed * r
    BY <2>1, <2>2, <2>3, <2>4, <2>5, <2>6
  <2>10. passed + stored'[b].expires - redis_time = passed + ttl
    BY <2>3, <2>6
  <2>11. spent'[b] + cap <= passed * r + ttl * r
    BY <2>1, <2>2, <2>3, <2>4, <2>5
  <2>12. spent'[b] + stored'[b].tokens + Limiter!Higher(0, redis_time - stored'[b].last) * r
           <= cap + passed * r
    BY <2>5, <2>8, <2>9
  <2>13. spent'[b] + cap <= (passed + stored'[b].expires - redis_time) * r
    BY <2>5, <2>10, <2>11
  <2> QED
    BY <2>1, <2>7, <2>12, <2>13 DEF r, cap, HashOf
<1>4. LimiterTypes'
  <2>1. check \subseteq Buckets
    BY <1>3
  <2>2. \A b \in DOMAIN stored' : stored'[b] \in HashOf(b)
    BY <1>1, <1>3 DEF LimiterInv, LimiterTypes
  <2> QED
    BY <1>1, <1>2, <2>1, <2>2 DEF LimiterInv, LimiterTypes, HashOf
<1>5. StoredIsCovered'
  <2> SUFFICES ASSUME NEW b \in DOMAIN stored'
               PROVE  spent'[b] + stored'[b].tokens
                        + Limiter!Higher(0, redis_time - stored'[b].last) * Refill(b)
                        <= Capacity(b) + passed * Refill(b)
    BY <1>1 DEF StoredIsCovered, Limiter!Higher
  <2>1. CASE b \in check
    BY <1>3, <2>1
  <2>2. CASE b \notin check
    <3>1. b \in DOMAIN stored /\ stored'[b] = stored[b] /\ b \in Buckets /\ spent'[b] = spent[b]
      BY <1>1, <1>2, <2>2 DEF LimiterInv, LimiterTypes
    <3> QED
      BY <3>1 DEF LimiterInv, StoredIsCovered
  <2> QED
    BY <2>1, <2>2
<1>6. KeysOutliveDebts'
  <2> SUFFICES ASSUME NEW b \in DOMAIN stored'
               PROVE  spent'[b] + Capacity(b) <= (passed + stored'[b].expires - redis_time) * Refill(b)
    BY <1>1 DEF KeysOutliveDebts
  <2>1. CASE b \in check
    BY <1>3, <2>1
  <2>2. CASE b \notin check
    <3>1. b \in DOMAIN stored /\ stored'[b] = stored[b] /\ b \in Buckets /\ spent'[b] = spent[b]
      BY <1>1, <1>2, <2>2 DEF LimiterInv, LimiterTypes
    <3> QED
      BY <3>1 DEF LimiterInv, KeysOutliveDebts
  <2> QED
    BY <2>1, <2>2
<1>7. AbsentOwesNothing'
  BY <1>1, <1>2 DEF LimiterInv, AbsentOwesNothing
<1> QED
  BY <1>4, <1>5, <1>6, <1>7 DEF LimiterInv

\* A key that Redis drops when its time has come belongs to a bucket that owes nothing.
LEMMA ExpireInv ==
  ASSUME LimiterInv, NEW b \in Buckets, Limiter!Expire(b)
  PROVE  LimiterInv'
<1>1. /\ b \in DOMAIN stored /\ redis_time >= stored[b].expires
      /\ DOMAIN stored' = DOMAIN stored \ {b}
      /\ \A d \in DOMAIN stored' : stored'[d] = stored[d]
      /\ UNCHANGED <<redis_time, passed, spent>>
  BY DEF Limiter!Expire
<1>2. spent[b] <= passed * Refill(b)
  <2>1. ~(redis_time < stored[b].expires)
    BY <1>1 DEF LimiterInv, LimiterTypes, HashOf
  <2> QED
    BY <1>1, <2>1, ExpiredOwesNothing
<1> QED
  BY <1>1, <1>2 DEF LimiterInv, LimiterTypes, StoredIsCovered, KeysOutliveDebts, AbsentOwesNothing,
     HashOf, Limiter!Higher

\* A millisecond that passes is earned by every bucket and brings none of them more.
LEMMA ClockTickInv ==
  ASSUME LimiterInv, Limiter!Tick
  PROVE  LimiterInv'
<1>1. /\ redis_time < MaxTime /\ redis_time' = redis_time + 1 /\ passed' = passed + 1
      /\ UNCHANGED <<stored, spent>>
      /\ redis_time \in Nat /\ passed \in Nat /\ MaxTime \in Nat /\ redis_time' \in 0 .. MaxTime
  BY LimiterAssumption DEF Limiter!Tick, LimiterInv, LimiterTypes
<1>2. ASSUME NEW b \in Buckets
      PROVE  /\ (passed + 1) * Refill(b) = passed * Refill(b) + Refill(b)
             /\ passed * Refill(b) \in Nat /\ Refill(b) \in Nat
             /\ spent[b] \in Nat /\ Capacity(b) \in Nat
  <2>1. 1 * Refill(b) = Refill(b)
    BY BucketTypes
  <2> QED
    BY <1>1, <2>1, BucketTypes, Earns DEF LimiterInv, LimiterTypes
<1>3. StoredIsCovered'
  <2> SUFFICES ASSUME NEW b \in DOMAIN stored
               PROVE  spent[b] + stored[b].tokens
                        + Limiter!Higher(0, redis_time' - stored[b].last) * Refill(b)
                        <= Capacity(b) + passed' * Refill(b)
    BY <1>1 DEF StoredIsCovered, Limiter!Higher
  <2> DEFINE last == stored[b].last
             e == Limiter!Higher(0, redis_time - last)
             f == Limiter!Higher(0, redis_time' - last)
             r == Refill(b)
  <2>1. /\ b \in Buckets /\ last \in Nat /\ stored[b].tokens \in Nat /\ r \in Nat /\ Capacity(b) \in Nat
        /\ spent[b] + stored[b].tokens + e * r <= Capacity(b) + passed * r
    BY BucketTypes DEF LimiterInv, LimiterTypes, HashOf, StoredIsCovered
  <2>2. e \in Nat /\ f \in Nat /\ f <= e + 1
    BY <1>1, <2>1 DEF Limiter!Higher
  <2> HIDE DEF e, f
  <2>3. /\ f * r <= (e + 1) * r /\ (e + 1) * r = e * r + 1 * r /\ e * r \in Nat /\ f * r \in Nat
        /\ 1 * r = r /\ (e + 1) * r \in Nat
    BY <2>1, <2>2, Earns
  <2>4. (passed + 1) * r = passed * r + r /\ passed * r \in Nat /\ spent[b] \in Nat
    BY <1>2, <2>1
  <2> HIDE DEF r, last
  <2>5. spent[b] + stored[b].tokens + f * r <= Capacity(b) + (passed + 1) * r
    BY <2>1, <2>3, <2>4
  <2> QED
    BY <1>1, <2>5 DEF f, r, last
<1>4. KeysOutliveDebts'
  <2> SUFFICES ASSUME NEW b \in DOMAIN stored
               PROVE  spent[b] + Capacity(b)
                        <= (passed + 1 + stored[b].expires - (redis_time + 1)) * Refill(b)
    BY <1>1 DEF KeysOutliveDebts
  <2>1. stored[b].expires \in Nat
    BY DEF LimiterInv, LimiterTypes, HashOf
  <2>2. passed + 1 + stored[b].expires - (redis_time + 1) = passed + stored[b].expires - redis_time
    BY <1>1, <2>1
  <2> QED
    BY <2>2 DEF LimiterInv, KeysOutliveDebts
<1>5. AbsentOwesNothing'
  <2> SUFFICES ASSUME NEW b \in Buckets \ DOMAIN stored
               PROVE  spent[b] <= (passed + 1) * Refill(b)
    BY <1>1 DEF AbsentOwesNothing
  <2>1. spent[b] <= passed * Refill(b)
    BY DEF LimiterInv, AbsentOwesNothing
  <2> QED
    BY <1>2, <2>1
<1>6. LimiterTypes'
  BY <1>1 DEF LimiterInv, LimiterTypes, HashOf
<1> QED
  BY <1>3, <1>4, <1>5, <1>6 DEF LimiterInv

\* A clock that is set back only keeps keys longer and brings less.
LEMMA SetBackInv ==
  ASSUME LimiterInv, Limiter!SetBack
  PROVE  LimiterInv'
<1>1. /\ redis_time' \in Nat /\ redis_time' <= redis_time /\ UNCHANGED <<stored, passed, spent>>
      /\ redis_time \in Nat /\ passed \in Nat /\ redis_time' \in 0 .. MaxTime
  BY LimiterAssumption DEF Limiter!SetBack, LimiterInv, LimiterTypes
<1>2. ASSUME NEW b \in DOMAIN stored
      PROVE  /\ b \in Buckets /\ stored[b].last \in Nat /\ stored[b].tokens \in Nat
             /\ stored[b].expires \in Nat /\ Refill(b) \in Nat /\ Capacity(b) \in Nat
             /\ spent[b] \in Nat /\ passed * Refill(b) \in Nat
  BY <1>1, BucketTypes, Earns DEF LimiterInv, LimiterTypes, HashOf
<1>3. StoredIsCovered'
  <2> SUFFICES ASSUME NEW b \in DOMAIN stored
               PROVE  spent[b] + stored[b].tokens
                        + Limiter!Higher(0, redis_time' - stored[b].last) * Refill(b)
                        <= Capacity(b) + passed * Refill(b)
    BY <1>1 DEF StoredIsCovered, Limiter!Higher
  <2> DEFINE last == stored[b].last
             e == Limiter!Higher(0, redis_time - last)
             f == Limiter!Higher(0, redis_time' - last)
             r == Refill(b)
  <2>1. spent[b] + stored[b].tokens + e * r <= Capacity(b) + passed * r
    BY DEF LimiterInv, StoredIsCovered
  <2>2. e \in Nat /\ f \in Nat /\ f <= e
    BY <1>1, <1>2 DEF Limiter!Higher
  <2>3. r \in Nat
    BY <1>2
  <2> HIDE DEF e, f, r, last
  <2>4. f * r <= e * r /\ e * r \in Nat /\ f * r \in Nat
    BY <2>2, <2>3, Earns
  <2>5. passed * r \in Nat
    BY <1>2 DEF r
  <2>6. spent[b] + stored[b].tokens + f * r <= Capacity(b) + passed * r
    BY <1>2, <2>1, <2>4, <2>5
  <2> QED
    BY <2>6 DEF f, r, last
<1>4. KeysOutliveDebts'
  <2> SUFFICES ASSUME NEW b \in DOMAIN stored
               PROVE  spent[b] + Capacity(b) <= (passed + stored[b].expires - redis_time') * Refill(b)
    BY <1>1 DEF KeysOutliveDebts
  <2> DEFINE x == passed + stored[b].expires - redis_time
             y == passed + stored[b].expires - redis_time'
             r == Refill(b)
  <2>1. x \in Int /\ y \in Int /\ x <= y /\ r \in Nat
    BY <1>1, <1>2
  <2>2. spent[b] + Capacity(b) <= x * r
    BY DEF LimiterInv, KeysOutliveDebts
  <2> HIDE DEF x, y, r
  <2>3. x * r <= y * r /\ x * r \in Int /\ y * r \in Int
    BY <2>1, Earns
  <2>4. spent[b] + Capacity(b) <= y * r
    BY <1>2, <2>2, <2>3
  <2> QED
    BY <2>4 DEF y, r
<1>5. LimiterTypes' /\ AbsentOwesNothing'
  BY <1>1 DEF LimiterInv, LimiterTypes, HashOf, AbsentOwesNothing
<1> QED
  BY <1>3, <1>4, <1>5 DEF LimiterInv

\* Every step keeps the invariant.
LEMMA LimiterNextInv == LimiterInv /\ [Limiter!Next]_limiter => LimiterInv'
<1> SUFFICES ASSUME LimiterInv, [Limiter!Next]_limiter PROVE LimiterInv'
  OBVIOUS
<1>1. CASE UNCHANGED limiter
  BY <1>1 DEF limiter, LimiterInv, LimiterTypes, HashOf, StoredIsCovered, KeysOutliveDebts,
     AbsentOwesNothing, Limiter!Higher
<1>2. CASE Limiter!Next
  BY <1>2, CheckInv, ExpireInv, ClockTickInv, SetBackInv DEF Limiter!Next
<1> QED
  BY <1>1, <1>2

-----------------------------------------------------------------------------
(* What a refusal says.                                                     *)

\* A bucket that is short has a living key, and is not short any more when the wait
\* it asks for is over.
LEMMA ShortWaits ==
  ASSUME LimiterInv, NEW b \in Buckets, Limiter!Tokens(b, redis_time) < Cost
  PROVE  /\ Limiter!RetryOf(b, redis_time) \in 0 .. MaxTime + Cost
         /\ \A time \in Nat : redis_time + Limiter!RetryOf(b, redis_time) <= time =>
              ~(Limiter!Tokens(b, time) < Cost)
<1> DEFINE w == stored[b]
           r == Refill(b)
           cap == Capacity(b)
           t == redis_time
           missing == Cost - Limiter!Tokens(b, t)
           ceiling == Limiter!Ceiling(missing, r)
           ahead == Limiter!Higher(0, w.last - t)
           earned == Limiter!Higher(0, t - w.last)
<1>1. /\ t \in 0 .. MaxTime /\ t \in Nat /\ cap \in Nat /\ r \in Nat /\ r > 0 /\ MaxTime \in Nat
      /\ Cost \in Nat /\ Cost <= cap
  BY BucketTypes DEF LimiterInv, LimiterTypes
<1>2. b \in DOMAIN stored /\ t < w.expires
  BY <1>1, TokensOfGone
<1>3. /\ Limiter!Bucket(b, t) = w
      /\ Limiter!Tokens(b, t) = Limiter!Lower(cap, w.tokens + earned * r)
      /\ w.tokens \in 0 .. cap /\ w.last \in 0 .. MaxTime /\ w.expires \in Nat
  BY <1>1, <1>2, TokensOfLiving DEF LimiterInv, LimiterTypes, HashOf
<1>4. earned \in Nat /\ ahead \in 0 .. MaxTime
  BY <1>1, <1>3 DEF Limiter!Higher
<1>5. earned * r \in Nat
  <2> HIDE DEF earned, r
  <2> QED
    BY <1>1, <1>4, Earns
<1>6. Limiter!Tokens(b, t) = w.tokens + earned * r
  BY <1>1, <1>3, <1>5 DEF Limiter!Lower
<1>7. missing \in Nat /\ missing <= Cost
  BY <1>1, <1>3, <1>5, <1>6
<1>8. ceiling \in Nat /\ missing <= ceiling * r /\ ceiling <= missing
  <2> HIDE DEF missing, r
  <2> QED
    BY <1>1, <1>7, CeilingIsEnough
<1>9. Limiter!RetryOf(b, t) = ahead + ceiling
  BY <1>3 DEF Limiter!RetryOf
<1>10. Limiter!RetryOf(b, t) \in 0 .. MaxTime + Cost
  <2> HIDE DEF missing, ceiling, ahead
  <2> QED
    BY <1>1, <1>4, <1>7, <1>8, <1>9
<1>11. ASSUME NEW time \in Nat, t + Limiter!RetryOf(b, t) <= time
       PROVE  ~(Limiter!Tokens(b, time) < Cost)
  <2>1. CASE ~(time < w.expires)
    <3>1. Limiter!Tokens(b, time) = cap
      BY <2>1, TokensOfGone
    <3> QED
      BY <1>1, <3>1
  <2>2. CASE time < w.expires
    <3> DEFINE later == Limiter!Higher(0, time - w.last)
    <3>1. Limiter!Tokens(b, time) = Limiter!Lower(cap, w.tokens + later * r)
      BY <1>2, <2>2, TokensOfLiving
    <3>2. later \in Nat /\ earned + ceiling <= later
      <4>1. t + ahead + ceiling <= time
        <5> HIDE DEF ahead, ceiling
        <5> QED
          BY <1>1, <1>4, <1>8, <1>9, <1>11
      <4> HIDE DEF ceiling
      <4> QED
        BY <1>1, <1>3, <1>8, <4>1 DEF Limiter!Higher
    <3> HIDE DEF later, earned, ceiling, r
    <3>3. /\ (earned + ceiling) * r <= later * r /\ (earned + ceiling) * r = earned * r + ceiling * r
          /\ later * r \in Nat /\ ceiling * r \in Nat
      BY <1>1, <1>4, <1>8, <3>2, Earns
    <3>4. Cost <= w.tokens + later * r
      <4>1. Cost - (w.tokens + earned * r) <= ceiling * r
        BY <1>6, <1>8
      <4> HIDE DEF w
      <4> QED
        BY <1>1, <1>3, <1>5, <3>3, <4>1
    <3> QED
      BY <1>1, <1>3, <3>1, <3>3, <3>4 DEF Limiter!Lower
  <2> QED
    BY <2>1, <2>2
<1> QED
  BY <1>10, <1>11

\* A bucket that has a token keeps having one while nobody asks.
LEMMA EnoughStays ==
  ASSUME LimiterInv, NEW b \in Buckets, ~(Limiter!Tokens(b, redis_time) < Cost),
         NEW time \in Nat, redis_time <= time
  PROVE  ~(Limiter!Tokens(b, time) < Cost)
<1> DEFINE w == stored[b]
           r == Refill(b)
           cap == Capacity(b)
           earned == Limiter!Higher(0, redis_time - w.last)
           later == Limiter!Higher(0, time - w.last)
<1>1. /\ redis_time \in Nat /\ cap \in Nat /\ r \in Nat /\ Cost \in Nat /\ Cost <= cap
  BY BucketTypes DEF LimiterInv, LimiterTypes
<1>2. CASE b \notin DOMAIN stored \/ ~(time < w.expires)
  <2>1. Limiter!Tokens(b, time) = cap
    BY <1>2, TokensOfGone
  <2> QED
    BY <1>1, <2>1
<1>3. CASE b \in DOMAIN stored /\ time < w.expires
  <2>1. w.expires \in Nat /\ w.last \in Nat /\ w.tokens \in Nat
    BY <1>3 DEF LimiterInv, LimiterTypes, HashOf
  <2>2. redis_time < w.expires
    BY <1>1, <1>3, <2>1
  <2>3. /\ Limiter!Tokens(b, redis_time) = Limiter!Lower(cap, w.tokens + earned * r)
        /\ Limiter!Tokens(b, time) = Limiter!Lower(cap, w.tokens + later * r)
    BY <1>1, <1>3, <2>2, TokensOfLiving
  <2>4. earned \in Nat /\ later \in Nat /\ earned <= later
    BY <1>1, <2>1 DEF Limiter!Higher
  <2> HIDE DEF earned, later, r
  <2>5. earned * r <= later * r /\ earned * r \in Nat /\ later * r \in Nat
    BY <1>1, <2>4, Earns
  <2> HIDE DEF w, cap
  <2> QED
    BY <1>1, <2>1, <2>3, <2>5 DEF Limiter!Lower
<1> QED
  BY <1>2, <1>3

\* Bounded numbers have a greatest one.
LEMMA Longest ==
  ASSUME NEW n \in Nat, NEW S, S \subseteq 0 .. n, S # {}
  PROVE  \E m \in S : \A x \in S : x <= m
<1> DEFINE T == {n - x : x \in S}
<1>1. T \subseteq Nat /\ T # {}
  <2>1. \A x \in S : n - x \in Nat
    OBVIOUS
  <2>2. PICK x : x \in S
    OBVIOUS
  <2>3. n - x \in T
    BY <2>2
  <2> QED
    BY <2>1, <2>3
<1>2. PICK m \in T : \A y \in T : <<y, m>> \notin OpToRel(<, Nat)
  BY <1>1, NatLessThanWellFounded, WFMin
<1>3. \A y \in T : m <= y
  <2> TAKE y \in T
  <2>1. y \in Nat /\ m \in Nat
    BY <1>1
  <2> HIDE DEF T
  <2>2. ASSUME y < m PROVE FALSE
    <3>1. <<y, m>> \in {p \in Nat \X Nat : p[1] < p[2]}
      BY <2>1, <2>2
    <3> QED
      BY <1>2, <3>1 DEF OpToRel
  <2> QED
    BY <2>1, <2>2
<1>4. PICK x \in S : m = n - x
  OBVIOUS
<1>5. \A y \in S : y <= x
  <2> TAKE y \in S
  <2>1. n - y \in T
    OBVIOUS
  <2>2. n - x <= n - y /\ x \in Nat /\ y \in Nat
    BY <1>3, <1>4, <2>1
  <2> QED
    BY <2>2
<1> QED
  BY <1>5

\* The wait that a refusal names is enough for each of its buckets.
LEMMA WaitIsEnough == LimiterInv => Limiter!RetryIsEnough
<1> SUFFICES ASSUME LimiterInv, NEW check \in Checks, Limiter!Short(check, redis_time) # {}
             PROVE  Limiter!Short(check, redis_time + Second * Limiter!RetryAfter(check, redis_time)) = {}
  BY DEF Limiter!RetryIsEnough
<1> DEFINE short == Limiter!Short(check, redis_time)
           waits == {Limiter!RetryOf(b, redis_time) : b \in short}
           longest == CHOOSE r \in waits : \A b \in short : Limiter!RetryOf(b, redis_time) <= r
           after == Limiter!RetryAfter(check, redis_time)
           time == redis_time + Second * after
<1>1. check \subseteq Buckets /\ redis_time \in Nat
  BY LimiterAssumption DEF LimiterInv, LimiterTypes
<1>2. \A b \in short : b \in Buckets /\ Limiter!Tokens(b, redis_time) < Cost
  BY <1>1 DEF Limiter!Short
<1>3. /\ MaxTime + Cost \in Nat /\ Second \in Nat /\ Second > 0
  BY LimiterAssumption
<1>4. \A b \in short : Limiter!RetryOf(b, redis_time) \in 0 .. MaxTime + Cost
  BY <1>2, ShortWaits
<1>5. longest \in Nat /\ \A b \in short : Limiter!RetryOf(b, redis_time) <= longest
  <2>1. waits \subseteq 0 .. MaxTime + Cost /\ waits # {}
    BY <1>4
  <2>2. \E r \in waits : \A x \in waits : x <= r
    <3> HIDE DEF waits
    <3> QED
      BY <1>3, <2>1, Longest
  <2>3. \E r \in waits : \A b \in short : Limiter!RetryOf(b, redis_time) <= r
    BY <2>2
  <2>4. longest \in waits /\ \A b \in short : Limiter!RetryOf(b, redis_time) <= longest
    BY <2>3
  <2> HIDE DEF longest, waits, short
  <2> QED
    BY <1>3, <2>1, <2>4
<1>6. after = Limiter!Higher(1, Limiter!Ceiling(longest, Second))
  BY DEF Limiter!RetryAfter
<1> HIDE DEF longest, short, after
<1>7. after \in Nat /\ longest <= after * Second
  <2>1. /\ Limiter!Ceiling(longest, Second) \in Nat
        /\ longest <= Limiter!Ceiling(longest, Second) * Second
    BY <1>3, <1>5, CeilingIsEnough
  <2> DEFINE c == Limiter!Ceiling(longest, Second)
  <2>2. after \in Nat /\ c <= after
    BY <1>6, <2>1 DEF Limiter!Higher
  <2> HIDE DEF c
  <2>3. c \in Nat /\ longest <= c * Second
    BY <2>1 DEF c
  <2>4. c * Second <= after * Second /\ c * Second \in Nat /\ after * Second \in Nat
    BY <1>3, <2>2, <2>3, Earns
  <2> QED
    BY <1>5, <2>2, <2>3, <2>4
<1>8. after * Second \in Nat /\ Second * after = after * Second
  BY <1>3, <1>7, Earns
<1>9. time \in Nat /\ redis_time + longest <= time
  BY <1>1, <1>5, <1>7, <1>8
<1>10. ASSUME NEW b \in check PROVE ~(Limiter!Tokens(b, time) < Cost)
  <2> HIDE DEF time
  <2>1. CASE b \in short
    <3>1. redis_time + Limiter!RetryOf(b, redis_time) <= time
      BY <1>1, <1>3, <1>4, <1>5, <1>9, <2>1
    <3> QED
      BY <1>2, <1>9, <2>1, <3>1, ShortWaits
  <2>2. CASE b \notin short
    <3>1. b \in Buckets /\ ~(Limiter!Tokens(b, redis_time) < Cost) /\ redis_time <= time
      BY <1>1, <1>5, <1>9, <2>2 DEF short, Limiter!Short
    <3> QED
      BY <1>9, <3>1, EnoughStays
  <2> QED
    BY <2>1, <2>2
<1> QED
  BY <1>10 DEF after, Limiter!Short

\* A bucket that was looked at holds at a later time what it would have held.
LEMMA LookingTakesNothing ==
  ASSUME LimiterInv, NEW check \in Checks, Limiter!Check(check),
         Limiter!Short(check, redis_time) # {},
         NEW b \in DOMAIN stored, NEW time \in redis_time .. MaxTime,
         time < stored[b].expires, time < stored'[b].expires
  PROVE  Limiter!Tokens(b, time)' = Limiter!Tokens(b, time)
<1> DEFINE w == stored[b]
           r == Refill(b)
           cap == Capacity(b)
           t == redis_time
           now_held == Limiter!Tokens(b, t)
           earned == Limiter!Higher(0, t - w.last)
           later == Limiter!Higher(0, time - w.last)
           rest == Limiter!Higher(0, time - Limiter!Last(b, t))
<1>1. /\ b \in Buckets /\ t \in Nat /\ time \in Nat /\ t <= time /\ cap \in Nat /\ r \in Nat
      /\ w.tokens \in 0 .. cap /\ w.last \in Nat /\ w.expires \in Nat /\ t < w.expires
  BY BucketTypes DEF LimiterInv, LimiterTypes, HashOf
<1>2. /\ DOMAIN stored' = DOMAIN stored \cup check
      /\ \A d \in DOMAIN stored \ check : stored'[d] = stored[d]
      /\ \A d \in check : stored'[d] =
           [tokens |-> Limiter!Tokens(d, t) - Limiter!Taken(check, d),
            last |-> Limiter!Last(d, t), expires |-> t + Limiter!Ttl(d)]
  BY DEF Limiter!Check
<1>3. Limiter!Bucket(b, time)' = stored'[b]
  BY <1>1, <1>2 DEF Limiter!Bucket
<1>4. Limiter!Tokens(b, time)' =
        Limiter!Lower(cap, stored'[b].tokens + Limiter!Higher(0, time - stored'[b].last) * r)
  BY <1>3 DEF Limiter!Tokens
<1>5. /\ Limiter!Tokens(b, time) = Limiter!Lower(cap, w.tokens + later * r)
      /\ now_held = Limiter!Lower(cap, w.tokens + earned * r)
      /\ Limiter!Bucket(b, t) = w
  BY <1>1, TokensOfLiving
<1>6. CASE b \notin check
  BY <1>2, <1>4, <1>5, <1>6
<1>7. CASE b \in check
  <2>1. Limiter!Taken(check, b) = 0
    BY DEF Limiter!Taken
  <2>2. now_held \in 0 .. cap
    BY <1>1, TokensNow
  <2>3. stored'[b].tokens = now_held /\ stored'[b].last = Limiter!Last(b, t)
    BY <1>2, <1>7, <2>1, <2>2
  <2>4. Limiter!Tokens(b, time)' = Limiter!Lower(cap, now_held + rest * r)
    BY <1>4, <2>3
  <2>5. Limiter!Last(b, t) = Limiter!Higher(w.last, t)
    BY <1>5 DEF Limiter!Last
  <2>6. /\ earned \in Nat /\ later \in Nat /\ rest \in Nat /\ later = earned + rest
        /\ (earned = 0 \/ rest \in Nat)
    BY <1>1, <2>5 DEF Limiter!Higher
  <2> HIDE DEF earned, later, rest, r
  <2>7. /\ later * r = earned * r + rest * r
        /\ earned * r \in Nat /\ rest * r \in Nat
    BY <1>1, <2>6, Earns
  <2> HIDE DEF now_held, cap, w
  <2> QED
    BY <1>1, <1>5, <2>2, <2>4, <2>7 DEF Limiter!Lower
<1> QED
  BY <1>6, <1>7

\* The invariant says what the run checks.
LEMMA LimiterInvSuffices ==
  LimiterInv => Limiter!TypeOK /\ Limiter!SpentWithinRate /\ Limiter!RetryIsEnough
<1> SUFFICES ASSUME LimiterInv PROVE Limiter!TypeOK /\ Limiter!SpentWithinRate
  BY WaitIsEnough
<1>1. Limiter!TypeOK
  BY DEF LimiterInv, LimiterTypes, HashOf, Limiter!TypeOK
<1>2. Limiter!SpentWithinRate
  <2> SUFFICES ASSUME NEW b \in Buckets PROVE spent[b] <= Capacity(b) + passed * Refill(b)
    BY DEF Limiter!SpentWithinRate
  <2>1. /\ Limiter!Tokens(b, redis_time) \in 0 .. Capacity(b)
        /\ spent[b] + Limiter!Tokens(b, redis_time) <= Capacity(b) + passed * Refill(b)
    BY TokensNow
  <2>2. passed * Refill(b) \in Nat /\ Capacity(b) \in Nat /\ spent[b] \in Nat
    BY BucketTypes, Earns DEF LimiterInv, LimiterTypes
  <2> QED
    BY <2>1, <2>2
<1> QED
  BY <1>1, <1>2

\* No bucket gives more than it held and what the time brought, the wait that a
\* refusal names is enough, and a refusal takes nothing, for any clock that is set
\* back and any keys that expire (core/rate_limit.py 22-67, 96-111, 167-197).
THEOREM LimiterAlwaysHolds == Limiter!Spec => LimiterHolds
<1>1. Limiter!Spec => []LimiterInv
  BY LimiterInitInv, LimiterNextInv, PTL DEF Limiter!Spec, Limiter!vars, limiter
<1>2. LimiterInv =>
        \A check \in Checks : Limiter!Short(check, redis_time) # {} /\ Limiter!Check(check) =>
          \A b \in Buckets, time \in redis_time .. MaxTime :
            b \in DOMAIN stored /\ time < Limiter!Lower(stored[b].expires, stored'[b].expires) =>
              Limiter!Tokens(b, time)' = Limiter!Tokens(b, time)
  <2> SUFFICES ASSUME LimiterInv, NEW check \in Checks,
                      Limiter!Short(check, redis_time) # {}, Limiter!Check(check),
                      NEW b \in Buckets, NEW time \in redis_time .. MaxTime,
                      b \in DOMAIN stored,
                      time < Limiter!Lower(stored[b].expires, stored'[b].expires)
               PROVE  Limiter!Tokens(b, time)' = Limiter!Tokens(b, time)
    OBVIOUS
  <2>1. LimiterInv' /\ b \in DOMAIN stored'
    BY CheckInv DEF Limiter!Check
  <2>2. stored[b].expires \in Nat /\ stored'[b].expires \in Nat /\ redis_time \in Nat
    BY <2>1 DEF LimiterInv, LimiterTypes, HashOf
  <2>3. time < stored[b].expires /\ time < stored'[b].expires
    BY <2>2 DEF Limiter!Lower
  <2> QED
    BY <2>3, LookingTakesNothing
<1> QED
  BY <1>1, <1>2, LimiterInvSuffices, PTL DEF Limiter!Spec, Limiter!vars, limiter, LimiterHolds,
     Limiter!RefusalsCostNothing
===============================================================================
