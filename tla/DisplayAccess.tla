---------------------------- MODULE DisplayAccess ----------------------------
(***************************************************************************)
(* The grants of the display of one session: issued, replaced, revoked,    *)
(* expired (LiveSessionViewSet.display_access, revoke_display_access;      *)
(* SessionDisplayAccess; resolve_access).                                  *)
(*                                                                         *)
(* Issuing takes the session row, then the rows of the grants that are     *)
(* not revoked; revoking takes the row of its grant only.  A transaction   *)
(* waits at every one of these locks, so each is a step.  A grant is named *)
(* by the request that issued it.                                          *)
(***************************************************************************)
EXTENDS Naturals, FiniteSets

CONSTANTS
  Issues, Revokes,  \* bound: requests, each sent once
  Hour,             \* how long a finished session is shown
  MaxNow,           \* bound of the clock
  None

VARIABLES
  now, finished_at,
  grants,        \* issued grants -> revoked_at
  session_lock,  \* request that holds the session row
  grant_lock,    \* grant -> request that holds its row
  call           \* request -> its progress

vars == <<now, finished_at, grants, session_lock, grant_lock, call>>

Requests == Issues \cup Revokes
Granted == DOMAIN grants
Active == {g \in Granted : grants[g] = None}
Expired(time) == finished_at # None /\ time >= finished_at + Hour

Init ==
  /\ now = 0 /\ finished_at = None
  /\ grants = [g \in {} |-> None]
  /\ session_lock = None
  /\ grant_lock = [g \in Issues |-> None]
  /\ call = [r \in Requests |-> [pc |-> "idle", grant |-> None, locked |-> {}, at |-> None]]

Goto(r, pc) == call' = [call EXCEPT ![r].pc = pc]
Unlocked(r) == [g \in Issues |-> IF grant_lock[g] = r THEN None ELSE grant_lock[g]]

RevokedBy(set, time) == [g \in Granted |-> IF g \in set THEN time ELSE grants[g]]
-----------------------------------------------------------------------------
LockSession(i) ==
  /\ call[i].pc = "idle" /\ session_lock = None
  /\ session_lock' = i
  /\ Goto(i, "locking")
  /\ UNCHANGED <<now, finished_at, grants, grant_lock>>

\* SELECT ... FOR UPDATE of the active grants: row by row, in their order, each
\* looked at again once it is got.
LockGrant(i) ==
  /\ call[i].pc = "locking"
  /\ \E g \in Active \ call[i].locked :
       /\ grant_lock[g] = None
       /\ grant_lock' = [grant_lock EXCEPT ![g] = i]
       /\ call' = [call EXCEPT ![i].locked = @ \cup {g}]
  /\ UNCHANGED <<now, finished_at, grants, session_lock>>

LockedAll_Bug(i) ==
  /\ call[i].pc = "locking" /\ Granted = call[i].locked
  /\ call' = [call EXCEPT ![i].pc = "issuing", ![i].at = now]
  /\ UNCHANGED <<now, finished_at, grants, session_lock, grant_lock>>
LockedAll(i) ==
  /\ call[i].pc = "locking" /\ Active \subseteq call[i].locked
  /\ call' = [call EXCEPT ![i].pc = "issuing", ![i].at = now]
  /\ UNCHANGED <<now, finished_at, grants, session_lock, grant_lock>>

\* Revoke what was active, issue a new grant and commit; a session that is shown
\* no longer refuses and rolls everything back.
Refused_Bug(i) ==
  /\ Goto(i, "conflict")
  /\ grants' = RevokedBy(call[i].locked, call[i].at)
Refused(i) == Goto(i, "conflict") /\ UNCHANGED grants

Grant_Bug(i) ==
  /\ Goto(i, "issued")
  /\ grants' = [g \in Granted \cup {i} |-> IF g = i THEN None ELSE grants[g]]
Grant(i) ==
  /\ Goto(i, "issued")
  /\ grants' = [g \in Granted \cup {i} |->
       IF g = i THEN None ELSE RevokedBy(call[i].locked, call[i].at)[g]]

Issue(i) ==
  /\ call[i].pc = "issuing"
  /\ IF Expired(now) THEN Refused(i) ELSE Grant(i)
  /\ session_lock' = None /\ grant_lock' = Unlocked(i)
  /\ UNCHANGED <<now, finished_at>>

LockForRevoke(r) ==
  /\ call[r].pc = "idle"
  /\ \E g \in Granted :
       /\ grant_lock[g] = None
       /\ grant_lock' = [grant_lock EXCEPT ![g] = r]
       /\ call' = [call EXCEPT ![r] = [@ EXCEPT !.pc = "revoking", !.grant = g]]
  /\ UNCHANGED <<now, finished_at, grants, session_lock>>

Revoke_Bug(r) ==
  LET g == call[r].grant IN
  /\ call[r].pc = "revoking"
  /\ grants' = RevokedBy({g}, now)
  /\ Goto(r, "done")
  /\ grant_lock' = Unlocked(r)
  /\ UNCHANGED <<now, finished_at, session_lock>>
Revoke(r) ==
  LET g == call[r].grant IN
  /\ call[r].pc = "revoking"
  /\ IF grants[g] # None THEN UNCHANGED grants
     ELSE grants' = RevokedBy({g}, now)
  /\ Goto(r, "done")
  /\ grant_lock' = Unlocked(r)
  /\ UNCHANGED <<now, finished_at, session_lock>>

\* The process of a request dies: its transaction is rolled back.
Die(r) ==
  /\ call[r].pc \in {"locking", "issuing", "revoking"}
  /\ Goto(r, "dead")
  /\ session_lock' = IF session_lock = r THEN None ELSE session_lock
  /\ grant_lock' = Unlocked(r)
  /\ UNCHANGED <<now, finished_at, grants>>

\* A command or a transition of the game, which holds the session row.
FinishSession ==
  /\ finished_at = None /\ session_lock = None
  /\ finished_at' = now
  /\ UNCHANGED <<now, grants, session_lock, grant_lock, call>>

Tick ==
  /\ now < MaxNow /\ now' = now + 1
  /\ UNCHANGED <<finished_at, grants, session_lock, grant_lock, call>>

Step(r) ==
  \/ r \in Issues /\ (LockSession(r) \/ LockGrant(r) \/ LockedAll(r) \/ Issue(r))
  \/ r \in Revokes /\ (LockForRevoke(r) \/ Revoke(r))

Next == \E r \in Requests : Step(r) \/ Die(r)
        \/ FinishSession \/ Tick

Spec == Init /\ [][Next]_vars

\* A request that holds a lock goes on.
Fairness == \A r \in Requests : WF_vars(Step(r) /\ call[r].pc # "idle")
-----------------------------------------------------------------------------
TypeOK ==
  /\ Granted \subseteq Issues
  /\ \A g \in Granted : grants[g] \in 0..MaxNow \cup {None}
  /\ session_lock \in Issues \cup {None}
  /\ grant_lock \in [Issues -> Requests \cup {None}]

\* At most one display is open at any moment, however requests to issue and to
\* revoke overlap and whichever of them fail.
OneDisplayAtATime == Cardinality(Active) <= 1

\* A grant that was revoked stays so, with the time of its first revocation.
RevokedForGood ==
  [][\A g \in Granted : grants[g] # None => g \in DOMAIN grants' /\ grants'[g] = grants[g]]_vars

\* A grant is lost only to a revocation of it or to the grant that takes its
\* place: a request to issue that is refused leaves the display as it was.
ClosedOnlyForAReason ==
  [][\A g \in Active : g \notin {h \in DOMAIN grants' : grants'[h] = None} =>
       \/ \E i \in DOMAIN grants' \ Granted : grants'[i] = None
       \/ \E r \in Revokes : call[r].pc = "revoking" /\ call[r].grant = g]_vars

\* Whoever holds a lock of the session or of a grant gives it back.
LocksAreReturned ==
  \A r \in Requests : call[r].pc \in {"locking", "issuing", "revoking"} ~>
    call[r].pc \in {"issued", "conflict", "done", "dead"}
=============================================================================
