---------------------------- MODULE SessionConsumer ----------------------------
(***************************************************************************)
(* A WebSocket connection of a session: its coroutines and its lease       *)
(* (backend/apps/session/consumers.py).                                    *)
(*                                                                         *)
(* Channels runs connect, receive, session_event and disconnect of one     *)
(* connection one after the other (main).  The deadline, the expiry, the   *)
(* watch and the heartbeat are tasks of their own: one of them may run at  *)
(* every await of main.  Only the awaits that really suspend end an        *)
(* action: calls of Redis and of the database, which run in a thread.      *)
(*                                                                         *)
(* The clock moves when no await and no due timer is left: an await takes  *)
(* less than a unit of time (calls of Redis have a timeout of a second, a  *)
(* unit stands for the 15 seconds between heartbeats).                     *)
(***************************************************************************)
EXTENDS WebSocketGuard

CONSTANTS
  AuthTimeout, RefreshEvery,
  Ends(_)  \* how the access of a connection may end: revoked, expired

ASSUME TimesAssumption ==
  /\ AuthTimeout \in Nat \ {0} /\ RefreshEvery \in Nat \ {0}
  /\ \A c \in Conns : Ends(c) \subseteq {"revoked", "expired"}

\* The deadline of 10 s and the heartbeat of 15 s come before a lease of 45 s ends.
ASSUME TimersAssumption == AuthTimeout < LeaseTtl /\ RefreshEvery < LeaseTtl

VARIABLES
  socket,  \* connection -> state of the consumer
  access   \* connection -> "valid", "revoked" or "expired"

vars == <<leases, socket, access>>

Tasks == {"deadline", "expiry", "watch", "beat"}

Fresh == [net |-> "new",        \* new, open, closed by the server, gone
          pc |-> "idle",        \* main: idle, or the await it is at
          read |-> "none",      \* what the read of the state returned
          authorized |-> FALSE, closing |-> FALSE,
          held |-> FALSE,       \* open_lease_acquired
          subject |-> FALSE,    \* access_subject is set
          tasks |-> {},         \* tasks that sleep
          closer |-> "none",    \* who awaits the release in _close_with_error
          release |-> {},       \* keys that a thread has still to release
          deadline |-> 0, beat |-> 0]  \* time left of these timers

Init ==
  /\ NoLeases
  /\ socket = [c \in Conns |-> Fresh]
  /\ access = [c \in Conns |-> "valid"]

Is(c, s) == socket' = [socket EXCEPT ![c] = s]

\* _release_lease, up to the await.
Released(c, s) ==
  [s EXCEPT !.held = FALSE,
            !.release = IF ~s.held THEN {}
                        ELSE IF s.subject THEN AccessKeys(c) ELSE OpenKeys(c)]

\* _close_with_error by the coroutine `who'.
Closed(c, s, who) ==
  IF s.closing THEN s
  ELSE IF s.held THEN [Released(c, s) EXCEPT !.closing = TRUE, !.closer = who]
  ELSE [s EXCEPT !.closing = TRUE, !.net = "closed"]

\* Cancelling tasks: the one that is closing the connection never closes it.
Cancelled(s, tasks) ==
  [s EXCEPT !.tasks = @ \ tasks,
            !.closer = IF @ \in tasks THEN "cut" ELSE @]

Main(c, pc) == socket[c].pc = pc /\ socket[c].closer # "main"
-----------------------------------------------------------------------------
(* connect, receive, session_event, disconnect.                             *)

Connect_Bug(c) ==
  LET s == [socket[c] EXCEPT !.net = "open"] IN
  /\ s.pc = "idle" /\ socket[c].net = "new"
  /\ \/ /\ Open(c)
        /\ Is(c, [s EXCEPT !.held = TRUE, !.deadline = AuthTimeout])
     \/ Open(c) /\ Is(c, Closed(c, s, "main"))  \* the answer was lost
     \/ UNCHANGED leases /\ Is(c, Closed(c, s, "main"))
  /\ UNCHANGED access
Connect(c) ==
  LET s == [socket[c] EXCEPT !.net = "open"] IN
  /\ s.pc = "idle" /\ socket[c].net = "new"
  /\ \/ /\ Open(c)
        /\ Is(c, [s EXCEPT !.held = TRUE, !.tasks = {"deadline"},
                           !.deadline = AuthTimeout])
     \/ Open(c) /\ Is(c, Closed(c, s, "main"))  \* the answer was lost
     \/ UNCHANGED leases /\ Is(c, Closed(c, s, "main"))
  /\ UNCHANGED access

\* A message came in; its quota is checked and the state is read.
Receive(c) ==
  /\ Main(c, "idle") /\ socket[c].net # "new"
  /\ \E s \in {[socket[c] EXCEPT !.pc = "reading"],
               Closed(c, socket[c], "main")} :  \* quota, size, format
       IF socket[c].authorized THEN Is(c, Closed(c, socket[c], "main"))
       ELSE Is(c, s)
  /\ UNCHANGED <<leases, access>>

ReadState(c) ==
  /\ socket[c].pc \in {"reading", "joining", "event"} /\ socket[c].read = "none"
  /\ Is(c, [socket[c] EXCEPT !.read = access[c]])
  /\ UNCHANGED <<leases, access>>

\* A connection that was refused before it had a deadline is closing already;
\* an error here ends it without a change of its fields.
Identify(c) ==
  LET s == [socket[c] EXCEPT !.read = "none", !.pc = "idle"] IN
  /\ Main(c, "reading") /\ socket[c].read # "none"
  /\ IF socket[c].read # "valid" \/ "deadline" \notin s.tasks \cup {s.closer}
     THEN Is(c, Closed(c, s, "main"))
     ELSE Is(c, [s EXCEPT !.pc = "acquiring", !.subject = TRUE])
  /\ UNCHANGED <<leases, access>>

AcquireAccess(c) ==
  /\ Main(c, "acquiring")
  /\ \/ MayAccess(c) /\ Access(c) /\ Is(c, [socket[c] EXCEPT !.pc = "acquired"])
     \/ MayAccess(c) /\ Access(c) /\ Is(c, [socket[c] EXCEPT !.pc = "refused"])
     \/ UNCHANGED leases /\ Is(c, [socket[c] EXCEPT !.pc = "refused"])
  /\ UNCHANGED access

Refused(c) ==
  /\ Main(c, "refused")
  /\ Is(c, Closed(c, [socket[c] EXCEPT !.pc = "idle"], "main"))
  /\ UNCHANGED <<leases, access>>

Authorize(c) ==
  /\ Main(c, "acquired")
  /\ Is(c, [Cancelled(socket[c], {"deadline"})
              EXCEPT !.pc = "joining", !.authorized = TRUE])
  /\ UNCHANGED <<leases, access>>

\* _reschedule_access_expiry.
Rescheduled(c, s) ==
  [Cancelled(s, {"expiry"}) EXCEPT
     !.tasks = (@ \ {"expiry"}) \cup (IF "expired" \in Ends(c) THEN {"expiry"} ELSE {})]

\* The first state is sent, to a connection that is subscribed to events.
Joined(c) ==
  LET s == [socket[c] EXCEPT !.read = "none", !.pc = "idle"] IN
  /\ Main(c, "joining") /\ socket[c].read # "none"
  /\ IF socket[c].read # "valid" THEN Is(c, Closed(c, s, "main"))
     ELSE Is(c, [Rescheduled(c, s) EXCEPT !.tasks = @ \cup {"watch", "beat"},
                                          !.beat = RefreshEvery])
  /\ UNCHANGED <<leases, access>>

\* Only a connection that authorized is in the group.
SessionEvent(c) ==
  /\ Main(c, "idle") /\ socket[c].authorized
  /\ Is(c, [socket[c] EXCEPT !.pc = "event"])
  /\ UNCHANGED <<leases, access>>

SendEvent(c) ==
  LET s == [socket[c] EXCEPT !.read = "none", !.pc = "idle"] IN
  /\ Main(c, "event") /\ socket[c].read # "none"
  /\ Is(c, IF socket[c].read # "valid" THEN Closed(c, s, "main")
           ELSE Rescheduled(c, s))
  /\ UNCHANGED <<leases, access>>

ClientLeaves(c) ==
  /\ socket[c].net = "open"
  /\ Is(c, [socket[c] EXCEPT !.net = "gone"])
  /\ UNCHANGED <<leases, access>>

Disconnect(c) ==
  /\ Main(c, "idle") /\ socket[c].net \in {"closed", "gone"}
  /\ LET s == [Cancelled(socket[c], Tasks) EXCEPT !.pc = "leaving"] IN
     Is(c, IF s.held THEN Released(c, s) ELSE s)
  /\ UNCHANGED <<leases, access>>

Ended == [Fresh EXCEPT !.net = "gone", !.pc = "over"]

Over(c) ==
  /\ socket[c].pc = "leaving" /\ socket[c].release = {}
  /\ Is(c, Ended)
  /\ UNCHANGED <<leases, access>>

\* The process ends without a release.
Die(c) ==
  /\ socket[c].net # "new" /\ socket[c].pc # "over"
  /\ Is(c, Ended)
  /\ UNCHANGED <<leases, access>>
-----------------------------------------------------------------------------
(* The tasks, and the thread that releases a lease.                         *)

Wakes(c, task) == task \in socket[c].tasks /\ socket[c].closer # task

AuthTimedOut(c) ==
  /\ Wakes(c, "deadline") /\ socket[c].deadline = 0
  /\ LET s == [socket[c] EXCEPT !.tasks = @ \ {"deadline"}] IN
     Is(c, IF s.authorized THEN s ELSE Closed(c, s, "deadline"))
  /\ UNCHANGED <<leases, access>>

AccessExpires(c) ==
  /\ Wakes(c, "expiry") /\ access[c] = "expired"
  /\ Is(c, Closed(c, [socket[c] EXCEPT !.tasks = @ \ {"expiry"}], "expiry"))
  /\ UNCHANGED <<leases, access>>

WatchRefuses(c) ==
  /\ Wakes(c, "watch") /\ access[c] # "valid"
  /\ Is(c, Closed(c, [socket[c] EXCEPT !.tasks = @ \ {"watch"}], "watch"))
  /\ UNCHANGED <<leases, access>>

Heartbeat(c) ==
  LET over == Is(c, Closed(c, [socket[c] EXCEPT !.tasks = @ \ {"beat"}], "beat"))
  IN
  /\ Wakes(c, "beat") /\ socket[c].beat = 0
  /\ \/ MayBeat(c) /\ Refresh(c) /\ Is(c, [socket[c] EXCEPT !.beat = RefreshEvery])
     \/ MayBeat(c) /\ Refresh(c) /\ over   \* the answer was lost
     \/ UNCHANGED leases /\ over
  /\ UNCHANGED access

\* Redis may be unavailable; a cancelled call may never start.
ReleaseInThread(c) ==
  /\ socket[c].release # {}
  /\ Release(c, socket[c].release) \/ UNCHANGED leases
  /\ Is(c, [socket[c] EXCEPT !.release = {}])
  /\ UNCHANGED access

EndClose_Bug(c) ==
  /\ socket[c].closer \in Tasks /\ socket[c].release = {}
  /\ Is(c, [socket[c] EXCEPT !.closer = "none",
              !.net = IF @ = "open" THEN "closed" ELSE @])
  /\ UNCHANGED <<leases, access>>
EndClose(c) ==
  /\ socket[c].closer \in Tasks \cup {"main"} /\ socket[c].release = {}
  /\ Is(c, [socket[c] EXCEPT !.closer = "none",
              !.net = IF @ = "open" THEN "closed" ELSE @])
  /\ UNCHANGED <<leases, access>>
-----------------------------------------------------------------------------
AccessEnds(c) ==
  /\ access[c] = "valid" /\ socket[c].pc # "over"
  /\ \E how \in Ends(c) : access' = [access EXCEPT ![c] = how]
  /\ UNCHANGED <<leases, socket>>

\* What the event loop and the threads owe a connection, coroutine by coroutine.
MainStep(c) ==
  \/ ReadState(c) \/ Identify(c) \/ AcquireAccess(c) \/ Refused(c)
  \/ Authorize(c) \/ Joined(c) \/ SendEvent(c) \/ Over(c)

TimerStep(c) == AuthTimedOut(c) \/ AccessExpires(c) \/ Heartbeat(c)

\* Something of the connection has to happen before time goes on.
Busy(s, expired) ==
  \/ s.pc \notin {"idle", "over"} \/ s.closer \notin {"none", "cut"}
  \/ s.release # {}
  \/ s.net \in {"closed", "gone"} /\ s.pc = "idle"
  \/ "deadline" \in s.tasks /\ s.deadline = 0
  \/ "beat" \in s.tasks /\ s.beat = 0
  \/ "expiry" \in s.tasks /\ expired

Less(n) == IF n = 0 THEN 0 ELSE n - 1

Tick ==
  /\ \A c \in Conns : ~Busy(socket[c], access[c] = "expired")
  /\ Elapse
  /\ socket' = [c \in Conns |-> [socket[c] EXCEPT !.deadline = Less(@), !.beat = Less(@)]]
  /\ UNCHANGED access

Next ==
  \/ \E c \in Conns :
       \/ MainStep(c) \/ TimerStep(c) \/ ReleaseInThread(c) \/ EndClose(c)
       \/ Connect(c) \/ Receive(c) \/ SessionEvent(c) \/ WatchRefuses(c)
       \/ ClientLeaves(c) \/ Disconnect(c) \/ Die(c)
       \/ AccessEnds(c)
  \/ Tick

Spec == Init /\ [][Next]_vars

\* Coroutines and threads go on, timers are delivered, the watch comes round.
\* Time passes and a disconnection is served even if a client keeps sending:
\* the queue of main is first in, first out.  Nothing is assumed of clients,
\* of Redis or of who revokes an access.
Fairness ==
  /\ SF_vars(Tick)
  /\ \A c \in Conns :
       /\ WF_vars(MainStep(c)) /\ WF_vars(TimerStep(c)) /\ WF_vars(WatchRefuses(c))
       /\ WF_vars(ReleaseInThread(c)) /\ WF_vars(EndClose(c))
       /\ SF_vars(Disconnect(c))

FairSpec == Spec /\ Fairness
-----------------------------------------------------------------------------
(* What the leases and the connections promise.                             *)

TypeOK ==
  /\ leases \in [Keys -> [Conns -> 0..LeaseTtl]]
  /\ access \in [Conns -> {"valid", "revoked", "expired"}]
  /\ \A c \in Conns :
       /\ socket[c].net \in {"new", "open", "closed", "gone"}
       /\ socket[c].tasks \subseteq Tasks
       /\ socket[c].closer \in Tasks \cup {"none", "main", "cut"}
       /\ socket[c].release \subseteq Keys

Working(c) == socket[c].net = "open" /\ ~socket[c].closing
At(k) == {c \in Conns : k \in {Stage, AddressOf(c)} /\ Working(c)}
Entitled(k) == {c \in Conns : SubjectOf(c) = k /\ Working(c) /\ socket[c].authorized}

\* However leases are lost, released, refreshed and left behind by connections
\* that died, no more connections work than the limits allow: per access record
\* (3), per address (120) and in all (240).
LimitsBindTheOpen ==
  /\ Cardinality(At(Stage)) <= StageLimit
  /\ \A c \in Conns :
       /\ Cardinality(At(AddressOf(c))) <= IpLimit
       /\ Cardinality(Entitled(SubjectOf(c))) <= AccessLimit

\* A working connection is counted by every key it entitles it to: the
\* heartbeat comes before the lease runs out, and only its own end takes it away.
TheWorkingAreCounted ==
  \A c \in Conns : Working(c) =>
    HoldsAll(c, IF socket[c].authorized THEN AccessKeys(c) ELSE OpenKeys(c))

\* A lease that was released or ran out never comes back, though threads of
\* ACCESS and HEARTBEAT may still be on their way: a connection draws a new one.
LostLeasesStayLost ==
  [][\A c \in Conns : socket[c].net # "new" /\ c \notin Holders(Stage) =>
       leases'[Stage][c] = 0 /\ leases'[AddressOf(c)][c] = 0]_vars

\* The limits hold, with leases that mean what they say.
LimitsHold == [](TypeOK /\ LimitsBindTheOpen /\ TheWorkingAreCounted) /\ LostLeasesStayLost

\* Whatever happens to a connection, a crash included, its places become free.
PlacesAreFreed ==
  \A c \in Conns : socket[c].net \in {"closed", "gone"} ~>
    \A k \in AccessKeys(c) : c \notin Holders(k)

\* A connection that does not confirm its access is closed (the deadline of 10 s).
TheUnconfirmedAreClosed ==
  \A c \in Conns : socket[c].net = "open" /\ ~socket[c].authorized ~>
    socket[c].authorized \/ socket[c].net # "open"

\* One that began to close is closed, unless the task that closes it is cancelled.
ClosingEnds ==
  \A c \in Conns : socket[c].closing /\ socket[c].net = "open" ~>
    socket[c].net # "open" \/ socket[c].closer = "cut"
=============================================================================
