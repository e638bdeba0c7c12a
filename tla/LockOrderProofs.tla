----------------------------- MODULE LockOrderProofs -----------------------------
(***************************************************************************)
(* Proof that the transactions of the sessions of a quiz never wait for    *)
(* each other only: for any number of sessions, questions and              *)
(* transactions, whatever each of them does and in whichever order it      *)
(* locks the row of a run and that of its question.                        *)
(***************************************************************************)
EXTENDS LockOrder, WellFoundedInduction, TLAPS

SessionRows == {Session(s) : s \in Sessions}
RunRows == {Run(s, k) : s \in Sessions, k \in 1..Last}
QuestionRows == {Question(k) : k \in 1..Last}
MemberRows == {Member(s) : s \in Sessions}

\* The locks that a transaction of each kind may ask for.
AskedBy(t) ==
  LET s == SessionOf(t) IN
  CASE KindOf(t) = "archive" -> {Lock("update", r) : r \in {Quiz} \cup SessionRows}
    [] KindOf(t) = "press" -> {Lock("share", Run(s, k)) : k \in 1..Last}
                                \cup {Lock("update", Member(s))}
    [] KindOf(t) = "join" -> {Lock("update", r) : r \in {Session(s), User, Member(s)}}
    [] OTHER -> {Lock("update", r) : r \in {Session(s)} \cup {Run(s, k) : k \in 1..Last}
                                               \cup QuestionRows}
                  \cup {Lock("key_share", r) : r \in QuestionRows \cup {Member(s)}}

\* Where a row stands among those that one transaction locks: rows of the same
\* standing are asked for in the order of the question they belong to, or of the keys
\* of their sessions, and a run and its question in either order.
Before(t, a, b) ==
  \/ a = Quiz /\ b \in SessionRows
  \/ a \in SessionRows /\ b \in SessionRows /\ KindOf(t) = "archive"
  \/ a \in SessionRows /\ b \in RunRows \cup QuestionRows \cup MemberRows \cup {User}
  \/ a = User /\ b \in MemberRows
  \/ a \in RunRows /\ b \in QuestionRows \cup MemberRows
  \/ a \in QuestionRows /\ b \in RunRows \cup MemberRows
  \/ \E k \in 1..Last, j \in 1..Last : k < j /\ a = Question(k) /\ b = Question(j)

\* A plan that asks for rows in that order.
Ordered(t, p) ==
  /\ p \in Seq(AskedBy(t))
  /\ \A i, j \in 1..Len(p) : i < j => Before(t, p[i].row, p[j].row)

\* The row that a transaction locks before all others, and keeps.
Gate(t) == Lock("update", IF KindOf(t) = "archive" THEN Quiz ELSE Session(SessionOf(t)))

Granted(t, lock) == [by |-> t, mode |-> lock.mode, row |-> lock.row]
Holds(t) == {h \in held : h.by = t}

TypesInv ==
  /\ position \in [Sessions -> 0..Last]
  /\ plan = [t \in Transactions |-> plan[t]]
  /\ \A h \in held : /\ h.by \in Transactions
                     /\ \E lock \in AskedBy(h.by) : h = Granted(h.by, lock)

\* Two transactions hold one row only in modes that go together.
ExclusiveInv ==
  \A g, h \in held : g.row = h.row /\ g.by # h.by => ~ Conflict(g.mode, h.mode)

\* What a transaction has precedes what it still asks for.
PlanInv(t) ==
  /\ Ordered(t, plan[t])
  /\ \A h \in Holds(t) : \A i \in 1..Len(plan[t]) : Before(t, h.row, plan[t][i].row)

\* Whoever has or wants anything behind its gate has passed it.
GateInv(t) ==
  KindOf(t) # "press" =>
    \/ Granted(t, Gate(t)) \in held
    \/ plan[t] # <<>> /\ plan[t][1] = Gate(t) /\ Holds(t) = {}
    \/ plan[t] = <<>> /\ Holds(t) = {}

LockInv ==
  /\ TypesInv /\ ExclusiveInv
  /\ \A t \in Transactions : PlanInv(t) /\ GateInv(t)
-----------------------------------------------------------------------------
(* Lemmas about the rows and the plans.                                     *)

\* Rows of different kinds differ, and their arguments tell rows of one kind apart.
LEMMA RowsDiffer ==
  /\ \A s : Session(s) # Quiz /\ Session(s) # User /\ Quiz # User
  /\ \A s, k : Run(s, k) # Quiz /\ Run(s, k) # User
  /\ \A k : Question(k) # Quiz /\ Question(k) # User
  /\ \A s : Member(s) # Quiz /\ Member(s) # User
  /\ \A s, u, k : Session(s) # Run(u, k) /\ Session(s) # Question(k) /\ Session(s) # Member(u)
  /\ \A s, u, k, j : Run(s, k) # Question(j) /\ Run(s, k) # Member(u)
  /\ \A s, k : Question(k) # Member(s)
  /\ \A s, u : Session(s) = Session(u) => s = u
  /\ \A s, u, k, j : Run(s, k) = Run(u, j) => s = u
  /\ \A k, j : Question(k) = Question(j) => k = j
BY DEF Session, Quiz, User, Run, Question, Member

\* A lock has the mode and the row it is made of.
LEMMA LockIs ==
  \A mode, row : Lock(mode, row).mode = mode /\ Lock(mode, row).row = row
BY DEF Lock

\* What a transaction has asked for first is behind nothing.
LEMMA OrderedTail ==
  ASSUME NEW t \in Transactions, NEW p, Ordered(t, p), p # <<>>
  PROVE  /\ Ordered(t, Tail(p)) /\ p[1] \in AskedBy(t) /\ Head(p) = p[1]
         /\ Len(Tail(p)) = Len(p) - 1 /\ Len(p) \in Nat \ {0}
         /\ \A i \in 1..Len(Tail(p)) : Tail(p)[i] = p[i + 1] /\ i + 1 \in 1..Len(p)
         /\ \A i \in 1..Len(Tail(p)) : Before(t, p[1].row, Tail(p)[i].row)
<1>1. p \in Seq(AskedBy(t)) /\ Len(p) \in Nat /\ Len(p) # 0
  BY DEF Ordered
<1>2. /\ Tail(p) \in Seq(AskedBy(t)) /\ Len(Tail(p)) = Len(p) - 1 /\ Head(p) = p[1]
      /\ \A i \in 1..Len(Tail(p)) : Tail(p)[i] = p[i + 1] /\ i + 1 \in 1..Len(p)
  BY <1>1
<1>3. \A i \in 1..Len(Tail(p)) : Before(t, p[1].row, Tail(p)[i].row)
  <2> TAKE i \in 1..Len(Tail(p))
  <2>1. 1 \in 1..Len(p) /\ i + 1 \in 1..Len(p) /\ 1 < i + 1 /\ Tail(p)[i] = p[i + 1]
    BY <1>1, <1>2
  <2> QED BY <2>1 DEF Ordered
<1>4. \A i, j \in 1..Len(Tail(p)) : i < j => Before(t, Tail(p)[i].row, Tail(p)[j].row)
  <2> SUFFICES ASSUME NEW i \in 1..Len(Tail(p)), NEW j \in 1..Len(Tail(p)), i < j
               PROVE  Before(t, Tail(p)[i].row, Tail(p)[j].row)
    OBVIOUS
  <2>1. /\ i + 1 \in 1..Len(p) /\ j + 1 \in 1..Len(p) /\ i + 1 < j + 1
        /\ Tail(p)[i] = p[i + 1] /\ Tail(p)[j] = p[j + 1]
    BY <1>2
  <2> QED BY <2>1 DEF Ordered
<1> QED BY <1>1, <1>2, <1>3, <1>4 DEF Ordered

\* Two plans one after the other.
LEMMA OrderedConcat ==
  ASSUME NEW t \in Transactions, NEW p, NEW q, Ordered(t, p), Ordered(t, q),
         \A i \in 1..Len(p), j \in 1..Len(q) : Before(t, p[i].row, q[j].row)
  PROVE  /\ Ordered(t, p \o q) /\ Len(p \o q) = Len(p) + Len(q)
         /\ \A i \in 1..Len(p) : (p \o q)[i] = p[i]
         /\ \A i \in 1..Len(p \o q) :
              \/ i \in 1..Len(p) /\ (p \o q)[i] = p[i]
              \/ i - Len(p) \in 1..Len(q) /\ (p \o q)[i] = q[i - Len(p)]
<1>1. p \in Seq(AskedBy(t)) /\ q \in Seq(AskedBy(t)) /\ Len(p) \in Nat /\ Len(q) \in Nat
  BY DEF Ordered
<1>2. /\ p \o q \in Seq(AskedBy(t)) /\ Len(p \o q) = Len(p) + Len(q)
      /\ \A i \in 1..Len(p \o q) :
           \/ i \in 1..Len(p) /\ (p \o q)[i] = p[i]
           \/ i > Len(p) /\ i - Len(p) \in 1..Len(q) /\ (p \o q)[i] = q[i - Len(p)]
  BY <1>1
<1>3. \A i \in 1..Len(p) : (p \o q)[i] = p[i]
  BY <1>1
<1>4. ASSUME NEW i \in 1..Len(p \o q), NEW j \in 1..Len(p \o q), i < j
      PROVE  Before(t, (p \o q)[i].row, (p \o q)[j].row)
  <2>1. CASE i \in 1..Len(p) /\ (p \o q)[i] = p[i] /\ j \in 1..Len(p) /\ (p \o q)[j] = p[j]
    BY <1>4, <2>1 DEF Ordered
  <2>2. CASE /\ i \in 1..Len(p) /\ (p \o q)[i] = p[i]
             /\ j - Len(p) \in 1..Len(q) /\ (p \o q)[j] = q[j - Len(p)]
    BY <2>2
  <2>3. CASE /\ i > Len(p) /\ i - Len(p) \in 1..Len(q) /\ (p \o q)[i] = q[i - Len(p)]
             /\ j - Len(p) \in 1..Len(q) /\ (p \o q)[j] = q[j - Len(p)]
    <3>1. i - Len(p) < j - Len(p)
      BY <1>1, <1>4, <2>3
    <3> QED BY <2>3, <3>1 DEF Ordered
  <2>4. ~ (i > Len(p) /\ j \in 1..Len(p))
    BY <1>1, <1>4
  <2> QED BY <1>2, <2>1, <2>2, <2>3, <2>4
<1> QED BY <1>1, <1>2, <1>3, <1>4 DEF Ordered

\* One lock, or none.
LEMMA OrderedOne ==
  ASSUME NEW t \in Transactions, NEW lock \in AskedBy(t)
  PROVE  /\ Ordered(t, <<lock>>) /\ Len(<<lock>>) = 1 /\ <<lock>>[1] = lock
         /\ Ordered(t, <<>>) /\ Len(<<>>) = 0
BY DEF Ordered

\* The current run and its question, in either order.
LEMMA CurrentRunFits ==
  ASSUME NEW t \in Transactions, KindOf(t) \in {"move", "finalize"},
         NEW k \in 0..Last, NEW flip \in BOOLEAN
  PROVE  LET p == CurrentRun(SessionOf(t), k, flip) IN
         /\ Ordered(t, p)
         /\ \A i \in 1..Len(p) : k # 0 /\ p[i].row \in {Run(SessionOf(t), k), Question(k)}
<1> DEFINE s == SessionOf(t)
           run == Lock("update", Run(s, k))
           question == Lock("update", Question(k))
<1>1. CASE k = 0
  BY <1>1 DEF CurrentRun, Ordered
<1>2. CASE k # 0
  <2>1. k \in 1..Last /\ s \in Sessions
    BY <1>2, LocksAssumption
  <2>2. run \in AskedBy(t) /\ question \in AskedBy(t)
    BY <2>1 DEF AskedBy, QuestionRows
  <2>3. Before(t, Run(s, k), Question(k)) /\ Before(t, Question(k), Run(s, k))
    BY <2>1 DEF Before, RunRows, QuestionRows
  <2>4. run.row = Run(s, k) /\ question.row = Question(k)
    BY LockIs
  <2> HIDE DEF s, run, question
  <2>5. ASSUME NEW a, NEW b, a \in AskedBy(t), b \in AskedBy(t), Before(t, a.row, b.row)
        PROVE  Ordered(t, <<a, b>>)
    BY <2>5 DEF Ordered
  <2>6. Ordered(t, <<run, question>>) /\ Ordered(t, <<question, run>>)
    BY <2>2, <2>3, <2>4, <2>5
  <2>7. CurrentRun(s, k, flip) \in {<<run, question>>, <<question, run>>}
    BY <1>2 DEF CurrentRun, run, question
  <2>8. \A p \in {<<run, question>>, <<question, run>>} :
          \A i \in 1..Len(p) : p[i].row \in {Run(s, k), Question(k)}
    BY <2>4
  <2> QED BY <1>2, <2>6, <2>7, <2>8 DEF s
<1> QED BY <1>1, <1>2

\* The sessions of a quiz by their keys.
LEMMA ArchiveFits ==
  ASSUME NEW t \in Transactions, KindOf(t) = "archive"
  PROVE  Ordered(t, ArchiveLocks) /\ ArchiveLocks # <<>> /\ ArchiveLocks[1] = Gate(t)
<1> DEFINE p == [i \in DOMAIN ByKey |-> Lock("update", Session(ByKey[i]))]
<1>1. ByKey \in Seq(Sessions) /\ DOMAIN ByKey = 1..Len(ByKey) /\ Len(ByKey) \in Nat
  BY LocksAssumption
<1>2. \A i \in DOMAIN ByKey : Session(ByKey[i]) \in SessionRows
  BY DEF Sessions, SessionRows
<1>3. \A r \in {Quiz} \cup SessionRows : Lock("update", r) \in AskedBy(t)
  BY DEF AskedBy
<1>4. p \in Seq(AskedBy(t)) /\ Len(p) = Len(ByKey)
  BY <1>1, <1>2, <1>3
<1>5. \A i \in 1..Len(p) : p[i].row \in SessionRows
  BY <1>1, <1>2, <1>4, LockIs
<1> HIDE DEF p
<1>6. Ordered(t, p)
  BY <1>4, <1>5 DEF Ordered, Before
<1> DEFINE gate == Lock("update", Quiz)
<1>7. gate \in AskedBy(t) /\ gate.row = Quiz /\ gate = Gate(t)
  BY <1>3, LockIs DEF Gate
<1> HIDE DEF gate
<1>8. Ordered(t, <<gate>>) /\ Len(<<gate>>) = 1 /\ <<gate>>[1] = gate
  BY <1>7, OrderedOne
<1>9. \A i \in 1..Len(<<gate>>), j \in 1..Len(p) : Before(t, <<gate>>[i].row, p[j].row)
  BY <1>5, <1>7 DEF Before
<1>10. /\ Ordered(t, <<gate>> \o p) /\ Len(<<gate>> \o p) = Len(<<gate>>) + Len(p)
       /\ \A i \in 1..Len(<<gate>>) : (<<gate>> \o p)[i] = <<gate>>[i]
  BY <1>6, <1>8, <1>9, OrderedConcat
<1>11. ArchiveLocks = <<gate>> \o p
  BY DEF ArchiveLocks, p, gate
<1>12. <<gate>> \o p # <<>> /\ (<<gate>> \o p)[1] = gate
  <2>1. Len(p) \in Nat
    BY <1>4
  <2>2. Len(<<gate>> \o p) # 0
    BY <1>8, <1>10, <2>1
  <2> QED BY <1>8, <1>10, <2>2
<1> QED BY <1>7, <1>10, <1>11, <1>12

\* What a transaction asks for is in order, and begins with its gate.
LEMMA LocksFit ==
  ASSUME NEW t \in Transactions, NEW k \in 0..Last, NEW flip \in BOOLEAN,
         KindOf(t) = "press" => k # 0
  PROVE  LET p == Locks(KindOf(t), SessionOf(t), k, flip) IN
         /\ Ordered(t, p)
         /\ KindOf(t) # "press" => p # <<>> /\ p[1] = Gate(t)
<1> DEFINE s == SessionOf(t)
<1>0. s \in Sessions /\ KindOf(t) \in Kinds /\ Last \in Nat
  BY LocksAssumption
<1>1. CASE KindOf(t) = "archive"
  BY <1>1, ArchiveFits DEF Locks
<1>2. CASE KindOf(t) = "press"
  <2> DEFINE run == Lock("share", Run(s, k))
             member == Lock("update", Member(s))
  <2>1. k \in 1..Last
    BY <1>0, <1>2
  <2>2. run \in AskedBy(t) /\ member \in AskedBy(t)
    BY <1>2, <2>1 DEF AskedBy
  <2>3. Before(t, run.row, member.row)
    BY <1>0, <2>1, LockIs DEF Before, RunRows, MemberRows
  <2>4. Locks(KindOf(t), s, k, flip) = <<run, member>>
    BY <1>2 DEF Locks, PressLocks
  <2> HIDE DEF run, member
  <2>5. Ordered(t, <<run, member>>)
    BY <2>2, <2>3 DEF Ordered
  <2> QED BY <1>2, <2>4, <2>5
<1>3. CASE KindOf(t) = "join"
  <2> DEFINE a == Lock("update", Session(s))
             b == Lock("update", User)
             c == Lock("update", Member(s))
  <2>1. a \in AskedBy(t) /\ b \in AskedBy(t) /\ c \in AskedBy(t)
    BY <1>3 DEF AskedBy
  <2>2. Before(t, a.row, b.row) /\ Before(t, a.row, c.row) /\ Before(t, b.row, c.row)
    BY <1>0, LockIs DEF Before, SessionRows, MemberRows
  <2>3. Locks(KindOf(t), s, k, flip) = <<a, b, c>> /\ a = Gate(t)
    BY <1>3 DEF Locks, Gate
  <2> HIDE DEF a, b, c
  <2>4. Ordered(t, <<a, b, c>>)
    BY <2>1, <2>2 DEF Ordered
  <2> QED BY <2>3, <2>4
<1>4. CASE KindOf(t) \in {"move", "finalize"}
  <2> DEFINE gate == Lock("update", Session(s))
             p == CurrentRun(s, k, flip)
             member == Lock("key_share", Member(s))
             next == Lock("key_share", Question(k + 1))
  <2>1. gate \in AskedBy(t) /\ gate.row = Session(s) /\ gate = Gate(t) /\ Session(s) \in SessionRows
    BY <1>0, <1>4, LockIs DEF AskedBy, Gate, SessionRows
  <2>2. Ordered(t, p)
        /\ \A i \in 1..Len(p) : k # 0 /\ p[i].row \in {Run(s, k), Question(k)}
    BY <1>4, CurrentRunFits
  <2> HIDE DEF gate, p
  <2>3. Ordered(t, <<gate>>) /\ Len(<<gate>>) = 1 /\ <<gate>>[1] = gate
    BY <2>1, OrderedOne
  <2>4. \A i \in 1..Len(p) : p[i].row \in RunRows \cup QuestionRows
    <3>1. k # 0 => Run(s, k) \in RunRows /\ Question(k) \in QuestionRows
      BY <1>0 DEF RunRows, QuestionRows
    <3> QED BY <2>2, <3>1
  <2>5. \A i \in 1..Len(<<gate>>), j \in 1..Len(p) : Before(t, <<gate>>[i].row, p[j].row)
    BY <2>1, <2>3, <2>4 DEF Before
  <2> DEFINE q == <<gate>> \o p
  <2>6. /\ Ordered(t, q) /\ Len(q) = 1 + Len(p) /\ q[1] = gate /\ Len(p) \in Nat
        /\ \A i \in 1..Len(q) : q[i] = gate \/ \E j \in 1..Len(p) : q[i] = p[j]
    <3>1. Len(p) \in Nat
      BY <2>2 DEF Ordered
    <3>2. /\ Ordered(t, q) /\ Len(q) = Len(<<gate>>) + Len(p)
          /\ \A i \in 1..Len(<<gate>>) : q[i] = <<gate>>[i]
          /\ \A i \in 1..Len(q) :
               \/ i \in 1..Len(<<gate>>) /\ q[i] = <<gate>>[i]
               \/ i - Len(<<gate>>) \in 1..Len(p) /\ q[i] = p[i - Len(<<gate>>)]
      BY <2>2, <2>3, <2>5, OrderedConcat
    <3> HIDE DEF q
    <3>3. \A i \in 1..Len(q) : q[i] = gate \/ \E j \in 1..Len(p) : q[i] = p[j]
      <4> TAKE i \in 1..Len(q)
      <4>1. CASE i \in 1..Len(<<gate>>) /\ q[i] = <<gate>>[i]
        BY <2>3, <4>1
      <4>2. CASE i - Len(<<gate>>) \in 1..Len(p) /\ q[i] = p[i - Len(<<gate>>)]
        BY <4>2
      <4> QED BY <3>2, <4>1, <4>2
    <3> QED BY <2>3, <3>1, <3>2, <3>3
  <2> HIDE DEF q
  <2>7. ASSUME NEW last \in AskedBy(t),
               \A i \in 1..Len(p) : Before(t, p[i].row, last.row),
               Before(t, gate.row, last.row)
        PROVE  Ordered(t, q \o <<last>>) /\ q \o <<last>> # <<>> /\ (q \o <<last>>)[1] = gate
    <3>1. Ordered(t, <<last>>) /\ Len(<<last>>) = 1 /\ <<last>>[1] = last
      BY OrderedOne
    <3>2. \A i \in 1..Len(q), j \in 1..Len(<<last>>) : Before(t, q[i].row, <<last>>[j].row)
      <4> SUFFICES ASSUME NEW i \in 1..Len(q) PROVE Before(t, q[i].row, last.row)
        BY <3>1
      <4> QED BY <2>6, <2>7
    <3>3. /\ Ordered(t, q \o <<last>>) /\ Len(q \o <<last>>) = Len(q) + 1
          /\ \A i \in 1..Len(q) : (q \o <<last>>)[i] = q[i]
      BY <2>6, <3>1, <3>2, OrderedConcat
    <3>4. 1 \in 1..Len(q) /\ Len(q) + 1 # 0
      BY <2>6
    <3> QED BY <2>6, <3>3, <3>4
  <2>8. CASE KindOf(t) = "finalize"
    <3>1. member \in AskedBy(t) /\ member.row = Member(s) /\ Member(s) \in MemberRows
      BY <1>0, <2>8, LockIs DEF AskedBy, MemberRows
    <3>2. \A i \in 1..Len(p) : Before(t, p[i].row, Member(s))
      BY <2>4, <3>1 DEF Before
    <3>3. Before(t, Session(s), Member(s))
      BY <2>1, <3>1 DEF Before
    <3>4. Locks(KindOf(t), s, k, flip) = q \o <<member>>
      BY <2>8 DEF Locks, q, p, gate
    <3> HIDE DEF member
    <3> QED BY <2>1, <2>7, <3>1, <3>2, <3>3, <3>4
  <2>9. CASE KindOf(t) = "move" /\ k < Last
    <3>1. /\ next \in AskedBy(t) /\ next.row = Question(k + 1) /\ k + 1 \in 1..Last
          /\ Question(k + 1) \in QuestionRows
      <4>1. k + 1 \in 1..Last
        BY <1>0, <2>9
      <4> QED BY <2>9, <4>1, LockIs DEF AskedBy, QuestionRows
    <3>2. \A i \in 1..Len(p) : Before(t, p[i].row, Question(k + 1))
      <4> TAKE i \in 1..Len(p)
      <4>1. k \in 1..Last /\ k < k + 1
        BY <1>0, <2>2
      <4>2. p[i].row = Question(k) => Before(t, p[i].row, Question(k + 1))
        BY <3>1, <4>1 DEF Before
      <4>3. p[i].row = Run(s, k) => Before(t, p[i].row, Question(k + 1))
        BY <1>0, <3>1, <4>1 DEF Before, RunRows
      <4> QED BY <2>2, <4>2, <4>3
    <3>3. Before(t, Session(s), Question(k + 1))
      BY <2>1, <3>1 DEF Before
    <3>4. Locks(KindOf(t), s, k, flip) = q \o <<next>>
      BY <2>9 DEF Locks, NextRun, q, p, gate
    <3> HIDE DEF next
    <3> QED BY <2>1, <2>7, <3>1, <3>2, <3>3, <3>4
  <2>10. CASE KindOf(t) = "move" /\ ~ k < Last
    <3>1. Locks(KindOf(t), s, k, flip) = q \o <<>>
      BY <2>10 DEF Locks, NextRun, q, p, gate
    <3>2. q \o <<>> = q
      BY <2>6 DEF Ordered
    <3>3. q # <<>>
      BY <2>6
    <3> QED BY <2>1, <2>6, <3>1, <3>2, <3>3
  <2> QED BY <1>4, <2>8, <2>9, <2>10
<1> QED BY <1>0, <1>1, <1>2, <1>3, <1>4 DEF Kinds
-----------------------------------------------------------------------------
(* The steps.                                                               *)

\* What the others hold and want is not touched by a step of t.
LEMMA OthersKeep ==
  ASSUME LockInv, NEW t \in Transactions, NEW u \in Transactions, u # t, plan'[u] = plan[u],
         \/ held' = {h \in held : h.by # t}
         \/ \E lock : held' = held \cup {Granted(t, lock)}
  PROVE  PlanInv(u)' /\ GateInv(u)'
<1>1. Holds(u)' = Holds(u)
  BY DEF Holds, Granted
<1>2. Granted(u, Gate(u)) \in held => Granted(u, Gate(u)) \in held'
  BY DEF Granted
<1>3. PlanInv(u) /\ GateInv(u)
  BY DEF LockInv
<1> QED BY <1>1, <1>2, <1>3 DEF PlanInv, GateInv

\* A transaction begins.
LEMMA BeginKeeps ==
  ASSUME LockInv, NEW t \in Transactions, Begin(t)
  PROVE  LockInv'
<1> USE DEF LockInv
<1>1. PICK flip \in BOOLEAN :
        plan' = [plan EXCEPT ![t] = Locks(KindOf(t), SessionOf(t), position[SessionOf(t)], flip)]
  BY DEF Begin
<1>2. UNCHANGED <<position, held>> /\ plan[t] = <<>> /\ Holds(t) = {}
  BY DEF Begin, Open, Holds
<1> DEFINE k == position[SessionOf(t)]
           p == Locks(KindOf(t), SessionOf(t), k, flip)
<1>3. k \in 0..Last /\ (KindOf(t) = "press" => k # 0)
  BY LocksAssumption DEF TypesInv, Begin
<1>4. Ordered(t, p) /\ (KindOf(t) # "press" => p # <<>> /\ p[1] = Gate(t))
  BY <1>3, LocksFit
<1>5. plan' = [plan EXCEPT ![t] = p]
  BY <1>1
<1> HIDE DEF p
<1>6. /\ plan'[t] = p /\ \A u \in Transactions \ {t} : plan'[u] = plan[u]
      /\ plan' = [u \in Transactions |-> plan'[u]]
  <2>1. plan = [u \in Transactions |-> plan[u]]
    BY DEF TypesInv
  <2> QED BY <1>5, <2>1
<1>7. Holds(t)' = {}
  BY <1>2 DEF Holds
<1>8. PlanInv(t)' /\ GateInv(t)'
  BY <1>4, <1>6, <1>7 DEF PlanInv, GateInv
<1>9. ASSUME NEW u \in Transactions, u # t
      PROVE  PlanInv(u)' /\ GateInv(u)'
  <2>1. held' = {h \in held : h.by # t}
    BY <1>2 DEF Holds
  <2> QED BY <1>6, <1>9, <2>1, OthersKeep
<1>10. TypesInv' /\ ExclusiveInv'
  BY <1>2, <1>6 DEF TypesInv, ExclusiveInv
<1> QED BY <1>8, <1>9, <1>10

\* A lock is granted to a transaction.
LEMMA AcquireKeeps ==
  ASSUME LockInv, NEW t \in Transactions, Acquire(t)
  PROVE  LockInv'
<1> USE DEF LockInv
<1> DEFINE lock == plan[t][1]
           again == Head(plan[t]).row = Session(SessionOf(t)) /\ KindOf(t) \in {"move", "finalize"}
<1>1. /\ PlanInv(t) /\ GateInv(t) /\ plan[t] # <<>> /\ Ordered(t, plan[t])
      /\ Blockers(t) = {} /\ UNCHANGED position
  BY DEF Acquire, PlanInv
<1>2. /\ Ordered(t, Tail(plan[t])) /\ lock \in AskedBy(t) /\ Head(plan[t]) = lock
      /\ Len(plan[t]) \in Nat \ {0}
      /\ \A i \in 1..Len(Tail(plan[t])) :
           Tail(plan[t])[i] = plan[t][i + 1] /\ i + 1 \in 1..Len(plan[t])
      /\ \A i \in 1..Len(Tail(plan[t])) : Before(t, lock.row, Tail(plan[t])[i].row)
  BY <1>1, OrderedTail
<1>3. held' = held \cup {Granted(t, lock)}
  BY <1>2 DEF Acquire, Granted
<1>4. Holds(t)' = Holds(t) \cup {Granted(t, lock)}
  BY <1>3 DEF Holds, Granted
<1>5. Granted(t, lock).row = lock.row /\ Granted(t, lock).mode = lock.mode
      /\ Granted(t, lock).by = t
  BY DEF Granted
<1>6. plan = [u \in Transactions |-> plan[u]]
  BY DEF TypesInv
<1>7. PICK rest : plan' = [plan EXCEPT ![t] = rest]
  BY DEF Acquire
<1>8. /\ \A u \in Transactions \ {t} : plan'[u] = plan[u]
      /\ plan' = [u \in Transactions |-> plan'[u]]
  BY <1>6, <1>7
<1>9. ASSUME PlanInv(t)', GateInv(t)' PROVE LockInv'
  <2>1. ASSUME NEW u \in Transactions, u # t
        PROVE  PlanInv(u)' /\ GateInv(u)'
    BY <1>3, <1>8, <2>1, OthersKeep
  <2>2. TypesInv'
    BY <1>1, <1>2, <1>3, <1>5, <1>8 DEF TypesInv
  <2>3. \A g \in held : g.row = lock.row /\ g.by # t => ~ Conflict(g.mode, lock.mode)
    <3>1. Head(plan[t]) = lock
      BY <1>2
    <3> HIDE DEF lock
    <3> SUFFICES ASSUME NEW g \in held, g.row = lock.row, g.by # t, Conflict(g.mode, lock.mode)
                 PROVE  FALSE
      OBVIOUS
    <3>2. g \in {h \in held : /\ plan[t] # <<>> /\ h.by # t /\ h.row = Head(plan[t]).row
                            /\ Conflict(h.mode, Head(plan[t]).mode)}
      BY <1>1, <3>1
    <3>3. g.by \in Blockers(t)
      BY <3>2 DEF Blockers
    <3> QED BY <1>1, <3>3
  <2>4. ExclusiveInv'
    BY <1>3, <1>5, <2>3 DEF ExclusiveInv, Conflict
  <2> QED BY <1>9, <2>1, <2>2, <2>4
<1>10. CASE again
  <2>1. KindOf(t) \in {"move", "finalize"} /\ lock.row = Session(SessionOf(t))
    BY <1>2, <1>10
  <2>2. lock = Gate(t) /\ Holds(t) = {}
    <3>1. Granted(t, Gate(t)) \notin held
      <4>1. SUFFICES ASSUME Granted(t, Gate(t)) \in held PROVE FALSE
        OBVIOUS
      <4>2. Granted(t, Gate(t)) \in Holds(t) /\ Granted(t, Gate(t)).row = Session(SessionOf(t))
        BY <2>1, <4>1, LockIs DEF Holds, Granted, Gate
      <4>3. Before(t, Session(SessionOf(t)), Session(SessionOf(t)))
        BY <1>1, <1>2, <2>1, <4>2 DEF PlanInv
      <4> QED BY <2>1, <4>3, RowsDiffer
              DEF Before, SessionRows, RunRows, QuestionRows, MemberRows
    <3> QED BY <1>1, <2>1, <3>1 DEF GateInv
  <2>3. PICK flip \in BOOLEAN :
          plan' = [plan EXCEPT ![t] =
                     Tail(Locks(KindOf(t), SessionOf(t), position[SessionOf(t)], flip))]
    BY <1>10 DEF Acquire
  <2> DEFINE p == Locks(KindOf(t), SessionOf(t), position[SessionOf(t)], flip)
  <2>4. position[SessionOf(t)] \in 0..Last
    BY LocksAssumption DEF TypesInv
  <2>5. Ordered(t, p) /\ p # <<>> /\ p[1] = Gate(t)
    BY <2>1, <2>4, LocksFit
  <2>6. plan' = [plan EXCEPT ![t] = Tail(p)]
    BY <2>3
  <2> HIDE DEF p
  <2>7. plan'[t] = Tail(p)
    BY <1>6, <2>6
  <2>8. Ordered(t, Tail(p)) /\ \A i \in 1..Len(Tail(p)) : Before(t, p[1].row, Tail(p)[i].row)
    BY <2>5, OrderedTail
  <2>9. PlanInv(t)'
    BY <1>4, <1>5, <2>2, <2>5, <2>7, <2>8 DEF PlanInv
  <2>10. GateInv(t)'
    BY <1>3, <2>2 DEF GateInv
  <2> QED BY <2>9, <2>10, <1>9
<1>11. CASE ~ again
  <2>1. plan'[t] = Tail(plan[t])
    BY <1>6, <1>11 DEF Acquire
  <2>2. PlanInv(t)'
    BY <1>1, <1>2, <1>4, <1>5, <2>1 DEF PlanInv
  <2>3. GateInv(t)'
    BY <1>1, <1>3 DEF GateInv
  <2> QED BY <2>2, <2>3, <1>9
<1> QED BY <1>10, <1>11

\* A transaction that has all it asked for ends.
LEMMA CommitKeeps ==
  ASSUME LockInv, NEW t \in Transactions, Commit(t)
  PROVE  LockInv'
<1> USE DEF LockInv
<1>1. plan[t] = <<>> /\ held' = {h \in held : h.by # t} /\ UNCHANGED plan
  BY DEF Commit
<1>2. position' \in [Sessions -> 0..Last]
  <2>1. position \in [Sessions -> 0..Last] /\ Last \in Nat /\ SessionOf(t) \in Sessions
    BY LocksAssumption DEF TypesInv
  <2> DEFINE moved == [position EXCEPT ![SessionOf(t)] = @ + 1]
  <2>2. position[SessionOf(t)] < Last => moved \in [Sessions -> 0..Last]
    BY <2>1
  <2>3. (position' = moved /\ position[SessionOf(t)] < Last) \/ position' = position
    BY DEF Commit
  <2> QED BY <2>1, <2>2, <2>3
<1>3. Holds(t)' = {}
  BY <1>1 DEF Holds
<1>4. PlanInv(t)' /\ GateInv(t)'
  BY <1>1, <1>3 DEF PlanInv, GateInv
<1>5. ASSUME NEW u \in Transactions, u # t
      PROVE  PlanInv(u)' /\ GateInv(u)'
  BY <1>1, <1>5, OthersKeep
<1>6. TypesInv' /\ ExclusiveInv'
  BY <1>1, <1>2 DEF TypesInv, ExclusiveInv
<1> QED BY <1>4, <1>5, <1>6

\* A transaction is rolled back, whatever it had and wanted.
LEMMA RollBackKeeps ==
  ASSUME LockInv, NEW t \in Transactions, RollBack(t)
  PROVE  LockInv'
<1> USE DEF LockInv
<1>1. /\ plan' = [plan EXCEPT ![t] = <<>>] /\ held' = {h \in held : h.by # t}
      /\ UNCHANGED position
  BY DEF RollBack
<1>2. /\ plan'[t] = <<>> /\ \A u \in Transactions \ {t} : plan'[u] = plan[u]
      /\ plan' = [u \in Transactions |-> plan'[u]]
  <2>1. plan = [u \in Transactions |-> plan[u]]
    BY DEF TypesInv
  <2> QED BY <1>1, <2>1
<1>3. Holds(t)' = {}
  BY <1>1 DEF Holds
<1>4. PlanInv(t)' /\ GateInv(t)'
  <2>1. Ordered(t, <<>>)
    BY DEF Ordered
  <2> QED BY <1>2, <1>3, <2>1 DEF PlanInv, GateInv
<1>5. ASSUME NEW u \in Transactions, u # t
      PROVE  PlanInv(u)' /\ GateInv(u)'
  BY <1>1, <1>2, <1>5, OthersKeep
<1>6. TypesInv' /\ ExclusiveInv'
  BY <1>1, <1>2 DEF TypesInv, ExclusiveInv
<1> QED BY <1>4, <1>5, <1>6

\* Before the first transaction nothing is held or wanted.
LEMMA InitFits ==
  ASSUME Init
  PROVE  LockInv
<1>1. plan = [t \in Transactions |-> <<>>] /\ held = {} /\ position \in [Sessions -> 0..Last]
  BY DEF Init
<1>2. ASSUME NEW t \in Transactions
      PROVE  PlanInv(t) /\ GateInv(t)
  <2>1. plan[t] = <<>> /\ Holds(t) = {} /\ Ordered(t, <<>>)
    BY <1>1 DEF Holds, Ordered
  <2> QED BY <2>1 DEF PlanInv, GateInv
<1> QED BY <1>1, <1>2 DEF LockInv, TypesInv, ExclusiveInv

\* The invariant is inductive.
LEMMA StepKeeps ==
  ASSUME LockInv, [Next]_vars
  PROVE  LockInv'
<1>1. CASE UNCHANGED vars
  BY <1>1 DEF vars, LockInv, TypesInv, ExclusiveInv, PlanInv, GateInv, Holds
<1>2. CASE Next
  BY <1>2, BeginKeeps, AcquireKeeps, CommitKeeps, RollBackKeeps DEF Next
<1> QED BY <1>1, <1>2
-----------------------------------------------------------------------------
(* Who is waited for is ahead of who waits.                                 *)

\* How far a transaction has come, by the row that it wants: a press wants its run
\* with empty hands, and one more session to archive stands behind one that is played.
Level(t) ==
  LET row == plan[t][1].row IN
  CASE row = Quiz -> 0
    [] row \in SessionRows -> IF KindOf(t) = "archive" THEN 2 ELSE 1
    [] row = User -> 3
    [] row \in QuestionRows -> 3 + row[3]
    [] row \in RunRows -> IF KindOf(t) = "press" THEN 1 ELSE 4 + Last
    [] OTHER -> 5 + Last

\* The level that belongs to each row.
LEMMA LevelIs ==
  ASSUME NEW t, NEW row, row = plan[t][1].row
  PROVE  /\ row = Quiz => Level(t) = 0
         /\ row \in SessionRows => Level(t) = IF KindOf(t) = "archive" THEN 2 ELSE 1
         /\ row = User => Level(t) = 3
         /\ \A k \in 1..Last : row = Question(k) => Level(t) = 3 + k
         /\ row \in RunRows => Level(t) = IF KindOf(t) = "press" THEN 1 ELSE 4 + Last
         /\ row \in MemberRows => Level(t) = 5 + Last
<1>1. \A k : Question(k)[3] = k
  BY DEF Question
<1>2. row = Quiz => Level(t) = 0
  BY RowsDiffer DEF Level, SessionRows, QuestionRows, RunRows
<1>3. row \in SessionRows => Level(t) = IF KindOf(t) = "archive" THEN 2 ELSE 1
  BY RowsDiffer DEF Level, SessionRows, QuestionRows, RunRows
<1>4. row = User => Level(t) = 3
  BY RowsDiffer DEF Level, SessionRows, QuestionRows, RunRows
<1>5. ASSUME NEW k \in 1..Last, row = Question(k) PROVE Level(t) = 3 + k
  <2>1. /\ row # Quiz /\ row \notin SessionRows /\ row # User /\ row \in QuestionRows
        /\ row[3] = k
    BY <1>1, <1>5, RowsDiffer DEF SessionRows, QuestionRows
  <2>2. row \notin RunRows
    BY <1>5, RowsDiffer DEF RunRows
  <2> QED BY <2>1, <2>2 DEF Level
<1>6. row \in RunRows => Level(t) = IF KindOf(t) = "press" THEN 1 ELSE 4 + Last
  BY RowsDiffer DEF Level, SessionRows, QuestionRows, RunRows
<1>7. row \in MemberRows => Level(t) = 5 + Last
  BY RowsDiffer DEF Level, SessionRows, QuestionRows, RunRows, MemberRows
<1> QED BY <1>2, <1>3, <1>4, <1>5, <1>6, <1>7

\* Who asks for which rows.
LEMMA AskedRows ==
  ASSUME NEW t \in Transactions, NEW lock \in AskedBy(t)
  PROVE  LET row == lock.row
             kind == KindOf(t) IN
         /\ row \in {Quiz, User} \cup SessionRows \cup RunRows \cup QuestionRows \cup MemberRows
         /\ row = Quiz => kind = "archive"
         /\ row = User => kind = "join"
         /\ row \in SessionRows => kind # "press"
         /\ row \in SessionRows /\ kind # "archive" => row = Session(SessionOf(t))
         /\ row \in RunRows => /\ kind \in {"press", "move", "finalize"}
                               /\ \E k \in 1..Last : row = Run(SessionOf(t), k)
         /\ row \in QuestionRows => kind \in {"move", "finalize"}
<1>1. SessionOf(t) \in Sessions /\ KindOf(t) \in Kinds
  BY LocksAssumption
<1>2. CASE KindOf(t) = "archive"
  BY <1>2, LockIs, RowsDiffer
     DEF AskedBy, SessionRows, RunRows, QuestionRows
<1>3. CASE KindOf(t) = "press"
  BY <1>1, <1>3, LockIs, RowsDiffer
     DEF AskedBy, SessionRows, RunRows, QuestionRows, MemberRows
<1>4. CASE KindOf(t) = "join"
  BY <1>1, <1>4, LockIs, RowsDiffer
     DEF AskedBy, SessionRows, RunRows, QuestionRows, MemberRows
<1>5. CASE KindOf(t) \in {"move", "finalize"}
  BY <1>1, <1>5, LockIs, RowsDiffer
     DEF AskedBy, SessionRows, RunRows, QuestionRows, MemberRows
<1> QED BY <1>1, <1>2, <1>3, <1>4, <1>5 DEF Kinds

\* Only one transaction at a time is past a gate.
LEMMA OnePastTheGate ==
  ASSUME ExclusiveInv, NEW t \in Transactions, NEW u \in Transactions, t # u,
         Gate(t) = Gate(u), Granted(t, Gate(t)) \in held
  PROVE  Granted(u, Gate(u)) \notin held
<1>1. Gate(t).mode = "update"
  BY LockIs DEF Gate
<1> QED BY <1>1 DEF ExclusiveInv, Granted, Conflict

\* A transaction that has something, or wants something else, is past its gate.
LEMMA PastTheGate ==
  ASSUME LockInv, NEW t \in Transactions, KindOf(t) # "press", plan[t] # <<>>,
         Holds(t) # {} \/ plan[t][1] # Gate(t)
  PROVE  Granted(t, Gate(t)) \in held
BY DEF LockInv, GateInv

\* Whom a transaction waits for either waits for nothing or has come further.
LEMMA BlockerIsAhead ==
  ASSUME LockInv, NEW t \in Transactions, NEW u \in Blockers(t), plan[u] # <<>>
  PROVE  /\ u \in Transactions /\ Level(t) \in 0..(5 + Last) /\ Level(u) \in 0..(5 + Last)
         /\ Level(t) < Level(u)
<1> DEFINE wanted == plan[t][1]
           next == plan[u][1]
<1>1. PICK h \in held : h.by = u /\ plan[t] # <<>> /\ u # t /\ h.row = Head(plan[t]).row
  BY DEF Blockers
<1>2. u \in Transactions /\ \E lock \in AskedBy(u) : h = Granted(u, lock)
  BY <1>1 DEF LockInv, TypesInv
<1>3. PICK lock \in AskedBy(u) : h = Granted(u, lock)
  BY <1>2
<1>4. PlanInv(t) /\ PlanInv(u) /\ GateInv(t) /\ GateInv(u) /\ ExclusiveInv
  BY <1>2 DEF LockInv
<1>5. wanted \in AskedBy(t) /\ Head(plan[t]) = wanted
  BY <1>1, <1>4, OrderedTail DEF PlanInv
<1>6. next \in AskedBy(u) /\ 1 \in 1..Len(plan[u])
  BY <1>2, <1>4, OrderedTail DEF PlanInv
<1> DEFINE row == lock.row
<1>7. wanted.row = row /\ h.row = row /\ h \in Holds(u)
  BY <1>1, <1>3, <1>5 DEF Granted, Holds
<1>8. Before(u, row, next.row)
  BY <1>4, <1>6, <1>7 DEF PlanInv
<1>9. Last \in Nat
  BY LocksAssumption
<1>10. SessionOf(t) \in Sessions /\ SessionOf(u) \in Sessions /\ KindOf(t) \in Kinds
  BY <1>2, LocksAssumption
<1> HIDE DEF wanted, next, row
<1>11. CASE row = Quiz
  <2>1. Level(t) = 0
    BY <1>7, <1>11, LevelIs DEF wanted
  <2>2. next.row \in SessionRows
    BY <1>8, <1>11, RowsDiffer DEF Before, SessionRows, RunRows, QuestionRows
  <2>3. Level(u) \in {1, 2}
    BY <2>2, LevelIs DEF next
  <2> QED BY <1>2, <1>9, <2>1, <2>3
<1>12. CASE row \in SessionRows
  <2>1. KindOf(u) # "press" /\ Holds(u) # {}
    BY <1>2, <1>7, <1>12, AskedRows DEF row
  <2>2. Granted(u, Gate(u)) \in held
    BY <1>2, <2>1, PastTheGate
  <2>3. KindOf(t) # "press" /\ Level(t) = IF KindOf(t) = "archive" THEN 2 ELSE 1
    BY <1>5, <1>7, <1>12, AskedRows, LevelIs DEF wanted
  <2>4. CASE KindOf(t) = "archive" /\ KindOf(u) = "archive"
    <3>1. Gate(t) = Gate(u) /\ Gate(t).row = Quiz
      BY <2>4, LockIs DEF Gate
    <3>2. wanted # Gate(t)
      BY <1>7, <1>12, <3>1, RowsDiffer DEF SessionRows
    <3>3. Granted(t, Gate(t)) \in held
      BY <1>1, <2>3, <3>2, PastTheGate DEF wanted
    <3> QED BY <1>1, <1>2, <1>4, <2>2, <3>1, <3>3, OnePastTheGate
  <2>5. CASE next.row \in SessionRows
    <3>1. KindOf(u) = "archive"
      <4>1. \A r \in SessionRows : /\ r # Quiz /\ r # User
                                   /\ r \notin RunRows \cup QuestionRows \cup MemberRows
        BY RowsDiffer DEF SessionRows, RunRows, QuestionRows, MemberRows
      <4>2. \A k : Question(k) \notin SessionRows
        BY RowsDiffer DEF SessionRows
      <4> QED BY <1>8, <1>12, <2>5, <4>1, <4>2 DEF Before
    <3>2. Level(u) = 2
      BY <2>5, <3>1, LevelIs DEF next
    <3> QED BY <1>2, <1>9, <2>3, <2>4, <3>1, <3>2
  <2>6. CASE next.row \notin SessionRows
    <3>1. next.row \in RunRows \cup QuestionRows \cup MemberRows \cup {User}
      BY <1>8, <1>12, <2>6, RowsDiffer DEF Before, SessionRows, RunRows, QuestionRows
    <3>2. Level(u) \in 3..(5 + Last)
      <4>1. next.row \in RunRows => Level(u) = 4 + Last
        BY <2>1, LevelIs DEF next
      <4>2. next.row \in MemberRows => Level(u) = 5 + Last
        BY LevelIs DEF next
      <4>3. next.row \in QuestionRows => \E k \in 1..Last : Level(u) = 3 + k
        BY LevelIs DEF next, QuestionRows
      <4>4. next.row = User => Level(u) = 3
        BY LevelIs DEF next
      <4> QED BY <1>9, <3>1, <4>1, <4>2, <4>3, <4>4
    <3> QED BY <1>2, <1>9, <2>3, <3>2
  <2> QED BY <2>5, <2>6
<1>13. CASE row = User
  <2>1. Level(t) = 3
    BY <1>7, <1>13, LevelIs DEF wanted
  <2>2. next.row \in MemberRows
    BY <1>8, <1>13, RowsDiffer DEF Before, SessionRows, RunRows, QuestionRows
  <2>3. Level(u) = 5 + Last
    BY <2>2, LevelIs DEF next
  <2> QED BY <1>2, <1>9, <2>1, <2>3
<1>14. CASE row \in RunRows
  <2>1. Level(t) = IF KindOf(t) = "press" THEN 1 ELSE 4 + Last
    BY <1>7, <1>14, LevelIs DEF wanted
  <2>2. next.row \in QuestionRows \cup MemberRows
    BY <1>8, <1>14, RowsDiffer DEF Before, SessionRows, RunRows, QuestionRows
  <2>3. next.row \in MemberRows => Level(u) = 5 + Last
    BY LevelIs DEF next
  <2>4. next.row \in QuestionRows => \E k \in 1..Last : Level(u) = 3 + k
    BY LevelIs DEF next, QuestionRows
  <2>5. KindOf(t) # "press" => next.row \in MemberRows
    <3> SUFFICES ASSUME KindOf(t) # "press", next.row \in QuestionRows PROVE FALSE
      BY <2>2
    <3>1. /\ KindOf(t) \in {"move", "finalize"}
          /\ \E k \in 1..Last : row = Run(SessionOf(t), k)
      BY <1>5, <1>7, <1>14, AskedRows
    <3>2. KindOf(u) \in {"move", "finalize"}
      BY <1>2, <1>6, AskedRows
    <3>3. \E k \in 1..Last : row = Run(SessionOf(u), k)
      BY <1>2, <1>3, <1>14, AskedRows DEF row
    <3>4. Gate(t) = Gate(u)
      <4>1. SessionOf(t) = SessionOf(u)
        BY <3>1, <3>3, RowsDiffer
      <4> QED BY <3>1, <3>2, <4>1 DEF Gate
    <3>5. Granted(u, Gate(u)) \in held
      BY <1>2, <1>7, <3>2, PastTheGate
    <3>6. wanted # Gate(t)
      <4>1. Gate(t).row = Session(SessionOf(t))
        BY <3>1, LockIs DEF Gate
      <4> QED BY <1>7, <3>1, <4>1, RowsDiffer
    <3>7. Granted(t, Gate(t)) \in held
      BY <1>1, <3>1, <3>6, PastTheGate DEF wanted
    <3> QED BY <1>1, <1>2, <1>4, <3>4, <3>5, <3>7, OnePastTheGate
  <2> QED BY <1>2, <1>9, <2>1, <2>2, <2>3, <2>4, <2>5
<1>15. CASE row \in QuestionRows
  <2>1. PICK k \in 1..Last : row = Question(k)
    BY <1>15 DEF QuestionRows
  <2>2. Level(t) = 3 + k
    BY <1>7, <2>1, LevelIs DEF wanted
  <2>3. KindOf(u) # "press"
    BY <1>2, <1>3, <1>15, AskedRows DEF row
  <2>4. \/ next.row \in RunRows \cup MemberRows
        \/ \E j \in 1..Last : k < j /\ next.row = Question(j)
    BY <1>8, <2>1, RowsDiffer DEF Before, SessionRows, RunRows, QuestionRows
  <2>5. next.row \in RunRows => Level(u) = 4 + Last
    BY <2>3, LevelIs DEF next
  <2>6. next.row \in MemberRows => Level(u) = 5 + Last
    BY LevelIs DEF next
  <2>7. \A j \in 1..Last : next.row = Question(j) => Level(u) = 3 + j
    BY LevelIs DEF next
  <2> QED BY <1>2, <1>9, <2>2, <2>4, <2>5, <2>6, <2>7
<1>16. CASE row \in MemberRows
  BY <1>8, <1>16, RowsDiffer DEF Before, SessionRows, RunRows, QuestionRows, MemberRows
<1> QED BY <1>2, <1>3, <1>11, <1>12, <1>13, <1>14, <1>15, <1>16, AskedRows DEF row

\* A set of numbers that are bounded has a greatest one.
LEMMA Greatest ==
  ASSUME NEW n \in Nat, NEW S, S \subseteq 0..n, S # {}
  PROVE  \E m \in S : \A x \in S : x <= m
<1> DEFINE T == {n - x : x \in S}
<1>1. T \subseteq Nat /\ T # {}
  <2>1. \A x \in S : n - x \in Nat
    OBVIOUS
  <2>2. PICK x : x \in S
    OBVIOUS
  <2>3. n - x \in T
    BY <2>2
  <2> QED BY <2>1, <2>3
<1>2. PICK m \in T : \A y \in T : ~ (<<y, m>> \in OpToRel(<, Nat))
  BY <1>1, NatLessThanWellFounded, WFMin
<1>3. \A y \in T : m <= y
  <2> TAKE y \in T
  <2>1. ~ (<<y, m>> \in OpToRel(<, Nat))
    BY <1>2
  <2>2. y \in Nat /\ m \in Nat
    BY <1>1
  <2> HIDE DEF T
  <2>3. ASSUME y < m PROVE FALSE
    <3>1. <<y, m>> \in Nat \X Nat /\ <<y, m>>[1] < <<y, m>>[2]
      BY <2>2, <2>3
    <3>2. <<y, m>> \in {p \in Nat \X Nat : p[1] < p[2]}
      BY <3>1
    <3> QED BY <2>1, <3>2 DEF OpToRel
  <2> QED BY <2>2, <2>3
<1>4. PICK x \in S : m = n - x
  OBVIOUS
<1>5. \A y \in S : y <= x
  <2> TAKE y \in S
  <2>1. n - y \in T
    OBVIOUS
  <2>2. n - x <= n - y /\ x \in Nat /\ y \in Nat
    BY <1>3, <1>4, <2>1
  <2> QED BY <2>2
<1> QED BY <1>5

\* Under the invariant the transactions of no set wait for each other only.
LEMMA InvImpliesNoDeadlock ==
  ASSUME LockInv
  PROVE  NoDeadlock
<1>1. TypeOK
  <2>1. \A t : \A lock \in AskedBy(t) : lock.mode \in Modes
    BY LockIs DEF AskedBy, Modes
  <2>2. \A h \in held : h.by \in Transactions /\ h.mode \in Modes
    BY <2>1 DEF LockInv, TypesInv, Granted
  <2> QED BY <2>2 DEF LockInv, TypesInv, ExclusiveInv, TypeOK
<1>2. ASSUME NEW D \in (SUBSET Transactions) \ {{}}, \A t \in D : Blockers(t) \cap D # {}
      PROVE  FALSE
  <2>1. \A t \in D : plan[t] # <<>>
    BY <1>2 DEF Blockers
  <2>2. \A t \in D : \A u \in Blockers(t) \cap D :
          Level(t) \in 0..(5 + Last) /\ Level(u) \in 0..(5 + Last) /\ Level(t) < Level(u)
    BY <2>1, BlockerIsAhead
  <2> DEFINE S == {Level(t) : t \in D}
  <2>3. S \subseteq 0..(5 + Last) /\ S # {}
    <3>1. \A t \in D : Level(t) \in 0..(5 + Last)
      <4> TAKE t \in D
      <4>1. PICK u \in Blockers(t) : u \in D
        BY <1>2
      <4> QED BY <2>2, <4>1
    <3>2. PICK t : t \in D
      BY <1>2
    <3> QED BY <3>1, <3>2
  <2>4. 5 + Last \in Nat
    BY LocksAssumption
  <2>5. PICK m \in S : \A x \in S : x <= m
    BY <2>3, <2>4, Greatest
  <2>6. PICK t \in D : m = Level(t)
    OBVIOUS
  <2>7. PICK u \in D : u \in Blockers(t)
    BY <1>2
  <2>8. Level(u) <= Level(t)
    BY <2>5, <2>6
  <2> QED BY <2>2, <2>4, <2>7, <2>8
<1> QED BY <1>1, <1>2 DEF NoDeadlock, NobodyTiedUp

\* Locks are held in modes that go together, and the transactions of the sessions of
\* a quiz never wait for each other only, for any number of sessions and questions
\* and whichever order a run and its question are locked in
\* (gameplay.py 52-124, 197-246, quiz/services.py 352-362).
THEOREM NeverDeadlocked == Spec => []NoDeadlock
<1>1. Init => LockInv
  BY InitFits
<1>2. LockInv /\ [Next]_vars => LockInv'
  BY StepKeeps
<1>3. LockInv => NoDeadlock
  BY InvImpliesNoDeadlock
<1> QED BY <1>1, <1>2, <1>3, PTL DEF Spec
=============================================================================
