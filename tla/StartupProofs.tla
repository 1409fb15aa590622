---------------------------- MODULE StartupProofs ----------------------------
(***************************************************************************)
(* Proofs about Startup, for any finite set of clients, any memory and any *)
(* number of deaths: the Dummies are a barrier unless index_ starts above  *)
(* 0, although its increments race, and counted one at a time they open it *)
(* once.                                                                   *)
(***************************************************************************)
EXTENDS Startup, FiniteSetTheorems, SequenceTheorems, TLAPS

LEMMA NodesFact == Cardinality(Clients) \in Nat /\ nodes = Cardinality(Clients) + 1
  BY StartupAssumption, FS_CardinalityType DEF nodes

(* What the tasks of a list of clients are. *)
LEMMA DoFact ==
  ASSUME NEW what \in {"requests", "hello", "dummy", "resend"},
         NEW s \in Seq(Clients)
  PROVE  /\ Do(what, s) \in Seq(Tasks)
         /\ Len(Do(what, s)) = Len(s)
         /\ \A n \in 1 .. Len(s) : Do(what, s)[n].do = what
<1>1. \A n \in 1 .. Len(s) : s[n] \in Clients
  OBVIOUS
<1>2. \A n \in 1 .. Len(s) : [do |-> what, who |-> s[n]] \in Tasks
  BY <1>1 DEF Tasks
<1>3. Do(what, s) \in [1 .. Len(s) -> Tasks]
  BY <1>2 DEF Do
<1>4. Len(s) \in Nat
  OBVIOUS
<1>5. Do(what, s) \in Seq(Tasks) /\ Len(Do(what, s)) = Len(s)
  BY <1>3, <1>4, SeqDef, LenProperties
<1> QED
  BY <1>5 DEF Do

LEMMA HelloTasksFact ==
  ASSUME known' \in Seq(Clients), connections \in Seq(Clients)
  PROVE  HelloTasks \in Seq(Tasks)
<1>1. /\ Do("requests", known') \in Seq(Tasks)
      /\ Do("hello", connections) \in Seq(Tasks)
      /\ Do("dummy", connections) \in Seq(Tasks)
  BY DoFact
<1>2. Do("requests", known') \o Do("hello", connections) \in Seq(Tasks)
  BY <1>1, ConcatProperties
<1> QED
  BY <1>1, <1>2, ConcatProperties DEF HelloTasks

LEMMA InitTypes == Init => TypeOK
<1> SUFFICES ASSUME Init PROVE TypeOK
  OBVIOUS
<1>1. index \in Int /\ index0 \in Int
  BY StartupAssumption DEF Init
<1>2. /\ backlog \in Seq(Clients) /\ connections \in Seq(Clients)
      /\ inits \in Seq(Clients) /\ known \in Seq(Clients)
      /\ tasks \in Seq(Tasks) /\ running \subseteq Tasks
  BY DEF Init
<1>3. /\ wrote \in [Clients -> SUBSET {"init", "dummy"}]
      /\ received \in [Clients -> SUBSET {"hello", "resend"}]
      /\ loaded \in [Clients -> Int]
  BY DEF Init
<1>4. /\ reader \in [Clients -> {"idle", "counting", "checking", "opening",
                                "starting", "done"}]
      /\ pc \in [Clients -> {"new", "connected", "joined", "tree", "waiting",
                            "running", "failed", "dead"}]
  BY DEF Init
<1>5. started \in Nat /\ rootTree = FALSE /\ rootDead = FALSE /\ overlapped = FALSE
      /\ index \in Int
  BY <1>1 DEF Init
<1> QED
  BY <1>1, <1>2, <1>3, <1>4, <1>5 DEF TypeOK

LEMMA TypeStep == TypeOK /\ [Next]_vars => TypeOK'
<1> SUFFICES ASSUME TypeOK, [Next]_vars PROVE TypeOK'
  OBVIOUS
<1> USE DEF TypeOK
<1>1. CASE HandleAccept
  <2>1. /\ Head(backlog) \in Clients /\ Tail(backlog) \in Seq(Clients)
    BY <1>1 DEF HandleAccept
  <2>2. connections' \in Seq(Clients) /\ inits' \in Seq(Clients)
    BY <1>1, <2>1, AppendProperties DEF HandleAccept
  <2> QED
    BY <1>1, <2>1, <2>2 DEF HandleAccept, pool, counting, starting, client
<1>2. CASE ReadInit
  <2>1. Head(inits) \in Clients /\ Tail(inits) \in Seq(Clients)
    BY <1>2 DEF ReadInit
  <2>2. Append(known, Head(inits)) \in Seq(Clients)
    BY <2>1, AppendProperties
  <2>3. known' \in Seq(Clients)
    BY <1>2, <2>2 DEF ReadInit
  <2>4. HelloTasks \in Seq(Tasks)
    BY <2>3, HelloTasksFact
  <2>5. tasks \o HelloTasks \in Seq(Tasks)
    BY <2>4, ConcatProperties
  <2>6. tasks' \in Seq(Tasks) /\ rootDead' \in BOOLEAN
    BY <1>2, <2>5 DEF ReadInit, SayHello
  <2> QED
    BY <1>2, <2>1, <2>3, <2>6 DEF ReadInit, counting, starting, client
<1>3. CASE TakeTask
  <2>1. Head(tasks) \in Tasks /\ Tail(tasks) \in Seq(Tasks)
    BY <1>3 DEF TakeTask
  <2>2. running' \subseteq Tasks
    BY <1>3, <2>1 DEF TakeTask
  <2>3. Head(tasks).do \notin Blocking => Head(tasks).do \in {"hello", "resend"}
    BY <2>1 DEF Tasks, Blocking
  <2> DEFINE t == Head(tasks)
  <2>4. CASE t.do \in Blocking
    BY <1>3, <2>1, <2>2, <2>4 DEF TakeTask, accepting, counting, starting
  <2>5. CASE t.do \notin Blocking
    <3>1. received' = [received EXCEPT ![t.who] = @ \cup {t.do}]
      BY <1>3, <2>5 DEF TakeTask
    <3>2. t.who \in Clients /\ t.do \in {"hello", "resend"}
      BY <2>1, <2>3, <2>5 DEF Tasks
    <3>3. received[t.who] \cup {t.do} \in SUBSET {"hello", "resend"}
      BY <3>2
    <3>4. received' \in [Clients -> SUBSET {"hello", "resend"}]
      BY <3>1, <3>2, <3>3
    <3> QED
      BY <1>3, <2>1, <2>2, <3>4 DEF TakeTask, accepting, counting, starting
  <2> QED
    BY <2>4, <2>5
<1>4. ASSUME NEW c \in Clients, Root(c) PROVE TypeOK'
  <2>1. CASE BeginCount(c)
    BY <2>1 DEF BeginCount, accepting, pool, starting, client
  <2>2. CASE EndCount(c)
    BY <2>2 DEF EndCount, accepting, pool, starting, client
  <2>3. CASE Check(c)
    <3>1. tasks' \in Seq(Tasks)
      <4>1. tasks \o Do("resend", connections) \in Seq(Tasks)
        BY DoFact, ConcatProperties
      <4> QED
        BY <2>3, <4>1 DEF Check
    <3>2. running' \subseteq Tasks
      BY <2>3 DEF Check
    <3>3. reader' \in [Clients -> {"idle", "counting", "checking", "opening",
                                   "starting", "done"}]
      BY <2>3 DEF Check
    <3> QED
      BY <2>3, <3>1, <3>2, <3>3 DEF Check, accepting, starting, client
  <2>4. CASE NullMessage(c)
    BY <2>4 DEF NullMessage, accepting, pool, counting, starting, client
  <2>5. CASE CreateTree(c)
    BY <2>5 DEF CreateTree, accepting, pool, client
  <2>6. CASE Start(c)
    BY <2>6 DEF Start, accepting, client
  <2> QED
    BY <1>4, <2>1, <2>2, <2>3, <2>4, <2>5, <2>6 DEF Root
<1>5. ASSUME NEW c \in Clients, Main(c) PROVE TypeOK'
  <2>1. CASE Connect(c)
    <3>1. backlog' \in Seq(Clients)
      BY <2>1, AppendProperties DEF Connect
    <3> QED
      BY <2>1, <3>1 DEF Connect, pool, counting, starting
  <2>2. CASE WriteInit(c)
    BY <2>2 DEF WriteInit, accepting, pool, counting, starting
  <2>3. CASE ReadHello(c)
    BY <2>3 DEF ReadHello, accepting, pool, counting, starting
  <2>4. CASE WriteDummy(c)
    BY <2>4 DEF WriteDummy, accepting, pool, counting, starting
  <2>5. CASE ReadDummy(c)
    BY <2>5 DEF ReadDummy, accepting, pool, counting, starting
  <2> QED
    BY <1>5, <2>1, <2>2, <2>3, <2>4, <2>5 DEF Main
<1>6. ASSUME NEW c \in Clients, Die(c) PROVE TypeOK'
  BY <1>6 DEF Die, accepting, pool, counting, starting
<1>7. CASE UNCHANGED vars
  BY <1>7 DEF vars, accepting, pool, counting, starting, client
<1> QED
  BY <1>1, <1>2, <1>3, <1>4, <1>5, <1>6, <1>7 DEF Next

(* The variables of the start keep their types. *)
THEOREM TypeCorrect == Spec => []TypeOK
  BY InitTypes, TypeStep, PTL DEF Spec

-----------------------------------------------------------------------------
(* The barrier. *)

Arrived(c) == HasTree(c) \/ Gone(c)

(* The clients whose Dummy has been counted, or has got lost in a race. *)
CountedBy ==
  {c \in Clients : reader[c] \in {"checking", "opening", "starting", "done"}}

(* Nothing is posted before every client is known, and a client that is    *)
(* known or waits to be has a connection.                                  *)
Complete == Cardinality(Clients) <= Len(known)

Posting ==
  /\ Len(known) + Len(inits) <= Len(connections)
  /\ tasks # <<>> \/ running # {} => Complete
  /\ \A c \in Clients : reader[c] # "idle" => Complete

(* Increments are lost, but none is made up. *)
Losses ==
  /\ index <= index0 + Cardinality(CountedBy)
  /\ \A c \in Clients :
       reader[c] = "counting" => loaded[c] <= index0 + Cardinality(CountedBy)

(* Who has written Dummy, or was taken to have, has its tree or is gone.   *)
Arrivals ==
  \A c \in Clients : "dummy" \in wrote[c] \/ reader[c] # "idle" => Arrived(c)

(* The barrier is open, or about to be opened. *)
Resending == \E n \in 1 .. Len(tasks) : tasks[n].do = "resend"

Opening == Begun \/ Resending \/ \E c \in Clients : reader[c] \in {"opening", "starting"}

OpensWithTrees == index0 <= 0 /\ Opening => \A c \in Clients : Arrived(c)

IInv == TypeOK /\ Posting /\ Losses /\ Arrivals /\ OpensWithTrees

LEMMA PostingStep == TypeOK /\ Posting /\ [Next]_vars => Posting'
<1> SUFFICES ASSUME TypeOK, Posting, [Next]_vars PROVE Posting'
  OBVIOUS
<1> USE NodesFact DEF TypeOK, Posting, Complete
<1>1. CASE HandleAccept
  <2>1. /\ Len(connections') = Len(connections) + 1
        /\ Len(inits') = Len(inits) + 1
    BY <1>1, AppendProperties DEF HandleAccept
  <2> QED
    BY <1>1, <2>1 DEF HandleAccept, pool, counting
<1>2. CASE ReadInit
  <2>1. Len(inits') = Len(inits) - 1 /\ Head(inits) \in Clients
    <3>1. inits # <<>> /\ inits' = Tail(inits)
      BY <1>2 DEF ReadInit
    <3> QED
      BY <3>1, HeadTailProperties
  <2>2. CASE known' = Append(known, Head(inits))
    <3>1. Len(known') = Len(known) + 1
      BY <2>1, <2>2, AppendProperties
    <3>2. Ready' => Complete'
      BY <3>1 DEF Ready
    <3>3. tasks' # tasks => Ready'
      BY <1>2 DEF ReadInit
    <3>4. UNCHANGED <<connections, running, reader>>
      BY <1>2 DEF ReadInit, counting
    <3>5. Complete => Complete'
      BY <3>1
    <3>6. tasks' # <<>> \/ running' # {} => Complete'
      BY <3>2, <3>3, <3>4, <3>5
    <3>7. Len(known') + Len(inits') <= Len(connections')
      BY <2>1, <3>1, <3>4
    <3>8. \A c \in Clients : reader'[c] # "idle" => Complete'
      BY <3>4, <3>5
    <3> QED
      BY <3>6, <3>7, <3>8
  <2>3. CASE UNCHANGED <<known, tasks>>
    BY <1>2, <2>1, <2>3 DEF ReadInit, counting
  <2> QED
    BY <1>2, <2>2, <2>3 DEF ReadInit
<1>3. CASE TakeTask
  BY <1>3 DEF TakeTask, accepting, counting
<1>4. ASSUME NEW c \in Clients, Root(c) PROVE Posting'
  <2>1. CASE BeginCount(c)
    BY <2>1 DEF BeginCount, accepting, pool
  <2>2. CASE EndCount(c)
    BY <2>2 DEF EndCount, accepting, pool
  <2>3. CASE Check(c)
    BY <2>3 DEF Check, accepting
  <2>4. CASE NullMessage(c)
    BY <2>4 DEF NullMessage, accepting, pool, counting
  <2>5. CASE CreateTree(c)
    BY <2>5 DEF CreateTree, accepting, pool
  <2>6. CASE Start(c)
    BY <2>6 DEF Start, accepting
  <2> QED
    BY <1>4, <2>1, <2>2, <2>3, <2>4, <2>5, <2>6 DEF Root
<1>5. ASSUME NEW c \in Clients, Main(c) \/ Die(c) PROVE Posting'
  <2>1. UNCHANGED <<connections, inits, known, pool, counting>>
    BY <1>5 DEF Main, Connect, WriteInit, ReadHello, WriteDummy, ReadDummy, Die,
                accepting
  <2> QED
    BY <2>1 DEF pool, counting
<1>6. CASE UNCHANGED vars
  BY <1>6 DEF vars, accepting, pool, counting
<1> QED
  BY <1>1, <1>2, <1>3, <1>4, <1>5, <1>6 DEF Next

(* How many are counted grows only when a store ends an increment.         *)
LEMMA CountedFinite ==
  /\ IsFiniteSet(CountedBy) /\ Cardinality(CountedBy) \in Nat
  /\ Cardinality(CountedBy) <= Cardinality(Clients)
  /\ Cardinality(CountedBy) = Cardinality(Clients) => CountedBy = Clients
<1>1. CountedBy \subseteq Clients
  BY DEF CountedBy
<1>2. /\ IsFiniteSet(CountedBy)
      /\ Cardinality(CountedBy) <= Cardinality(Clients)
      /\ Cardinality(CountedBy) = Cardinality(Clients) => CountedBy = Clients
  BY <1>1, StartupAssumption, FS_Subset
<1> QED
  BY <1>2, FS_CardinalityType

LEMMA LossesStep == TypeOK /\ Losses /\ [Next]_vars => Losses'
<1> SUFFICES ASSUME TypeOK, Losses, [Next]_vars PROVE Losses'
  OBVIOUS
<1> USE DEF TypeOK, Losses
<1>1. Cardinality(CountedBy) \in Nat
  BY CountedFinite
<1>2. ASSUME NEW c \in Clients, BeginCount(c) PROVE Losses'
  <2>1. CountedBy' = CountedBy
    BY <1>2 DEF BeginCount, CountedBy
  <2>2. /\ loaded' = [loaded EXCEPT ![c] = index]
        /\ index' = index /\ index0' = index0
        /\ \A d \in Clients \ {c} : reader'[d] = reader[d]
    BY <1>2 DEF BeginCount
  <2> QED
    BY <1>1, <2>1, <2>2
<1>3. ASSUME NEW c \in Clients, EndCount(c) PROVE Losses'
  <2>1. CountedBy' = CountedBy \cup {c} /\ c \notin CountedBy
    BY <1>3 DEF EndCount, CountedBy
  <2>2. Cardinality(CountedBy') = Cardinality(CountedBy) + 1
    BY <2>1, CountedFinite, FS_AddElement
  <2>3. /\ index' = loaded[c] + 1 /\ index0' = index0 /\ loaded' = loaded
        /\ reader[c] = "counting" /\ reader'[c] = "checking"
        /\ \A d \in Clients \ {c} : reader'[d] = reader[d]
    BY <1>3 DEF EndCount
  <2>4. loaded[c] \in Int /\ loaded[c] <= index0 + Cardinality(CountedBy)
    BY <2>3
  <2>5. index' <= index0' + Cardinality(CountedBy')
    BY <1>1, <2>2, <2>3, <2>4
  <2>6. ASSUME NEW d \in Clients, reader'[d] = "counting"
        PROVE  loaded'[d] <= index0' + Cardinality(CountedBy')
    <3>1. d # c /\ reader[d] = "counting" /\ loaded[d] \in Int
      BY <2>3, <2>6
    <3>2. loaded[d] <= index0 + Cardinality(CountedBy)
      BY <3>1
    <3> QED
      BY <1>1, <2>2, <2>3, <3>1, <3>2
  <2> QED
    BY <2>5, <2>6
<1>4. ASSUME index' = index, loaded' = loaded, index0' = index0,
             CountedBy' = CountedBy,
             \A c \in Clients : reader'[c] = "counting" => reader[c] = "counting"
      PROVE  Losses'
  BY <1>1, <1>4
<1>5. ASSUME NEW c \in Clients, Check(c) \/ NullMessage(c) \/ CreateTree(c) \/ Start(c)
      PROVE  Losses'
  <2>1. UNCHANGED <<index, loaded, index0>>
    BY <1>5 DEF Check, NullMessage, CreateTree, Start, counting
  <2>2. CountedBy' = CountedBy
    BY <1>5 DEF Check, NullMessage, CreateTree, Start, counting, CountedBy
  <2>3. \A d \in Clients : reader'[d] = "counting" => reader[d] = "counting"
    BY <1>5 DEF Check, NullMessage, CreateTree, Start, counting
  <2> QED
    BY <1>4, <2>1, <2>2, <2>3
<1>6. ASSUME UNCHANGED <<counting, index0>> PROVE Losses'
  <2>1. CountedBy' = CountedBy
    BY <1>6 DEF CountedBy, counting
  <2> QED
    BY <1>4, <1>6, <2>1 DEF counting
<1>7. CASE HandleAccept \/ ReadInit \/ TakeTask
  BY <1>6, <1>7 DEF HandleAccept, ReadInit, TakeTask
<1>8. ASSUME NEW c \in Clients, Main(c) \/ Die(c) PROVE Losses'
  BY <1>6, <1>8 DEF Main, Connect, WriteInit, ReadHello, WriteDummy, ReadDummy, Die
<1>9. CASE UNCHANGED vars
  BY <1>6, <1>9 DEF vars
<1> QED
  BY <1>2, <1>3, <1>5, <1>7, <1>8, <1>9 DEF Next, Root

(* A client that has arrived does not come back. *)
LEMMA ArrivedStays ==
  ASSUME TypeOK, [Next]_vars, NEW c \in Clients, Arrived(c)
  PROVE  Arrived(c)'
<1> USE DEF TypeOK, Arrived, HasTree, Gone
<1>1. CASE HandleAccept \/ ReadInit \/ TakeTask
  BY <1>1 DEF HandleAccept, ReadInit, TakeTask, client
<1>2. ASSUME NEW d \in Clients, Root(d) PROVE Arrived(c)'
  BY <1>2 DEF Root, BeginCount, EndCount, Check, NullMessage, CreateTree, Start, client
<1>3. ASSUME NEW d \in Clients, Main(d) \/ Die(d) PROVE Arrived(c)'
  BY <1>3 DEF Main, Connect, WriteInit, ReadHello, WriteDummy, ReadDummy, Die
<1>4. CASE UNCHANGED vars
  BY <1>4 DEF vars, client
<1> QED
  BY <1>1, <1>2, <1>3, <1>4 DEF Next

LEMMA ArrivalsStep == TypeOK /\ Arrivals /\ [Next]_vars => Arrivals'
<1> SUFFICES ASSUME TypeOK, Arrivals, [Next]_vars,
                    NEW c \in Clients, ("dummy" \in wrote[c] \/ reader[c] # "idle")'
             PROVE  Arrived(c)'
  BY DEF Arrivals
<1>1. CASE "dummy" \in wrote[c] \/ reader[c] # "idle"
  BY <1>1, ArrivedStays DEF Arrivals
<1>2. CASE "dummy" \notin wrote[c] /\ reader[c] = "idle"
  <2>1. CASE "dummy" \in wrote'[c]
    <3>1. pc[c] = "tree" /\ pc'[c] = "waiting"
      <4> USE <1>2, <2>1 DEF TypeOK
      <4>1. CASE HandleAccept \/ ReadInit \/ TakeTask
        BY <4>1 DEF HandleAccept, ReadInit, TakeTask, client
      <4>2. ASSUME NEW d \in Clients, Root(d) PROVE FALSE
        BY <4>2 DEF Root, BeginCount, EndCount, Check, NullMessage, CreateTree,
                    Start, client
      <4>3. ASSUME NEW d \in Clients, Main(d) \/ Die(d)
            PROVE  pc[c] = "tree" /\ pc'[c] = "waiting"
        <5>1. CASE WriteInit(d)
          BY <5>1 DEF WriteInit
        <5>2. CASE WriteDummy(d)
          BY <5>2 DEF WriteDummy
        <5> QED
          BY <4>3, <5>1, <5>2 DEF Main, Connect, ReadHello, ReadDummy, Die
      <4>4. CASE UNCHANGED vars
        BY <4>4 DEF vars, client
      <4> QED
        BY <4>1, <4>2, <4>3, <4>4 DEF Next
    <3> QED
      BY <3>1 DEF Arrived, HasTree
  <2>2. CASE reader'[c] # "idle"
    <3>1. Arrived(c)
      <4> USE <1>2, <2>2 DEF TypeOK
      <4>1. CASE HandleAccept \/ ReadInit \/ TakeTask
        BY <4>1 DEF HandleAccept, ReadInit, TakeTask, counting
      <4>2. ASSUME NEW d \in Clients, Root(d) PROVE Arrived(c)
        BY <4>2 DEF Root, BeginCount, EndCount, Check, NullMessage, CreateTree,
                    Start, counting, Arrived
      <4>3. ASSUME NEW d \in Clients, Main(d) \/ Die(d) PROVE FALSE
        BY <4>3 DEF Main, Connect, WriteInit, ReadHello, WriteDummy, ReadDummy, Die,
                    counting
      <4>4. CASE UNCHANGED vars
        BY <4>4 DEF vars, counting
      <4> QED
        BY <4>1, <4>2, <4>3, <4>4 DEF Next
    <3> QED
      BY <3>1, ArrivedStays
  <2> QED
    BY <2>1, <2>2
<1> QED
  BY <1>1, <1>2

(* The last Dummy: equality with the counter means that all are counted.   *)
LEMMA LastDummy ==
  ASSUME IInv, index0 <= 0, NEW c \in Clients, reader[c] = "checking", Counted
  PROVE  \A d \in Clients : Arrived(d)
<1> USE DEF IInv, TypeOK
<1>1. Cardinality(Clients) <= Len(connections)
  BY NodesFact DEF Posting, Complete
<1>2. index = Len(connections)
  BY DEF Counted, Counter
<1>3. index <= Cardinality(CountedBy)
  BY CountedFinite DEF Losses
<1>4. CountedBy = Clients
  BY <1>1, <1>2, <1>3, CountedFinite, NodesFact
<1>5. \A d \in Clients : reader[d] # "idle"
  BY <1>4 DEF CountedBy
<1> QED
  BY <1>5 DEF Arrivals

(* A task of a concatenation is a task of one of the two. *)
LEMMA ConcatTask ==
  ASSUME NEW s \in Seq(Tasks), NEW t \in Seq(Tasks), NEW m \in 1 .. Len(s \o t)
  PROVE  \/ m \in 1 .. Len(s) /\ (s \o t)[m] = s[m]
         \/ m - Len(s) \in 1 .. Len(t) /\ (s \o t)[m] = t[m - Len(s)]
<1>1. Len(s \o t) = Len(s) + Len(t) /\ Len(s) \in Nat /\ Len(t) \in Nat
  BY ConcatProperties
<1>2. CASE m <= Len(s)
  BY <1>1, <1>2, ConcatProperties
<1>3. CASE m > Len(s)
  BY <1>1, <1>3, ConcatProperties
<1> QED
  BY <1>1, <1>2, <1>3

LEMMA ConcatResend ==
  ASSUME NEW s \in Seq(Tasks), NEW t \in Seq(Tasks),
         \A m \in 1 .. Len(t) : t[m].do # "resend",
         NEW n \in 1 .. Len(s \o t), (s \o t)[n].do = "resend"
  PROVE  \E m \in 1 .. Len(s) : s[m].do = "resend"
<1>1. \/ n \in 1 .. Len(s) /\ (s \o t)[n] = s[n]
      \/ n - Len(s) \in 1 .. Len(t) /\ (s \o t)[n] = t[n - Len(s)]
  BY ConcatTask
<1> QED
  BY <1>1

LEMMA HelloTasksDo ==
  ASSUME TypeOK, known' \in Seq(Clients), NEW n \in 1 .. Len(tasks \o HelloTasks),
         (tasks \o HelloTasks)[n].do = "resend"
  PROVE  Resending
<1> USE DEF TypeOK
<1> DEFINE r == Do("requests", known')
           h == Do("hello", connections)
           d == Do("dummy", connections)
<1>1. /\ r \in Seq(Tasks) /\ \A m \in 1 .. Len(r) : r[m].do = "requests"
      /\ h \in Seq(Tasks) /\ \A m \in 1 .. Len(h) : h[m].do = "hello"
      /\ d \in Seq(Tasks) /\ \A m \in 1 .. Len(d) : d[m].do = "dummy"
  BY DoFact
<1> HIDE DEF r, h, d
<1>2. r \o h \in Seq(Tasks) /\ (r \o h) \o d \in Seq(Tasks)
  BY <1>1, ConcatProperties
<1>3. \A m \in 1 .. Len(r \o h) : (r \o h)[m].do # "resend"
  <2> SUFFICES ASSUME NEW m \in 1 .. Len(r \o h), (r \o h)[m].do = "resend"
               PROVE  FALSE
    OBVIOUS
  <2>1. \E l \in 1 .. Len(r) : r[l].do = "resend"
    BY <1>1, ConcatResend
  <2> QED
    BY <1>1, <2>1
<1> DEFINE rh == r \o h
<1>4. rh \in Seq(Tasks) /\ \A m \in 1 .. Len(rh) : rh[m].do # "resend"
  BY <1>2, <1>3
<1> HIDE DEF rh
<1>5. \A m \in 1 .. Len(rh \o d) : (rh \o d)[m].do # "resend"
  <2> SUFFICES ASSUME NEW m \in 1 .. Len(rh \o d), (rh \o d)[m].do = "resend"
               PROVE  FALSE
    OBVIOUS
  <2>1. \E l \in 1 .. Len(rh) : rh[l].do = "resend"
    BY <1>1, <1>4, ConcatResend
  <2> QED
    BY <1>4, <2>1
<1>6. HelloTasks = rh \o d /\ HelloTasks \in Seq(Tasks)
  BY <1>2 DEF HelloTasks, r, h, d, rh
<1>7. \A m \in 1 .. Len(HelloTasks) : HelloTasks[m].do # "resend"
  BY <1>5, <1>6
<1> QED
  BY <1>6, <1>7, ConcatResend DEF Resending

LEMMA OpensStep == IInv /\ [Next]_vars => OpensWithTrees'
<1> SUFFICES ASSUME IInv, [Next]_vars, (index0 <= 0 /\ Opening)'
             PROVE  \A c \in Clients : Arrived(c)'
  BY DEF OpensWithTrees
<1>1. TypeOK /\ index0' = index0
  BY DEF IInv, Next, HandleAccept, ReadInit, TakeTask, Root, BeginCount, EndCount,
         Check, NullMessage, CreateTree, Start, Main, Connect, WriteInit, ReadHello,
         WriteDummy, ReadDummy, Die, vars
<1>2. ASSUME \A c \in Clients : Arrived(c)
      PROVE  \A c \in Clients : Arrived(c)'
  BY <1>1, <1>2, ArrivedStays
<1>3. ASSUME Opening PROVE \A c \in Clients : Arrived(c)'
  BY <1>1, <1>2, <1>3 DEF IInv, OpensWithTrees
<1>4. CASE ReadInit
  <2>1. UNCHANGED <<started, received, reader>>
    BY <1>4 DEF ReadInit, starting, client, counting
  <2>2. Resending' => Resending
    <3>1. known' \in Seq(Clients)
      <4>1. Head(inits) \in Clients
        BY <1>1, <1>4 DEF ReadInit, TypeOK
      <4>2. Append(known, Head(inits)) \in Seq(Clients)
        BY <1>1, <4>1, AppendProperties DEF TypeOK
      <4> QED
        BY <1>1, <1>4, <4>2 DEF ReadInit, TypeOK
    <3>2. tasks' = tasks \/ tasks' = tasks \o HelloTasks
      BY <1>4 DEF ReadInit, SayHello
    <3> QED
      BY <1>1, <3>1, <3>2, HelloTasksDo DEF Resending
  <2> QED
    BY <1>3, <2>1, <2>2 DEF Opening, Begun
<1>5. CASE TakeTask
  <2>1. UNCHANGED <<started, reader>>
    BY <1>5 DEF TakeTask, starting, counting
  <2>2. Resending' => Resending
    <3>1. tasks # <<>> /\ tasks' = Tail(tasks)
      BY <1>5 DEF TakeTask
    <3>2. /\ tasks' \in Seq(Tasks) /\ Len(tasks') = Len(tasks) - 1
          /\ \A n \in 1 .. Len(tasks') : tasks'[n] = tasks[n+1]
      BY <1>1, <3>1, HeadTailProperties DEF TypeOK
    <3>3. Len(tasks) \in Nat
      BY <1>1 DEF TypeOK
    <3>4. \A n \in 1 .. Len(tasks') : n + 1 \in 1 .. Len(tasks)
      BY <3>2, <3>3
    <3> QED
      BY <3>2, <3>4 DEF Resending
  <2>3. ASSUME NEW c \in Clients, "resend" \in received'[c], "resend" \notin received[c]
        PROVE  Resending
    <3>1. Head(tasks).do = "resend" /\ tasks # <<>>
      <4> DEFINE t == Head(tasks)
      <4>1. received' # received /\ tasks # <<>>
        BY <1>5, <2>3 DEF TakeTask
      <4>2. received' = [received EXCEPT ![t.who] = @ \cup {t.do}]
        BY <1>5, <4>1 DEF TakeTask
      <4>3. received \in [Clients -> SUBSET {"hello", "resend"}]
        BY <1>1 DEF TypeOK
      <4> HIDE DEF t
      <4>4. received'[c] = received[c] \/ received'[c] = received[c] \cup {t.do}
        BY <4>2, <4>3
      <4>5. t.do = "resend"
        BY <2>3, <4>4
      <4> QED
        BY <4>1, <4>5 DEF t
    <3>2. Len(tasks) \in Nat /\ Len(tasks) # 0 /\ Head(tasks) = tasks[1]
      BY <1>1, <3>1 DEF TypeOK
    <3> QED
      BY <3>1, <3>2 DEF Resending
  <2> QED
    BY <1>3, <2>1, <2>2, <2>3 DEF Opening, Begun
<1>6. ASSUME NEW c \in Clients, Check(c)
      PROVE  \A d \in Clients : Arrived(d)'
  <2>1. CASE Counted
    BY <1>1, <1>2, <1>6, <2>1, LastDummy DEF Check
  <2>2. CASE ~Counted
    <3>1. UNCHANGED <<tasks, started, received>>
      BY <1>6, <2>2 DEF Check, starting, client
    <3>2. \A d \in Clients : reader'[d] \in {"opening", "starting"}
                             => reader[d] \in {"opening", "starting"}
      BY <1>1, <1>6, <2>2 DEF Check, TypeOK
    <3> QED
      BY <1>3, <3>1, <3>2 DEF Opening, Begun, Resending
  <2> QED
    BY <2>1, <2>2
<1>7. ASSUME NEW c \in Clients, CreateTree(c) \/ Start(c)
      PROVE  \A d \in Clients : Arrived(d)'
  <2>1. reader[c] \in {"opening", "starting"}
    BY <1>7 DEF CreateTree, Start
  <2> QED
    BY <1>3, <2>1 DEF Opening
<1>8. ASSUME NEW c \in Clients, BeginCount(c) \/ EndCount(c) \/ NullMessage(c)
      PROVE  \A d \in Clients : Arrived(d)'
  <2>1. UNCHANGED <<tasks, started, received>>
    BY <1>8 DEF BeginCount, EndCount, NullMessage, pool, starting, client
  <2>2. \A d \in Clients : reader'[d] \in {"opening", "starting"}
                           => reader[d] \in {"opening", "starting"}
    BY <1>1, <1>8 DEF BeginCount, EndCount, NullMessage, counting, TypeOK
  <2> QED
    BY <1>3, <2>1, <2>2 DEF Opening, Begun, Resending
<1>9. ASSUME UNCHANGED <<tasks, started, received, reader>>
      PROVE  \A d \in Clients : Arrived(d)'
  BY <1>3, <1>9 DEF Opening, Begun, Resending
<1>10. CASE HandleAccept
  BY <1>9, <1>10 DEF HandleAccept, pool, starting, client, counting
<1>11. ASSUME NEW c \in Clients, Main(c) \/ Die(c)
       PROVE  \A d \in Clients : Arrived(d)'
  BY <1>9, <1>11 DEF Main, Connect, WriteInit, ReadHello, WriteDummy, ReadDummy, Die,
                     pool, starting, counting
<1>12. CASE UNCHANGED vars
  BY <1>9, <1>12 DEF vars, pool, starting, client, counting
<1> QED
  BY <1>4, <1>5, <1>6, <1>7, <1>8, <1>10, <1>11, <1>12 DEF Next, Root

LEMMA Invariance == Spec => []IInv
<1>1. Init => IInv
  <2> SUFFICES ASSUME Init PROVE IInv
    OBVIOUS
  <2>1. TypeOK
    BY InitTypes
  <2>2. Posting
    BY DEF Init, Posting
  <2>3. CountedBy = {} /\ Cardinality(CountedBy) = 0
    BY FS_EmptySet DEF Init, CountedBy
  <2>4. Losses
    BY <2>1, <2>3 DEF Init, Losses, TypeOK
  <2>5. Arrivals
    BY DEF Init, Arrivals
  <2>6. ~Opening
    BY DEF Init, Opening, Begun, Resending
  <2> QED
    BY <2>1, <2>2, <2>4, <2>5, <2>6 DEF IInv, OpensWithTrees
<1>2. IInv /\ [Next]_vars => IInv'
  BY TypeStep, PostingStep, LossesStep, ArrivalsStep, OpensStep DEF IInv
<1> QED
  BY <1>1, <1>2, PTL DEF Spec

-----------------------------------------------------------------------------
(* Nobody begins to send or insert words before every client has its tree  *)
(* or has given up, unless index_ starts above 0: for any number of        *)
(* clients, deaths, and races between the increments.                      *)
THEOREM StartsWithTreesHolds == Spec => []StartsWithTrees
<1>1. IInv => StartsWithTrees
  BY DEF IInv, OpensWithTrees, Opening, StartsWithTrees, Arrived
<1> QED
  BY <1>1, Invariance, PTL

(* A step changes where one client is, or what has begun, but not both.    *)
LEMMA OneThing ==
  ASSUME TypeOK, [Next]_vars
  PROVE  /\ index0' = index0
         /\ started' >= started
         /\ \A c \in Clients : received[c] \subseteq received'[c]
         /\ \/ UNCHANGED pc
            \/ /\ UNCHANGED <<started, received>>
               /\ \E c \in Clients : \A d \in Clients \ {c} : pc'[d] = pc[d]
<1> USE DEF TypeOK
<1>0. started \in Nat
  OBVIOUS
<1>1. CASE HandleAccept \/ ReadInit
  <2>1. UNCHANGED <<pc, received, started, index0>>
    BY <1>1 DEF HandleAccept, ReadInit, client, starting
  <2> QED
    BY <1>0, <2>1
<1>2. CASE TakeTask
  <2>1. UNCHANGED <<pc, started, index0>>
    BY <1>2 DEF TakeTask, starting
  <2> DEFINE t == Head(tasks)
  <2>2. \/ received' = received
        \/ received' = [received EXCEPT ![t.who] = @ \cup {t.do}]
    BY <1>2 DEF TakeTask
  <2> HIDE DEF t
  <2>3. received \in [Clients -> SUBSET {"hello", "resend"}]
    OBVIOUS
  <2>4. ASSUME NEW c \in Clients PROVE received[c] \subseteq received'[c]
    <3>1. received'[c] = received[c] \/ received'[c] = received[c] \cup {t.do}
      BY <2>2, <2>3
    <3> QED
      BY <3>1
  <2> QED
    BY <1>0, <2>1, <2>4
<1>3. ASSUME NEW c \in Clients, Root(c)
      PROVE  UNCHANGED <<pc, received, index0>> /\ started' >= started
  BY <1>3 DEF Root, BeginCount, EndCount, Check, NullMessage, CreateTree, Start,
              client, starting
<1>4. ASSUME NEW c \in Clients, Main(c) \/ Die(c)
      PROVE  /\ UNCHANGED <<started, received, index0>>
             /\ \A d \in Clients \ {c} : pc'[d] = pc[d]
  BY <1>4 DEF Main, Connect, WriteInit, ReadHello, WriteDummy, ReadDummy, Die, starting
<1>5. CASE UNCHANGED vars
  <2>1. UNCHANGED <<pc, received, started, index0>>
    BY <1>5 DEF vars, client, starting
  <2> QED
    BY <1>0, <2>1
<1>6. CASE \E c \in Clients : Root(c)
  BY <1>3, <1>6
<1>7. CASE \E c \in Clients : Main(c) \/ Die(c)
  <2>1. PICK c \in Clients : Main(c) \/ Die(c)
    BY <1>7
  <2>2. UNCHANGED <<started, received, index0>> /\ started \in Nat
    BY <1>4, <2>1
  <2>3. \A d \in Clients \ {c} : pc'[d] = pc[d]
    BY <1>4, <2>1
  <2> QED
    BY <2>2, <2>3
<1> QED
  BY <1>1, <1>2, <1>5, <1>6, <1>7 DEF Next

(* The Dummies implement the abstract barrier. *)
THEOREM ImplementsBarrierHolds == Spec => ImplementsBarrier
<1> DEFINE arr  == {c \in Clients : HasTree(c) \/ Gone(c)}
           open == index0 <= 0 /\ Begun
<1>1. Init => Barrier!Init
  BY DEF Init, Barrier!Init, HasTree, Gone, Begun
<1>2. IInv /\ StartsWithTrees' /\ [Next]_vars => [Barrier!Next]_<<arr, open>>
  <2> SUFFICES ASSUME IInv, StartsWithTrees', [Next]_vars
               PROVE  [Barrier!Next]_<<arr, open>>
    OBVIOUS
  <2> USE DEF Arrived
  <2>1. TypeOK /\ arr \subseteq arr'
    BY ArrivedStays DEF IInv
  <2>2. open => open'
    <3>1. index0' = index0 /\ started' >= started
      BY <2>1, OneThing
    <3>2. \A c \in Clients : "resend" \in received[c] => "resend" \in received'[c]
      BY <2>1, OneThing
    <3>3. started \in Nat /\ started' \in Nat
      BY <2>1, TypeStep DEF TypeOK
    <3>4. started > 0 => started' > 0
      BY <3>1, <3>3
    <3> QED
      BY <3>1, <3>2, <3>4 DEF Begun
  <2>3. CASE ~open /\ open'
    <3>1. ~Begun /\ Begun'
      BY <2>1, <2>3, OneThing
    <3>2. UNCHANGED pc
      BY <2>1, <3>1, OneThing DEF Begun
    <3>3. arr' = Clients
      BY <2>3 DEF StartsWithTrees
    <3>4. arr = arr'
      BY <3>2 DEF HasTree, Gone
    <3>5. arr = Clients /\ open' = TRUE /\ arr' = arr
      BY <2>3, <3>3, <3>4
    <3> QED
      BY <3>5 DEF Barrier!Next, Barrier!Open
  <2>4. CASE open' = open
    <3>1. CASE arr' = arr
      BY <2>4, <3>1
    <3>2. CASE arr' # arr
      <4>1. PICK c \in Clients : c \in arr' /\ c \notin arr
        BY <2>1, <3>2
      <4>2. \A d \in Clients \ {c} : pc'[d] = pc[d]
        BY <2>1, <4>1, OneThing DEF HasTree, Gone
      <4>3. arr' = arr \cup {c}
        BY <2>1, <4>1, <4>2 DEF HasTree, Gone
      <4> QED
        BY <2>4, <4>3 DEF Barrier!Next, Barrier!Arrive
    <3> QED
      BY <3>1, <3>2
  <2>5. open \in BOOLEAN /\ open' \in BOOLEAN
    OBVIOUS
  <2> QED
    BY <2>2, <2>3, <2>4, <2>5
<1> QED
  BY <1>1, <1>2, Invariance, StartsWithTreesHolds, PTL
     DEF Spec, ImplementsBarrier, Barrier!Spec

-----------------------------------------------------------------------------
(* Counted one at a time, the Dummies open the barrier once.               *)

Openers == {c \in Clients : reader[c] \in {"opening", "starting"}}

Opened == started > 0 \/ Openers # {}

(* As long as no two readers overlap: index_ is exact, it has reached the  *)
(* counter when the barrier is opened, and passes it with the next Dummy.  *)
Exact ==
  ~overlapped =>
    /\ \A c, d \in Inside : c = d
    /\ \A c, d \in Openers : c = d
    /\ started <= 1 /\ (started = 1 => Openers = {})
    /\ \A c \in Clients : reader[c] = "counting" => loaded[c] = index
    /\ Opened => Complete /\ index >= Counter
    /\ \A c \in Clients : Opened /\ reader[c] = "checking" => index > Counter

LEMMA ExactStep == TypeOK /\ Posting /\ Exact /\ [Next]_vars => Exact'
<1> SUFFICES ASSUME TypeOK, Posting, Exact, [Next]_vars, ~overlapped' PROVE Exact'
  BY DEF Exact
<1> USE DEF TypeOK, Inside, Openers, Opened, Counter
<1>1. ~overlapped
  BY DEF Next, HandleAccept, ReadInit, TakeTask, Root, BeginCount, EndCount, Check,
         NullMessage, CreateTree, Start, Main, Connect, WriteInit, ReadHello,
         WriteDummy, ReadDummy, Die, vars, counting
<1>2. CASE HandleAccept
  <2>1. ~Complete
    BY <1>2, NodesFact DEF HandleAccept, Ready, Complete
  <2>2. ~Opened /\ UNCHANGED <<reader, index, loaded, started>>
    BY <1>1, <1>2, <2>1 DEF Exact, HandleAccept, counting, starting
  <2> QED
    BY <1>1, <2>2 DEF Exact
<1>3. ASSUME UNCHANGED <<connections, counting, started>>, Complete => Complete'
      PROVE  Exact'
  BY <1>1, <1>3 DEF Exact, counting
<1>4. CASE ReadInit
  <2>1. Head(inits) \in Clients
    BY <1>4 DEF ReadInit
  <2>2. known' = known \/ Len(known') = Len(known) + 1
    BY <1>4, <2>1, AppendProperties DEF ReadInit
  <2> QED
    BY <1>3, <1>4, <2>2, NodesFact DEF ReadInit, Complete, starting
<1>5. CASE TakeTask
  BY <1>3, <1>5 DEF TakeTask, accepting, starting, Complete
<1>6. ASSUME NEW c \in Clients, BeginCount(c) PROVE Exact'
  <2>1. Inside = {} /\ Inside' = {c} /\ Openers' = Openers
    BY <1>6 DEF BeginCount
  <2>2. /\ UNCHANGED <<index, started, connections, known>>
        /\ loaded' = [loaded EXCEPT ![c] = index]
        /\ reader' = [reader EXCEPT ![c] = "counting"]
    BY <1>6 DEF BeginCount, starting, accepting
  <2> QED
    BY <1>1, <2>1, <2>2 DEF Exact, Complete
<1>7. ASSUME NEW c \in Clients, EndCount(c) PROVE Exact'
  <2>1. Inside' = Inside /\ Openers' = Openers
    BY <1>7 DEF EndCount
  <2>2. /\ UNCHANGED <<loaded, started, connections, known>>
        /\ index' = index + 1 /\ reader[c] = "counting"
        /\ reader' = [reader EXCEPT ![c] = "checking"]
    BY <1>1, <1>7 DEF EndCount, Exact, starting, accepting
  <2>3. \A d \in Clients : reader'[d] # "counting"
    BY <1>1, <2>2 DEF Exact
  <2>4. Opened' = Opened /\ Complete' = Complete
    BY <2>1, <2>2 DEF Complete
  <2>5. Opened => index' > Len(connections)
    BY <1>1, <2>2 DEF Exact
  <2> QED
    BY <1>1, <2>1, <2>2, <2>3, <2>4, <2>5 DEF Exact
<1>8. ASSUME NEW c \in Clients, Check(c) PROVE Exact'
  <2>1. /\ UNCHANGED <<index, loaded, started, connections, known>>
        /\ reader[c] = "checking"
    BY <1>8 DEF Check, starting, accepting
  <2>2. Inside' = {}
    <3>1. \A d \in Clients : reader[d] \in {"counting", "checking"} => d = c
      BY <1>1, <2>1 DEF Exact
    <3>2. /\ reader'[c] \in {"opening", "done"}
          /\ \A d \in Clients \ {c} : reader'[d] = reader[d]
      BY <1>8 DEF Check
    <3> QED
      BY <3>1, <3>2
  <2>3. CASE Counted
    <3>1. ~Opened
      <4>1. index = Len(connections) /\ index \in Int
        BY <2>3 DEF Counted
      <4>2. Opened => index > Len(connections)
        BY <1>1, <2>1 DEF Exact
      <4> QED
        BY <4>1, <4>2
    <3>2. reader' = [reader EXCEPT ![c] = "opening"]
      BY <1>8, <2>3 DEF Check
    <3>3. Openers' = {c} /\ started = 0
      BY <3>1, <3>2
    <3>4. Complete
      BY <2>1 DEF Posting
    <3> QED
      BY <2>1, <2>2, <2>3, <3>2, <3>3, <3>4 DEF Exact, Counted, Complete
  <2>4. CASE ~Counted
    <3>1. reader' = [reader EXCEPT ![c] = "done"]
      BY <1>8, <2>4 DEF Check
    <3>2. Openers' = Openers
      BY <2>1, <3>1
    <3> QED
      BY <1>1, <2>1, <2>2, <3>1, <3>2 DEF Exact, Complete
  <2> QED
    BY <2>3, <2>4
<1>9. ASSUME NEW c \in Clients, CreateTree(c) PROVE Exact'
  <2>1. /\ UNCHANGED <<index, loaded, started, connections, known>>
        /\ Openers' = Openers /\ Inside' = Inside
        /\ \A d \in Clients : reader'[d] \in {"counting", "checking"}
                              => reader'[d] = reader[d]
    BY <1>9 DEF CreateTree, accepting
  <2> QED
    BY <1>1, <2>1 DEF Exact, Complete
<1>10. ASSUME NEW c \in Clients, Start(c) PROVE Exact'
  <2>1. /\ UNCHANGED <<index, loaded, connections, known>>
        /\ Openers' = Openers \ {c} /\ Inside' = Inside /\ c \in Openers
        /\ reader' = [reader EXCEPT ![c] = "done"]
        /\ started' = started + 1
    BY <1>10 DEF Start, accepting
  <2>2. Openers = {c} /\ started = 0
    BY <1>1, <2>1 DEF Exact
  <2> QED
    BY <1>1, <2>1, <2>2 DEF Exact, Complete
<1>11. ASSUME NEW c \in Clients, NullMessage(c) PROVE Exact'
  BY <1>3, <1>11 DEF NullMessage, accepting, starting, Complete
<1>12. ASSUME NEW c \in Clients, Main(c) \/ Die(c) PROVE Exact'
  <2>1. UNCHANGED <<connections, known, counting, starting>>
    BY <1>12 DEF Main, Connect, WriteInit, ReadHello, WriteDummy, ReadDummy, Die,
                 accepting
  <2> QED
    BY <1>3, <2>1 DEF Complete, starting
<1>13. CASE UNCHANGED vars
  BY <1>3, <1>13 DEF vars, accepting, starting, Complete
<1> QED
  BY <1>2, <1>4, <1>5, <1>6, <1>7, <1>8, <1>9, <1>10, <1>11, <1>12, <1>13
     DEF Next, Root

(* FileManager::start, and with it the thread in AVLTree::invoke, is       *)
(* started at most once if no two Dummies are counted at a time.           *)
THEOREM StartsOnceHolds == Spec => []StartsOnce
<1>1. Init => Exact
  BY DEF Init, Exact, Inside, Openers, Opened
<1>2. IInv /\ Exact /\ [Next]_vars => Exact'
  BY ExactStep DEF IInv
<1>3. Exact => StartsOnce
  BY DEF Exact, StartsOnce
<1> QED
  BY <1>1, <1>2, <1>3, Invariance, PTL DEF Spec
=============================================================================
