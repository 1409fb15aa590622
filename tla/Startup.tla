------------------------------- MODULE Startup -------------------------------
(***************************************************************************)
(* The start of the system.  Each process but the root, a client here,     *)
(* connects to the root and writes Init; the root numbers the clients as   *)
(* it reads their Inits and after the last one writes Hello to all; each   *)
(* client connects to its neighbours in the tree and writes Dummy; the     *)
(* root counts the Dummies, writes Dummy to all, connects to its own       *)
(* children and starts to insert words.                                    *)
(*                                                                         *)
(* The root's io_service has a queue of tasks, taken in order by a fixed   *)
(* number of threads.  A task that only writes is one step.  The tasks     *)
(* that read keep their thread: handleRequests for ever, the read of a     *)
(* Dummy until the handler that it calls has ended.  The readers share     *)
(* DummyMessageHandler: index_ is incremented by a load and a store, and   *)
(* is compared after that, when others may have incremented it, too.       *)
(*                                                                         *)
(* index_ and a client's counter_ are never initialised: Memory is what    *)
(* may be there.  A client may die, once it is connected; whoever reads    *)
(* from it then meets the end of the connection, which passes for a Dummy  *)
(* but not for an Init (see Connection), and who connects to it gets an       *)
(* exception.  What follows the death of the root is left out.             *)
(*                                                                         *)
(* An operator whose name begins with "faulty" is a wrong version of the   *)
(* definition after it, with which the properties must fail.               *)
(***************************************************************************)
EXTENDS Integers, Sequences, FiniteSets

CONSTANTS Clients,     \* the processes other than the root
          Memory,      \* what unwritten integers may hold
          MaxDeaths    \* bound on the number of clients that die
ASSUME StartupAssumption == /\ IsFiniteSet(Clients)
                            /\ Memory \subseteq Int
                            /\ MaxDeaths \in Nat

nodes == Cardinality(Clients) + 1

(* Three threads less: as many as there are reads that never end. *)
faultyThreads == Cardinality(Clients)

(* The pool has nodes + 1 threads, and main runs the io_service, too. *)
Threads == nodes + 2

VARIABLES
  \* the root: Server, InitTreeHandler, RootDutiesManager
  backlog,      \* connections that are not yet accepted
  connections,  \* connections_, in the order they were accepted
  inits,        \* connections whose Init the strand has to read
  known,        \* endpoint_map_: process n + 1 is known[n]
  \* the root: io_service and DummyMessageHandler
  tasks,        \* posted and not yet taken
  running,      \* the reads that have a thread
  index,        \* index_
  reader,       \* by client: where the read of its Dummy is
  loaded,       \* by client: the index_ that its reader loaded
  rootTree,     \* RemoteTreeManager::is_ready
  started,      \* how often FileManager::start was called
  rootDead,
  \* the clients
  pc,           \* what its main thread does
  wrote,        \* what it has written to the root
  received,     \* what the root has written to it
  \* history
  index0,       \* index_ at the start
  overlapped    \* two readers were in DummyMessageHandler at once

accepting == <<backlog, connections, inits, known>>
pool      == <<tasks, running>>
counting  == <<index, reader, loaded, overlapped>>
starting  == <<rootTree, started>>
client    == <<pc, wrote, received>>
vars      == <<accepting, pool, counting, starting, rootDead, client, index0>>

Gone(c)    == pc[c] \in {"failed", "dead"}
HasTree(c) == pc[c] \in {"tree", "waiting", "running"}

Do(what, s) == [n \in 1 .. Len(s) |-> [do |-> what, who |-> s[n]]]

Init ==
  /\ backlog = <<>> /\ connections = <<>> /\ inits = <<>>
  /\ known = <<>>
  /\ tasks = <<>> /\ running = {}
  /\ index \in Memory
  /\ reader = [c \in Clients |-> "idle"]
  /\ loaded = [c \in Clients |-> 0]
  /\ rootTree = FALSE /\ started = 0 /\ rootDead = FALSE
  /\ pc = [c \in Clients |-> "new"]
  /\ wrote = [c \in Clients |-> {}] /\ received = [c \in Clients |-> {}]
  /\ index0 = index
  /\ overlapped = FALSE

-----------------------------------------------------------------------------
(* A client, first part: main. *)

Connect(c) ==
  /\ pc[c] = "new"
  /\ pc' = [pc EXCEPT ![c] = "connected"]
  /\ backlog' = Append(backlog, c)
  /\ UNCHANGED <<connections, inits, known, pool, counting, starting, rootDead,
                 wrote, received, index0>>

WriteInit(c) ==
  /\ pc[c] = "connected"
  /\ pc' = [pc EXCEPT ![c] = "joined"]
  /\ wrote' = [wrote EXCEPT ![c] = @ \cup {"init"}]
  /\ UNCHANGED <<accepting, pool, counting, starting, rootDead, received, index0>>

-----------------------------------------------------------------------------
(* The root: accepting and numbering. *)

(* The strand keeps a thread while it waits for an Init. *)
Busy == Cardinality(running) + (IF inits = <<>> THEN 0 ELSE 1)

(* ip_ > node_counter_ *)
Ready == Len(known) + 2 > nodes

(* handle_accept, as long as the handler of Init is not ready. *)
HandleAccept ==
  /\ backlog # <<>> /\ ~Ready /\ Busy < Threads
  /\ backlog' = Tail(backlog)
  /\ connections' = Append(connections, Head(backlog))
  /\ inits' = Append(inits, Head(backlog))
  /\ UNCHANGED <<known, pool, counting, starting, rootDead, client, index0>>

(* The Dummies are waited for before the Hellos are written. *)
faultyHelloTasks ==
  Do("requests", known') \o Do("dummy", connections) \o Do("hello", connections)

HelloTasks ==
  Do("requests", known') \o Do("hello", connections) \o Do("dummy", connections)

(* sayHello: a connection to each client, in the order of the numbers, and *)
(* then the tasks.  A client that is not there ends the root.              *)
SayHello ==
  IF \E c \in Clients : pc[c] = "dead"
  THEN rootDead' = TRUE /\ UNCHANGED tasks
  ELSE tasks' = tasks \o HelloTasks /\ UNCHANGED rootDead

(* InitTreeHandler::parseMessage, on the strand: the Init of the connection *)
(* that was accepted first.                                                *)
ReadInit ==
  /\ inits # <<>>
  /\ LET c == Head(inits)
     IN  \/ /\ "init" \in wrote[c]
            /\ known' = Append(known, c)
            /\ IF Ready' THEN SayHello ELSE UNCHANGED <<tasks, rootDead>>
         \/ /\ "init" \notin wrote[c] /\ Gone(c)
            /\ UNCHANGED <<known, tasks, rootDead>>
  /\ inits' = Tail(inits)
  /\ UNCHANGED <<backlog, connections, running, counting, starting, client, index0>>

-----------------------------------------------------------------------------
(* The root: the tasks. *)

(* The reads of the Dummies are not waited for. *)
faultyBlocking == {"requests"}

(* The tasks that wait for a client. *)
Blocking == {"requests", "dummy"}

(* A thread takes the next task.  Writing Hello or Dummy ends at once.     *)
TakeTask ==
  /\ tasks # <<>> /\ Busy < Threads
  /\ tasks' = Tail(tasks)
  /\ LET t == Head(tasks)
     IN  IF t.do \in Blocking
         THEN running' = running \cup {t} /\ UNCHANGED received
         ELSE /\ received' = [received EXCEPT ![t.who] = @ \cup {t.do}]
              /\ UNCHANGED running
  /\ UNCHANGED <<accepting, counting, starting, rootDead, pc, wrote, index0>>

Reads(c) == [do |-> "dummy", who |-> c]

Inside == {c \in Clients : reader[c] \in {"counting", "checking"}}

(* The read returns with the Dummy, or at the end of the connection, and   *)
(* ++index_ begins.                                                        *)
BeginCount(c) ==
  /\ Reads(c) \in running /\ reader[c] = "idle"
  /\ "dummy" \in wrote[c] \/ Gone(c)
  /\ loaded' = [loaded EXCEPT ![c] = index]
  /\ reader' = [reader EXCEPT ![c] = "counting"]
  /\ overlapped' = (overlapped \/ Inside # {})
  /\ UNCHANGED <<accepting, pool, index, starting, rootDead, client, index0>>

EndCount(c) ==
  /\ reader[c] = "counting"
  /\ index' = loaded[c] + 1
  /\ reader' = [reader EXCEPT ![c] = "checking"]
  /\ UNCHANGED <<accepting, pool, loaded, overlapped, starting, rootDead, client,
                 index0>>

(* The barrier opens one Dummy early. *)
faultyCounter == Len(connections) - 1

(* setCounter *)
Counter == Len(connections)

(* At least the count, instead of the count. *)
faultyCounted == index >= Counter

(* ready() *)
Counted == index = Counter

(* ready_ calls resendDummy, which first posts the Dummies. *)
Check(c) ==
  /\ reader[c] = "checking"
  /\ IF Counted
     THEN /\ reader' = [reader EXCEPT ![c] = "opening"]
          /\ tasks' = tasks \o Do("resend", connections)
          /\ UNCHANGED running
     ELSE /\ reader' = [reader EXCEPT ![c] = "done"]
          /\ running' = running \ {Reads(c)}
          /\ UNCHANGED tasks
  /\ UNCHANGED <<accepting, index, loaded, overlapped, starting, rootDead, client,
                 index0>>

(* Before that, packMsg uses the message that another reader's resetMsg    *)
(* may just have set to null.                                              *)
NullMessage(c) ==
  /\ reader[c] = "checking" /\ Inside # {c}
  /\ rootDead' = TRUE
  /\ UNCHANGED <<accepting, pool, counting, starting, client, index0>>

(* createLocalRootConnection of process i: to whom it connects, and that   *)
(* somebody of these is not there.                                         *)
Neighbour(i, j) == j \in {2 * i, 2 * i + 1} \/ (j > 1 /\ j = i \div 2)

CannotConnect(i) ==
  \E n \in DOMAIN known : Neighbour(i, n + 1) /\ pc[known[n]] = "dead"

CreateTree(c) ==
  /\ reader[c] = "opening"
  /\ IF CannotConnect(1)
     THEN rootDead' = TRUE /\ UNCHANGED <<reader, rootTree>>
     ELSE /\ rootTree' = TRUE
          /\ reader' = [reader EXCEPT ![c] = "starting"]
          /\ UNCHANGED rootDead
  /\ UNCHANGED <<accepting, pool, index, loaded, overlapped, started, client,
                 index0>>

(* RemoteTreeManager::notify waits for is_ready, and calls                 *)
(* FileManager::start.                                                     *)
Start(c) ==
  /\ reader[c] = "starting" /\ rootTree
  /\ started' = started + 1
  /\ reader' = [reader EXCEPT ![c] = "done"]
  /\ running' = running \ {Reads(c)}
  /\ UNCHANGED <<accepting, tasks, index, loaded, overlapped, rootTree, rootDead,
                 client, index0>>

-----------------------------------------------------------------------------
(* A client, second part. *)

(* HelloMessageHandler::parseMessage and getHello: if a neighbour is not   *)
(* there, main ends with the exception and closes its connection, while    *)
(* the threads of the pool go on accepting.                                *)
ReadHello(c) ==
  /\ pc[c] = "joined" /\ "hello" \in received[c]
  /\ pc' = [pc EXCEPT ![c] =
               IF \E n \in DOMAIN known : known[n] = c /\ CannotConnect(n + 1)
               THEN "failed" ELSE "tree"]
  /\ UNCHANGED <<accepting, pool, counting, starting, rootDead, wrote, received, index0>>

(* Dummy is written before the tree is there. *)
faultyWriteDummy(c) ==
  /\ pc[c] = "joined" /\ "hello" \in received[c]
  /\ wrote' = [wrote EXCEPT ![c] = @ \cup {"dummy"}]
  /\ UNCHANGED <<accepting, pool, counting, starting, rootDead, pc, received, index0>>

WriteDummy(c) ==
  /\ pc[c] = "tree"
  /\ pc' = [pc EXCEPT ![c] = "waiting"]
  /\ wrote' = [wrote EXCEPT ![c] = @ \cup {"dummy"}]
  /\ UNCHANGED <<accepting, pool, counting, starting, rootDead, received, index0>>

(* DummyMessageHandler of a client.  setCounter was never called there, so *)
(* that counter_ and index_ both are what the memory held: whether it goes *)
(* on to FileManager::start is open, and changes nothing in this module.   *)
ReadDummy(c) ==
  /\ pc[c] = "waiting" /\ "resend" \in received[c]
  /\ pc' = [pc EXCEPT ![c] = "running"]
  /\ UNCHANGED <<accepting, pool, counting, starting, rootDead, wrote, received,
                 index0>>

Dead == {c \in Clients : pc[c] = "dead"}

Die(c) ==
  /\ pc[c] \notin {"new", "dead"} /\ Cardinality(Dead) < MaxDeaths
  /\ pc' = [pc EXCEPT ![c] = "dead"]
  /\ UNCHANGED <<accepting, pool, counting, starting, rootDead, wrote, received, index0>>

-----------------------------------------------------------------------------
Root(c) == \/ BeginCount(c) \/ EndCount(c) \/ Check(c) \/ NullMessage(c)
           \/ CreateTree(c) \/ Start(c)

Main(c) == \/ Connect(c) \/ WriteInit(c) \/ ReadHello(c) \/ WriteDummy(c)
           \/ ReadDummy(c)

Next == /\ ~rootDead
        /\ \/ HandleAccept \/ ReadInit \/ TakeTask
           \/ \E c \in Clients : \/ Root(c) \/ Main(c)
                                 \/ Die(c)

(* All clients are started, their threads and those of the root run, and   *)
(* what was written arrives.  It is enough that some thread goes on: there *)
(* is nothing to do again and again before the root starts.                *)
Fairness == WF_vars(~rootDead /\ \/ HandleAccept \/ ReadInit \/ TakeTask
                                 \/ \E c \in Clients : Root(c) \/ Main(c))

Spec     == Init /\ [][Next]_vars
FairSpec == Spec /\ Fairness

-----------------------------------------------------------------------------
Tasks == [do : {"requests", "hello", "dummy", "resend"}, who : Clients]

TypeOK ==
  /\ backlog \in Seq(Clients) /\ connections \in Seq(Clients)
  /\ inits \in Seq(Clients) /\ known \in Seq(Clients)
  /\ tasks \in Seq(Tasks) /\ running \subseteq Tasks
  /\ index \in Int /\ loaded \in [Clients -> Int]
  /\ reader \in [Clients -> {"idle", "counting", "checking", "opening",
                             "starting", "done"}]
  /\ rootTree \in BOOLEAN /\ rootDead \in BOOLEAN /\ overlapped \in BOOLEAN
  /\ started \in Nat
  /\ pc \in [Clients -> {"new", "connected", "joined", "tree", "waiting",
                         "running", "failed", "dead"}]
  /\ wrote \in [Clients -> SUBSET {"init", "dummy"}]
  /\ received \in [Clients -> SUBSET {"hello", "resend"}]
  /\ index0 \in Int

(* Unless the memory of index_ held a positive number, no process begins   *)
(* to send or insert words, and none is told to, before every client has   *)
(* its tree or has given up: increments are lost, but none is made up.     *)
Begun == started > 0 \/ \E c \in Clients : "resend" \in received[c]

StartsWithTrees ==
  index0 <= 0 /\ Begun => \A c \in Clients : HasTree(c) \/ Gone(c)

(* If no two Dummies are counted at a time, FileManager::start, and with   *)
(* it the thread of AVLTree::invoke, is started at most once, whatever     *)
(* index_ held.  (Otherwise two readers can both see the last count.)      *)
StartsOnce == ~overlapped => started <= 1

(* The abstract barrier.  Who has its tree, or has given up, has arrived.  *)
Barrier == INSTANCE StartBarrier WITH
  Everybody <- Clients,
  arrived   <- {c \in Clients : HasTree(c) \/ Gone(c)},
  open      <- index0 <= 0 /\ Begun

(* The Dummies are a barrier, as long as index_ does not start above 0.    *)
ImplementsBarrier == Barrier!Spec

(* The threads that handleRequests keeps for ever leave enough of the pool *)
(* for all the rest: with index_ at 0, Dummies counted one at a time, and  *)
(* no deaths, the root starts and every client gets its Dummy.             *)
BarrierOpens ==
  <>( \/ started > 0 /\ \A c \in Clients : "resend" \in received[c]
      \/ index0 # 0 \/ overlapped \/ \E c \in Clients : Gone(c) )
=============================================================================
