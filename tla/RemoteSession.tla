---------------------------- MODULE RemoteSession ----------------------------
(***************************************************************************)
(* The remote calls between the processes: RemoteAVLTreeClient on the side *)
(* of the caller, Server, AVLMessageHandler and RemoteTreeManager on the   *)
(* side that is called.                                                    *)
(*                                                                         *)
(* Process i has connections to processes 2i and 2i+1, its children, and   *)
(* to its parent i/2 unless that is process 1.  A call to a child writes a *)
(* request and blocks until a response comes on the same connection.  The  *)
(* called process accepts connections one by one; for each one that it     *)
(* takes for a tree connection it posts a read on one strand, and it       *)
(* answers, and reads on, at the connection that it accepted last,         *)
(* root_connection_, whichever one the request came from.                  *)
(*                                                                         *)
(* A connection that a process accepts before its Hello is parsed goes to  *)
(* the Sender instead, which lets go of, and so closes, the one that it    *)
(* held before.  Which process's Sender then writes is left open: it needs *)
(* a client whose index_ and counter_, which nothing initialises, happen   *)
(* to match (DummyMessageHandler).                                         *)
(*                                                                         *)
(* The initial state is that in which process 1 has made its request       *)
(* connections (RootDutiesManager::createConnection) and is about to send  *)
(* Hello.  The barrier of Dummy messages that process 1 waits for before   *)
(* it makes its own tree connections is left out: it counts with an        *)
(* uninitialised index_ and may open at any time.  It is taken to open     *)
(* once, so that process 1 has one thread of AVLTree::invoke (StartsOnce   *)
(* of Startup says when).                                                  *)
(*                                                                         *)
(* What the tree code does in a call is left open: a process that serves a *)
(* call makes any number of calls to its children and then answers.  The   *)
(* model ends when a process dies: what the others then read from it is    *)
(* not followed.                                                           *)
(*                                                                         *)
(* An operator whose name begins with "faulty" is a wrong version of the   *)
(* definition after it, with which the properties must fail.               *)
(***************************************************************************)
EXTENDS Integers, Sequences, FiniteSets

CONSTANTS Nodes,     \* how many processes there are
          Methods,   \* the methods that are called on remote roots
          MaxCalls   \* bound on the number of calls

Processes == 1 .. Nodes

-----------------------------------------------------------------------------
(* The protocol: the type of request that each method of the client sends, *)
(* and the method of RemoteTreeManager registered for each type.           *)

RequestType ==
  [setData            |-> "SetData",
   getWord            |-> "GetValue",
   getCounter         |-> "GetCount",
   getHeight          |-> "GetHeight",
   insert             |-> "Insert",
   remove             |-> "Remove",
   rotate_left        |-> "RotateWithLeftChild",
   rotate_right       |-> "RotateWithRightChild",
   push_left_subtree  |-> "PushLeftSubTree",
   push_right_subtree |-> "PushRightSubTree",
   pull_left_subtree  |-> "PullLeftSubTree",
   pull_right_subtree |-> "PullLeftSubTree",
   set_subtree        |-> "SetSubTree",
   set_left_subtree   |-> "SetLeftSubTree",
   set_right_subtree  |-> "SetRightSubTree",
   get_subtree        |-> "GetSubtree",
   find_successor     |-> "FindLesserSuccessor",
   clear              |-> "Clear2",
   preorder           |-> "Preorder"]

Registered ==
  [SetData              |-> "setData",
   GetValue             |-> "getWord",
   GetCount             |-> "getCounter",
   GetHeight            |-> "getHeight",
   Insert               |-> "insert",
   Remove               |-> "remove",
   RotateWithLeftChild  |-> "rotate_left",
   RotateWithRightChild |-> "rotate_right",
   PushLeftSubTree      |-> "push_left_subtree",
   PushRightSubTree     |-> "push_right_subtree",
   PullLeftSubTree      |-> "pull_left_subtree",
   PullRightSubTree     |-> "pull_right_subtree",
   SetSubTree           |-> "set_subtree",
   SetLeftSubTree       |-> "set_left_subtree",
   SetRightSubTree      |-> "set_right_subtree",
   GetSubtree           |-> "get_subtree",
   FindLesserSuccessor  |-> "find_successor",
   Clear2               |-> "clear",
   Preorder             |-> "preorder"]

Types == DOMAIN Registered

(* Two neighbouring entries are swapped. *)
faultyHandler(type) ==
  IF type = "GetValue" THEN "getCounter" ELSE Registered[type]

Handler(type) == Registered[type]

(* The type each method of RemoteTreeManager creates its response with:    *)
(* the one that it is registered for.                                      *)
ResponseType(method) == CHOOSE type \in Types : Registered[type] = method

ASSUME RemoteSessionAssumption ==
  /\ Nodes \in Nat \ {0}
  /\ Methods \subseteq DOMAIN RequestType
  /\ MaxCalls \in Nat

-----------------------------------------------------------------------------
(* A link <<i, j>> is a connection that process i makes to process j for   *)
(* its tree.  RequestLink(j) is the one of createConnection, on which j    *)
(* sends words to process 1 and process 1 never calls.                     *)

RequestLink(j) == <<0, j>>
ChildLinks     == {l \in Processes \X Processes : l[2] \in {2*l[1], 2*l[1] + 1}}
ParentLinks    == {l \in Processes \X Processes : l[2] > 1 /\ l[2] = l[1] \div 2}
Links          == ChildLinks \cup ParentLinks
AllLinks       == Links \cup {RequestLink(j) : j \in Processes \ {1}}

NoLink == <<0, 0>>
NoCall == [link |-> NoLink, method |-> "none", id |-> 0]

VARIABLES
  \* the network
  made,      \* the links that have been connected
  backlog,   \* by process: connections to it that are not yet accepted
  requests,  \* by link: Messages on their way
  responses, \* by link: what is on its way back
  \* Server, HelloMessageHandler and RemoteTreeManager of each process
  hello,     \* HelloMessageHandler::is_ready
  sender,    \* the connection that the Sender holds
  writing,   \* Sender::write waits for its reply
  root,      \* AVLTree::getRoot is not null
  posted,    \* the links whose first read waits on the strand
  rootConnection, \* root_connection_
  strand,    \* what the strand does
  reading,   \* the link that it reads from
  job,       \* the call it serves, as the handler understands it
  \* RemoteAVLTreeClient of each process
  call,      \* the call that waits for its response, or NoCall
  \* history
  calls,     \* how many calls were made: the last one's id
  taken,     \* by process: the links it took for tree connections
  astray     \* links on which a call returned without its own response

network == <<made, backlog, requests, responses>>
talk    == <<sender, writing>>
server  == <<hello, root, posted, rootConnection, strand, reading, job, taken>>
client  == <<call, calls, astray>>
vars    == <<network, talk, server, client>>

Init ==
  /\ made = {}
  /\ backlog = [j \in Processes |->
                  IF j = 1 THEN <<>> ELSE <<RequestLink(j)>>]
  /\ requests  = [l \in AllLinks |-> <<>>]
  /\ responses = [l \in AllLinks |-> <<>>]
  /\ hello = [j \in Processes |-> FALSE]
  /\ sender = [j \in Processes |-> NoLink]
  /\ writing = [j \in Processes |-> FALSE]
  /\ root = [j \in Processes |-> FALSE]
  /\ posted = [j \in Processes |-> <<>>]
  /\ rootConnection = [j \in Processes |-> NoLink]
  /\ strand = [j \in Processes |-> "free"]
  /\ reading = [j \in Processes |-> NoLink]
  /\ job = [j \in Processes |-> NoCall]
  /\ call = [i \in Processes |-> NoCall]
  /\ calls = 0
  /\ taken = [j \in Processes |-> {}]
  /\ astray = {}

-----------------------------------------------------------------------------
(* Setting up the connections.                                             *)

(* HelloMessageHandler::parseMessage; the connections that getHello makes  *)
(* follow in Connect.                                                      *)
Hello(j) ==
  /\ j # 1 /\ ~hello[j]
  /\ hello' = [hello EXCEPT ![j] = TRUE]
  /\ UNCHANGED <<network, talk, root, posted, rootConnection, strand, reading, job,
                 taken, client>>

(* createLocalRootConnection: parent, left child, right child, *)
Connect(l) ==
  LET i == l[1] IN
  /\ l \notin made
  /\ i = 1 \/ hello[i]
  /\ \A m \in Links : m[1] = i /\ m[2] < l[2] => m \in made
  /\ made' = made \cup {l}
  /\ backlog' = [backlog EXCEPT ![l[2]] = Append(@, l)]
  /\ UNCHANGED <<requests, responses, talk, server, client>>

(* and setRoot after the last connection. *)
SetRoot(i) ==
  /\ i = 1 \/ hello[i]
  /\ \A l \in Links : l[1] = i => l \in made
  /\ ~root[i]
  /\ root' = [root EXCEPT ![i] = TRUE]
  /\ UNCHANGED <<network, talk, hello, posted, rootConnection, strand, reading, job,
                 taken, client>>

(* handle_accept after Hello was parsed: a connection is one for the tree. *)
AcceptForTree(j, l) ==
  /\ hello[j]
  /\ rootConnection' = [rootConnection EXCEPT ![j] = l]
  /\ posted' = [posted EXCEPT ![j] = Append(@, l)]
  /\ taken' = [taken EXCEPT ![j] = @ \cup {l}]
  /\ UNCHANGED <<requests, sender>>

(* Before, Sender::setConnection drops the connection that the Sender had, *)
(* ~Connection closes it, and what was written to it is lost.              *)
AcceptForSender(j, l) ==
  /\ ~hello[j]
  /\ sender' = [sender EXCEPT ![j] = l]
  /\ requests' = [m \in AllLinks |-> IF m = sender[j] THEN <<>> ELSE requests[m]]
  /\ UNCHANGED <<rootConnection, posted, taken>>

Accept(j) ==
  /\ backlog[j] # <<>>
  /\ backlog' = [backlog EXCEPT ![j] = Tail(@)]
  /\ AcceptForTree(j, Head(backlog[j])) \/ AcceptForSender(j, Head(backlog[j]))
  /\ UNCHANGED <<made, responses, writing, hello, root, strand, reading, job, client>>

(* The connections that were accepted, and dropped by the Sender. *)
Waits(l)  == \E n \in DOMAIN backlog[l[2]] : backlog[l[2]][n] = l
Closed(l) == l \in made /\ ~Waits(l) /\ l \notin taken[l[2]] /\ l # sender[l[2]]

-----------------------------------------------------------------------------
(* Sender::write on a connection that another process made for its tree:   *)
(* what is written is no Response, and what is read, as the reply, is the  *)
(* next request of that process.                                           *)

NoResponse == [type |-> "none", id |-> 0]

SenderWrites(j) ==
  /\ root[j] /\ ~writing[j] /\ sender[j] \in Links
  /\ responses' = [responses EXCEPT ![sender[j]] = Append(@, NoResponse)]
  /\ writing' = [writing EXCEPT ![j] = TRUE]
  /\ UNCHANGED <<made, backlog, requests, sender, server, client>>

SenderReads(j) ==
  /\ writing[j] /\ requests[sender[j]] # <<>>
  /\ requests' = [requests EXCEPT ![sender[j]] = Tail(@)]
  /\ writing' = [writing EXCEPT ![j] = FALSE]
  /\ UNCHANGED <<made, backlog, responses, sender, server, client>>

-----------------------------------------------------------------------------
(* The strand of the called process.                                       *)

StrandTakes(j) ==
  /\ strand[j] = "free" /\ posted[j] # <<>>
  /\ posted' = [posted EXCEPT ![j] = Tail(@)]
  /\ reading' = [reading EXCEPT ![j] = Head(posted[j])]
  /\ strand' = [strand EXCEPT ![j] = "reading"]
  /\ UNCHANGED <<network, talk, hello, root, rootConnection, job, taken, client>>

(* The call is taken to have come from the connection accepted last. *)
faultyReadRequest(j) ==
  LET l == reading[j] IN
  /\ strand[j] = "reading" /\ requests[l] # <<>>
  /\ requests' = [requests EXCEPT ![l] = Tail(@)]
  /\ job' = [job EXCEPT ![j] = [link   |-> rootConnection[j],
                                method |-> Handler(Head(requests[l]).type),
                                id     |-> Head(requests[l]).id]]
  /\ strand' = [strand EXCEPT ![j] = IF root[j] THEN "serving" ELSE "crashed"]
  /\ UNCHANGED <<made, backlog, responses, talk, hello, root, posted,
                 rootConnection, reading, taken, client>>

(* The read returns with nothing, which is taken for a request. *)
faultyReadNothing(j) ==
  /\ strand[j] = "reading"
  /\ strand' = [strand EXCEPT ![j] = "serving"]
  /\ UNCHANGED <<network, talk, hello, root, posted, rootConnection, reading, job,
                 taken, client>>

(* AVLMessageHandler::parseMessage finds the method by the type of the     *)
(* request; the method runs on getRoot(), which is null until it is set.   *)
ReadRequest(j) ==
  LET l == reading[j] IN
  /\ strand[j] = "reading" /\ requests[l] # <<>>
  /\ requests' = [requests EXCEPT ![l] = Tail(@)]
  /\ job' = [job EXCEPT ![j] = [link   |-> l,
                                method |-> Handler(Head(requests[l]).type),
                                id     |-> Head(requests[l]).id]]
  /\ strand' = [strand EXCEPT ![j] = IF root[j] THEN "serving" ELSE "crashed"]
  /\ UNCHANGED <<made, backlog, responses, talk, hello, root, posted,
                 rootConnection, reading, taken, client>>

Response(j) == [type |-> ResponseType(job[j].method), id |-> job[j].id]

(* The response is written twice. *)
faultyReply(j) ==
  /\ strand[j] = "serving" /\ call[j] = NoCall
  /\ responses' = [responses EXCEPT ![rootConnection[j]] =
                     Append(Append(@, Response(j)), Response(j))]
  /\ strand' = [strand EXCEPT ![j] = "replied"]
  /\ UNCHANGED <<made, backlog, requests, talk, hello, root, posted,
                 rootConnection, reading, job, taken, client>>

(* RemoteTreeManager::send: the response, *)
Reply(j) ==
  /\ strand[j] = "serving" /\ call[j] = NoCall
  /\ responses' = [responses EXCEPT ![rootConnection[j]] =
                     Append(@, Response(j))]
  /\ strand' = [strand EXCEPT ![j] = "replied"]
  /\ UNCHANGED <<made, backlog, requests, talk, hello, root, posted,
                 rootConnection, reading, job, taken, client>>

(* send ends without the next read, and the strand is free. *)
faultyReadNext(j) ==
  /\ strand[j] = "replied"
  /\ strand' = [strand EXCEPT ![j] = "free"]
  /\ job' = [job EXCEPT ![j] = NoCall]
  /\ UNCHANGED <<network, talk, hello, root, posted, rootConnection, reading, taken,
                 client>>

(* and the next read, from the root_connection_ of that moment.            *)
ReadNext(j) ==
  /\ strand[j] = "replied"
  /\ strand' = [strand EXCEPT ![j] = "reading"]
  /\ reading' = [reading EXCEPT ![j] = rootConnection[j]]
  /\ job' = [job EXCEPT ![j] = NoCall]
  /\ UNCHANGED <<network, talk, hello, root, posted, rootConnection, taken, client>>

-----------------------------------------------------------------------------
(* The calling process: the thread of AVLTree::invoke in process 1, in the *)
(* others the strand while it serves a call.                               *)

Runs(i) == /\ call[i] = NoCall
           /\ IF i = 1 THEN root[1] ELSE strand[i] = "serving"

(* RemoteAVLTreeClient::send; that a connection is closed is ignored. *)
StartCall(i, l, method) ==
  /\ Runs(i) /\ calls < MaxCalls
  /\ calls' = calls + 1
  /\ requests' = IF Closed(l) THEN requests
                 ELSE [requests EXCEPT ![l] =
                         Append(@, [type |-> RequestType[method], id |-> calls + 1])]
  /\ call' = [call EXCEPT ![i] =
                [link |-> l, method |-> method, id |-> calls + 1]]
  /\ UNCHANGED <<made, backlog, responses, talk, server, astray>>

(* The client gives up before the response is there. *)
faultyReturn(i) ==
  /\ call[i] # NoCall
  /\ call' = [call EXCEPT ![i] = NoCall]
  /\ UNCHANGED <<network, talk, server, calls, astray>>

(* What do_read_msg and AVLResponseHandler get from a link: the message    *)
(* that comes next, or none when the connection is closed.                 *)
Answer(l) == IF responses[l] = <<>> THEN NoResponse ELSE Head(responses[l])

(* handle_response: what is of another type, or no Response, is a "Bad     *)
(* response", with which getWord makes a string of a null pointer.  That a *)
(* response belongs to this very call is not looked at.                    *)
Return(i) ==
  LET c == call[i]
      r == Answer(c.link)
  IN  /\ c # NoCall
      /\ responses[c.link] # <<>> \/ Closed(c.link)
      /\ responses' = [responses EXCEPT ![c.link] = IF @ = <<>> THEN @ ELSE Tail(@)]
      /\ call' = [call EXCEPT ![i] = NoCall]
      /\ strand' = [strand EXCEPT ![i] =
           IF r.type # RequestType[c.method] /\ c.method = "getWord" THEN "crashed" ELSE @]
      /\ astray' = astray \cup
           {l \in {c.link} : r # [type |-> RequestType[c.method], id |-> c.id]}
      /\ UNCHANGED <<made, backlog, requests, talk, hello, root, posted,
                     rootConnection, reading, job, taken, calls>>

-----------------------------------------------------------------------------
Serve(j) == StrandTakes(j) \/ ReadRequest(j) \/ Reply(j) \/ ReadNext(j)

AllAlive == \A i \in Processes : strand[i] # "crashed"

Next == /\ AllAlive
        /\ \/ \E l \in Links : Connect(l)
           \/ \E i \in Processes : \/ Hello(i)
                                   \/ SetRoot(i)
                                   \/ Accept(i)
                                   \/ SenderWrites(i)
                                   \/ SenderReads(i)
                                   \/ Serve(i)
                                   \/ Return(i)
           \/ \E l \in ChildLinks, method \in Methods : StartCall(l[1], l, method)

(* The threads of the pool accept and run the strand, what was written     *)
(* arrives, and a method of the tree makes finitely many calls.  Nobody    *)
(* has to make a call, or to be sent a Hello.  No thread is promised more  *)
(* than that some of them go on: MaxCalls calls come to an end anyway.     *)
Fairness ==
  WF_vars(AllAlive /\ \E i \in Processes : Accept(i) \/ Serve(i) \/ Return(i))

Spec     == Init /\ [][Next]_vars
FairSpec == Spec /\ Fairness

-----------------------------------------------------------------------------
CallRecords ==
  [link : ChildLinks, method : DOMAIN RequestType, id : 1 .. MaxCalls]

Messages == [type : Types, id : 1 .. MaxCalls]

TypeOK ==
  /\ made \subseteq Links
  /\ backlog \in [Processes -> Seq(AllLinks)]
  /\ requests  \in [AllLinks -> Seq(Messages)]
  /\ responses \in [AllLinks -> Seq(Messages \cup {NoResponse})]
  /\ hello \in [Processes -> BOOLEAN]
  /\ sender \in [Processes -> AllLinks \cup {NoLink}]
  /\ writing \in [Processes -> BOOLEAN]
  /\ root \in [Processes -> BOOLEAN]
  /\ posted \in [Processes -> Seq(AllLinks)]
  /\ rootConnection \in [Processes -> AllLinks \cup {NoLink}]
  /\ strand \in [Processes ->
                   {"free", "reading", "serving", "replied", "crashed"}]
  /\ reading \in [Processes -> AllLinks \cup {NoLink}]
  /\ job \in [Processes -> CallRecords \cup {NoCall}]
  /\ call \in [Processes -> CallRecords \cup {NoCall}]
  /\ calls \in 0 .. MaxCalls
  /\ taken \in [Processes -> SUBSET AllLinks]
  /\ astray \subseteq Links

(* Nothing guards the nodes, the tree and its one response handler in a    *)
(* process: that is right because at most one process in the whole system  *)
(* runs tree code, and all others wait for a response or a request.        *)
OneProcessRuns == \A i, j \in Processes : Runs(i) /\ Runs(j) => i = j

(* A handler runs while the process that called it waits for it: the tree  *)
(* of the caller does not change under the call.                           *)
CallerWaits ==
  \A j \in Processes : strand[j] = "serving" =>
    LET c == call[reading[j][1]]
    IN  c.link = reading[j] /\ c.id = job[j].id

(* In whatever order connections are accepted, and wherever responses end  *)
(* up, a call on a connection that was taken for the tree returns only     *)
(* with the response to itself.  Without it, or with nothing at all, a     *)
(* call returns only on a connection that was accepted before the Hello    *)
(* and given to the Sender.                                                *)
OwnResponse == \A l \in astray : ~Waits(l) /\ l \notin taken[l[2]]

(* What runs in the called process is the method that was called.          *)
RunsWhatWasCalled ==
  \A i, j \in Processes :
    strand[j] = "serving" /\ call[i].id = job[j].id /\ call[i] # NoCall =>
      job[j].method = call[i].method

(* The processes in which tree code runs, or waits for a call it made.     *)
Active == {i \in Processes : i = 1 \/ strand[i] = "serving"}

Stack == INSTANCE CallStack WITH active <- Active

(* Remote calls behave as the calls of procedures in one thread: whatever  *)
(* connections are accepted and answered on, a process enters tree code    *)
(* only as the callee of the last one and leaves it when it has no open    *)
(* call itself.                                                            *)
ImplementsCallStack == Stack!Spec

(* Each process takes its parent's connection, and no other one, for the   *)
(* tree, and has its tree when it is called.                               *)
Orderly ==
  /\ \A l \in made \cap ChildLinks : Waits(l) \/ l \in taken[l[2]]
  /\ \A j \in Processes : taken[j] \subseteq ChildLinks /\ strand[j] # "crashed"

(* Every call, however deep calls nest, gets its response, as long as each *)
(* process takes the connection of its parent alone for the tree: the      *)
(* others go to the Sender, since they are accepted before the Hello.      *)
EveryCallAnswered ==
  \A i \in {l[1] : l \in ChildLinks} :
    call[i] # NoCall ~> call[i] = NoCall \/ ~Orderly
=============================================================================
