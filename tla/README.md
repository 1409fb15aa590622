# A verification project for AVLtree

AVLtree is a word-counting AVL tree spread over several processes. Each word
that is read from a file (or from a built-in list) is inserted into the tree;
a node holds a word and the number of times it was inserted. The first three
levels of the program are: threads that ask for insertions, one thread in the
root process that applies them one by one, and a tree whose nodes may live in
other processes and are then reached by synchronous remote calls.

This directory holds TLA+ modules that model that system, TLC configurations
that check them, and proofs that TLAPS checks. Paths below are relative to
`src/app/` of the repository.

## Inventory

| Component | State | Operations | Interacts by |
|---|---|---|---|
| tree nodes: `tree/NodeData`, `tree/RemoteDataNode` | word, counter, height, children; `client_` of a proxy | insert, remove, rotations, pushes, pulls, get/set subtree, clear | direct calls to children; a proxy forwards each call to another process |
| request queue: `tree/AVLTree` | `queue_` (lock-free FIFO of operations), `words_` (unprotected vector), `root_` | insert, remove, invoke | shared memory between the producers and the thread in invoke |
| remote calls: `network/RemoteAVLTreeClient`, `RemoteTreeManager`, `AVLMessageHandler`, `AVLResponseHandler` | open calls, `root_connection_`, the handler table | 19 methods, send, handle_response | request and response messages on TCP connections |
| accepting: `network/Server` | the acceptor, a strand | do_accept, handle_accept, sayHello, getHello, resendDummy | callbacks; posts on the strand |
| Init phase: `network/InitTreeHandler`, `HelloMessageHandler` | the endpoint map, `ip_`, `is_ready` | parseMessage of each | Init to the root, then Hello, with the map, to all |
| start barrier: `network/DummyMessageHandler` | `index_`, `counter_`, shared by the threads that read | parseMessage, ready | a Dummy of each process to the root, and one back |
| requests to the root: `network/RootDutiesManager`, `RootMessageHandler`, `Sender` | request connections, one shared parser | createConnection, waitForDummy, requests, handleRequests, write | one thread per process in the root, MessageToRoot / MessageFromRoot |
| subtrees as messages: `network/SubtreeMessageParser` | none | parseProtoTree, parseTree | called by the remote calls |
| connections: `network/Connection`, `MessageParser`, `MessageHandler` | a buffer, an error code | write, readMessage | a header of four bytes and a body, over TCP |
| threads: `network/ThreadPool` | boost threads on one io_service | invoke | runs posted work |
| input: `src/FileManager`, `src/main` | the file | start, test, readFile | calls AVLTree or the Sender |
| addresses: `network/Endpoint`, `MessageObserver` | none | conversions | called by the above |

The hard behaviours are: rotations whose children are in other processes, where
copying, grafting and clearing a subtree are remote calls of their own; the two
containers of `AVLTree`, used by several threads without a lock and in
different orders (a FIFO and a stack); calls that nest through several
processes while the called process answers on whichever connection it accepted
last; a start-up whose steps race with accepting connections, and whose barrier
counts with an integer that is neither initialised nor protected; one parser
that the threads of all processes share in the root; and connections whose end
is read as a message.
`PROJECT.json` lists each hazard at its line with the properties aimed at it.

What makes each component correct:

* nodes: the words are in order and each in one node; heights are exact and
  differ by at most one; an insertion adds one occurrence of its word and
  changes nothing else; nothing is made up; no null pointer is dereferenced;
* request queue: an operation is there only with a word; each word is applied
  once, in order, and in the end;
* remote calls: one process runs tree code at a time; the method that was
  called runs while its caller waits; on a connection that was taken for the
  tree its response, and nothing else, comes back to that call;
* start-up: every process has its tree before the first word is sent; the root
  starts, once, and with the threads that it has;
* requests to the root: each thread serves its own client, every word gets to
  the tree once, and every client gets its reply;
* connections: the reader never gets out of step with the writer, and what
  parses was sent.

## Modules

| Module | Models | Composes |
|---|---|---|
| `NodeData` | the methods of a node, as operators on tree values | |
| `WordBag` | the abstract promise: how often each word is held | |
| `WordTree` | the tree of 1 to 3 processes under a sequence of operations | `NodeData`, `WordBag` by a refinement mapping |
| `AVLTree` | the request queue and its threads | |
| `RemoteSession` | accepting for the tree or for the Sender, calling, serving and answering | `CallStack` by a refinement mapping |
| `CallStack` | the abstract promise of remote calls: they nest like procedure calls | |
| `Startup` | Init, Hello and the Dummies, the pool of the root, clients that die | `StartBarrier` by a refinement mapping |
| `StartBarrier` | the abstract promise: nobody starts before everybody has arrived | |
| `RootRequests` | the words of the other processes, from `Sender::write` to the tree's queue | extends `AVLTree`, whose producers are the threads of the root |
| `Connection` | one direction of a connection, byte by byte | `Channel` by a refinement mapping |
| `Channel` | the abstract promise: messages as sent, then one damaged, then empty ones | |
| `WordTreeProofs`, `AVLTreeProofs`, `RemoteSessionProofs`, `StartupProofs`, `RootRequestsProofs`, `ConnectionProofs` | theorems about the module of that name | `RootRequestsProofs` uses `AVLTreeProofs` |
| `LightTreeProofs` | theorems about `WordTree` as long as rotations are light | extends `WordTreeProofs` |
| `MCWordTree`, `MCAVLTree`, `MCStartup`, `MCRootRequests`, `MCConnection` | values for TLC, and statements that do not hold | |

### NodeData and WordTree

A node is owned by one pointer, so the heap below a root is a tree value and a
method that mutates `*this` is an operator that returns the new node. A
`RemoteDataNode` without a client is a node; with a client it is a *proxy*,
whose field `root` is the local root of the other process. `Call` stands for a
complete remote call. Three traits of the code that one would miss in a sketch
are kept, because almost everything interesting follows from them:

* `getLeft` and `getRight` are not virtual calls to the other process: on a
  proxy they read its own fields, which are null (`NodeData.cpp:52-62`);
* a subtree that goes over the wire loses its heights and every part below a
  node with counter 0 (`SubtreeMessageParser.cpp:32-47`);
* `clear` returns null on a plain node and the node itself on a proxy.

Methods that come in a left and a right version are one operator with the side
as a parameter; the two versions of the code were compared line by line, and
where they differ from a mirror image (`pullHere` grafts on the right in both)
the operator says so. `WordTree` runs `insert` and `remove` on the local root
of process 1, one after the other: that is what `AVLTree::invoke` does, and
`RemoteSession` justifies that a remote call can be one step, on connections
that were taken for the tree. `Systems` is the set of numbers of processes that
an instance starts with (variable `nodes`).

A virtual method that calls itself on a child does so by late binding, and the
model says it that way: `Wire`, `ClearData`, `Push`, `InsertInto`,
`FindSuccessor` and `RemoveFrom` are what such a call runs, constants of
`NodeData` that every `.cfg` binds to the definition of the method (`wireHere`,
`clearData` and so on). The measures of a tree in `WordTree` (`CountIn`,
`AllNodes`, `Depth`) are bound in the same way. No operator is declared
`RECURSIVE`, so that the module can be proved about. `added`, `empties` and
`light` are history variables: how many words were inserted, whether an empty
string was among them, and whether all rotations so far were light. `CountIn`
counts all nodes, also those that have a count and no word.

Words are natural numbers in lexicographic order, 0 being the empty string.

**Light rotations.** The rotations of this code are not those of an AVL tree:
they lose what a remote child holds besides the word they lift, they graft both
subtrees of a child on its right, and they leave empty nodes with height 0
behind. A rotation is *light* (`LightTurn`) if it lifts a node of its own
process and either has nothing on the other side, a stick of three words, or
has one word there, and moves up a node that has one word to leave behind and
nothing grafted wrongly. What is stated under `Regular` (only light rotations so far, no
empty string) says which insertions the code does right, whatever the number of
words and processes; the runs `order`, `balance` and `rotate` show what others
do. The list of 22 insertions in `FileManager::test` causes light
rotations only, in one, two and three processes. With seven words, 97 % of the
states of one process are reached with light rotations only (9916 of 10197),
and of two or three processes 63 and 61 % (9916 of 15738 and of 16162), since
there a rotation at the root lifts a word out of another process.

### AVLTree

One action per access to shared memory. `words_` is its storage `cells` and the
index `finish` of its last element; `push_back` constructs the word behind
`finish` and then increments it, `pop_back` decrements it, and each increment
or decrement is a load and a store that other threads can come between.
`queue_` is atomic. The history variable `raced` records that two threads were
inside `push_back` or `pop_back` at once; from there on the program's behaviour
is undefined in C++ and the model goes on with the outcomes that unsynchronised
loads and stores give, without those of a reallocation. What is stated under
`~raced` therefore says exactly which promises do not depend on a lock, and the
run `queue_test` shows one that fails although no two threads ever raced.

### RemoteSession

A link is a TCP connection that one process makes for its tree: to its
children, and to its parent unless that is process 1. `Accept` is
`Server::handle_accept`. A connection accepted after Hello is for the tree
(`AcceptForTree`). One accepted before goes to the Sender (`AcceptForSender`),
also if the parent made it for its tree: `Sender::setConnection` drops the
connection that it had, `~Connection` closes that one, and a call on it
(`Closed`) returns with an empty message. `SenderWrites` and `SenderReads` are
`Sender::write` on such a link: the parent takes the word for the response to
its call, a "Bad response", and its request is taken for the reply. A call
without its response returns null and the tree code goes on, except for
`getWord`, which makes a string of a null pointer: the process dies, and here
the model ends (`AllAlive`). `astray` remembers on which links that happened.

The strand starts to read at the first link that was posted and never returns,
because `RemoteTreeManager::send` reads the next request itself, from
`root_connection_` as it is then. A process that serves a call may call its
children any number of times before it answers. `SetRoot` is the end of
`createLocalRootConnection`: a request that is read before meets a null root.
Each call carries a number, which the code does not send: it is there to say
whose response a caller got.

Process 1 is taken to have one thread in `AVLTree::invoke`. `Startup` shows
when it has (`StartsOnce`): as long as no two Dummies are counted at a time.

### Startup

The root is the acceptor and the strand (`HandleAccept`, `ReadInit`), a queue of
tasks of its io_service (`tasks`), and the reads that occupy threads of the pool
(`running`). `Threads` is the size of the pool as `main` and
`RootDutiesManager` make it. `ReadInit` is the whole of
`InitTreeHandler::parseMessage`, with `sayHello` when it was the last Init.
Which tasks a thread takes up and never gives back is the point of the model, so
that `TakeTask` tells reads from writes. A reader of a Dummy goes through
`BeginCount`, `EndCount` (the load and the store of `++index_`), `Check`
(`ready()` and the first part of `resendDummy`), `CreateTree` and `Start`, and
other readers can come between any two of these. `NullMessage` is the pointer
that one reader's `resetMsg` sets to null before another one's `packMsg` uses
it.

`Memory` is what may be in `index_`, which nobody initialises; `index0`
remembers what it was, because most of what can be said depends on its sign. A
client that dies, or that cannot connect to a neighbour, ends its connections.
By `Connection`, that passes for a Dummy, but not for an Init, and this is what
`BeginCount` and `ReadInit` say.

### RootRequests

A client calls `FileManager::start`, and so `Sender::write`, only if its `index_`
is equal to its `counter_` after one increment, and nothing initialises either
of them in a client (`DummyMessageHandler.cpp:17-33`). This module is about the
clients in which they happen to be equal. Such a client has also replaced its
tree by one without children, which makes no difference to the requests.

`RootRequests` extends `AVLTree` and adds the clients (`Write`, `ReadReply`,
`Leave`) and what a thread of `handleRequests` does around the call of `insert`
or `remove` (`ReadMessage` to `Serve`, and `Reply`). `Producers` are these
threads, one for each client. The parser is a pointer `message` into a `heap` of
messages, because that is what makes the difference between reading another
thread's message, half of one's own, or null. `overlapped` remembers that a
thread began to use the parser while another one did. A client that left is read
from for ever: each of its empty messages resets the parser.

### Connection

Bytes are numbers below `Base`, so that a header is four digits. The writer is
`Write`; `End` closes the connection and takes any number of the last bytes with
it. `ReadHeader` and `ReadBody` are the two reads of `do_read_msg`, with the
errors that it looks at and those that it does not. What protobuf does is a
constant, `Parses`, of which only what is needed is assumed: what was serialised
parses, and zeros do not.

That a reset within a header is swallowed, contrary to the comment at
`network/Connection.cpp:68`, is part of the model: the reader then makes a
buffer from the zeros that it has, and hands an empty message on.

## Runs

Bounds are the constants of each `.cfg`. All passing runs are exhaustive.

| Run | Instance | Shows | States |
|---|---|---|---|
| `system` | 1, 2 and 3 processes, 7 words, 7 insertions | under light rotations: `NullSafe`, `Ordered`, `HeightsExact`, `Balanced` within and across processes, the refinement `ImplementsBag`; under all: `NothingMadeUp`, `EmptyBelowEmpty`, `LocallySafe` | 42 000 |
| `remove` | 1 and 3 processes, 5 words and "", 7 insertions, any removals | `TypeOK`, `NothingMadeUp`, `TotalBounded` | 31 000 |
| `queue` | 2 producers, 2 words, 3 requests | the six safety properties of the queue; `EveryRequestServed` | 541 000 |
| `session` | 4 processes, 1 method, 2 calls | `OneProcessRuns`, `CallerWaits`, `OwnResponse`, `RunsWhatWasCalled`, `EveryCallAnswered`; the refinement `ImplementsCallStack` | 284 000 |
| `startup` | a root and 3 clients, `index_` at -1, 0 or 1, 1 death | `StartsWithTrees`, `StartsOnce`, `BarrierOpens`; the refinement `ImplementsBarrier` | 1 656 000 |
| `root_requests` | 2 clients, one of which may leave; an insertion and a removal | `OwnRequest`, `RootSurvives`, `EveryWordArrives`, `EveryWriteReturns`, `EveryWordServed` | 360 000 |
| `connection` | 3 values of a byte, 2 messages, 4 reads, the end after any byte | `NoLongerThanSent`, `ParsesWhatWasSent`; the refinement `ImplementsChannel` | 11 000 |
| `order`, `balance`, `rotate`, `notfound`, `queue_test` | | statements the program makes and does not keep, see Findings | |

Why the bounds are enough, and where they matter:

* **Seven words in `system`** are what it takes for every kind of light rotation,
  at the root and below it: a light rotation that grafts takes six words. Seven
  insertions of seven words give every order, and repetitions of fewer words.
  The properties are proved for any words and any number of insertions
  (`LightTreeProofs`).
* **What the other rotations do** takes few words. 1, 2, 3, 4, 6, 5 in one process
  leaves 5 to the right of 6, as `pullHere` grafts the left subtree of the child
  that it pulls up on the right (run `order`). 1, 3, 4, 7, 6, 5, 2 in one process
  leaves a tree out of balance, because an empty node has height 0 (`balance`);
  the rotation before has lost 7 as well. 3, 1, 2 in two processes loses 1, as
  the rotation of the root clears the whole remote child; six words in three
  processes lose three words that way and then dereference null (`rotate`).
* `NothingMadeUp` does not depend on the number of words: it is proved for any.
  Seven words in `system` are enough for rotations with grafts on either side, in
  one process and through proxies.
* **`EmptyBelowEmpty` and `LocallySafe` are promises for small trees too**, only
  that the trees are larger. Inserting 5, 7, 4, 8, 12, 3, 9, 14, 13, 11, 6, 2,
  1, 10 and then 7 again, in one process, dereferences null in the last step;
  20, 2, 6, 7, 5, 1, 4, 15, 13, 12, 16, 10, 17, 8, 18, 9, 14, 3, 19, 11 leaves
  words below a node without one. The sequences were found by random search and
  then confirmed with TLC on `WordTree`, inserting just these words in this
  order. What `system` shows is that up to seven words neither happens.
* Once the empty string is inserted, `setWord` increments the counter of a node
  that `hasWord` takes for empty, so that the next word that lands there starts
  with a count of 2. `NothingMadeUp` therefore says what it says of the
  behaviours of `remove` without empty strings; of the others it is left that
  the total is bounded, `TotalBounded`.
* Three processes are a root with two proxies, the complete pattern of
  `createLocalRootConnection` apart from nesting.
* In `queue`, two producers can race with each other and with the thread of
  `invoke`, and three requests allow a word to be overtaken and the stack to be
  popped to the bottom.
* In `startup`, three clients make a tree with a grandchild, so that a client
  can fail because its parent or its child died; they can lose each other's
  increments, and with two of them overlapping a third one can still be late.
  -1, 0 and 1 are the three signs of `index_`: what it holds matters only
  through the distance to the number of connections. The client that dies can
  be on either end of a connection; with two deaths the safety properties hold
  as well (550 000 states up to symmetry, no run of its own). The run itself is
  without symmetry, which is not sound for liveness. The reads that never end
  take three of the six threads; with three threads in all (`faultyThreads`)
  nothing behind them would run.
* In `root_requests`, two threads can interleave in the parser in every way, and
  two messages let one of them be lost to the other. That one client leaves
  keeps its thread resetting the parser. With three messages and nobody leaving
  the safety properties hold as well (2.9 million states, no run of its own).
* In `connection`, `Base` is 3 because a header then needs two bytes for the
  lengths that occur, so that cutting or swapping bytes makes a difference; two
  messages are one that is whole and one that is damaged, and four reads are two
  beyond them. The kinds are an Init, a MessageToRoot and a Dummy: with a number,
  with a string, and with nothing in the field that a cut can damage.
* In `session`, four is the least number of processes with which a process is
  connected to by its parent and by its child, calls nest, and responses can go
  astray; two calls are one nested in the other, or one after the other on the
  same link.
  Process 2 can be given the link of 1 and that of 4 before its Hello, in either
  order, so that its Sender closes one and keeps the other. `getWord` is the
  method that a missing response kills; the others do less. With three calls of
  `getWord` and `rotate_left` the safety properties and the refinement hold as
  well (839 000 states, no run of its own), and so they do with two processes
  and all methods but `pull_right_subtree`, for which the tables disagree (see
  Findings).

Deadlock checking is off in every run: the models stop at their bounds, after a
null dereference, and where the program really waits for ever.

### Fairness

`AVLTree`: `invoke` is an endless loop that never blocks, and a call of
`insert` or `remove` that was begun runs to its end. Nobody is obliged to make a
request. `RemoteSession`: the pool's threads run the acceptor and the strand,
messages arrive, and a method of the tree makes finitely many calls before it
answers. Hello and calls need not happen.

`Startup`: all clients are started, and the threads of the clients and of the
root run. A task is taken as long as a thread is free, which is what an
io_service promises; which task a free thread takes is not a matter of fairness,
as tasks are a queue. Nobody is obliged to die.

In `RemoteSession` and `Startup` no single thread is promised that it runs: as
long as some step is possible, some step is taken. That is less than what the
scheduler gives to each thread. It is enough because the calls are finitely
many and the start is one, so that no thread can be overtaken for ever.
`RootRequests`: the threads of the root and `invoke` run, and what is written
arrives; clients need not send anything and need not leave. `Connection` has no
fairness. All fairness is weak.

The liveness properties of `Startup` and `RootRequests` name in themselves what
makes them fail: `BarrierOpens` a lost increment (`overlapped`), a memory of
`index_` that is not 0, or a death; `EveryWriteReturns` only the null pointer;
`EveryWordServed` a message lost in the shared parser or in `words_`. Each of
these exceptions is needed: TLC finds a counterexample when one is left out.

`EveryCallAnswered` is conditional, and the condition, `Orderly`, is the point.
With four processes or more the connection of a child may be taken for the tree;
if it is accepted first, the strand waits on it for ever, and if it is accepted
later, responses go to it. And the connection of the parent may go to the
Sender, where nobody answers. Without the condition the property fails with four
processes.

### Findings

* `order`: a pull grafts both subtrees of a child on its right, so that words get
  out of order, and a word that is in the tree is not found any more.
* `balance`: `setData` gives height 0 to a node that is handed no word, and the
  tree gets out of balance.
* `rotate`: `rotate_left` and `rotate_right` log a missing child as a warning
  and dereference it in the next line. The counterexample gets there by a
  rotation that lifts the word of another process: it takes that process's tree
  for a leaf, because `getLeft` and `getRight` of a proxy are null, drops all the
  words in it and leaves the root out of balance. The next insertion, of a word
  that is there already, then rotates the side that holds the others.
* `notfound`: removing a word that is not in the tree clears a whole subtree.
* `queue_test`: the words are a stack, the operations a FIFO; a word pushed
  between `back()` and `pop_back()` is lost and the one before it applied twice.

Not a run, but seen while modelling: `RemoteAVLTreeClient::pull_right_subtree`
sends `PullLeftSubTree` (`network/RemoteAVLTreeClient.cpp:191`). The tree never pulls
through a proxy, so no execution gets there; `RequestType` has the entry as the
code does, and `RunsWhatWasCalled` fails if `Methods` includes it. A message
that was cut within its last field can parse: a word with zeros for its end, or
an Init with another port; `ParsesWhatWasSent` therefore compares lengths and
not contents for the last one. And `FileManager` only ever sends insertions, so
that the removals of `WordTree` and `RootRequests` are what the program has code
for and no input leads to.

## Proofs

`WordTreeProofs` proves, for any set of words, any number of insertions and
removals and each number of processes in `Systems`, `TypeCorrect`,
`TotalBoundedHolds` and `NothingMadeUpHolds`. Trees are of any size here, and
long past the point where rotations go wrong: these are the promises that
survive it.

* The hypothesis of each theorem is `LateBinding`: on finite trees, the constants
  that stand for virtual calls and for measures equal the methods and measures
  that the configurations bind them to. It is a set of recursive equations whose
  right-hand sides look only at smaller trees, the children or the root behind a
  proxy, so that some operators satisfy it, and on finite trees they agree. It
  takes the place of a `RECURSIVE` declaration and says no more than that would.
  Both proof modules about trees share it.
* `Trees` is the union of the levels `Level[n]`, each of which is built from the
  one before. `LevelDef` shows that this recursive function exists.
  `TreeInduction` is stated for a set, not for an operator, and rests on
  `Least`, which comes from the library's well-foundedness of the order of the
  naturals; all facts about methods that call themselves are proved with it.
* One fact is carried through every method, for every set of words: what the
  result counts is at most what was there plus what the call brought along
  (`WireOf`, `SetSubtreeOf`, `SetSideOf`, `GraftOf`, `PushOf`, `PullOf`,
  `RotateHereOf`, `BalanceOf`, `InsertOf`, `RemoveOf`). Together with it goes that
  the result is a well-formed node again, or `Crash`. A copy that is grafted must
  replace its original: `set_side_subtree` clears the side first, a push clears
  the side it copies from, and the fact rests on both.
* For `insert` the fact holds only of sets that include the empty string:
  `setWord` turns what an empty node counts into occurrences of its word. So
  `NothingMadeUp` is not inductive, and the invariant, `Inv`, adds that nothing
  is counted for the empty string as long as none was inserted (`NoneEmpty`).
  From there `Pair`, that the counts of a word and of the empty string add up,
  gives the count of each word alone. `TypeOK` follows from it as well: each
  node counts at most what its tree does (`AllNodesOf`).
* `WireKeeps` is the other direction for `SubtreeMessageParser`: a subtree of
  which every node counts something, and which does not itself hold a proxy,
  arrives with all its words. These are the two things that
  the parser needs, and its callers check neither.

`LightTreeProofs` proves the promises that only light rotations keep:
`NullSafeLight`, `OrderedLight`, `HeightsExactLight`, `BalancedLight` and
`ImplementsBagLight`, for any words, any number of insertions, in any order and
with repetitions, in one, two or three processes. Their hypothesis is
`LateBinding`; that rotations have been light is part of the properties.

* The condition is the program's, not the proof's: the runs `order`, `balance`,
  and `rotate` break the properties by a rotation that is not light. The empty
  string is excluded because `hasWord` takes its node for an empty one.
* None of the five is inductive. The invariant, `LightInv`, is that of an AVL
  tree across processes: the root of process 1 is as it was created or a node in
  order, balanced and with its exact height, and each of its subtrees is
  bare (nothing, or another process that holds no word) or again such a node,
  with no further process below. It was model-checked on the instance of
  `system` before it was proved.
* The induction is over trees: the node below has grown by the inserted word and
  is an AVL tree again (`Grown`), on whatever side of a connection. If no
  rotation is needed, that is all. If one is, the light ones are two. In a
  *stick* the other side holds nothing; then the side that grew was a leaf that
  has just got a child, and three words change places, by one rotation or two.
  In a *carry* the other side is a leaf: its word is pushed below the one that
  comes down, the inner leaf is grafted beside it, and the outer child moves up
  with its right child. Each field of the six nodes is followed.
* What was counted is compared before and after, for every set of words, which
  gives the refinement of `WordBag`.

`AVLTreeProofs` proves, for every finite set of producers, every set of words
and every number of requests:

* `TypeCorrect` and `PopsWhatItSawHolds`, from one invariant, `TypeInvariant`:
  that `finish` stays a natural number needs that `pop_back` only runs after
  `back()` found a word, and that the value of `finish` that it loaded was
  positive (`Positive`).
* `WordPerOperationHolds` and `NoUnderflowHolds`. `WordPerOperation` is not
  inductive: to know that `finish` moves by exactly one one must know that a
  thread inside `push_back` or `pop_back` has loaded the current `finish`, and
  that there is only one such thread. `IInv` adds these two facts (`OneWriter`,
  `FinishLoaded`), each under `~raced`. The counting of producers between their
  two pushes rests on the lemmas `QueueingFinite`, `QueueingGrows` and
  `QueueingShrinks` about cardinalities of finite sets.
* `WordsConservedHolds`, by `Conserved`. What waits in `words_` and what was
  applied add up to what was submitted only if each push and each pop is seen in
  two places at once: the word of a thread inside `push_back` is the one just
  above those that wait (`Pushed`), and while a thread is between its two pushes
  there is a cell for its word (`Room`). The lemmas `TimesAppend` and `CellsGrow`
  say how the two counts change.
* `InOrderHolds`, by another invariant, `Sequential`: without overlapping
  requests exactly one word and one operation are in flight, and they belong to
  the request that was submitted last.

The assumptions of these are `AVLTreeAssumption`: finitely many producers, a
value of unwritten storage that is not a word, and a natural bound. TLC
evaluates them in every run. `IInv`, `Conserved` and `Sequential` were
model-checked before they were proved.

`RemoteSessionProofs` proves, for every number of processes, every set of
methods and every number of calls, `TypeCorrect`, `OneProcessRunsHolds`,
`CallerWaitsHolds`, `OwnResponseHolds`, `RunsWhatWasCalledHolds` (where
`Methods` leaves out `pull_right_subtree`) and `ImplementsCallStackHolds`, from
one invariant, `IInv`. None of the properties is inductive by itself. The idea
is a token: it is with the one process that is in tree code and has no call that
another process serves (`Top`, `OneTop`). That process runs, or waits; while it
waits, what it waits for is its request on the way down, its response on the way
back, or, on a link that the Sender has or had, nothing or something else.
`RequestsMatch` and `ResponsesMatch` say so for each link. That a late response
cannot be taken for another one follows from there being only one; that it does
not matter which connection a response goes to follows from `ServesCaller`, which
says whose call is served, and from each process having one parent
(`LinkFacts`). `Accepted` says that a connection is accepted once, so that no
link is both the Sender's and the tree's, and `Wiring` that a process serves only
after its Hello and with a root. A call that returns without a response returns
to the process with the token, which keeps it, or dies and leaves it to its
caller. That calls do return is left to `EveryCallAnswered`. The assumption is
`RemoteSessionAssumption`.

`StartupProofs` proves, for every finite set of clients, any number of deaths
and any memory, `TypeCorrect` and:

* `StartsWithTreesHolds`. Threads lose increments to each other, but make none
  up: `Losses` says that `index_`, and whatever a reader loaded, is at most the
  initial value plus the number of readers that have counted. If it was not
  positive, the count is only reached when all have, and each of them has seen a
  Dummy or the end of a connection, which by `Arrivals` nobody writes without
  its tree. `Posting` says when the tasks and the readers can be there at all.
* `ImplementsBarrierHolds`, from the same invariant, `IInv`. An arrival is
  `ReadHello` or a death; the mapping is a step or a stutter.
* `StartsOnceHolds`, by `Exact`: without overlaps `index_` counts the readers
  exactly, so that it equals the number of connections after one of them only,
  whatever it began with.

The assumption is `StartupAssumption`: the clients are finitely many and the
memory holds integers.

`RootRequestsProofs` proves first that the composition implements `AVLTree`
(`ImplementsAVLTree`): each step of a client or of a thread in the root is a
step of the queue or leaves it alone. All that `AVLTreeProofs` proves of the
queue then holds for the queue that clients feed; `NoUnderflowHere` is the case
that is listed. `TypeCorrectRequests` needs that there is an address left for a
new message (`FreeObject`), by counting: each thread uses at most one object,
and the one that asks for a new one uses none. `OwnRequestHolds` and
`RootSurvivesHolds` share one invariant: without overlaps at most one thread is
between `resetMsg` and `word()`, the pointer and the object are its own, and the
contents are what its client sent. `EveryWordArrivesHolds` comes from what is
proved of the queue: `Submitted` says that the words that were asked for are
those submitted to the tree and those under way, and `WordsConserved` takes it
from there. Who is under way changes with each message only because a thread
whose client has sent something is reading (`Turns`, of the same invariant), and
because what was sent stays where it is until the reply (`Settled`).

`ConnectionProofs` proves first two facts about headers. `HeaderHoldsSize`: for
a byte of any size, `decode_header` inverts `encodeHeader` for every length that
fits into four bytes. `CutHeaderIsLess`: a header whose last bytes did not come
decodes to no more than the whole one, which is why a cut never asks for a longer
buffer. From these, for any scripts, messages and parser that satisfy
`ConnectionAssumption`, it proves `TypeCorrect`, `NoLongerThanSentHolds`,
`ImplementsChannelHolds` and `ParsesWhatWasSentHolds`. None of the last three is
inductive: that the reader is given a message of the right length depends on the
header being the one that was written before that message, and so on every byte
read before. The invariant, `IInv`, gives each message its place: before message
`n` there are `p[n]` bytes on the wire, and its own header and body follow, as
far as the connection brought them (`Places`, `InStep`). A short read leaves the
wire empty, after which only zeros can be read (`Drained`). So each body is
received, damaged or nothing (`BodyCases`), which is what `Channel` allows. The
assumption says that a message fits into its header and parses, and that zeros
(as many or fewer) do not, as the tag of a protobuf field is not 0; that a script is a
sequence of at least one kind; and that a byte has at least two values. TLC
evaluates it in the run `connection`.

Only model-checked: `LocallySafe` and `EmptyBelowEmpty` (run `system`). They are
false of some larger trees, as said under Runs, so that there is nothing to prove
for every set of words. Also only model-checked is all liveness (`EveryRequestServed`, `EveryCallAnswered`,
`BarrierOpens`, `EveryWriteReturns`, `EveryWordServed`), as `WF_` and `ENABLED`
are out of the prover's reach.

## Not modelled

* `balance_remove` and `waitForRequest` (never called), `heartbeat` (never
  called), parent pointers (never read), `preorder` (logs only).
* `words_` being reallocated in a data race, and the capacity of `queue_`, which
  grows. A message object that is freed by one thread while another one uses it
  (`RootRequests` takes objects to live as long as a thread uses them, and
  shared pointers to be read and written at once).
* The depth of stacks: `RemoteTreeManager::send` and `handleRequests` call
  themselves for each request, so that the stack grows for ever.
* What follows a death. When a process dies, those that it is connected to read
  empty messages or fail to connect, and nobody handles that. `RemoteSession`
  ends with the first death, `Startup` has the deaths of clients while they
  start.
* The connection on which a client sends words, once the Sender has replaced it:
  the root then reads empty messages from it for ever, as after a client left
  (`RootRequests`).
* Writes that fail (`do_write_msg` ignores its error), and, in `Startup`, a
  message of which only a part arrived: that is in `Connection`.
* The tree without children that a client makes if its uninitialised `counter_` and
  `index_` are equal. `Startup` leaves open whether they are, `RootRequests` is
  about clients in which they are, and in `RemoteSession` any Sender may write;
  that the tree of such a client is another one from then on is left out, and
  `WordTree` is about processes that keep theirs.
* A second thread in `AVLTree::invoke`, after two Dummies were counted at once
  (`Startup`): `AVLTree` and `RemoteSession` have one.
* A system of one process: no Init ever comes, so that `sayHello` is never called
  and nothing happens.
* Addresses, and with them a process that does not find itself in the map
  because it was started with a host name; reading files and arguments; logging.

## Plan

1. Done: `NodeData`, `WordBag`, `WordTree`; `AVLTree`; `RemoteSession`,
   `CallStack`; `Startup`, `StartBarrier`; `RootRequests`; `Connection`,
   `Channel`; and proofs about all of them.
2. Done: what holds of trees of any size as long as rotations are light
   (`LightTreeProofs`).
3. Done: the connections of the tree that a Sender is given, in `RemoteSession`.
4. Left: processes that die while they are called, in `RemoteSession`.
