------------------------------- MODULE AVLTree -------------------------------
(***************************************************************************)
(* The request queue of AVLTree in the root process.  The thread that runs *)
(* FileManager::start and one thread per other process, in                 *)
(* RootDutiesManager::handleRequests, call insert and remove; the thread   *)
(* that run() starts applies the requests to the tree in invoke.           *)
(*                                                                         *)
(* The operations go through queue_, a lock-free FIFO whose push and pop   *)
(* are atomic, and the words through words_, a std::vector used as a stack *)
(* that nothing protects.  words_ is modelled as its storage and the index *)
(* finish of its last element:                                             *)
(*   push_back  constructs the word behind finish, then increments finish; *)
(*   pop_back   decrements finish.                                         *)
(* An increment or a decrement is a load and a store that other threads    *)
(* can come between.  The storage is large enough from the start: what a   *)
(* reallocation in a data race does is not modelled, and every data race   *)
(* of two writers is recorded in the history variable raced.               *)
(*                                                                         *)
(* An operator whose name begins with "faulty" is a wrong version of the   *)
(* definition after it, with which the properties must fail.               *)
(***************************************************************************)
EXTENDS Integers, Sequences, FiniteSets

CONSTANTS Producers,     \* the threads that call insert and remove
          Words,
          Garbage,       \* what unwritten storage holds
          MaxRequests    \* bound on the number of requests
ASSUME AVLTreeAssumption == /\ IsFiniteSet(Producers)
                            /\ Garbage \notin Words
                            /\ MaxRequests \in Nat

Operations == {"ADD", "REMOVE"}
Requests   == [oper : Operations, word : Words]
Slots      == 1 .. MaxRequests

(* Requests as a thread can read them: the word may be garbage. *)
ReadRequests == [oper : Operations, word : Words \cup {Garbage}]

VARIABLES
  \* AVLTree
  queue,      \* queue_: operations only
  cells,      \* words_: its storage
  finish,     \* words_: how many elements it has
  \* the producers
  pc,         \* where each one is in insert or remove
  request,    \* the request it is making
  at,         \* the value of finish that its push_back loaded
  \* the thread in invoke
  wpc,        \* where it is
  oper,       \* the operation it took
  wat,        \* the value of finish that its pop_back loaded
  \* history
  submitted,  \* the requests whose push_back has ended
  applied,    \* the requests applied to root_, with the words they were given
  raced,      \* two threads were inside push_back or pop_back at once
  intruded,   \* a push_back ended between back() and the end of pop_back()
  crowded     \* a request was made while another one was not yet done

tree     == <<queue, cells, finish>>
producer == <<pc, request, at>>
worker   == <<wpc, oper, wat>>
history  == <<submitted, applied, raced, intruded, crowded>>
vars     == <<tree, producer, worker, history>>

-----------------------------------------------------------------------------
Pushing  == {p \in Producers : pc[p] = "pushing"}   \* inside push_back
Queueing == {p \in Producers : pc[p] = "queueing"}  \* between the two pushes
Taken    == wpc \in {"taken", "applied", "popping"} \* an operation is out
Quiet    == queue = <<>> /\ wpc = "idle" /\ \A p \in Producers : pc[p] = "idle"

Init ==
  /\ queue = <<>>
  /\ cells = [i \in Slots |-> Garbage]
  /\ finish = 0
  /\ pc = [p \in Producers |-> "idle"]
  /\ request = [p \in Producers |-> [oper |-> "ADD", word |-> Garbage]]
  /\ at = [p \in Producers |-> 0]
  /\ wpc = "idle" /\ oper = "ADD" /\ wat = 0
  /\ submitted = <<>> /\ applied = <<>>
  /\ raced = FALSE /\ intruded = FALSE /\ crowded = FALSE

-----------------------------------------------------------------------------
(* insert and remove: words_.push_back(word) in two steps, queue_.push(op). *)

PushBack(p) ==
  /\ pc[p] = "idle"
  /\ Len(submitted) + Cardinality(Pushing) < MaxRequests
  /\ \E r \in Requests :
       /\ request' = [request EXCEPT ![p] = r]
       /\ cells' = [cells EXCEPT ![finish + 1] = r.word]
  /\ at' = [at EXCEPT ![p] = finish]
  /\ pc' = [pc EXCEPT ![p] = "pushing"]
  /\ raced' = (raced \/ Pushing # {} \/ wpc = "popping")
  /\ crowded' = (crowded \/ ~Quiet)
  /\ UNCHANGED <<queue, finish, worker, submitted, applied, intruded>>

(* The increment uses the pointer that the word was constructed at, or a   *)
(* later value: the compiler may load it again.                            *)
PushBackEnds(p) ==
  /\ pc[p] = "pushing"
  /\ \E f \in {at[p], finish} : finish' = f + 1
  /\ at' = [at EXCEPT ![p] = 0]
  /\ pc' = [pc EXCEPT ![p] = "queueing"]
  /\ submitted' = Append(submitted, request[p])
  /\ intruded' = (intruded \/ wpc \in {"applied", "popping"})
  /\ UNCHANGED <<queue, cells, request, worker, applied, raced, crowded>>

PushOperation(p) ==
  /\ pc[p] = "queueing"
  /\ queue' = Append(queue, request[p].oper)
  /\ pc' = [pc EXCEPT ![p] = "idle"]
  /\ UNCHANGED <<cells, finish, request, at, worker, history>>

-----------------------------------------------------------------------------
(* invoke: queue_.pop(oper), then root_->insert(words_.back()) or          *)
(* root_->remove(words_.back()), then words_.pop_back() in two steps.      *)

(* The operation stays in the queue, or the last one is never taken. *)
faultyPeek ==
  /\ wpc = "idle" /\ queue # <<>>
  /\ oper' = Head(queue) /\ wpc' = "taken"
  /\ UNCHANGED <<tree, producer, wat, history>>

faultyPopLeavesOne ==
  /\ wpc = "idle" /\ Len(queue) > 1
  /\ oper' = Head(queue) /\ queue' = Tail(queue) /\ wpc' = "taken"
  /\ UNCHANGED <<cells, finish, producer, wat, history>>

Pop ==
  /\ wpc = "idle"
  /\ queue # <<>>
  /\ oper' = Head(queue)
  /\ queue' = Tail(queue)
  /\ wpc' = "taken"
  /\ UNCHANGED <<cells, finish, producer, wat, history>>

(* front() *)
faultyBack == cells[1]

(* What back() reads, behind the allocated storage too. *)
Back == IF finish \in Slots THEN cells[finish] ELSE Garbage

(* back() of an empty vector is taken for a word, and pop_back() follows. *)
faultyApply ==
  /\ wpc = "taken"
  /\ wpc' = "applied"
  /\ applied' = Append(applied, [oper |-> oper, word |-> Back])
  /\ UNCHANGED <<tree, producer, oper, wat, submitted, raced, intruded, crowded>>

(* A case without its break: ADD goes on with REMOVE. *)
faultyFallThrough ==
  /\ wpc = "taken"
  /\ IF finish = 0
     THEN wpc' = "undefined" /\ UNCHANGED applied
     ELSE /\ wpc' = "applied"
          /\ applied' = applied \o
               (IF oper = "ADD" THEN <<[oper |-> "ADD", word |-> Back]>> ELSE <<>>)
               \o <<[oper |-> "REMOVE", word |-> Back]>>
  /\ UNCHANGED <<tree, producer, oper, wat, submitted, raced, intruded, crowded>>

(* back() of an empty vector is undefined: the thread stops here.          *)
Apply ==
  /\ wpc = "taken"
  /\ IF finish = 0
     THEN wpc' = "undefined" /\ UNCHANGED applied
     ELSE /\ wpc' = "applied"
          /\ applied' = Append(applied, [oper |-> oper, word |-> Back])
  /\ UNCHANGED <<tree, producer, oper, wat, submitted, raced, intruded, crowded>>

PopBack ==
  /\ wpc = "applied"
  /\ wat' = finish
  /\ wpc' = "popping"
  /\ raced' = (raced \/ Pushing # {})
  /\ UNCHANGED <<tree, producer, oper, submitted, applied, intruded, crowded>>

PopBackEnds ==
  /\ wpc = "popping"
  /\ \E f \in {wat, finish} : finish' = f - 1
  /\ wat' = 0
  /\ wpc' = "idle"
  /\ UNCHANGED <<queue, cells, producer, oper, history>>

Invoke == Pop \/ Apply \/ PopBack \/ PopBackEnds

Next == \/ \E p \in Producers : \/ PushBack(p)
                                \/ PushBackEnds(p)
                                \/ PushOperation(p)
        \/ Invoke

(* The loop of invoke never blocks, and a call of insert or remove that    *)
(* was begun runs to its end; nobody has to make another one.              *)
Fairness == /\ WF_vars(Invoke)
            /\ \A p \in Producers : WF_vars(PushBackEnds(p) \/ PushOperation(p))

Spec     == Init /\ [][Next]_vars
FairSpec == Spec /\ Fairness

-----------------------------------------------------------------------------
TypeOK ==
  /\ queue \in Seq(Operations)
  /\ cells \in [Slots -> Words \cup {Garbage}]
  /\ finish \in Nat
  /\ pc \in [Producers -> {"idle", "pushing", "queueing"}]
  /\ request \in [Producers -> ReadRequests]
  /\ at \in [Producers -> Nat]
  /\ wpc \in {"idle", "taken", "applied", "popping", "undefined"}
  /\ oper \in Operations
  /\ wat \in Nat
  /\ submitted \in Seq(ReadRequests)
  /\ applied \in Seq(ReadRequests)
  /\ raced \in BOOLEAN /\ intruded \in BOOLEAN /\ crowded \in BOOLEAN

(* As long as no two threads are ever inside push_back or pop_back at the  *)
(* same time, invoke finds a word in words_ for every operation that it    *)
(* takes from queue_, because insert and remove push the word first.       *)
NoUnderflow == ~raced => wpc # "undefined"

(* As long as no two threads write words_ at once, it holds one word for   *)
(* every operation that is queued, is about to be queued or is being done. *)
WordPerOperation ==
  ~raced => finish = Len(queue) + Cardinality(Queueing) + (IF Taken THEN 1 ELSE 0)

(* How often a word is in a sequence of requests. *)
Times(w, s) == Cardinality({i \in DOMAIN s : s[i].word = w})

(* The words of words_ that are still to be applied. *)
Waiting == IF wpc \in {"applied", "popping"} THEN finish - 1 ELSE finish

TimesWaiting(w) == Cardinality({i \in 1 .. Waiting : cells[i] = w})

(* pop_back takes away the word that back() read, so that every submitted  *)
(* word is applied once or still waits, unless writes race or a push_back  *)
(* ends in between.                                                        *)
WordsConserved ==
  ~raced /\ ~intruded =>
    \A w \in Words : Times(w, submitted) = Times(w, applied) + TimesWaiting(w)

(* Requests made one at a time, each when the one before is done, are      *)
(* applied in the order they were made, each with its own word: then it    *)
(* does not matter that the words are a stack and the operations a queue.  *)
InOrder ==
  ~crowded => \A i \in DOMAIN applied :
                i \in DOMAIN submitted /\ applied[i] = submitted[i]

(* pop_back() finds a word whenever back() found one, in spite of all data *)
(* races: only the thread in invoke takes words away.                      *)
PopsWhatItSaw == wpc \in {"applied", "popping"} => finish > 0

(* Every request is taken up, unless invoke has run into an empty vector.  *)
EveryRequestServed ==
  \A n \in 1 .. MaxRequests :
    Len(submitted) >= n ~> (Len(applied) >= n \/ wpc = "undefined")
=============================================================================
