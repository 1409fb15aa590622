---------------------------- MODULE AVLTreeProofs ----------------------------
(***************************************************************************)
(* Proofs about AVLTree, for any finite set of producers, any words and    *)
(* any number of requests: the types; that without a data race invoke      *)
(* never looks into an empty words_; and when the words that are applied   *)
(* are those that were submitted, once each and in order.                  *)
(***************************************************************************)
EXTENDS AVLTree, FiniteSetTheorems, SequenceTheorems, TLAPS

(* Queueing is a finite set, and a thread that enters or leaves it changes *)
(* its cardinality by one.                                                 *)
LEMMA QueueingFinite == IsFiniteSet(Queueing) /\ Cardinality(Queueing) \in Nat
<1>1. IsFiniteSet(Queueing)
  BY AVLTreeAssumption, FS_Subset DEF Queueing
<1> QED
  BY <1>1, FS_CardinalityType

LEMMA QueueingGrows ==
  ASSUME NEW p, p \notin Queueing, Queueing' = Queueing \cup {p}
  PROVE  Cardinality(Queueing') = Cardinality(Queueing) + 1
  BY QueueingFinite, FS_AddElement

LEMMA QueueingShrinks ==
  ASSUME NEW p, p \in Queueing, Queueing' = Queueing \ {p}
  PROVE  Cardinality(Queueing') = Cardinality(Queueing) - 1
  BY QueueingFinite, FS_RemoveElement

-----------------------------------------------------------------------------
(* The values of finish that the thread in invoke has seen are positive:   *)
(* without that finish would not be known to stay a natural number.        *)
Positive == PopsWhatItSaw /\ (wpc = "popping" => wat > 0)

LEMMA TypeInvariant == Spec => [](TypeOK /\ Positive)
<1>1. Init => TypeOK /\ Positive
  <2> SUFFICES ASSUME Init PROVE TypeOK /\ Positive
    OBVIOUS
  <2>1. queue \in Seq(Operations) /\ oper \in Operations
    BY DEF Init, Operations
  <2>2. /\ cells \in [Slots -> Words \cup {Garbage}]
        /\ request \in [Producers -> ReadRequests]
    BY DEF Init, Operations, ReadRequests
  <2>3. /\ pc \in [Producers -> {"idle", "pushing", "queueing"}]
        /\ at \in [Producers -> Nat]
    BY DEF Init
  <2>4. /\ submitted \in Seq(ReadRequests)
        /\ applied \in Seq(ReadRequests)
    BY DEF Init
  <2> QED
    BY <2>1, <2>2, <2>3, <2>4 DEF Init, TypeOK, Positive, PopsWhatItSaw
<1>2. TypeOK /\ Positive /\ [Next]_vars => (TypeOK /\ Positive)'
  <2> SUFFICES ASSUME TypeOK, Positive, [Next]_vars
               PROVE  (TypeOK /\ Positive)'
    OBVIOUS
  <2> USE DEF TypeOK, Positive, PopsWhatItSaw
  <2>1. ASSUME NEW p \in Producers, PushBack(p)
        PROVE  (TypeOK /\ Positive)'
    <3> PICK r \in Requests :
               /\ request' = [request EXCEPT ![p] = r]
               /\ cells' = [cells EXCEPT ![finish + 1] = r.word]
      BY <2>1 DEF PushBack
    <3>1. r \in ReadRequests /\ r.word \in Words
      BY DEF Requests, ReadRequests
    <3> QED
      BY <2>1, <3>1 DEF PushBack, worker
  <2>2. ASSUME NEW p \in Producers, PushBackEnds(p)
        PROVE  (TypeOK /\ Positive)'
    <3>1. request[p] \in ReadRequests
      OBVIOUS
    <3>2. submitted' \in Seq(ReadRequests)
      BY <2>2, <3>1 DEF PushBackEnds
    <3> QED
      BY <2>2, <3>2 DEF PushBackEnds, worker
  <2>3. ASSUME NEW p \in Producers, PushOperation(p)
        PROVE  (TypeOK /\ Positive)'
    <3>1. request[p].oper \in Operations
      BY DEF ReadRequests
    <3> QED
      BY <2>3, <3>1 DEF PushOperation, worker, history
  <2>4. CASE Pop
    <3>1. Head(queue) \in Operations /\ Tail(queue) \in Seq(Operations)
      BY <2>4 DEF Pop
    <3> QED
      BY <2>4, <3>1 DEF Pop, producer, history
  <2>5. CASE Apply
    <3> DEFINE done == [oper |-> oper, word |-> Back]
    <3>1. Back \in Words \cup {Garbage}
      BY DEF Back
    <3>2. done \in ReadRequests
      BY <3>1 DEF ReadRequests
    <3>3. Append(applied, done) \in Seq(ReadRequests)
      BY <3>2, AppendProperties
    <3>4. /\ applied' \in Seq(ReadRequests)
          /\ wpc' \in {"applied", "undefined"}
      BY <2>5, <3>3 DEF Apply
    <3> QED
      BY <2>5, <3>4 DEF Apply, tree, producer
  <2>6. CASE PopBack
    BY <2>6 DEF PopBack, tree, producer
  <2>7. CASE PopBackEnds
    BY <2>7 DEF PopBackEnds, producer, history
  <2>8. CASE UNCHANGED vars
    BY <2>8 DEF vars, tree, producer, worker, history
  <2> QED
    BY <2>1, <2>2, <2>3, <2>4, <2>5, <2>6, <2>7, <2>8 DEF Next, Invoke
<1> QED
  BY <1>1, <1>2, PTL DEF Spec

(* Every variable keeps its type. *)
THEOREM TypeCorrect == Spec => []TypeOK
  BY TypeInvariant, PTL

(* Whatever the threads do to words_, pop_back() finds a word to pop.      *)
THEOREM PopsWhatItSawHolds == Spec => []PopsWhatItSaw
  BY TypeInvariant, PTL DEF Positive

-----------------------------------------------------------------------------
(* What the absence of a data race means for the threads: at most one of   *)
(* them is inside push_back or pop_back, ...                               *)
OneWriter ==
  ~raced => /\ \A p, q \in Pushing : p = q
            /\ wpc = "popping" => Pushing = {}

(* ... so that the value of finish that it loaded is still the current one. *)
FinishLoaded ==
  ~raced => /\ \A p \in Pushing : at[p] = finish
            /\ wpc = "popping" => wat = finish

(* WordPerOperation needs the two to be preserved by the ends of push_back *)
(* and pop_back, and implies in turn that back() finds a word.             *)
IInv == TypeOK /\ OneWriter /\ FinishLoaded /\ WordPerOperation /\ NoUnderflow

(* The invariant holds at first: nothing was pushed. *)
LEMMA IInvInit == ASSUME Init, TypeOK PROVE IInv
<1>1. Queueing = {} /\ Pushing = {}
  BY DEF Init, Queueing, Pushing
<1>2. Cardinality({}) = 0
  BY FS_EmptySet
<1> QED
  BY <1>1, <1>2 DEF Init, IInv, OneWriter, FinishLoaded, WordPerOperation,
                    NoUnderflow, Taken

(* Every step preserves it: the four parts are proved action by action,    *)
(* from the sets of threads inside push_back and between the two pushes.   *)
LEMMA IInvStep == ASSUME IInv, TypeOK', [Next]_vars PROVE IInv'
<1> USE DEF IInv
<1>1. ASSUME NEW p \in Producers, PushBack(p)
      PROVE  IInv'
  <2>1. Pushing' = Pushing \cup {p} /\ Queueing' = Queueing
    BY <1>1 DEF PushBack, Pushing, Queueing, TypeOK
  <2>2. ~raced' => ~raced /\ Pushing' = {p} /\ wpc # "popping"
    BY <1>1, <2>1 DEF PushBack
  <2>3. at'[p] = finish
    BY <1>1 DEF PushBack, TypeOK
  <2>4. UNCHANGED <<queue, finish, wpc>>
    BY <1>1 DEF PushBack, worker
  <2>5. (OneWriter /\ FinishLoaded)'
    BY <2>2, <2>3, <2>4 DEF OneWriter, FinishLoaded
  <2>6. (WordPerOperation /\ NoUnderflow)'
    BY <2>1, <2>2, <2>4 DEF WordPerOperation, NoUnderflow, Taken
  <2> QED
    BY <2>5, <2>6
<1>2. ASSUME NEW p \in Producers, PushBackEnds(p)
      PROVE  IInv'
  <2>1. /\ p \in Pushing /\ p \notin Queueing
        /\ Pushing' = Pushing \ {p} /\ Queueing' = Queueing \cup {p}
    BY <1>2 DEF PushBackEnds, Pushing, Queueing, TypeOK
  <2>2. UNCHANGED <<queue, wpc, wat, raced>>
    BY <1>2 DEF PushBackEnds, worker
  <2>3. ~raced => Pushing' = {} /\ wpc # "popping" /\ at[p] = finish
    BY <2>1 DEF OneWriter, FinishLoaded
  <2>4. ~raced => finish' = finish + 1
    BY <1>2, <2>3 DEF PushBackEnds
  <2>5. (OneWriter /\ FinishLoaded)'
    BY <2>2, <2>3 DEF OneWriter, FinishLoaded
  <2>6. Cardinality(Queueing') = Cardinality(Queueing) + 1
    BY <2>1, QueueingGrows
  <2>7. (WordPerOperation /\ NoUnderflow)'
    BY <2>2, <2>4, <2>6, QueueingFinite
       DEF WordPerOperation, NoUnderflow, Taken, TypeOK
  <2> QED
    BY <2>5, <2>7
<1>3. ASSUME NEW p \in Producers, PushOperation(p)
      PROVE  IInv'
  <2>1. /\ p \in Queueing
        /\ Pushing' = Pushing /\ Queueing' = Queueing \ {p}
    BY <1>3 DEF PushOperation, Pushing, Queueing, TypeOK
  <2>2. UNCHANGED <<finish, at, wpc, wat, raced>>
    BY <1>3 DEF PushOperation, worker, history
  <2>3. (OneWriter /\ FinishLoaded)'
    BY <2>1, <2>2 DEF OneWriter, FinishLoaded
  <2>4. Len(queue') = Len(queue) + 1
    BY <1>3 DEF PushOperation, TypeOK
  <2>5. Cardinality(Queueing') = Cardinality(Queueing) - 1
    BY <2>1, QueueingShrinks
  <2>6. (WordPerOperation /\ NoUnderflow)'
    BY <2>2, <2>4, <2>5, QueueingFinite
       DEF WordPerOperation, NoUnderflow, Taken, TypeOK
  <2> QED
    BY <2>3, <2>6
<1>4. CASE Pop
  <2>1. Pushing' = Pushing /\ Queueing' = Queueing
    BY <1>4 DEF Pop, producer, Pushing, Queueing
  <2>2. UNCHANGED <<finish, at, raced>> /\ wpc = "idle" /\ wpc' = "taken"
    BY <1>4 DEF Pop, producer, history
  <2>3. (OneWriter /\ FinishLoaded)'
    BY <2>1, <2>2 DEF OneWriter, FinishLoaded
  <2>4. Len(queue) \in Nat /\ Len(queue') = Len(queue) - 1
    BY <1>4 DEF Pop, TypeOK
  <2>5. (WordPerOperation /\ NoUnderflow)'
    BY <2>1, <2>2, <2>4, QueueingFinite
       DEF WordPerOperation, NoUnderflow, Taken, TypeOK
  <2> QED
    BY <2>3, <2>5
<1>5. CASE Apply
  <2>1. Pushing' = Pushing /\ Queueing' = Queueing
    BY <1>5 DEF Apply, producer, Pushing, Queueing
  <2>2. UNCHANGED <<queue, finish, at, raced>> /\ wpc = "taken"
    BY <1>5 DEF Apply, tree, producer
  <2>3. ~raced => finish > 0
    BY <2>2, QueueingFinite DEF WordPerOperation, Taken, TypeOK
  <2>4. ~raced => wpc' = "applied"
    BY <1>5, <2>3 DEF Apply
  <2>5. (OneWriter /\ FinishLoaded)'
    BY <2>1, <2>2, <2>4 DEF OneWriter, FinishLoaded
  <2>6. (WordPerOperation /\ NoUnderflow)'
    BY <2>1, <2>2, <2>4 DEF WordPerOperation, NoUnderflow, Taken
  <2> QED
    BY <2>5, <2>6
<1>6. CASE PopBack
  <2>1. Pushing' = Pushing /\ Queueing' = Queueing
    BY <1>6 DEF PopBack, producer, Pushing, Queueing
  <2>2. /\ UNCHANGED <<queue, finish, at>>
        /\ wpc = "applied" /\ wpc' = "popping" /\ wat' = finish
    BY <1>6 DEF PopBack, tree, producer
  <2>3. ~raced' => ~raced /\ Pushing = {}
    BY <1>6 DEF PopBack
  <2>4. (OneWriter /\ FinishLoaded)'
    BY <2>1, <2>2, <2>3 DEF OneWriter, FinishLoaded
  <2>5. (WordPerOperation /\ NoUnderflow)'
    BY <2>1, <2>2, <2>3 DEF WordPerOperation, NoUnderflow, Taken
  <2> QED
    BY <2>4, <2>5
<1>7. CASE PopBackEnds
  <2>1. Pushing' = Pushing /\ Queueing' = Queueing
    BY <1>7 DEF PopBackEnds, producer, Pushing, Queueing
  <2>2. UNCHANGED <<queue, at, raced>> /\ wpc = "popping"
    BY <1>7 DEF PopBackEnds, producer, history
  <2>3. ~raced => wat = finish /\ finish > 0 /\ Pushing = {}
    BY <2>2, QueueingFinite
       DEF OneWriter, FinishLoaded, WordPerOperation, Taken, TypeOK
  <2>4. ~raced => wpc' = "idle" /\ finish' = finish - 1
    BY <1>7, <2>3 DEF PopBackEnds
  <2>5. (OneWriter /\ FinishLoaded)'
    BY <2>1, <2>2, <2>3, <2>4 DEF OneWriter, FinishLoaded
  <2>6. (WordPerOperation /\ NoUnderflow)'
    BY <2>1, <2>2, <2>4, QueueingFinite
       DEF WordPerOperation, NoUnderflow, Taken, TypeOK
  <2> QED
    BY <2>5, <2>6
<1>8. CASE UNCHANGED vars
  BY <1>8 DEF vars, tree, producer, worker, history, OneWriter, FinishLoaded,
              WordPerOperation, NoUnderflow, Pushing, Queueing, Taken
<1> QED
  BY <1>1, <1>2, <1>3, <1>4, <1>5, <1>6, <1>7, <1>8 DEF Next, Invoke

LEMMA InvariantHolds == Spec => []IInv
<1>1. Init /\ TypeOK => IInv
  BY IInvInit
<1>2. IInv /\ TypeOK' /\ [Next]_vars => IInv'
  BY IInvStep
<1> QED
  BY <1>1, <1>2, TypeCorrect, PTL DEF Spec

(* Without a data race words_ holds one word per operation on its way.     *)
THEOREM WordPerOperationHolds == Spec => []WordPerOperation
  BY InvariantHolds, PTL DEF IInv

(* Without a data race invoke never calls back() or pop_back() on an empty *)
(* vector, whatever the number of threads that make requests.              *)
THEOREM NoUnderflowHolds == Spec => []NoUnderflow
  BY InvariantHolds, PTL DEF IInv

-----------------------------------------------------------------------------
(* While every request was made in a quiet state, at most one is on its    *)
(* way, and words_ holds its word only, at the bottom of the stack.        *)

AllIdle == \A p \in Producers : pc[p] = "idle"
Alone(p) == \A q \in Producers \ {p} : pc[q] = "idle"

(* The one word in words_ is that of the request r, which is not applied.  *)
HoldsWordOf(r) == 1 \in Slots /\ finish = 1 /\ cells[1] = r.word

NothingToDo == Quiet /\ finish = 0 /\ submitted = applied

InPushBack(p) ==
  /\ Alone(p) /\ pc[p] = "pushing" /\ queue = <<>> /\ wpc = "idle"
  /\ 1 \in Slots /\ finish = 0 /\ at[p] = 0 /\ cells[1] = request[p].word
  /\ submitted = applied

BetweenPushes(p) ==
  /\ Alone(p) /\ pc[p] = "queueing" /\ queue = <<>> /\ wpc = "idle"
  /\ HoldsWordOf(request[p]) /\ submitted = Append(applied, request[p])

Queued(r) == /\ AllIdle /\ queue = <<r.oper>> /\ wpc = "idle"
             /\ HoldsWordOf(r) /\ submitted = Append(applied, r)

TakenUp(r) == /\ AllIdle /\ queue = <<>> /\ wpc = "taken" /\ oper = r.oper
              /\ HoldsWordOf(r) /\ submitted = Append(applied, r)

Applied == /\ AllIdle /\ queue = <<>> /\ finish = 1 /\ submitted = applied
           /\ \/ wpc = "applied"
              \/ wpc = "popping" /\ wat = 1

Sequential ==
  \/ NothingToDo
  \/ \E p \in Producers : InPushBack(p) \/ BetweenPushes(p)
  \/ \E r \in ReadRequests : Queued(r) \/ TakenUp(r)
  \/ Applied

OneAtATime == ~crowded => Sequential

LEMMA SequentialStep ==
  ASSUME TypeOK, Sequential, ~crowded', Next
  PROVE  Sequential'
<1> USE DEF TypeOK, Alone, AllIdle, HoldsWordOf
<1>1. ASSUME NEW p \in Producers, PushBack(p)
      PROVE  Sequential'
  <2>1. Quiet
    BY <1>1 DEF PushBack
  <2>2. NothingToDo
    BY <2>1 DEF Sequential, InPushBack, BetweenPushes, Queued, TakenUp, Applied,
                Quiet
  <2>3. Cardinality(Pushing) \in Nat
    <3>1. IsFiniteSet(Pushing)
      BY AVLTreeAssumption, FS_Subset DEF Pushing
    <3> QED
      BY <3>1, FS_CardinalityType
  <2>4. 1 \in Slots
    BY <1>1, <2>3, AVLTreeAssumption DEF PushBack, Slots
  <2>5. PICK r \in Requests :
               /\ request' = [request EXCEPT ![p] = r]
               /\ cells' = [cells EXCEPT ![finish + 1] = r.word]
    BY <1>1 DEF PushBack
  <2>6. request'[p] = r /\ cells'[1] = r.word
    BY <2>2, <2>4, <2>5 DEF NothingToDo
  <2>7. InPushBack(p)'
    BY <1>1, <2>2, <2>4, <2>6
       DEF PushBack, InPushBack, NothingToDo, Quiet, worker
  <2> QED
    BY <2>7 DEF Sequential
<1>2. ASSUME NEW p \in Producers, PushBackEnds(p)
      PROVE  Sequential'
  <2>1. InPushBack(p)
    BY <1>2 DEF PushBackEnds, Sequential, NothingToDo, InPushBack, BetweenPushes,
                Queued, TakenUp, Applied, Quiet
  <2>2. finish' = 1
    BY <1>2, <2>1 DEF PushBackEnds, InPushBack
  <2>3. BetweenPushes(p)'
    BY <1>2, <2>1, <2>2 DEF PushBackEnds, InPushBack, BetweenPushes, worker
  <2> QED
    BY <2>3 DEF Sequential
<1>3. ASSUME NEW p \in Producers, PushOperation(p)
      PROVE  Sequential'
  <2>1. BetweenPushes(p)
    BY <1>3 DEF PushOperation, Sequential, NothingToDo, InPushBack,
                BetweenPushes, Queued, TakenUp, Applied, Quiet
  <2>2. PICK r \in ReadRequests : r = request[p]
    OBVIOUS
  <2>3. queue' = <<r.oper>>
    BY <1>3, <2>1, <2>2 DEF PushOperation, BetweenPushes
  <2>4. Queued(r)'
    BY <1>3, <2>1, <2>2, <2>3
       DEF PushOperation, BetweenPushes, Queued, worker, history
  <2> QED
    BY <2>4 DEF Sequential
<1>4. CASE Pop
  <2>1. PICK r \in ReadRequests : Queued(r)
    BY <1>4 DEF Pop, Sequential, NothingToDo, InPushBack, BetweenPushes,
                TakenUp, Applied, Quiet
  <2>2. queue' = <<>> /\ oper' = r.oper
    BY <1>4, <2>1 DEF Pop, Queued
  <2>3. TakenUp(r)'
    BY <1>4, <2>1, <2>2 DEF Pop, Queued, TakenUp, producer, history
  <2> QED
    BY <2>3 DEF Sequential
<1>5. CASE Apply
  <2>1. PICK r \in ReadRequests : TakenUp(r)
    BY <1>5 DEF Apply, Sequential, NothingToDo, InPushBack, BetweenPushes,
                Queued, Applied, Quiet
  <2>2. r = [oper |-> oper, word |-> Back]
    BY <2>1 DEF TakenUp, Back, ReadRequests
  <2>3. wpc' = "applied" /\ applied' = Append(applied, r)
    BY <1>5, <2>1, <2>2 DEF Apply, TakenUp
  <2>4. Applied'
    BY <1>5, <2>1, <2>3 DEF Apply, TakenUp, Applied, tree, producer
  <2> QED
    BY <2>4 DEF Sequential
<1>6. CASE PopBack
  <2>1. Applied
    BY <1>6 DEF PopBack, Sequential, NothingToDo, InPushBack, BetweenPushes,
                Queued, TakenUp, Quiet
  <2>2. Applied'
    BY <1>6, <2>1 DEF PopBack, Applied, tree, producer
  <2> QED
    BY <2>2 DEF Sequential
<1>7. CASE PopBackEnds
  <2>1. Applied
    BY <1>7 DEF PopBackEnds, Sequential, NothingToDo, InPushBack, BetweenPushes,
                Queued, TakenUp, Quiet
  <2>2. wpc' = "idle" /\ finish' = 0
    BY <1>7, <2>1 DEF PopBackEnds, Applied
  <2>3. NothingToDo'
    BY <1>7, <2>1, <2>2 DEF PopBackEnds, Applied, NothingToDo, Quiet, producer, history
  <2> QED
    BY <2>3 DEF Sequential
<1> QED
  BY <1>1, <1>2, <1>3, <1>4, <1>5, <1>6, <1>7 DEF Next, Invoke

(* Requests made one at a time are applied in the order they were made,    *)
(* each with the word it was made with.                                    *)
THEOREM InOrderHolds == Spec => []InOrder
<1>1. Init /\ TypeOK => OneAtATime
  BY DEF Init, OneAtATime, Sequential, NothingToDo, Quiet
<1>2. TypeOK /\ OneAtATime /\ [Next]_vars => OneAtATime'
  <2> SUFFICES ASSUME TypeOK, OneAtATime, [Next]_vars, ~crowded'
               PROVE  Sequential'
    BY DEF OneAtATime
  <2>1. ~crowded
    BY DEF Next, PushBack, PushBackEnds, PushOperation, Invoke, Pop, Apply,
           PopBack, PopBackEnds, vars, history, TypeOK
  <2>2. CASE Next
    BY <2>1, <2>2, SequentialStep DEF OneAtATime
  <2>3. CASE UNCHANGED vars
    BY <2>1, <2>3 DEF OneAtATime, vars, tree, producer, worker, history,
         Sequential, NothingToDo, InPushBack, BetweenPushes, Queued, TakenUp,
         Applied, Quiet, AllIdle, Alone, HoldsWordOf
  <2> QED
    BY <2>2, <2>3
<1>3. TypeOK /\ OneAtATime => InOrder
  <2> SUFFICES ASSUME TypeOK, Sequential
               PROVE  \A i \in DOMAIN applied :
                        i \in DOMAIN submitted /\ applied[i] = submitted[i]
    BY DEF OneAtATime, InOrder
  <2>1. \/ submitted = applied
        \/ \E r \in ReadRequests : submitted = Append(applied, r)
    BY DEF Sequential, NothingToDo, InPushBack, BetweenPushes, Queued, TakenUp,
           Applied, TypeOK
  <2>2. ASSUME NEW r \in ReadRequests, submitted = Append(applied, r),
               NEW i \in DOMAIN applied
        PROVE  i \in DOMAIN submitted /\ applied[i] = submitted[i]
    <3>1. Len(submitted) = Len(applied) + 1 /\ submitted[i] = applied[i]
      BY <2>2, AppendProperties DEF TypeOK
    <3> QED
      BY <3>1 DEF TypeOK
  <2> QED
    BY <2>1, <2>2
<1> QED
  BY <1>1, <1>2, <1>3, TypeCorrect, PTL DEF Spec

-----------------------------------------------------------------------------
(* Counting words: a sequence of requests that grows by one request holds  *)
(* one more occurrence of its word, and so does a stack that grows by one  *)
(* cell.                                                                   *)
One(w, v) == IF v = w THEN 1 ELSE 0

LEMMA TimesFinite ==
  ASSUME NEW s \in Seq(ReadRequests), NEW w
  PROVE  /\ IsFiniteSet({i \in DOMAIN s : s[i].word = w})
         /\ Times(w, s) \in Nat
<1>1. IsFiniteSet(DOMAIN s)
  <2>1. DOMAIN s = 1 .. Len(s) /\ Len(s) \in Nat
    OBVIOUS
  <2> QED
    BY <2>1, FS_Interval
<1>2. IsFiniteSet({i \in DOMAIN s : s[i].word = w})
  BY <1>1, FS_Subset
<1> QED
  BY <1>2, FS_CardinalityType DEF Times

LEMMA TimesAppend ==
  ASSUME NEW s \in Seq(ReadRequests), NEW r \in ReadRequests, NEW w
  PROVE  Times(w, Append(s, r)) = Times(w, s) + One(w, r.word)
<1> DEFINE T == {i \in DOMAIN s : s[i].word = w}
           U == {i \in DOMAIN Append(s, r) : Append(s, r)[i].word = w}
<1>1. /\ DOMAIN s = 1 .. Len(s) /\ Len(s) \in Nat
      /\ DOMAIN Append(s, r) = 1 .. Len(s) + 1
      /\ \A i \in 1 .. Len(s) : Append(s, r)[i] = s[i]
      /\ Append(s, r)[Len(s) + 1] = r
  BY AppendProperties
<1>2. IsFiniteSet(T) /\ Cardinality(T) \in Nat
  BY TimesFinite DEF Times
<1>3. Len(s) + 1 \notin T
  BY <1>1
<1>4. Times(w, Append(s, r)) = Cardinality(U) /\ Times(w, s) = Cardinality(T)
  BY DEF Times
<1>5. CASE r.word = w
  <2>1. U = T \cup {Len(s) + 1}
    BY <1>1, <1>5
  <2> HIDE DEF T, U
  <2>2. Cardinality(U) = Cardinality(T) + 1
    BY <1>2, <1>3, <2>1, FS_AddElement
  <2> QED
    BY <1>4, <1>5, <2>2 DEF One
<1>6. CASE r.word # w
  <2>1. U = T
    BY <1>1, <1>6
  <2> HIDE DEF T, U
  <2> QED
    BY <1>2, <1>4, <1>6, <2>1 DEF One
<1> QED
  BY <1>5, <1>6

CellsWith(w, n) == {i \in 1 .. n : cells[i] = w}

LEMMA CellsFinite ==
  ASSUME NEW n \in Nat, NEW w
  PROVE  IsFiniteSet(CellsWith(w, n)) /\ Cardinality(CellsWith(w, n)) \in Nat
<1>1. IsFiniteSet(1 .. n)
  BY FS_Interval
<1>2. IsFiniteSet(CellsWith(w, n))
  BY <1>1, FS_Subset DEF CellsWith
<1> QED
  BY <1>2, FS_CardinalityType

LEMMA CellsGrow ==
  ASSUME NEW n \in Nat, NEW w
  PROVE  Cardinality(CellsWith(w, n + 1)) =
           Cardinality(CellsWith(w, n)) + One(w, cells[n + 1])
<1>1. IsFiniteSet(CellsWith(w, n)) /\ Cardinality(CellsWith(w, n)) \in Nat
  BY CellsFinite
<1>2. n + 1 \notin CellsWith(w, n)
  BY DEF CellsWith
<1>3. CASE cells[n + 1] = w
  <2>1. CellsWith(w, n + 1) = CellsWith(w, n) \cup {n + 1}
    BY <1>3 DEF CellsWith
  <2> QED
    BY <1>1, <1>2, <1>3, <2>1, FS_AddElement DEF One
<1>4. CASE cells[n + 1] # w
  <2>1. CellsWith(w, n + 1) = CellsWith(w, n)
    BY <1>4 DEF CellsWith
  <2> QED
    BY <1>1, <1>4, <2>1 DEF One
<1> QED
  BY <1>3, <1>4

-----------------------------------------------------------------------------
(* As long as no push_back ends between back() and the end of pop_back()   *)
(* and no writes race, the words that wait are those that were submitted   *)
(* and not applied.  For that the word of a thread inside push_back lies   *)
(* just above them, and there is room for it.                              *)
Pushed == ~raced => \A p \in Pushing : /\ cells[finish + 1] = request[p].word
                                       /\ finish + 1 \in Slots

Room == /\ Len(submitted) + Cardinality(Pushing) <= MaxRequests
        /\ ~raced => finish <= Len(submitted)

Conserved == IInv /\ Pushed /\ Room /\ WordsConserved

LEMMA PushingFinite == IsFiniteSet(Pushing) /\ Cardinality(Pushing) \in Nat
<1>1. IsFiniteSet(Pushing)
  BY AVLTreeAssumption, FS_Subset DEF Pushing
<1> QED
  BY <1>1, FS_CardinalityType

(* No word waits that is not in the counted cells. *)
LEMMA WaitingCells == \A w : TimesWaiting(w) = Cardinality(CellsWith(w, Waiting))
  BY DEF TimesWaiting, CellsWith

LEMMA ConservedInit == ASSUME Init, IInv PROVE Conserved
<1>1. Pushing = {} /\ Cardinality({}) = 0
  BY FS_EmptySet DEF Init, Pushing
<1>2. Len(submitted) = 0 /\ submitted = <<>> /\ applied = <<>>
  BY DEF Init
<1>3. \A w : Times(w, submitted) = 0 /\ Times(w, applied) = 0
  <2>1. \A w : {i \in DOMAIN <<>> : (<<>>)[i].word = w} = {}
    OBVIOUS
  <2> QED
    BY <1>1, <1>2, <2>1 DEF Times
<1>4. \A w : TimesWaiting(w) = 0
  <2>1. Waiting = 0
    BY DEF Init, Waiting
  <2>2. \A w : CellsWith(w, 0) = {}
    BY DEF CellsWith
  <2> QED
    BY <1>1, <2>1, <2>2, WaitingCells
<1>5. Pushed
  BY <1>1 DEF Pushed
<1>6. Room
  BY <1>1, <1>2, AVLTreeAssumption DEF Room, Init
<1>7. WordsConserved
  BY <1>3, <1>4 DEF WordsConserved
<1> QED
  BY <1>5, <1>6, <1>7 DEF Conserved

(* A step that changes neither the words that wait nor what was submitted  *)
(* and applied conserves them.                                             *)
LEMMA SameWords ==
  ASSUME WordsConserved, raced \in BOOLEAN, raced => raced',
         intruded' = intruded, submitted' = submitted, applied' = applied,
         ~raced' => Waiting' = Waiting /\ \A i \in 1 .. Waiting : cells'[i] = cells[i]
  PROVE  WordsConserved'
<1>1. ~raced' => \A w : TimesWaiting(w)' = TimesWaiting(w)
  BY DEF TimesWaiting
<1>2. \A w : /\ Times(w, submitted)' = Times(w, submitted)
             /\ Times(w, applied)' = Times(w, applied)
  BY DEF Times
<1> QED
  BY <1>1, <1>2 DEF WordsConserved

LEMMA ConservedStep == ASSUME Conserved, IInv', [Next]_vars PROVE Conserved'
<1> USE DEF Conserved
<1>0. /\ TypeOK /\ finish \in Nat /\ Len(submitted) \in Nat /\ MaxRequests \in Nat
      /\ raced \in BOOLEAN
  BY AVLTreeAssumption DEF IInv, TypeOK
<1>1. ASSUME NEW p \in Producers, PushBack(p)
      PROVE  (Pushed /\ Room /\ WordsConserved)'
  <2>1. Pushing' = Pushing \cup {p} /\ p \notin Pushing
    BY <1>0, <1>1 DEF PushBack, Pushing, TypeOK
  <2>2. /\ UNCHANGED <<finish, wpc, submitted, applied, intruded>>
        /\ raced' = (raced \/ Pushing # {} \/ wpc = "popping")
        /\ Len(submitted) + Cardinality(Pushing) < MaxRequests
    BY <1>1 DEF PushBack, worker
  <2>3. PICK r \in Requests : /\ request' = [request EXCEPT ![p] = r]
                              /\ cells' = [cells EXCEPT ![finish + 1] = r.word]
    BY <1>1 DEF PushBack
  <2>4. Cardinality(Pushing') = Cardinality(Pushing) + 1 /\ Cardinality(Pushing) \in Nat
    BY <2>1, PushingFinite, FS_AddElement
  <2>5. Room'
    BY <1>0, <2>2, <2>4 DEF Room
  <2>6. ~raced' => finish + 1 \in Slots
    BY <1>0, <2>2, <2>4 DEF Room, Slots
  <2>7. Pushed'
    <3> SUFFICES ASSUME ~raced'
                 PROVE  cells'[finish + 1] = request'[p].word /\ finish + 1 \in Slots
      BY <2>1, <2>2 DEF Pushed
    <3> QED
      BY <1>0, <2>3, <2>6 DEF TypeOK
  <2>8. Waiting' = Waiting /\ \A i \in 1 .. Waiting : cells'[i] = cells[i]
    <3>1. Waiting' = Waiting /\ Waiting \in {finish, finish - 1}
      BY <2>2 DEF Waiting
    <3>2. \A i \in 1 .. Waiting : i # finish + 1
      BY <1>0, <3>1
    <3> QED
      BY <2>3, <3>1, <3>2 DEF TypeOK
  <2>9. WordsConserved'
    BY <1>0, <2>2, <2>8, SameWords
  <2> QED
    BY <2>5, <2>7, <2>9
<1>2. ASSUME NEW p \in Producers, PushBackEnds(p)
      PROVE  (Pushed /\ Room /\ WordsConserved)'
  <2>1. p \in Pushing /\ Pushing' = Pushing \ {p}
    BY <1>0, <1>2 DEF PushBackEnds, Pushing, TypeOK
  <2>2. /\ UNCHANGED <<cells, wpc, applied, raced>>
        /\ submitted' = Append(submitted, request[p])
        /\ intruded' = (intruded \/ wpc \in {"applied", "popping"})
    BY <1>2 DEF PushBackEnds, worker
  <2>3. ~raced => Pushing' = {} /\ at[p] = finish
    BY <2>1 DEF IInv, OneWriter, FinishLoaded
  <2>4. ~raced => finish' = finish + 1
    BY <1>2, <2>3 DEF PushBackEnds
  <2>5. request[p] \in ReadRequests /\ submitted \in Seq(ReadRequests)
    BY <1>0 DEF TypeOK
  <2>6. Len(submitted') = Len(submitted) + 1
    BY <2>2, <2>5, AppendProperties
  <2>7. Cardinality(Pushing') = Cardinality(Pushing) - 1 /\ Cardinality(Pushing) \in Nat
    BY <2>1, PushingFinite, FS_RemoveElement
  <2>8. Room'
    BY <1>0, <2>2, <2>4, <2>6, <2>7 DEF Room
  <2>9. Pushed'
    BY <2>2, <2>3 DEF Pushed
  <2>10. WordsConserved'
    <3> SUFFICES ASSUME ~raced, ~intruded', NEW w \in Words
                 PROVE  Times(w, submitted') = Times(w, applied') + TimesWaiting(w)'
      BY <2>2 DEF WordsConserved
    <3>1. ~intruded /\ Waiting = finish /\ Waiting' = finish + 1
      BY <2>2, <2>4 DEF Waiting
    <3>2. Times(w, submitted') = Times(w, submitted) + One(w, request[p].word)
      BY <2>2, <2>5, TimesAppend
    <3>3. TimesWaiting(w)' = Cardinality(CellsWith(w, finish + 1))
      BY <2>2, <3>1 DEF TimesWaiting, CellsWith
    <3>4. TimesWaiting(w) = Cardinality(CellsWith(w, finish))
      BY <3>1, WaitingCells
    <3>5. cells[finish + 1] = request[p].word
      BY <2>1 DEF Pushed
    <3>6. Cardinality(CellsWith(w, finish + 1)) =
            Cardinality(CellsWith(w, finish)) + One(w, request[p].word)
      BY <1>0, <3>5, CellsGrow
    <3>7. Times(w, submitted) = Times(w, applied) + TimesWaiting(w)
      BY <3>1 DEF WordsConserved
    <3>8. /\ Times(w, applied) \in Nat /\ Cardinality(CellsWith(w, finish)) \in Nat
          /\ One(w, request[p].word) \in Nat
      BY <1>0, TimesFinite, CellsFinite DEF TypeOK, One
    <3> QED
      BY <2>2, <3>2, <3>3, <3>4, <3>6, <3>7, <3>8
  <2> QED
    BY <2>8, <2>9, <2>10
<1>3. ASSUME NEW p \in Producers, PushOperation(p)
      PROVE  (Pushed /\ Room /\ WordsConserved)'
  <2>1. Pushing' = Pushing
    BY <1>0, <1>3 DEF PushOperation, Pushing, TypeOK
  <2>2. UNCHANGED <<cells, finish, request, wpc, submitted, applied, raced, intruded>>
    BY <1>3 DEF PushOperation, worker, history
  <2>3. (Pushed /\ Room)'
    BY <2>1, <2>2 DEF Pushed, Room
  <2>4. WordsConserved'
    BY <1>0, <2>2, SameWords DEF Waiting
  <2> QED
    BY <2>3, <2>4
<1>4. CASE Pop
  <2>1. Pushing' = Pushing /\ Waiting' = Waiting
    BY <1>4 DEF Pop, producer, Pushing, Waiting
  <2>2. UNCHANGED <<cells, finish, request, submitted, applied, raced, intruded>>
    BY <1>4 DEF Pop, producer, history
  <2>3. (Pushed /\ Room)'
    BY <2>1, <2>2 DEF Pushed, Room
  <2>4. WordsConserved'
    BY <1>0, <2>1, <2>2, SameWords
  <2> QED
    BY <2>3, <2>4
<1>5. CASE Apply
  <2>1. Pushing' = Pushing /\ wpc = "taken"
    BY <1>5 DEF Apply, producer, Pushing
  <2>2. UNCHANGED <<cells, finish, request, submitted, raced, intruded>>
    BY <1>5 DEF Apply, tree, producer
  <2>3. (Pushed /\ Room)'
    BY <2>1, <2>2 DEF Pushed, Room
  <2>4. WordsConserved'
    <3> SUFFICES ASSUME ~raced, ~intruded, NEW w \in Words
                 PROVE  Times(w, submitted) = Times(w, applied') + TimesWaiting(w)'
      BY <2>2 DEF WordsConserved
    <3>1. finish > 0
      BY <1>0, <2>1, QueueingFinite DEF IInv, WordPerOperation, Taken, TypeOK
    <3>2. PICK n \in Nat : finish = n + 1
      <4>1. finish - 1 \in Nat /\ finish = (finish - 1) + 1
        BY <1>0, <3>1
      <4> QED
        BY <4>1
    <3>3. finish \in Slots
      BY <1>0, <3>1, PushingFinite DEF Room, Slots
    <3>4. /\ applied' = Append(applied, [oper |-> oper, word |-> cells[finish]])
          /\ wpc' = "applied"
      BY <1>0, <1>5, <3>1, <3>3 DEF Apply, Back
    <3>5. [oper |-> oper, word |-> cells[finish]] \in ReadRequests
      BY <1>0, <3>3 DEF ReadRequests, TypeOK
    <3>6. Times(w, applied') = Times(w, applied) + One(w, cells[finish])
      BY <1>0, <3>4, <3>5, TimesAppend DEF TypeOK
    <3>7. Waiting = finish /\ Waiting' = n
      BY <2>1, <2>2, <3>2, <3>4 DEF Waiting
    <3>8. TimesWaiting(w)' = Cardinality(CellsWith(w, n))
      BY <2>2, <3>7 DEF TimesWaiting, CellsWith
    <3>9. TimesWaiting(w) = Cardinality(CellsWith(w, n)) + One(w, cells[finish])
      BY <3>2, <3>7, WaitingCells, CellsGrow
    <3>10. Times(w, submitted) = Times(w, applied) + TimesWaiting(w)
      BY DEF WordsConserved
    <3>11. /\ Times(w, applied) \in Nat /\ Cardinality(CellsWith(w, n)) \in Nat
           /\ One(w, cells[finish]) \in Nat
      BY <1>0, TimesFinite, CellsFinite DEF TypeOK, One
    <3> QED
      BY <3>6, <3>8, <3>9, <3>10, <3>11
  <2> QED
    BY <2>3, <2>4
<1>6. CASE PopBack
  <2>1. Pushing' = Pushing /\ Waiting' = Waiting
    BY <1>6 DEF PopBack, tree, producer, Pushing, Waiting
  <2>2. /\ UNCHANGED <<cells, finish, request, submitted, applied, intruded>>
        /\ raced => raced'
    BY <1>6 DEF PopBack, tree, producer
  <2>3. (Pushed /\ Room)'
    BY <1>0, <2>1, <2>2 DEF Pushed, Room
  <2>4. WordsConserved'
    BY <1>0, <2>1, <2>2, SameWords
  <2> QED
    BY <2>3, <2>4
<1>7. CASE PopBackEnds
  <2>1. Pushing' = Pushing /\ wpc = "popping"
    BY <1>7 DEF PopBackEnds, producer, Pushing
  <2>2. UNCHANGED <<cells, request, submitted, applied, raced, intruded>>
    BY <1>7 DEF PopBackEnds, producer, history
  <2>3. ~raced => wat = finish /\ Pushing = {}
    BY <2>1 DEF IInv, OneWriter, FinishLoaded
  <2>4. ~raced => wpc' = "idle" /\ finish' = finish - 1
    BY <1>7, <2>3 DEF PopBackEnds
  <2>5. (Pushed /\ Room)'
    BY <1>0, <2>1, <2>2, <2>3, <2>4 DEF Pushed, Room
  <2>6. ~raced => Waiting' = Waiting
    BY <2>1, <2>4 DEF Waiting
  <2>7. WordsConserved'
    BY <1>0, <2>2, <2>6, SameWords
  <2> QED
    BY <2>5, <2>7
<1>8. CASE UNCHANGED vars
  <2>1. UNCHANGED <<tree, pc, request, wpc, submitted, applied, raced, intruded>>
    BY <1>8 DEF vars, producer, worker, history
  <2>2. (Pushed /\ Room)'
    BY <2>1 DEF Pushed, Room, Pushing, tree
  <2>3. WordsConserved'
    BY <1>0, <2>1, SameWords DEF Waiting, tree
  <2> QED
    BY <2>2, <2>3
<1> QED
  BY <1>1, <1>2, <1>3, <1>4, <1>5, <1>6, <1>7, <1>8 DEF Next, Invoke

LEMMA ConservedHolds == Spec => []Conserved
<1>1. Init /\ IInv => Conserved
  BY ConservedInit
<1>2. Conserved /\ IInv' /\ [Next]_vars => Conserved'
  BY ConservedStep
<1> QED
  BY <1>1, <1>2, InvariantHolds, PTL DEF Spec

(* Without a data race, and without a push_back between back() and         *)
(* pop_back(), every submitted word is applied once or still waits.        *)
THEOREM WordsConservedHolds == Spec => []WordsConserved
  BY ConservedHolds, PTL DEF Conserved
=============================================================================
