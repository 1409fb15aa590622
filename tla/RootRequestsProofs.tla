-------------------------- MODULE RootRequestsProofs --------------------------
(***************************************************************************)
(* Proofs about RootRequests, for any finite set of clients, any messages  *)
(* and any number of them: the queue of the tree is used as in AVLTree, so *)
(* that what was proved of it holds here, and as long as no two threads    *)
(* use the parser at once each of them serves its own client, and every    *)
(* word arrives once.                                                      *)
(***************************************************************************)
EXTENDS RootRequests, AVLTreeProofs

(* Every step is one of AVLTree, or none. *)
LEMMA ImplementsAVLTree == SpecRequests => Spec
<1>1. InitRequests => Init
  BY DEF InitRequests
<1>2. [NextRequests]_allVars => [Next]_vars
  <2> SUFFICES ASSUME [NextRequests]_allVars PROVE [Next]_vars
    OBVIOUS
  <2>1. ASSUME NEW c \in Clients, Write(c) \/ ReadReply(c) \/ Leave(c)
        PROVE  UNCHANGED vars
    BY <2>1 DEF Write, ReadReply, Leave
  <2>2. ASSUME NEW c \in Clients, Handle(c)
        PROVE  [Next]_vars
    <3>1. ASSUME ReadMessage(c) \/ NewObject(c) \/ PackMsg(c) \/ PackMsgEnds(c)
                 \/ GetMessage(c) \/ Reply(c)
          PROVE  UNCHANGED vars
      BY <3>1 DEF ReadMessage, NewObject, PackMsg, PackMsgEnds, GetMessage, Reply,
                  NullPointer
    <3>2. CASE Serve(c)
      BY <3>2 DEF Serve, Next, Clients
    <3>3. CASE InTree(PushBackEnds(c)) \/ InTree(PushOperation(c))
      BY <3>3 DEF InTree, Next, Clients
    <3> QED
      BY <2>2, <3>1, <3>2, <3>3 DEF Handle
  <2>3. CASE InTree(Invoke)
    BY <2>3 DEF InTree, Next
  <2>4. CASE UNCHANGED allVars
    BY <2>4 DEF allVars
  <2> QED
    BY <2>1, <2>2, <2>3, <2>4 DEF NextRequests
<1> QED
  BY <1>1, <1>2, PTL DEF SpecRequests, Spec

(* invoke finds a word for every operation here, too, as long as no two    *)
(* threads write words_ at once.                                           *)
THEOREM NoUnderflowHere == SpecRequests => []NoUnderflow
  BY ImplementsAVLTree, NoUnderflowHolds, PTL

-----------------------------------------------------------------------------
(* A thread holds an object only between packMsg and msg->word(). *)
Using == {"parsing", "parsed", "serving"}

Holding == \A c \in Clients : hpc[c] \notin Using => held[c] = Null

(* There is an address left for the object of a thread in resetMsg. *)
LEMMA FreeObject ==
  ASSUME TypeOKRequests, Holding, NEW c \in Clients, hpc[c] = "reset"
  PROVE  \E o \in Objects : o \notin {message} \cup {held[d] : d \in Clients}
<1> DEFINE T == {message} \cup {held[d] : d \in Clients \ {c}}
           g == [d \in Clients |-> IF d = c THEN message ELSE held[d]]
<1>1. g \in Surjection(Clients, T)
  <2>1. g \in [Clients -> T]
    OBVIOUS
  <2>2. \A t \in T : \E d \in Clients : g[d] = t
    OBVIOUS
  <2> QED
    BY <2>1, <2>2 DEF Surjection
<1>2. IsFiniteSet(Clients)
  BY AVLTreeAssumption DEF Clients
<1>3. IsFiniteSet(T) /\ Cardinality(T) <= Cardinality(Clients)
  BY <1>1, <1>2, FS_Surjection
<1>4. Cardinality(Clients) \in Nat /\ Cardinality(T) \in Nat
  BY <1>2, <1>3, FS_CardinalityType
<1>5. IsFiniteSet(Objects) /\ Cardinality(Objects) = Cardinality(Clients) + 1
  <2> DEFINE n == Cardinality(Clients) + 1
  <2>1. n \in Int /\ 1 \in Int /\ n >= 1
    BY <1>4
  <2>2. Objects = 1 .. n
    BY DEF Objects
  <2> HIDE DEF n
  <2>3. IsFiniteSet(1 .. n) /\ Cardinality(1 .. n) = IF 1 > n THEN 0 ELSE n - 1 + 1
    BY <2>1, FS_Interval
  <2>4. Cardinality(1 .. n) = n
    BY <2>1, <2>3
  <2> QED
    BY <2>2, <2>3, <2>4 DEF n
<1>6. ~(Objects \subseteq T)
  <2> HIDE DEF T
  <2> SUFFICES ASSUME Objects \subseteq T PROVE FALSE
    OBVIOUS
  <2>1. Cardinality(Objects) <= Cardinality(T)
    BY <1>3, FS_Subset
  <2> QED
    BY <1>3, <1>4, <1>5, <2>1
<1>7. PICK o \in Objects : o \notin T
  BY <1>6
<1>8. held[c] = Null /\ o # Null
  BY <1>4 DEF Holding, Using, Objects, Null
<1> QED
  BY <1>7, <1>8

LEMMA KeptType ==
  ASSUME NEW h \in [Objects -> AnyMessage]
  PROVE  Kept(h) \in [Objects -> AnyMessage]
<1>1. Blank \in AnyMessage
  BY RootRequestsAssumption DEF Blank, AnyMessage, Types
<1> QED
  BY <1>1 DEF Kept

LEMMA TypeInit == InitRequests /\ TypeOK => TypeOKRequests /\ Holding
<1> SUFFICES ASSUME InitRequests, TypeOK PROVE TypeOKRequests /\ Holding
  OBVIOUS
<1>1. Blank \in AnyMessage
  BY RootRequestsAssumption DEF Blank, AnyMessage, Types
<1>2. asked \in Seq([oper : Operations, word : Words])
  BY DEF InitRequests
<1>3. message \in Objects
  <2>1. Cardinality(Clients) \in Nat
    BY AVLTreeAssumption, FS_CardinalityType DEF Clients
  <2> QED
    BY <2>1 DEF InitRequests, Objects
<1> QED
  BY <1>1, <1>2, <1>3 DEF InitRequests, TypeOKRequests, Holding

LEMMA TypeStepRequests ==
  ASSUME TypeOKRequests, Holding, TypeOK', [NextRequests]_allVars
  PROVE  (TypeOKRequests /\ Holding)'
<1> DEFINE States == {"reading", "reset", "fresh", "parsing", "parsed", "serving",
                      "calling", "replying"}
<1> USE DEF TypeOKRequests, Holding, Using
<1>0. Blank \in AnyMessage
  BY RootRequestsAssumption DEF Blank, AnyMessage, Types
<1>1. ASSUME NEW c \in Clients, Write(c)
      PROVE  (TypeOKRequests /\ Holding)'
  <2>1. PICK m \in Messages[c] : /\ sending' = [sending EXCEPT ![c] = m]
                                 /\ asked' = Append(asked, m)
    BY <1>1 DEF Write
  <2>2. m \in [oper : Operations, word : Words]
    BY RootRequestsAssumption DEF Clients
  <2>3. asked' \in Seq([oper : Operations, word : Words])
    BY <2>1, <2>2, AppendProperties
  <2>4. sending' \in [Clients -> [oper : Operations, word : Words] \cup {Blank}]
    BY <2>1, <2>2
  <2>5. UNCHANGED <<gone, toClient, rootVars>> /\ toRoot' = toRoot \cup {c}
    BY <1>1 DEF Write
  <2> QED
    BY <2>3, <2>4, <2>5 DEF rootVars, handler, parser
<1>2. ASSUME NEW c \in Clients, ReadReply(c) \/ Leave(c)
      PROVE  (TypeOKRequests /\ Holding)'
  <2>1. UNCHANGED <<toRoot, rootVars, asked>>
    BY <1>2 DEF ReadReply, Leave, network
  <2>2. sending' \in [Clients -> [oper : Operations, word : Words] \cup {Blank}]
    BY <1>2 DEF ReadReply, Leave
  <2>3. gone' \subseteq Clients /\ toClient' \subseteq Clients
    BY <1>2 DEF ReadReply, Leave, network
  <2> QED
    BY <2>1, <2>2, <2>3 DEF rootVars, handler, parser
<1>3. ASSUME NEW c \in Clients, ReadMessage(c)
      PROVE  (TypeOKRequests /\ Holding)'
  <2>1. heap' \in [Objects -> AnyMessage]
    BY <1>3, KeptType DEF ReadMessage
  <2>2. (IF c \in toRoot THEN sending[c] ELSE Blank) \in AnyMessage
    BY <1>0 DEF AnyMessage, Types
  <2>3. body' \in [Clients -> AnyMessage]
    BY <1>3, <2>2 DEF ReadMessage
  <2>4. UNCHANGED <<sender, toClient, held, crashed, asked>>
    BY <1>3 DEF ReadMessage
  <2>5. hpc' = [hpc EXCEPT ![c] = "reset"] /\ message' = Null /\ toRoot' \subseteq Clients
        /\ overlapped' \in BOOLEAN
    BY <1>3 DEF ReadMessage
  <2>6. hpc' \in [Clients -> States] /\ Holding'
    <3>1. hpc[c] \notin Using
      BY <1>3 DEF ReadMessage
    <3> QED
      BY <2>4, <2>5, <3>1
  <2> QED
    BY <2>1, <2>3, <2>4, <2>5, <2>6 DEF sender
<1>4. ASSUME NEW c \in Clients, NewObject(c)
      PROVE  (TypeOKRequests /\ Holding)'
  <2>1. heap' \in [Objects -> AnyMessage]
    BY <1>4, KeptType DEF NewObject
  <2>2. message' \in Objects
    BY <1>4, FreeObject DEF NewObject
  <2>3. UNCHANGED <<sender, network, body, held, crashed, overlapped, asked>>
        /\ hpc' = [hpc EXCEPT ![c] = "fresh"] /\ hpc[c] = "reset"
    BY <1>4 DEF NewObject
  <2> QED
    BY <2>1, <2>2, <2>3 DEF sender, network
<1>5. ASSUME NEW c \in Clients, NullPointer
      PROVE  (TypeOKRequests /\ Holding)'
  BY <1>5 DEF NullPointer, sender, network, handler, parser
<1>6. ASSUME NEW c \in Clients, Release(c), hpc[c] \in Using,
             hpc' = [hpc EXCEPT ![c] = "replying"] \/ hpc' = [hpc EXCEPT ![c] = "calling"],
             UNCHANGED <<sender, network, crashed, overlapped, asked>>
      PROVE  (TypeOKRequests /\ Holding)'
  <2>1. heap' \in [Objects -> AnyMessage]
    BY <1>6, KeptType DEF Release
  <2>2. body' \in [Clients -> AnyMessage] /\ message' = message
        /\ held' = [held EXCEPT ![c] = Null]
    BY <1>0, <1>6 DEF Release
  <2>3. hpc' \in [Clients -> States] /\ Holding'
    BY <1>6, <2>2
  <2> QED
    BY <1>6, <2>1, <2>2, <2>3 DEF sender, network
<1>7. ASSUME NEW c \in Clients, PackMsg(c)
      PROVE  (TypeOKRequests /\ Holding)'
  <2>1. CASE message = Null
    BY <1>5, <1>7, <2>1 DEF PackMsg
  <2>2. CASE message # Null
    <3>1. /\ heap' = [heap EXCEPT ![message] = Blank]
          /\ held' = [held EXCEPT ![c] = message]
          /\ hpc' = [hpc EXCEPT ![c] = "parsing"]
          /\ UNCHANGED <<sender, network, body, message, crashed, overlapped, asked>>
      BY <1>7, <2>2 DEF PackMsg
    <3>2. heap' \in [Objects -> AnyMessage]
      BY <1>0, <3>1
    <3> QED
      BY <3>1, <3>2 DEF sender, network
  <2> QED
    BY <2>1, <2>2
<1>8. ASSUME NEW c \in Clients, PackMsgEnds(c)
      PROVE  (TypeOKRequests /\ Holding)'
  <2>1. CASE body[c] = Blank
    BY <1>6, <1>8, <2>1 DEF PackMsgEnds
  <2>2. CASE body[c] # Blank
    BY <1>8, <2>2 DEF PackMsgEnds, sender, network
  <2> QED
    BY <2>1, <2>2
<1>9. ASSUME NEW c \in Clients, GetMessage(c)
      PROVE  (TypeOKRequests /\ Holding)'
  <2>1. CASE message = Null
    BY <1>5, <1>9, <2>1 DEF GetMessage
  <2>2. CASE message # Null /\ heap[message].oper = "HEARTBEAT"
    BY <1>6, <1>9, <2>2 DEF GetMessage
  <2>3. CASE message # Null /\ heap[message].oper # "HEARTBEAT"
    <3>1. /\ held' = [held EXCEPT ![c] = message] /\ UNCHANGED message
          /\ heap' = Kept(heap)
          /\ body' = [body EXCEPT ![c] = [oper |-> heap[message].oper, word |-> @.word]]
          /\ hpc' = [hpc EXCEPT ![c] = "serving"]
          /\ UNCHANGED <<sender, network, crashed, overlapped, asked>>
      BY <1>9, <2>3 DEF GetMessage
    <3>2. heap' \in [Objects -> AnyMessage]
      BY <3>1, KeptType
    <3>3. message \in Objects
      BY <2>3
    <3>4. heap[message].oper \in Types
      BY <3>3 DEF AnyMessage
    <3>5. [oper |-> heap[message].oper, word |-> body[c].word] \in AnyMessage
      BY <3>4 DEF AnyMessage
    <3>6. body' \in [Clients -> AnyMessage]
      BY <3>1, <3>5
    <3> QED
      BY <3>1, <3>2, <3>6 DEF sender, network
  <2> QED
    BY <2>1, <2>2, <2>3
<1>10. ASSUME NEW c \in Clients, Serve(c)
       PROVE  (TypeOKRequests /\ Holding)'
  BY <1>6, <1>10 DEF Serve
<1>11. ASSUME NEW c \in Clients, Reply(c)
       PROVE  (TypeOKRequests /\ Holding)'
  <2>1. /\ UNCHANGED <<sender, toRoot, body, held, parser, crashed, overlapped, asked>>
        /\ toClient' \subseteq Clients
        /\ hpc' = [hpc EXCEPT ![c] = "reading"] /\ hpc[c] \notin Using
    BY <1>11 DEF Reply
  <2> QED
    BY <2>1 DEF sender, parser
<1>12. ASSUME UNCHANGED <<sender, network, rootVars, asked>>
       PROVE  (TypeOKRequests /\ Holding)'
  BY <1>12 DEF sender, network, rootVars, handler, parser
<1>13. ASSUME NEW c \in Clients, Handle(c)
       PROVE  (TypeOKRequests /\ Holding)'
  BY <1>3, <1>4, <1>7, <1>8, <1>9, <1>10, <1>11, <1>12, <1>13 DEF Handle, InTree
<1> QED
  BY <1>1, <1>2, <1>12, <1>13 DEF NextRequests, InTree, allVars
LEMMA TypeInvariantRequests == SpecRequests => [](TypeOKRequests /\ Holding)
<1>1. SpecRequests => []TypeOK
  BY ImplementsAVLTree, TypeCorrect, PTL
<1> QED
  BY <1>1, TypeInit, TypeStepRequests, PTL DEF SpecRequests

(* The variables of clients, connections and root keep their types.        *)
THEOREM TypeCorrectRequests == SpecRequests => []TypeOKRequests
  BY TypeInvariantRequests, PTL

-----------------------------------------------------------------------------
(* A client and its thread take turns: a message is in one place at most,  *)
(* and as long as it is anywhere the client waits.                         *)
Turns ==
  \A c \in Clients \ gone :
    /\ c \in toRoot \/ c \in toClient \/ hpc[c] # "reading" => sending[c] # Blank
    /\ ~(c \in toRoot /\ c \in toClient)
    /\ hpc[c] # "reading" => c \notin toRoot \cup toClient

(* What the one thread that uses the parser finds there. *)
Exclusive ==
  /\ \A c, d \in Parsing : c = d
  /\ \A c \in Clients :
       /\ hpc[c] \in {"fresh"} \cup Using => message # Null
       /\ hpc[c] \in Using => held[c] = message
       /\ hpc[c] \in {"parsed", "serving"} => heap[message] = body[c] /\ body[c] # Blank
       /\ c \in Parsing => body[c] \in {Blank, sending[c]}
       /\ hpc[c] = "calling" => request[c] = sending[c]
  /\ ~crashed

OwnInv == Turns /\ (~overlapped => Exclusive)

LEMMA OwnInit == InitRequests => OwnInv
  BY DEF InitRequests, OwnInv, Turns, Exclusive, Parsing, Using

LEMMA TurnsStep ==
  ASSUME TypeOKRequests, Turns, [NextRequests]_allVars
  PROVE  Turns'
<1> USE DEF TypeOKRequests, Turns
<1>1. ASSUME NEW c \in Clients, Write(c)
      PROVE  Turns'
  <2>1. PICK m \in Messages[c] : sending' = [sending EXCEPT ![c] = m]
    BY <1>1 DEF Write
  <2>2. m # Blank
    BY RootRequestsAssumption DEF Clients, Blank, Operations
  <2> QED
    BY <1>1, <2>1, <2>2 DEF Write, rootVars, handler
<1>2. ASSUME NEW c \in Clients, ReadReply(c) \/ Leave(c)
      PROVE  Turns'
  BY <1>2 DEF ReadReply, Leave, network, rootVars, handler
<1>3. ASSUME NEW c \in Clients, ReadMessage(c)
      PROVE  Turns'
  BY <1>3 DEF ReadMessage, sender
<1>4. ASSUME NEW c \in Clients, UNCHANGED <<sender, network>>, hpc[c] # "reading",
             hpc' = hpc \/ \E s : hpc' = [hpc EXCEPT ![c] = s]
      PROVE  Turns'
  BY <1>4 DEF sender, network
<1>5. ASSUME NEW c \in Clients,
             NewObject(c) \/ PackMsg(c) \/ PackMsgEnds(c) \/ GetMessage(c) \/ Serve(c)
      PROVE  Turns'
  <2>1. UNCHANGED <<sender, network>> /\ hpc[c] # "reading"
    BY <1>5 DEF NewObject, PackMsg, PackMsgEnds, GetMessage, Serve, NullPointer
  <2>2. hpc' = hpc \/ \E s : hpc' = [hpc EXCEPT ![c] = s]
    BY <1>5 DEF NewObject, PackMsg, PackMsgEnds, GetMessage, Serve, NullPointer, handler
  <2> QED
    BY <1>4, <2>1, <2>2
<1>6. ASSUME NEW c \in Clients, Reply(c)
      PROVE  Turns'
  BY <1>6 DEF Reply, sender
<1>7. ASSUME UNCHANGED <<sender, network, rootVars, asked>>
      PROVE  Turns'
  BY <1>7 DEF sender, network, rootVars, handler
<1> QED
  BY <1>1, <1>2, <1>3, <1>5, <1>6, <1>7 DEF NextRequests, Handle, InTree, allVars

(* Steps that neither use the parser nor change what a thread serves. *)
LEMMA ExclusiveKept ==
  ASSUME Exclusive, UNCHANGED <<body, held, message, heap, crashed>>,
         \A c \in Clients : /\ hpc'[c] = hpc[c] \/ hpc'[c] = "reading"
                            /\ hpc'[c] # "reading" => sending'[c] = sending[c]
                            /\ hpc'[c] = "calling" => request'[c] = request[c]
  PROVE  Exclusive'
  BY DEF Exclusive, Parsing, Using

LEMMA ExclusiveStep ==
  ASSUME TypeOKRequests, Holding, Turns, ~overlapped => Exclusive,
         ~overlapped', [NextRequests]_allVars
  PROVE  Exclusive'
<1>0. Exclusive
  <2>1. overlapped => overlapped'
    BY DEF NextRequests, Write, ReadReply, Leave, Handle, ReadMessage, NewObject,
           PackMsg, PackMsgEnds, GetMessage, Serve, Reply, InTree, NullPointer,
           allVars, rootVars
  <2> QED
    BY <2>1
<1> DEFINE States == {"reading", "reset", "fresh", "parsing", "parsed", "serving",
                      "calling", "replying"}
<1>t. /\ hpc \in [Clients -> States] /\ body \in [Clients -> AnyMessage]
      /\ held \in [Clients -> Objects \cup {Null}] /\ message \in Objects \cup {Null}
      /\ heap \in [Objects -> AnyMessage]
      /\ request \in [Clients -> ReadRequests]
      /\ DOMAIN sending = Clients
      /\ Null \notin Objects
  BY DEF TypeOKRequests, TypeOK, Clients, Null, Objects
<1> USE <1>t
<1>1. ASSUME NEW c \in Clients, Write(c) \/ ReadReply(c) \/ Leave(c)
      PROVE  Exclusive'
  <2>1. UNCHANGED <<vars, rootVars>>
    BY <1>1 DEF Write, ReadReply, Leave
  <2>2. \A d \in Clients : hpc[d] # "reading" => sending'[d] = sending[d]
    BY <1>1 DEF Write, ReadReply, Leave, Turns
  <2> QED
    BY <1>0, <2>1, <2>2, ExclusiveKept DEF rootVars, handler, parser, vars, producer
<1>2. ASSUME NEW c \in Clients, ReadMessage(c)
      PROVE  Exclusive'
  <2>1. Parsing = {}
    BY <1>2 DEF ReadMessage
  <2>2. /\ hpc' = [hpc EXCEPT ![c] = "reset"]
        /\ body' = [body EXCEPT ![c] = IF c \in toRoot THEN sending[c] ELSE Blank]
        /\ UNCHANGED <<sending, request, crashed>>
    BY <1>2 DEF ReadMessage, sender, vars, producer
  <2> QED
    BY <1>0, <2>1, <2>2 DEF Exclusive, Parsing, Using
<1>3. ASSUME NEW c \in Clients, NewObject(c)
      PROVE  Exclusive'
  <2>1. /\ hpc[c] = "reset" /\ hpc' = [hpc EXCEPT ![c] = "fresh"]
        /\ UNCHANGED <<sending, request, body, held, crashed>>
    BY <1>3 DEF NewObject, sender, vars, producer
  <2>2. message' # Null
    <3>1. \E o \in Objects : o \notin {message} \cup {held[d] : d \in Clients}
      BY <2>1, FreeObject
    <3> QED
      BY <1>3, <3>1 DEF NewObject
  <2> QED
    BY <1>0, <2>1, <2>2 DEF Exclusive, Parsing, Using
<1>4. ASSUME NEW c \in Clients, PackMsg(c)
      PROVE  Exclusive'
  <2>1. message # Null
    BY <1>0, <1>4 DEF PackMsg, Exclusive
  <2>2. /\ hpc[c] = "fresh" /\ hpc' = [hpc EXCEPT ![c] = "parsing"]
        /\ held' = [held EXCEPT ![c] = message]
        /\ UNCHANGED <<sending, request, body, message, crashed>>
    BY <1>4, <2>1 DEF PackMsg, sender, vars, producer
  <2> QED
    BY <1>0, <2>1, <2>2 DEF Exclusive, Parsing, Using
<1>5. ASSUME NEW c \in Clients, PackMsgEnds(c)
      PROVE  Exclusive'
  <2>1. hpc[c] = "parsing" /\ UNCHANGED <<sending, request, crashed, message>>
    BY <1>5 DEF PackMsgEnds, Release, sender, vars, producer
  <2>2. CASE body[c] = Blank
    BY <1>0, <1>5, <2>1, <2>2 DEF PackMsgEnds, Release, Exclusive, Parsing, Using
  <2>3. CASE body[c] # Blank
    <3>1. /\ hpc' = [hpc EXCEPT ![c] = "parsed"] /\ UNCHANGED <<body, held>>
          /\ heap' = [heap EXCEPT ![held[c]] = body[c]]
      BY <1>5, <2>3 DEF PackMsgEnds
    <3>2. held[c] = message /\ message \in Objects
      BY <1>0, <2>1 DEF Exclusive, Using
    <3>3. heap'[message'] = body'[c]
      BY <2>1, <3>1, <3>2
    <3> QED
      BY <1>0, <2>1, <2>3, <3>1, <3>2, <3>3 DEF Exclusive, Parsing, Using
  <2> QED
    BY <2>2, <2>3
<1>6. ASSUME NEW c \in Clients, GetMessage(c)
      PROVE  Exclusive'
  <2>1. /\ hpc[c] = "parsed" /\ message \in Objects /\ held[c] = message
        /\ heap[message] = body[c] /\ body[c] # Blank
    BY <1>0, <1>6 DEF GetMessage, Exclusive, Using
  <2>2. UNCHANGED <<sending, request, crashed, message>>
    BY <1>6, <2>1 DEF GetMessage, Release, sender, vars, producer
  <2>3. CASE heap[message].oper = "HEARTBEAT"
    <3>1. /\ hpc' = [hpc EXCEPT ![c] = "replying"]
          /\ body' = [body EXCEPT ![c] = Blank]
          /\ held' = [held EXCEPT ![c] = Null]
      BY <1>6, <2>1, <2>3 DEF GetMessage, Release
    <3> QED
      BY <1>0, <2>1, <2>2, <3>1 DEF Exclusive, Parsing, Using
  <2>4. CASE heap[message].oper # "HEARTBEAT"
    <3>1. /\ hpc' = [hpc EXCEPT ![c] = "serving"]
          /\ held' = [held EXCEPT ![c] = message]
          /\ heap' = Kept(heap)
          /\ body' = [body EXCEPT ![c] = [oper |-> heap[message].oper, word |-> @.word]]
      BY <1>6, <2>1, <2>4 DEF GetMessage
    <3>2. [oper |-> body[c].oper, word |-> body[c].word] = body[c]
      BY DEF AnyMessage
    <3>3. body' = body
      BY <2>1, <3>1, <3>2
    <3>4. heap'[message'] = body'[c]
      BY <2>1, <2>2, <3>1, <3>3 DEF Kept
    <3> QED
      BY <1>0, <2>1, <2>2, <3>1, <3>3, <3>4 DEF Exclusive, Parsing, Using
  <2> QED
    BY <2>3, <2>4
<1>7. ASSUME NEW c \in Clients, Serve(c)
      PROVE  Exclusive'
  <2>1. /\ hpc[c] = "serving" /\ hpc' = [hpc EXCEPT ![c] = "calling"]
        /\ request'[c] = [oper |-> body[c].oper, word |-> heap[held[c]].word]
        /\ body' = [body EXCEPT ![c] = Blank] /\ held' = [held EXCEPT ![c] = Null]
        /\ UNCHANGED <<sending, crashed, message>>
    BY <1>7 DEF Serve, Release, sender
  <2>2. /\ heap[held[c]] = body[c] /\ body[c] = sending[c]
    BY <1>0, <2>1 DEF Exclusive, Using, Parsing
  <2>3. request'[c] = sending'[c]
    <3>1. [oper |-> body[c].oper, word |-> body[c].word] = body[c]
      BY DEF AnyMessage
    <3> QED
      BY <2>1, <2>2, <3>1
  <2>4. \A d \in Clients \ {c} : request'[d] = request[d]
    BY <1>7 DEF Serve, PushBack, Clients
  <2> QED
    BY <1>0, <2>1, <2>3, <2>4 DEF Exclusive, Parsing, Using
<1>8. ASSUME NEW c \in Clients, Reply(c)
      PROVE  Exclusive'
  BY <1>0, <1>8, ExclusiveKept DEF Reply, sender, parser, vars, producer
<1>9. ASSUME UNCHANGED <<sender, network, rootVars, asked>>, UNCHANGED request
      PROVE  Exclusive'
  BY <1>0, <1>9, ExclusiveKept DEF sender, rootVars, handler, parser
<1>10. ASSUME NEW c \in Clients, InTree(PushBackEnds(c)) \/ InTree(PushOperation(c))
       PROVE  Exclusive'
  BY <1>9, <1>10 DEF InTree, PushBackEnds, PushOperation
<1>11. CASE InTree(Invoke)
  BY <1>9, <1>11 DEF InTree, Invoke, Pop, Apply, PopBack, PopBackEnds, producer
<1>12. CASE UNCHANGED allVars
  BY <1>9, <1>12 DEF allVars, vars, producer
<1> QED
  BY <1>1, <1>2, <1>3, <1>4, <1>5, <1>6, <1>7, <1>8, <1>10, <1>11, <1>12
  DEF NextRequests, Handle

LEMMA OwnInvHolds == SpecRequests => []OwnInv
<1>1. ASSUME TypeOKRequests, Holding, OwnInv, [NextRequests]_allVars
      PROVE  OwnInv'
  BY <1>1, TurnsStep, ExclusiveStep DEF OwnInv
<1> QED
  BY <1>1, TypeInvariantRequests, OwnInit, PTL DEF SpecRequests

(* A thread asks the tree for what its own client waits for, as long as no *)
(* two threads use the parser at once.                                     *)
THEOREM OwnRequestHolds == SpecRequests => []OwnRequest
<1>1. OwnInv => OwnRequest
  BY DEF OwnInv, Exclusive, OwnRequest
<1> QED
  BY <1>1, OwnInvHolds, PTL

(* The root does not run into the null pointer of resetMsg, as long as no  *)
(* two threads use the parser at once.                                     *)
THEOREM RootSurvivesHolds == SpecRequests => []RootSurvives
<1>1. OwnInv => RootSurvives
  BY DEF OwnInv, Exclusive, RootSurvives
<1> QED
  BY <1>1, OwnInvHolds, PTL

-----------------------------------------------------------------------------
(* From the clients to the end of push_back no word is lost or doubled.    *)
(* What Turns says of the clients that are there is needed for those that  *)
(* left, too: a message that was not yet read belongs to a client that     *)
(* waits, and its thread is not at work; and a thread is inside insert or  *)
(* remove only when it calls them.                                         *)
Settled ==
  \A c \in Clients :
    /\ c \in toRoot => sending[c] # Blank /\ hpc[c] = "reading"
    /\ pc[c] # "idle" => hpc[c] = "calling"

UnderWayWith(w) == {c \in UnderWay : sending[c].word = w}

Submitted ==
  ~overlapped => \A w : Times(w, asked) = Cardinality(UnderWayWith(w)) + Times(w, submitted)

Arrives == Settled /\ Submitted

LEMMA UnderWayFinite ==
  \A w : IsFiniteSet(UnderWayWith(w)) /\ Cardinality(UnderWayWith(w)) \in Nat
<1> TAKE w
<1>1. IsFiniteSet(UnderWayWith(w))
  BY AVLTreeAssumption, FS_Subset DEF UnderWayWith, UnderWay, Clients
<1> QED
  BY <1>1, FS_CardinalityType

LEMMA GetsUnderWay ==
  ASSUME NEW c, c \notin UnderWay, UnderWay' = UnderWay \cup {c},
         \A d \in UnderWay : sending'[d] = sending[d], NEW w
  PROVE  Cardinality(UnderWayWith(w)') =
           Cardinality(UnderWayWith(w)) + One(w, sending'[c].word)
<1>1. c \notin UnderWayWith(w)
  BY DEF UnderWayWith
<1>2. CASE sending'[c].word = w
  <2>1. UnderWayWith(w)' = UnderWayWith(w) \cup {c}
    BY <1>2 DEF UnderWayWith
  <2> QED
    BY <1>1, <1>2, <2>1, UnderWayFinite, FS_AddElement DEF One
<1>3. CASE sending'[c].word # w
  <2>1. UnderWayWith(w)' = UnderWayWith(w)
    BY <1>3 DEF UnderWayWith
  <2> QED
    BY <1>3, <2>1, UnderWayFinite DEF One
<1> QED
  BY <1>2, <1>3

LEMMA EndsItsWay ==
  ASSUME NEW c, c \in UnderWay, UnderWay' = UnderWay \ {c}, sending' = sending, NEW w
  PROVE  Cardinality(UnderWayWith(w)) =
           Cardinality(UnderWayWith(w)') + One(w, sending[c].word)
<1>1. CASE sending[c].word = w
  <2>1. UnderWayWith(w)' = UnderWayWith(w) \ {c} /\ c \in UnderWayWith(w)
    BY <1>1 DEF UnderWayWith
  <2>2. /\ Cardinality(UnderWayWith(w) \ {c}) = Cardinality(UnderWayWith(w)) - 1
        /\ Cardinality(UnderWayWith(w)) \in Nat
    BY <2>1, UnderWayFinite, FS_RemoveElement
  <2> QED
    BY <1>1, <2>1, <2>2 DEF One
<1>2. CASE sending[c].word # w
  <2>1. UnderWayWith(w)' = UnderWayWith(w)
    BY <1>2 DEF UnderWayWith
  <2> QED
    BY <1>2, <2>1, UnderWayFinite DEF One
<1> QED
  BY <1>1, <1>2

LEMMA StaysUnderWay ==
  ASSUME UnderWay' = UnderWay, \A d \in UnderWay : sending'[d] = sending[d], NEW w
  PROVE  Cardinality(UnderWayWith(w)') = Cardinality(UnderWayWith(w))
<1>1. UnderWayWith(w)' = UnderWayWith(w)
  BY DEF UnderWayWith
<1> QED
  BY <1>1

LEMMA ArrivesInit == InitRequests => Arrives
<1> SUFFICES ASSUME InitRequests PROVE Arrives
  OBVIOUS
<1>1. Settled
  BY DEF InitRequests, Init, Settled, Clients
<1>2. UnderWay = {}
  BY DEF InitRequests, UnderWay, Parsing
<1>3. \A w : UnderWayWith(w) = {}
  BY <1>2 DEF UnderWayWith
<1>4. \A w : Times(w, <<>>) = 0 /\ Cardinality(UnderWayWith(w)) = 0
  <2>1. \A w : {i \in DOMAIN <<>> : (<<>>)[i].word = w} = {}
    OBVIOUS
  <2> QED
    BY <1>3, <2>1, FS_EmptySet DEF Times
<1>5. asked = <<>> /\ submitted = <<>>
  BY DEF InitRequests, Init
<1> QED
  BY <1>1, <1>4, <1>5 DEF Arrives, Submitted

LEMMA SettledStep ==
  ASSUME TypeOKRequests, Turns, Settled, [NextRequests]_allVars
  PROVE  Settled'
<1>0. \A c \in Clients : \A m \in Messages[c] : m # Blank
  BY RootRequestsAssumption DEF Clients, Blank, Operations
<1> USE DEF TypeOKRequests, TypeOK, Settled
<1>1. ASSUME NEW c \in Clients, Write(c)
      PROVE  Settled'
  <2>1. PICK m \in Messages[c] : sending' = [sending EXCEPT ![c] = m]
    BY <1>1 DEF Write
  <2>2. m # Blank
    BY <1>0
  <2>3. hpc[c] = "reading" /\ toRoot' = toRoot \cup {c} /\ UNCHANGED <<hpc, pc>>
    BY <1>1 DEF Write, Turns, rootVars, handler, vars, producer
  <2>4. sending'[c] # Blank /\ \A d \in Clients \ {c} : sending'[d] = sending[d]
    BY <2>1, <2>2
  <2> QED
    BY <2>3, <2>4
<1>2. ASSUME NEW c \in Clients, ReadReply(c) \/ Leave(c)
      PROVE  Settled'
  <2>1. UNCHANGED <<toRoot, hpc, pc>>
    BY <1>2 DEF ReadReply, Leave, network, rootVars, handler, vars, producer
  <2>2. \A d \in toRoot : sending'[d] = sending[d]
    BY <1>2 DEF ReadReply, Leave, Turns
  <2> QED
    BY <2>1, <2>2
<1>3. ASSUME NEW c \in Clients, ReadMessage(c)
      PROVE  Settled'
  BY <1>3 DEF ReadMessage, sender, vars, producer
<1>4. ASSUME NEW c \in Clients,
             NewObject(c) \/ PackMsg(c) \/ PackMsgEnds(c) \/ GetMessage(c)
      PROVE  Settled'
  <2>1. UNCHANGED <<sending, toRoot, pc>> /\ hpc[c] \notin {"reading", "calling"}
    BY <1>4 DEF NewObject, PackMsg, PackMsgEnds, GetMessage, NullPointer, sender,
                network, vars, producer
  <2>2. hpc' = hpc \/ \E s : hpc' = [hpc EXCEPT ![c] = s]
    BY <1>4 DEF NewObject, PackMsg, PackMsgEnds, GetMessage, NullPointer, handler
  <2> QED
    BY <2>1, <2>2
<1>5. ASSUME NEW c \in Clients, Serve(c)
      PROVE  Settled'
  BY <1>5 DEF Serve, PushBack, sender, network, Clients
<1>6. ASSUME NEW c \in Clients, Reply(c)
      PROVE  Settled'
  BY <1>6 DEF Reply, sender, vars, producer
<1>7. ASSUME UNCHANGED <<sender, network, rootVars>>,
             \A c \in Clients : pc[c] = "idle" => pc'[c] = "idle"
      PROVE  Settled'
  BY <1>7 DEF sender, network, rootVars, handler
<1>8. ASSUME NEW c \in Clients, InTree(PushBackEnds(c)) \/ InTree(PushOperation(c))
      PROVE  Settled'
  BY <1>7, <1>8 DEF InTree, PushBackEnds, PushOperation, Clients
<1>9. CASE InTree(Invoke)
  BY <1>7, <1>9 DEF InTree, Invoke, Pop, Apply, PopBack, PopBackEnds, producer
<1>10. CASE UNCHANGED allVars
  BY <1>7, <1>10 DEF allVars, vars, producer
<1> QED
  BY <1>1, <1>2, <1>3, <1>4, <1>5, <1>6, <1>8, <1>9, <1>10 DEF NextRequests, Handle

LEMMA SubmittedStep ==
  ASSUME TypeOKRequests, OwnInv, OwnInv', Settled, Submitted, [NextRequests]_allVars
  PROVE  Submitted'
<1> SUFFICES ASSUME ~overlapped', NEW w
             PROVE  Times(w, asked') =
                      Cardinality(UnderWayWith(w)') + Times(w, submitted')
  BY DEF Submitted
<1>1. overlapped => overlapped'
  BY DEF NextRequests, Write, ReadReply, Leave, Handle, ReadMessage, NewObject,
         PackMsg, PackMsgEnds, GetMessage, Serve, Reply, InTree, NullPointer,
         allVars, rootVars
<1>2. /\ Exclusive /\ Turns
      /\ Times(w, asked) = Cardinality(UnderWayWith(w)) + Times(w, submitted)
  BY <1>1 DEF OwnInv, Submitted
<1>t. /\ asked \in Seq(ReadRequests) /\ submitted \in Seq(ReadRequests)
      /\ sending \in [Clients -> [oper : Operations, word : Words] \cup {Blank}]
      /\ pc \in [Clients -> {"idle", "pushing", "queueing"}]
      /\ hpc \in [Clients -> {"reading", "reset", "fresh", "parsing", "parsed", "serving",
                              "calling", "replying"}]
      /\ body \in [Clients -> AnyMessage]
      /\ toRoot \subseteq Clients
  <2>1. [oper : Operations, word : Words] \subseteq ReadRequests
    BY DEF ReadRequests
  <2>2. asked \in Seq([oper : Operations, word : Words])
    BY DEF TypeOKRequests
  <2>3. asked \in Seq(ReadRequests)
    <3> HIDE DEF ReadRequests
    <3> QED
      BY <2>1, <2>2, SeqMonotonic
  <2> QED
    BY <2>3 DEF TypeOKRequests, TypeOK, Clients
<1>3. /\ Cardinality(UnderWayWith(w)) \in Nat
      /\ Times(w, asked) \in Nat /\ Times(w, submitted) \in Nat
  BY <1>t, UnderWayFinite, TimesFinite
<1>4. ASSUME UnderWay' = UnderWay, \A d \in UnderWay : sending'[d] = sending[d],
             asked' = asked, submitted' = submitted
      PROVE  Times(w, asked') = Cardinality(UnderWayWith(w)') + Times(w, submitted')
  BY <1>2, <1>4, StaysUnderWay
<1>5. ASSUME NEW c \in Clients, Write(c)
      PROVE  Times(w, asked') = Cardinality(UnderWayWith(w)') + Times(w, submitted')
  <2>1. PICK m \in Messages[c] : /\ sending' = [sending EXCEPT ![c] = m]
                                 /\ asked' = Append(asked, m)
    BY <1>5 DEF Write
  <2>2. m \in ReadRequests
    BY RootRequestsAssumption DEF Clients, ReadRequests
  <2>3. /\ sending[c] = Blank /\ c \notin gone /\ toRoot' = toRoot \cup {c}
        /\ UNCHANGED <<hpc, pc, body, submitted>>
    BY <1>5 DEF Write, rootVars, handler, vars, producer, history
  <2>4. hpc[c] = "reading" /\ c \notin toRoot
    BY <1>2, <2>3 DEF Turns
  <2>5. c \notin UnderWay /\ UnderWay' = UnderWay \cup {c}
    BY <1>t, <2>3, <2>4 DEF UnderWay, Parsing
  <2>6. sending'[c] = m /\ \A d \in UnderWay : sending'[d] = sending[d]
    BY <1>t, <2>1, <2>5
  <2>7. Cardinality(UnderWayWith(w)') = Cardinality(UnderWayWith(w)) + One(w, m.word)
    BY <2>5, <2>6, GetsUnderWay
  <2>8. Times(w, asked') = Times(w, asked) + One(w, m.word)
    BY <1>t, <2>1, <2>2, TimesAppend
  <2> QED
    BY <1>2, <1>3, <2>3, <2>7, <2>8 DEF One
<1>6. ASSUME NEW c \in Clients, ReadReply(c) \/ Leave(c)
      PROVE  Times(w, asked') = Cardinality(UnderWayWith(w)') + Times(w, submitted')
  <2>1. UNCHANGED <<toRoot, hpc, body, pc, asked, submitted>>
    BY <1>6 DEF ReadReply, Leave, network, rootVars, handler, vars, producer, history
  <2>2. UnderWay' = UnderWay
    BY <2>1 DEF UnderWay, Parsing
  <2>3. \A d \in UnderWay : sending'[d] = sending[d]
    <3>1. CASE ReadReply(c)
      <4>1. c \notin toRoot /\ hpc[c] = "reading"
        BY <1>2, <3>1 DEF ReadReply, Turns
      <4>2. c \notin UnderWay
        BY <4>1 DEF UnderWay, Parsing
      <4> QED
        BY <1>t, <3>1, <4>2 DEF ReadReply
    <3>2. CASE Leave(c)
      BY <3>2 DEF Leave
    <3> QED
      BY <1>6, <3>1, <3>2
  <2> QED
    BY <1>4, <2>1, <2>2, <2>3
<1>7. ASSUME NEW c \in Clients, ReadMessage(c)
      PROVE  Times(w, asked') = Cardinality(UnderWayWith(w)') + Times(w, submitted')
  <2>1. /\ hpc[c] = "reading" /\ hpc' = [hpc EXCEPT ![c] = "reset"]
        /\ body' = [body EXCEPT ![c] = IF c \in toRoot THEN sending[c] ELSE Blank]
        /\ toRoot' = toRoot \ {c}
        /\ UNCHANGED <<sending, pc, asked, submitted>>
    BY <1>7 DEF ReadMessage, sender, vars, producer, history
  <2>2. c \in UnderWay <=> c \in toRoot
    BY <2>1 DEF UnderWay, Parsing
  <2>3. c \in UnderWay' <=> c \in toRoot
    BY <1>t, <2>1 DEF UnderWay, Parsing, Settled
  <2>4. \A d \in Clients \ {c} : d \in UnderWay' <=> d \in UnderWay
    BY <1>t, <2>1 DEF UnderWay, Parsing
  <2>5. UnderWay' = UnderWay
    BY <2>2, <2>3, <2>4 DEF UnderWay
  <2> QED
    BY <1>4, <2>1, <2>5
<1>8. ASSUME NEW c \in Clients, c \in Parsing, c \in Parsing',
             hpc' = hpc \/ \E s : hpc' = [hpc EXCEPT ![c] = s],
             UNCHANGED <<body, toRoot, pc, sending, asked, submitted>>
      PROVE  Times(w, asked') = Cardinality(UnderWayWith(w)') + Times(w, submitted')
  <2>1. \A d \in Clients \ {c} : hpc'[d] = hpc[d]
    BY <1>t, <1>8
  <2>2. \A d \in Clients : d \in UnderWay' <=> d \in UnderWay
    BY <1>8, <2>1 DEF UnderWay, Parsing
  <2>3. UnderWay' = UnderWay
    BY <2>2 DEF UnderWay
  <2> QED
    BY <1>4, <1>8, <2>3
<1>9. ASSUME NEW c \in Clients, NewObject(c) \/ PackMsg(c)
      PROVE  Times(w, asked') = Cardinality(UnderWayWith(w)') + Times(w, submitted')
  <2>1. UNCHANGED <<body, toRoot, pc, sending, asked, submitted>>
    BY <1>9 DEF NewObject, PackMsg, NullPointer, sender, network, handler, vars,
                producer, history
  <2>2. hpc' = hpc \/ \E s \in {"fresh", "parsing"} : hpc' = [hpc EXCEPT ![c] = s]
    BY <1>9 DEF NewObject, PackMsg, NullPointer, handler
  <2>3. c \in Parsing
    BY <1>9 DEF NewObject, PackMsg, Parsing
  <2>4. c \in Parsing'
    BY <1>t, <2>2, <2>3 DEF Parsing
  <2> QED
    BY <1>8, <2>1, <2>2, <2>3, <2>4
<1>10. ASSUME NEW c \in Clients, PackMsgEnds(c)
       PROVE  Times(w, asked') = Cardinality(UnderWayWith(w)') + Times(w, submitted')
  <2>1. hpc[c] = "parsing" /\ UNCHANGED <<toRoot, pc, sending, asked, submitted>>
    BY <1>10 DEF PackMsgEnds, sender, network, vars, producer, history
  <2>2. CASE body[c] = Blank
    <3>1. /\ hpc' = [hpc EXCEPT ![c] = "replying"]
          /\ body' = [body EXCEPT ![c] = Blank]
      BY <1>10, <2>2 DEF PackMsgEnds, Release
    <3>2. \A d \in Clients : d \in UnderWay' <=> d \in UnderWay
      BY <1>t, <2>1, <2>2, <3>1 DEF UnderWay, Parsing
    <3>3. UnderWay' = UnderWay
      BY <3>2 DEF UnderWay
    <3> QED
      BY <1>4, <2>1, <3>3
  <2>3. CASE body[c] # Blank
    <3>1. hpc' = [hpc EXCEPT ![c] = "parsed"] /\ UNCHANGED body
      BY <1>10, <2>3 DEF PackMsgEnds
    <3>2. c \in Parsing /\ c \in Parsing'
      BY <1>t, <2>1, <3>1 DEF Parsing
    <3> QED
      BY <1>8, <2>1, <3>1, <3>2
  <2> QED
    BY <2>2, <2>3
<1>11. ASSUME NEW c \in Clients, GetMessage(c)
       PROVE  Times(w, asked') = Cardinality(UnderWayWith(w)') + Times(w, submitted')
  <2>1. /\ hpc[c] = "parsed" /\ message # Null /\ heap[message] = body[c]
        /\ body[c] # Blank /\ body[c] = sending[c]
    BY <1>2, <1>11 DEF GetMessage, Exclusive, Using, Parsing
  <2>2. body[c].oper # "HEARTBEAT"
    BY <1>t, <2>1 DEF Operations
  <2>3. /\ hpc' = [hpc EXCEPT ![c] = "serving"]
        /\ body' = [body EXCEPT ![c] = [oper |-> heap[message].oper, word |-> @.word]]
        /\ UNCHANGED <<toRoot, pc, sending, asked, submitted>>
    BY <1>11, <2>1, <2>2 DEF GetMessage, sender, network, vars, producer, history
  <2>4. [oper |-> body[c].oper, word |-> body[c].word] = body[c]
    BY <1>t DEF AnyMessage
  <2>5. body' = body
    BY <1>t, <2>1, <2>3, <2>4
  <2>6. c \in Parsing /\ c \in Parsing'
    BY <1>t, <2>1, <2>3 DEF Parsing
  <2> QED
    BY <1>8, <2>3, <2>5, <2>6
<1>12. ASSUME NEW c \in Clients, Serve(c)
       PROVE  Times(w, asked') = Cardinality(UnderWayWith(w)') + Times(w, submitted')
  <2>1. /\ hpc[c] = "serving" /\ hpc' = [hpc EXCEPT ![c] = "calling"]
        /\ body' = [body EXCEPT ![c] = Blank] /\ pc' = [pc EXCEPT ![c] = "pushing"]
        /\ UNCHANGED <<toRoot, sending, asked, submitted>>
    BY <1>12 DEF Serve, PushBack, Release, sender, network
  <2>2. body[c] # Blank
    BY <1>2, <2>1 DEF Exclusive
  <2>3. c \in UnderWay /\ c \in UnderWay'
    BY <1>t, <2>1, <2>2 DEF UnderWay, Parsing
  <2>4. \A d \in Clients \ {c} : d \in UnderWay' <=> d \in UnderWay
    BY <1>t, <2>1 DEF UnderWay, Parsing
  <2>5. UnderWay' = UnderWay
    BY <2>3, <2>4 DEF UnderWay
  <2> QED
    BY <1>4, <2>1, <2>5
<1>13. ASSUME NEW c \in Clients, Reply(c)
       PROVE  Times(w, asked') = Cardinality(UnderWayWith(w)') + Times(w, submitted')
  <2>1. /\ hpc[c] \notin {"reset", "fresh", "parsing", "parsed", "serving"}
        /\ ~(hpc[c] = "calling" /\ pc[c] = "pushing")
        /\ hpc' = [hpc EXCEPT ![c] = "reading"]
        /\ UNCHANGED <<toRoot, pc, body, sending, asked, submitted>>
    BY <1>13 DEF Reply, sender, vars, producer, history
  <2>2. \A d \in Clients : d \in UnderWay' <=> d \in UnderWay
    BY <1>t, <2>1 DEF UnderWay, Parsing
  <2>3. UnderWay' = UnderWay
    BY <2>2 DEF UnderWay
  <2> QED
    BY <1>4, <2>1, <2>3
<1>14. ASSUME NEW c \in Clients, InTree(PushBackEnds(c))
       PROVE  Times(w, asked') = Cardinality(UnderWayWith(w)') + Times(w, submitted')
  <2>1. /\ pc[c] = "pushing" /\ pc' = [pc EXCEPT ![c] = "queueing"]
        /\ submitted' = Append(submitted, request[c])
        /\ UNCHANGED <<hpc, body, toRoot, sending, asked>>
    BY <1>14 DEF InTree, PushBackEnds, sender, network, rootVars, handler
  <2>2. hpc[c] = "calling" /\ c \notin toRoot
    BY <2>1 DEF Settled
  <2>3. request[c] = sending[c] /\ request[c] \in ReadRequests
    BY <1>2, <2>2 DEF Exclusive, TypeOKRequests, TypeOK, Clients
  <2>4. c \in UnderWay /\ UnderWay' = UnderWay \ {c}
    BY <1>t, <2>1, <2>2 DEF UnderWay, Parsing
  <2>5. Cardinality(UnderWayWith(w)) =
          Cardinality(UnderWayWith(w)') + One(w, sending[c].word)
    BY <2>1, <2>4, EndsItsWay
  <2>6. Times(w, submitted') = Times(w, submitted) + One(w, request[c].word)
    BY <1>t, <2>1, <2>3, TimesAppend
  <2>7. Cardinality(UnderWayWith(w)') \in Nat
    <3>1. UnderWayWith(w)' \subseteq UnderWayWith(w)
      BY <2>1, <2>4 DEF UnderWayWith
    <3>2. IsFiniteSet(UnderWayWith(w)')
      BY <3>1, UnderWayFinite, FS_Subset
    <3> QED
      BY <3>2, FS_CardinalityType
  <2> QED
    BY <1>2, <1>3, <2>1, <2>3, <2>5, <2>6, <2>7 DEF One
<1>15. ASSUME NEW c \in Clients, InTree(PushOperation(c))
       PROVE  Times(w, asked') = Cardinality(UnderWayWith(w)') + Times(w, submitted')
  <2>1. /\ pc[c] = "queueing" /\ pc' = [pc EXCEPT ![c] = "idle"]
        /\ UNCHANGED <<hpc, body, toRoot, sending, asked, submitted>>
    BY <1>15 DEF InTree, PushOperation, sender, network, rootVars, handler, history
  <2>2. \A d \in Clients : d \in UnderWay' <=> d \in UnderWay
    BY <1>t, <2>1 DEF UnderWay, Parsing
  <2>3. UnderWay' = UnderWay
    BY <2>2 DEF UnderWay
  <2> QED
    BY <1>4, <2>1, <2>3
<1>16. ASSUME UNCHANGED <<hpc, body, toRoot, pc, sending, asked, submitted>>
       PROVE  Times(w, asked') = Cardinality(UnderWayWith(w)') + Times(w, submitted')
  <2>1. UnderWay' = UnderWay
    BY <1>16 DEF UnderWay, Parsing
  <2> QED
    BY <1>4, <1>16, <2>1
<1>17. CASE InTree(Invoke)
  BY <1>16, <1>17 DEF InTree, Invoke, Pop, Apply, PopBack, PopBackEnds, producer,
                      history, sender, network, rootVars, handler
<1>18. CASE UNCHANGED allVars
  BY <1>16, <1>18 DEF allVars, vars, producer, history, sender, network, rootVars, handler
<1> QED
  BY <1>5, <1>6, <1>7, <1>9, <1>10, <1>11, <1>12, <1>13, <1>14, <1>15, <1>17, <1>18
  DEF NextRequests, Handle

LEMMA ArrivesHolds == SpecRequests => []Arrives
<1>1. ASSUME TypeOKRequests, OwnInv, OwnInv', Arrives, [NextRequests]_allVars
      PROVE  Arrives'
  BY <1>1, SettledStep, SubmittedStep DEF Arrives, OwnInv
<1> QED
  BY <1>1, TypeInvariantRequests, OwnInvHolds, ArrivesInit, PTL DEF SpecRequests

(* From the clients to the tree no word is lost and none comes twice: each *)
(* word that was written is under way, waits in words_ or was applied, as  *)
(* long as no two threads use the parser or push and pop words_ at once,   *)
(* and none pushes between back() and pop_back().                          *)
THEOREM EveryWordArrivesHolds == SpecRequests => []EveryWordArrives
<1>1. TypeOK /\ WordsConserved /\ Submitted => EveryWordArrives
  <2> SUFFICES ASSUME TypeOK, WordsConserved, Submitted, ~overlapped, ~raced, ~intruded,
                      NEW w \in Words
               PROVE  Times(w, asked) = Cardinality({c \in UnderWay : sending[c].word = w})
                                        + Times(w, applied) + TimesWaiting(w)
    BY DEF EveryWordArrives
  <2>1. Times(w, asked) = Cardinality(UnderWayWith(w)) + Times(w, submitted)
    BY DEF Submitted
  <2>2. Times(w, submitted) = Times(w, applied) + TimesWaiting(w)
    BY DEF WordsConserved
  <2>3. /\ Cardinality(UnderWayWith(w)) \in Nat /\ Times(w, applied) \in Nat
        /\ TimesWaiting(w) \in Nat
    <3>1. Waiting \in Int /\ \A n \in Int : IsFiniteSet(1 .. n)
      BY FS_Interval DEF TypeOK, Waiting
    <3>2. IsFiniteSet({i \in 1 .. Waiting : cells[i] = w})
      BY <3>1, FS_Subset
    <3> QED
      BY <3>2, UnderWayFinite, TimesFinite, FS_CardinalityType DEF TypeOK, TimesWaiting
  <2> QED
    BY <2>1, <2>2, <2>3 DEF UnderWayWith
<1>2. SpecRequests => [](TypeOK /\ WordsConserved)
  BY ImplementsAVLTree, TypeCorrect, WordsConservedHolds, PTL
<1> QED
  BY <1>1, <1>2, ArrivesHolds, PTL DEF Arrives
=============================================================================
