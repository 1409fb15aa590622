----------------------------- MODULE RootRequests -----------------------------
(***************************************************************************)
(* The words of the other processes, on their way to the tree.  In each    *)
(* client FileManager calls Sender::write, which writes a MessageToRoot to *)
(* the root and waits for a MessageFromRoot.  In the root one thread per   *)
(* client, in RootDutiesManager::handleRequests, reads the message, lets   *)
(* RootMessageHandler call insert or remove of AVLTree, and replies.  The  *)
(* Producers of AVLTree are these threads, named for their clients; that   *)
(* of the root's own FileManager, which uses no messages, is left out.     *)
(*                                                                         *)
(* The threads share one RootMessageHandler and with it message_ of its    *)
(* parser, a pointer: resetMsg sets it to null and then to a new object,   *)
(* packMsg clears the object that it points to and parses into it, and     *)
(* getMessage returns it.  Other threads can come between any of these.  A *)
(* new or cleared object has the type Heartbeat, the first of its          *)
(* enumeration, and the empty string for a word.  The pointer is taken to  *)
(* be read and written at once, and an object to live as long as a thread  *)
(* uses it.                                                                *)
(*                                                                         *)
(* A client gets to FileManager only if its index_, incremented once, is   *)
(* equal to its counter_ (DummyMessageHandler): nothing initialises either *)
(* of them there.  This module is about clients in which they happen to be *)
(* equal; that such a client also replaces its tree by one without         *)
(* children does not matter to the requests.                               *)
(*                                                                         *)
(* A client may leave.  Its thread in the root then reads an empty message *)
(* for ever, for which the parser is reset, but which does not parse.      *)
(*                                                                         *)
(* An operator whose name begins with "faulty" is a wrong version of the   *)
(* definition after it, with which the properties must fail.               *)
(***************************************************************************)
EXTENDS AVLTree

CONSTANTS Empty,     \* the empty string
          Messages,  \* by client: what Sender::write may be called with
          Leaving    \* the clients that may leave
ASSUME RootRequestsAssumption ==
  /\ Empty \in Words
  /\ Messages \in [Producers -> SUBSET [oper : Operations, word : Words]]
  /\ Leaving \subseteq Producers

Clients == Producers

(* The object that message_ points to after resetMsg; as what a thread has *)
(* read, an empty buffer, and as what a client sends, nothing.             *)
Blank == [oper |-> "HEARTBEAT", word |-> Empty]

(* Enough addresses for the objects that threads and message_ point to.    *)
Null    == 0
Objects == 1 .. Cardinality(Clients) + 1

VARIABLES
  \* the clients
  sending,   \* by client: the message Sender::write awaits a reply to, or Blank
  gone,      \* the clients that have left
  \* the connections
  toRoot,    \* the clients whose message was not read yet
  toClient,  \* the clients whose reply was not read yet
  \* the root
  hpc,       \* by client: where its thread is
  body,      \* by client: the buffer, then the type that msg->type() returned
  held,      \* by client: the object that its thread uses
  message,   \* message_
  heap,      \* the objects
  crashed,   \* a null pointer was dereferenced
  \* history
  asked,     \* the messages that were written
  overlapped \* a thread began to use the parser while another one did

sender   == <<sending, gone>>
network  == <<toRoot, toClient>>
handler  == <<hpc, body, held>>
parser   == <<message, heap>>
rootVars == <<handler, parser, crashed, overlapped>>
allVars  == <<vars, sender, network, rootVars, asked>>

InitRequests ==
  /\ Init
  /\ sending = [c \in Clients |-> Blank] /\ gone = {}
  /\ toRoot = {} /\ toClient = {}
  /\ hpc = [c \in Clients |-> "reading"]
  /\ body = [c \in Clients |-> Blank]
  /\ held = [c \in Clients |-> Null]
  /\ message = 1 /\ heap = [o \in Objects |-> Blank]
  /\ crashed = FALSE
  /\ asked = <<>> /\ overlapped = FALSE

-----------------------------------------------------------------------------
(* A client: Sender::write. *)

Write(c) ==
  /\ sending[c] = Blank /\ c \notin gone
  /\ Len(asked) < MaxRequests
  /\ \E m \in Messages[c] : /\ sending' = [sending EXCEPT ![c] = m]
                            /\ asked' = Append(asked, m)
  /\ toRoot' = toRoot \cup {c}
  /\ UNCHANGED <<vars, gone, toClient, rootVars>>

ReadReply(c) ==
  /\ c \in toClient \ gone
  /\ toClient' = toClient \ {c}
  /\ sending' = [sending EXCEPT ![c] = Blank]
  /\ UNCHANGED <<vars, gone, toRoot, rootVars, asked>>

Leave(c) ==
  /\ c \in Leaving \ gone
  /\ gone' = gone \cup {c}
  /\ UNCHANGED <<vars, sending, network, rootVars, asked>>

-----------------------------------------------------------------------------
(* The root: handleRequests and RootMessageHandler::parseMessage. *)

(* The objects in h that something still points to. *)
Kept(h) ==
  [o \in Objects |-> IF o \in {message'} \cup {held'[d] : d \in Clients}
                     THEN h[o] ELSE Blank]

(* From resetMsg to msg->word(). *)
Parsing == {c \in Clients : hpc[c] \in {"reset", "fresh", "parsing", "parsed", "serving"}}

(* A thread is not bound to the connection of its client. *)
faultyReadMessage(c) ==
  /\ hpc[c] = "reading"
  /\ \E d \in toRoot : /\ body' = [body EXCEPT ![c] = sending[d]]
                       /\ toRoot' = toRoot \ {d}
  /\ message' = Null /\ UNCHANGED held /\ heap' = Kept(heap)
  /\ hpc' = [hpc EXCEPT ![c] = "reset"]
  /\ overlapped' = (overlapped \/ Parsing # {})
  /\ UNCHANGED <<vars, sender, toClient, crashed, asked>>

(* The read returns, with nothing if the client has left, and resetMsg     *)
(* sets message_ to null.                                                  *)
ReadMessage(c) ==
  /\ hpc[c] = "reading"
  /\ c \in toRoot \cup gone
  /\ body' = [body EXCEPT ![c] = IF c \in toRoot THEN sending[c] ELSE Blank]
  /\ toRoot' = toRoot \ {c}
  /\ message' = Null /\ UNCHANGED held /\ heap' = Kept(heap)
  /\ hpc' = [hpc EXCEPT ![c] = "reset"]
  /\ overlapped' = (overlapped \/ Parsing # {})
  /\ UNCHANGED <<vars, sender, toClient, crashed, asked>>

(* resetMsg keeps the object it has. *)
faultyNewObject(c) ==
  /\ hpc[c] = "reset"
  /\ hpc' = [hpc EXCEPT ![c] = "fresh"]
  /\ UNCHANGED <<vars, sender, network, body, held, parser, crashed, overlapped, asked>>

NewObject(c) ==
  /\ hpc[c] = "reset"
  /\ LET used == {message} \cup {held[d] : d \in Clients}
         new  == CHOOSE o \in Objects \ used : TRUE
     IN  message' = new
  /\ UNCHANGED held /\ heap' = Kept(heap)
  /\ hpc' = [hpc EXCEPT ![c] = "fresh"]
  /\ UNCHANGED <<vars, sender, network, body, crashed, overlapped, asked>>

NullPointer == /\ crashed' = TRUE
               /\ UNCHANGED <<vars, sender, network, handler, parser, overlapped, asked>>

(* The thread has no more use for what it read. *)
Release(c) == /\ body' = [body EXCEPT ![c] = Blank]
              /\ held' = [held EXCEPT ![c] = Null]
              /\ UNCHANGED message /\ heap' = Kept(heap)

(* packMsg: ParseFromArray of the object that message_ points to. *)
PackMsg(c) ==
  /\ hpc[c] = "fresh"
  /\ IF message = Null THEN NullPointer
     ELSE /\ held' = [held EXCEPT ![c] = message]
          /\ heap' = [heap EXCEPT ![message] = Blank]
          /\ hpc' = [hpc EXCEPT ![c] = "parsing"]
          /\ UNCHANGED <<vars, sender, network, body, message, crashed, overlapped, asked>>

PackMsgEnds(c) ==
  /\ hpc[c] = "parsing"
  /\ IF body[c] = Blank
     THEN Release(c) /\ hpc' = [hpc EXCEPT ![c] = "replying"]
     ELSE /\ heap' = [heap EXCEPT ![held[c]] = body[c]]
          /\ hpc' = [hpc EXCEPT ![c] = "parsed"]
          /\ UNCHANGED <<body, held, message>>
  /\ UNCHANGED <<vars, sender, network, crashed, overlapped, asked>>

(* getMessage, and switch(msg->type()). *)
GetMessage(c) ==
  /\ hpc[c] = "parsed"
  /\ IF message = Null THEN NullPointer
     ELSE /\ IF heap[message].oper = "HEARTBEAT"
             THEN Release(c) /\ hpc' = [hpc EXCEPT ![c] = "replying"]
             ELSE /\ held' = [held EXCEPT ![c] = message] /\ UNCHANGED message
                  /\ heap' = Kept(heap)
                  /\ body' = [body EXCEPT ![c] =
                                [oper |-> heap[message].oper, word |-> @.word]]
                  /\ hpc' = [hpc EXCEPT ![c] = "serving"]
          /\ UNCHANGED <<vars, sender, network, crashed, overlapped, asked>>

(* msg->word(), and the call of insert or remove begins. *)
Serve(c) ==
  /\ hpc[c] = "serving"
  /\ PushBack(c)
  /\ request'[c] = [oper |-> body[c].oper, word |-> heap[held[c]].word]
  /\ Release(c)
  /\ hpc' = [hpc EXCEPT ![c] = "calling"]
  /\ UNCHANGED <<sender, network, crashed, overlapped, asked>>

(* Nothing is replied to a message of which nothing came. *)
faultyReplyToServed(c) ==
  /\ hpc[c] = "calling" /\ pc[c] = "idle"
  /\ toClient' = toClient \cup {c}
  /\ hpc' = [hpc EXCEPT ![c] = "reading"]
  /\ UNCHANGED <<vars, sender, toRoot, body, held, parser, crashed, overlapped, asked>>

(* After the call the reply is written, and the next message waited for.   *)
Reply(c) ==
  /\ hpc[c] = "replying" \/ (hpc[c] = "calling" /\ pc[c] = "idle")
  /\ toClient' = toClient \cup ({c} \ gone)
  /\ hpc' = [hpc EXCEPT ![c] = "reading"]
  /\ UNCHANGED <<vars, sender, toRoot, body, held, parser, crashed, overlapped, asked>>

-----------------------------------------------------------------------------
(* The rest of insert and remove, and invoke. *)
InTree(A) == A /\ UNCHANGED <<sender, network, rootVars, asked>>

Handle(c) == \/ ReadMessage(c) \/ NewObject(c) \/ PackMsg(c) \/ PackMsgEnds(c)
             \/ GetMessage(c) \/ Serve(c) \/ Reply(c)
             \/ InTree(PushBackEnds(c)) \/ InTree(PushOperation(c))

NextRequests ==
  /\ ~crashed
  /\ \/ \E c \in Clients : Write(c) \/ ReadReply(c) \/ Leave(c) \/ Handle(c)
     \/ InTree(Invoke)

(* What is written arrives, and the threads of the root run.  No client    *)
(* has to send anything.                                                   *)
FairnessRequests ==
  /\ WF_allVars(~crashed /\ InTree(Invoke))
  /\ \A c \in Clients : /\ WF_allVars(~crashed /\ ReadReply(c))
                        /\ WF_allVars(~crashed /\ Handle(c))

SpecRequests     == InitRequests /\ [][NextRequests]_allVars
FairSpecRequests == SpecRequests /\ FairnessRequests

-----------------------------------------------------------------------------
Types      == Operations \cup {"HEARTBEAT"}
AnyMessage == [oper : Types, word : Words]

TypeOKRequests ==
  /\ TypeOK
  /\ sending \in [Clients -> [oper : Operations, word : Words] \cup {Blank}]
  /\ gone \subseteq Clients /\ toRoot \subseteq Clients /\ toClient \subseteq Clients
  /\ hpc \in [Clients -> {"reading", "reset", "fresh", "parsing", "parsed", "serving",
                         "calling", "replying"}]
  /\ body \in [Clients -> AnyMessage]
  /\ held \in [Clients -> Objects \cup {Null}]
  /\ message \in Objects \cup {Null}
  /\ heap \in [Objects -> AnyMessage]
  /\ crashed \in BOOLEAN /\ overlapped \in BOOLEAN
  /\ asked \in Seq([oper : Operations, word : Words])

(* As long as no two threads use the parser at once, the request that a    *)
(* thread makes of the tree is the one that its own client waits for.      *)
OwnRequest ==
  ~overlapped => \A c \in Clients : hpc[c] = "calling" => request[c] = sending[c]

(* As long as no two threads use the parser at once, none of them finds it *)
(* with a null pointer.                                                    *)
RootSurvives == ~overlapped => ~crashed

(* The clients whose message has not got as far as the end of push_back.   *)
UnderWay == {c \in Clients : \/ c \in toRoot
                             \/ c \in Parsing /\ body[c] # Blank
                             \/ hpc[c] = "calling" /\ pc[c] = "pushing"}

(* From the clients to the tree no word is lost and none comes twice, as   *)
(* long as no two threads use the parser at once, none push or pop words_  *)
(* at once, and none pushes between back() and pop_back().                 *)
EveryWordArrives ==
  ~overlapped /\ ~raced /\ ~intruded =>
    \A w \in Words : Times(w, asked) = Cardinality({c \in UnderWay : sending[c].word = w})
                                       + Times(w, applied) + TimesWaiting(w)

(* Sender::write returns, even if a thread lost the message to another one *)
(* or read half of it, unless the root ran into the null pointer: as many  *)
(* messages as there are, again and again nobody waits.                    *)
EveryWriteReturns ==
  []<>(crashed \/ \A c \in Clients : sending[c] = Blank \/ c \in gone)

(* As many words are applied as were sent, as long as no thread loses the  *)
(* message that it reads to another one, and invoke finds the words.       *)
EveryWordServed ==
  []<>(Len(applied) = Len(asked) \/ overlapped \/ wpc = "undefined")
=============================================================================
