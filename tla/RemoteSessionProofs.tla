------------------------- MODULE RemoteSessionProofs -------------------------
(***************************************************************************)
(* Proofs about RemoteSession, for any number of processes, any methods    *)
(* and any number of calls.  The idea is that control is a token.  It is   *)
(* with the one process that is in tree code and has no call that another  *)
(* process serves: that process runs, or waits, and what it waits for is   *)
(* on its way to the process it called or back, or never comes.  When the  *)
(* call was made on a connection that the Sender has, nobody serves it, so *)
(* that the token is still where the call returns to.                      *)
(***************************************************************************)
EXTENDS RemoteSession, SequenceTheorems, TLAPS

(* Each process only ever sees connections that were made to it.           *)
LinksTo(j) == {l \in AllLinks : l[2] = j}

(* What a process reads and answers on are connections that it took for    *)
(* the tree, which it does after its Hello, and it makes its own tree      *)
(* after it has made its connections.                                      *)
Wiring ==
  \A j \in Processes :
    /\ backlog[j] \in Seq(LinksTo(j))
    /\ posted[j] \in Seq(LinksTo(j))
    /\ \A n \in DOMAIN posted[j] : posted[j][n] \in taken[j]
    /\ taken[j] \subseteq LinksTo(j)
    /\ rootConnection[j] \in taken[j] \cup {NoLink}
    /\ reading[j] \in taken[j] \cup {NoLink}
    /\ posted[j] # <<>> => rootConnection[j] # NoLink
    /\ strand[j] \in {"reading", "serving", "replied"} =>
         rootConnection[j] # NoLink /\ reading[j] # NoLink
    /\ taken[j] # {} => hello[j]
    /\ root[j] => /\ j = 1 \/ hello[j]
                  /\ \A l \in Links : l[1] = j => l \in made
    /\ strand[j] = "serving" => root[j]

(* A connection waits to be accepted once, and is then given to the Sender *)
(* or taken for the tree.                                                  *)
Accepted ==
  \A j \in Processes :
    /\ \A m, n \in DOMAIN backlog[j] : backlog[j][m] = backlog[j][n] => m = n
    /\ \A n \in DOMAIN backlog[j] :
         /\ backlog[j][n] \in made \cup {RequestLink(j)}
         /\ backlog[j][n] \notin taken[j] \cup {sender[j]}
    /\ sender[j] \notin taken[j]
    /\ sender[j] \in LinksTo(j) \cup {NoLink}
    /\ sender[j] \in made \cup {RequestLink(j), NoLink}
    /\ taken[j] \subseteq made \cup {RequestLink(j)}

(* Process i is in tree code, and no process serves a call of it.          *)
Top(i) == /\ i \in Active
          /\ call[i] # NoCall => strand[call[i].link[2]] # "serving"

(* There is one token. *)
OneTop == \A i, k \in Processes : Top(i) /\ Top(k) => i = k

(* Who waits for a response: each caller is itself in tree code, and its   *)
(* call has a number of its own.                                           *)
Callers ==
  \A i \in Processes : call[i] # NoCall =>
    /\ i \in Active
    /\ call[i].link \in ChildLinks \cap made
    /\ call[i].link[1] = i
    /\ call[i].method \in Methods
    /\ call[i].id \in 1 .. calls
    /\ \A k \in Processes : call[k].id = call[i].id => k = i

(* What process i waits for is a request, and later a response, like this. *)
Wanted(i) == [type |-> RequestType[call[i].method], id |-> call[i].id]

(* Somebody may read from the link: it was not closed by the Sender. *)
Open(l) == Waits(l) \/ l \in taken[l[2]] \/ l = sender[l[2]]

(* A request is that of the call its sender waits for, unless the Sender   *)
(* has the link.                                                           *)
RequestsMatch ==
  \A l \in AllLinks : requests[l] # <<>> =>
    /\ l \in ChildLinks
    /\ Open(l)
    /\ l # sender[l[2]] =>
         /\ Top(l[1])
         /\ call[l[1]].link = l
         /\ requests[l] = <<Wanted(l[1])>>
         /\ responses[l] = <<>>

(* What waits for a caller is the response to its call, unless the Sender  *)
(* has the link.                                                           *)
ResponsesMatch ==
  \A l \in AllLinks : responses[l] # <<>> =>
    /\ hello[l[2]]
    /\ l \in ChildLinks =>
         IF l = sender[l[2]] THEN responses[l] \in Seq({NoResponse})
         ELSE /\ Top(l[1])
              /\ call[l[1]].link = l
              /\ responses[l] = <<Wanted(l[1])>>

(* A process serves the call that the process above it waits for. *)
ServesCaller ==
  \A j \in Processes : strand[j] = "serving" =>
    /\ reading[j] \in ChildLinks
    /\ call[reading[j][1]].link = reading[j]
    /\ job[j].id = call[reading[j][1]].id
    /\ job[j].method = Handler(RequestType[call[reading[j][1]].method])

(* The inductive invariant. *)
Session == /\ OneTop /\ Callers /\ RequestsMatch /\ ResponsesMatch /\ ServesCaller
           /\ OwnResponse /\ astray \subseteq made

IInv == TypeOK /\ Wiring /\ Accepted /\ Session

-----------------------------------------------------------------------------
(* Each link ends in a process other than 1, and each process has one      *)
(* parent to be called from.                                               *)
LEMMA LinkFacts ==
  /\ NoLink \notin AllLinks
  /\ \A l \in AllLinks : l[2] \in Processes /\ l[2] # 1
  /\ \A l \in ChildLinks : l \in AllLinks /\ l \in Links /\ l[1] \in Processes
  /\ \A l, m \in ChildLinks : l[2] = m[2] => l = m
<1>1. \A l \in AllLinks : l[2] \in Processes /\ l[2] # 1
  BY RemoteSessionAssumption DEF AllLinks, Links, ChildLinks, ParentLinks, RequestLink, Processes
<1>2. NoLink \notin AllLinks
  BY <1>1 DEF NoLink, Processes
<1>3. \A l \in ChildLinks : l \in AllLinks /\ l \in Links /\ l[1] \in Processes
  BY DEF AllLinks, Links, ChildLinks
<1>4. \A l, m \in ChildLinks : l[2] = m[2] => l = m
  <2> TAKE l, m \in ChildLinks
  <2> HAVE l[2] = m[2]
  <2>1. l[1] \in Nat /\ m[1] \in Nat
    BY DEF ChildLinks, Processes
  <2>2. l[1] = m[1]
    BY <2>1 DEF ChildLinks
  <2> QED
    BY <2>2 DEF ChildLinks
<1> QED
  BY <1>1, <1>2, <1>3, <1>4

(* The handler of each type answers with that type, and is the method that *)
(* sends it, except for pull_right_subtree.                                *)
LEMMA ProtocolFacts ==
  /\ \A m \in DOMAIN RequestType : RequestType[m] \in Types
  /\ \A t \in Types : Handler(t) \in DOMAIN RequestType
  /\ \A t \in Types : ResponseType(Handler(t)) = t
  /\ \A m \in DOMAIN RequestType :
       m # "pull_right_subtree" => Handler(RequestType[m]) = m
<1>1. \A m \in DOMAIN RequestType : RequestType[m] \in Types
  BY DEF RequestType, Types, Registered
<1>2. \A t \in Types : Handler(t) \in DOMAIN RequestType
  BY DEF RequestType, Types, Registered, Handler
<1>3. \A t, u \in Types : Registered[t] = Registered[u] => t = u
  BY DEF Types, Registered
<1>4. \A t \in Types : ResponseType(Handler(t)) = t
  BY <1>3 DEF ResponseType, Handler
<1>5. \A m \in DOMAIN RequestType :
        m # "pull_right_subtree" => Handler(RequestType[m]) = m
  BY DEF RequestType, Types, Registered, Handler
<1> QED
  BY <1>1, <1>2, <1>4, <1>5

-----------------------------------------------------------------------------
(* What is written to an empty link is all there is on it. *)
LEMMA AppendToEmpty == \A x : Append(<<>>, x) = <<x>>
  OBVIOUS

(* The first element of a sequence, and the others. *)
LEMMA HeadAndTail ==
  ASSUME NEW S, NEW b \in Seq(S), b # <<>>
  PROVE  /\ Head(b) \in S /\ Tail(b) \in Seq(S)
         /\ 1 \in DOMAIN b /\ Head(b) = b[1]
         /\ \A n \in DOMAIN Tail(b) :
              n + 1 \in DOMAIN b /\ n + 1 # 1 /\ Tail(b)[n] = b[n + 1]
         /\ \A n \in DOMAIN b : n = 1 \/ \E k \in DOMAIN Tail(b) : n = k + 1
<1>1. Len(b) \in Nat /\ Len(b) # 0 /\ DOMAIN b = 1 .. Len(b)
  OBVIOUS
<1>2. DOMAIN Tail(b) = 1 .. Len(b) - 1
  BY <1>1
<1>3. ASSUME NEW n \in DOMAIN b, n # 1
      PROVE  \E k \in DOMAIN Tail(b) : n = k + 1
  <2>1. n - 1 \in DOMAIN Tail(b) /\ n = (n - 1) + 1
    BY <1>1, <1>2, <1>3
  <2> QED
    BY <2>1
<1> QED
  BY <1>1, <1>2, <1>3

(* The last element of a sequence, and the others. *)
LEMMA AppendedElements ==
  ASSUME NEW S, NEW b \in Seq(S), NEW x \in S
  PROVE  /\ Append(b, x) \in Seq(S)
         /\ \A n \in DOMAIN Append(b, x) :
              \/ n \in DOMAIN b /\ Append(b, x)[n] = b[n]
              \/ n = Len(b) + 1 /\ Append(b, x)[n] = x
         /\ \A n \in DOMAIN b : n \in DOMAIN Append(b, x) /\ Append(b, x)[n] = b[n]
         /\ Len(b) + 1 \in DOMAIN Append(b, x) /\ Append(b, x)[Len(b) + 1] = x
  OBVIOUS

(* The token starts in process 1. *)
LEMMA InitIInv == Init => IInv
<1> SUFFICES ASSUME Init PROVE IInv
  OBVIOUS
<1>1. \A j \in Processes : j # 1 => RequestLink(j) \in LinksTo(j)
  BY DEF LinksTo, AllLinks, RequestLink
<1>2. TypeOK
  <2>1. backlog \in [Processes -> Seq(AllLinks)]
    BY <1>1 DEF Init, LinksTo
  <2>2. /\ job \in [Processes -> CallRecords \cup {NoCall}]
        /\ call \in [Processes -> CallRecords \cup {NoCall}]
    BY DEF Init
  <2>3. /\ requests \in [AllLinks -> Seq(Messages)]
        /\ responses \in [AllLinks -> Seq(Messages \cup {NoResponse})]
    BY DEF Init
  <2>4. calls \in 0 .. MaxCalls
    BY RemoteSessionAssumption DEF Init
  <2>5. /\ sender \in [Processes -> AllLinks \cup {NoLink}]
        /\ rootConnection \in [Processes -> AllLinks \cup {NoLink}]
        /\ reading \in [Processes -> AllLinks \cup {NoLink}]
        /\ posted \in [Processes -> Seq(AllLinks)]
    BY DEF Init
  <2>6. /\ hello \in [Processes -> BOOLEAN] /\ root \in [Processes -> BOOLEAN]
        /\ writing \in [Processes -> BOOLEAN]
        /\ taken \in [Processes -> SUBSET AllLinks]
        /\ strand \in [Processes -> {"free", "reading", "serving", "replied",
                                     "crashed"}]
        /\ made \subseteq Links /\ astray \subseteq Links
    BY DEF Init
  <2> QED
    BY <2>1, <2>2, <2>3, <2>4, <2>5, <2>6 DEF TypeOK
<1>3. Wiring
  BY <1>1 DEF Init, Wiring
<1>4. Accepted
  <2>1. \A j \in Processes : /\ taken[j] = {} /\ sender[j] = NoLink
                             /\ RequestLink(j) # NoLink
                             /\ j = 1 => backlog[j] = <<>>
    BY DEF Init, RequestLink, NoLink, Processes
  <2>2. \A j \in Processes \ {1} :
          /\ \A m, n \in DOMAIN backlog[j] : m = n
          /\ \A n \in DOMAIN backlog[j] : backlog[j][n] = RequestLink(j)
    <3> TAKE j \in Processes \ {1}
    <3>1. backlog[j] = <<RequestLink(j)>>
      BY DEF Init
    <3> QED
      BY <3>1
  <2>3. \A j \in Processes : taken[j] \subseteq made \cup {RequestLink(j)}
    BY <2>1
  <2> QED
    BY <2>1, <2>2, <2>3 DEF Accepted
<1>5. OneTop
  BY DEF Init, OneTop, Top, Active
<1>6. Callers /\ RequestsMatch /\ ServesCaller /\ ResponsesMatch
  BY DEF Init, Callers, RequestsMatch, ServesCaller, ResponsesMatch
<1>7. OwnResponse /\ astray \subseteq made
  BY DEF Init, OwnResponse
<1> QED
  BY <1>2, <1>3, <1>4, <1>5, <1>6, <1>7 DEF IInv, Session

(* What is not known of links before they are made and accepted does not   *)
(* change what is known of calls.                                          *)
LEMMA SessionKept ==
  ASSUME Session,
         UNCHANGED <<requests, responses, strand, reading, job, call, calls, sender,
                     astray>>,
         made \subseteq made',
         \A j \in Processes : hello[j] => hello'[j],
         \A l \in AllLinks : Open(l) => Open(l)',
         \A l \in made : ~Waits(l) /\ l \notin taken[l[2]] =>
                           ~Waits(l)' /\ l \notin taken'[l[2]]
  PROVE  Session'
<1> USE DEF Session
<1>1. OneTop'
  BY DEF OneTop, Top, Active
<1>2. Callers'
  BY DEF Callers, Active
<1>3. \A i : Top(i) => Top(i)'
  BY DEF Top, Active
<1>4. \A i : Wanted(i)' = Wanted(i)
  BY DEF Wanted
<1>5. RequestsMatch'
  BY <1>3, <1>4 DEF RequestsMatch
<1>6. ResponsesMatch'
  BY <1>3, <1>4, LinkFacts DEF ResponsesMatch
<1>7. ServesCaller'
  BY DEF ServesCaller
<1>8. OwnResponse' /\ astray' \subseteq made'
  BY DEF OwnResponse
<1> QED
  BY <1>1, <1>2, <1>5, <1>6, <1>7, <1>8

(* One lemma for each action. *)
LEMMA HelloStep ==
  ASSUME IInv, NEW j \in Processes, Hello(j)
  PROVE  IInv'
<1>1. /\ hello' = [hello EXCEPT ![j] = TRUE]
      /\ UNCHANGED <<made, backlog, requests, responses, sender, writing, root, posted,
                     rootConnection, strand, reading, job, taken, call, calls, astray>>
  BY DEF Hello, network, talk, client
<1>2. TypeOK'
  BY <1>1 DEF IInv, TypeOK
<1>3. \A k \in Processes : hello[k] => hello'[k]
  BY <1>1 DEF IInv, TypeOK
<1>4. Wiring'
  BY <1>1, <1>3 DEF IInv, Wiring
<1>5. Accepted'
  BY <1>1 DEF IInv, Accepted
<1>6. Session'
  <2>1. \A l : (Open(l) => Open(l)') /\ (Waits(l)' <=> Waits(l))
    BY <1>1 DEF Open, Waits
  <2> QED
    BY <1>1, <1>3, <2>1, SessionKept DEF IInv
<1> QED
  BY <1>2, <1>4, <1>5, <1>6 DEF IInv

LEMMA SetRootStep ==
  ASSUME IInv, NEW i \in Processes, SetRoot(i)
  PROVE  IInv'
<1>1. /\ root' = [root EXCEPT ![i] = TRUE]
      /\ i = 1 \/ hello[i]
      /\ \A l \in Links : l[1] = i => l \in made
      /\ UNCHANGED <<made, backlog, requests, responses, sender, writing, hello, posted,
                     rootConnection, strand, reading, job, taken, call, calls, astray>>
  BY DEF SetRoot, network, talk, client
<1>2. TypeOK'
  BY <1>1 DEF IInv, TypeOK
<1>3. Wiring'
  BY <1>1 DEF IInv, Wiring, TypeOK
<1>4. Accepted'
  BY <1>1 DEF IInv, Accepted
<1>5. Session'
  <2>1. \A l : (Open(l) => Open(l)') /\ (Waits(l)' <=> Waits(l))
    BY <1>1 DEF Open, Waits
  <2> QED
    BY <1>1, <2>1, SessionKept DEF IInv
<1> QED
  BY <1>2, <1>3, <1>4, <1>5 DEF IInv

(* A new connection waits to be accepted. *)
LEMMA ConnectStep ==
  ASSUME IInv, NEW l \in Links, Connect(l)
  PROVE  IInv'
<1> DEFINE j == l[2]
           b == backlog[j]
           c == Append(b, l)
<1>1. l \in LinksTo(j) /\ l \in AllLinks /\ j \in Processes /\ l \in Links
  BY LinkFacts DEF LinksTo, AllLinks
<1>2. /\ l \notin made /\ made' = made \cup {l}
      /\ backlog' = [backlog EXCEPT ![j] = c]
      /\ UNCHANGED <<requests, responses, sender, writing, hello, root, posted,
                     rootConnection, strand, reading, job, taken, call, calls, astray>>
  BY DEF Connect, talk, server, client
<1>3. /\ b \in Seq(LinksTo(j)) /\ b \in Seq(AllLinks)
      /\ backlog'[j] = c /\ \A k \in Processes \ {j} : backlog'[k] = backlog[k]
  BY <1>1, <1>2 DEF IInv, TypeOK, Wiring
<1>4. /\ c \in Seq(LinksTo(j)) /\ c \in Seq(AllLinks)
      /\ \A n \in DOMAIN c : \/ n \in DOMAIN b /\ c[n] = b[n]
                             \/ n = Len(b) + 1 /\ c[n] = l
      /\ \A n \in DOMAIN b : n \in DOMAIN c /\ c[n] = b[n]
      /\ Len(b) + 1 \in DOMAIN c /\ c[Len(b) + 1] = l
      /\ \A n \in DOMAIN b : n # Len(b) + 1
  <2> HIDE DEF b
  <2> QED
    BY <1>1, <1>3, AppendedElements
<1>5. l # RequestLink(j)
  BY DEF Links, ChildLinks, ParentLinks, RequestLink, Processes
<1>6. l # sender[j] /\ l \notin taken[j] /\ \A n \in DOMAIN b : b[n] # l
  <2>1. l # sender[j]
    BY <1>1, <1>2, <1>5, LinkFacts DEF IInv, Accepted
  <2>2. \A n \in DOMAIN b : b[n] # l
    BY <1>1, <1>2, <1>5 DEF IInv, Accepted
  <2>3. l \notin taken[j]
    BY <1>1, <1>2, <1>5 DEF IInv, Accepted
  <2> QED
    BY <2>1, <2>2, <2>3
<1> HIDE DEF c, b, j
<1>7. TypeOK'
  BY <1>1, <1>2, <1>4 DEF IInv, TypeOK
<1>8. Wiring'
  BY <1>1, <1>2, <1>3, <1>4 DEF IInv, Wiring
<1>9. Accepted'
  <2>1. \A m, n \in DOMAIN c : c[m] = c[n] => m = n
    <3>1. \A m, n \in DOMAIN b : b[m] = b[n] => m = n
      BY <1>1 DEF IInv, Accepted, b
    <3> QED
      BY <3>1, <1>4, <1>6
  <2>2. \A n \in DOMAIN c : /\ c[n] \in made' \cup {RequestLink(j)}
                            /\ c[n] \notin taken[j] \cup {sender[j]}
    BY <1>1, <1>2, <1>4, <1>6 DEF IInv, Accepted, b
  <2> QED
    BY <2>1, <2>2, <1>1, <1>2, <1>3 DEF IInv, Accepted
<1>10. Session'
  <2>1. \A m \in AllLinks : Waits(m) => Waits(m)'
    BY <1>3, <1>4, LinkFacts DEF Waits, b
  <2>2. \A m \in AllLinks : Open(m) => Open(m)'
    BY <2>1, <1>2 DEF Open
  <2>3. \A m \in made : m \in AllLinks /\ m # l
    BY <1>2 DEF IInv, TypeOK, AllLinks
  <2>4. \A m \in made : ~Waits(m) => ~Waits(m)'
    BY <2>3, <1>3, <1>4, LinkFacts DEF Waits, b
  <2> QED
    BY <2>2, <2>4, <1>2, SessionKept DEF IInv
<1> QED
  BY <1>7, <1>8, <1>9, <1>10 DEF IInv

(* An accepted connection goes to the Sender or to the tree. *)
LEMMA AcceptStep ==
  ASSUME IInv, NEW j \in Processes, Accept(j)
  PROVE  IInv'
<1> DEFINE b == backlog[j]
           c == Tail(b)
<1>0. PICK l : l = Head(b)
  OBVIOUS
<1>1. /\ b # <<>> /\ backlog' = [backlog EXCEPT ![j] = c]
      /\ AcceptForTree(j, l) \/ AcceptForSender(j, l)
      /\ UNCHANGED <<made, responses, writing, hello, root, strand, reading, job,
                     call, calls, astray>>
  BY <1>0 DEF Accept, client
<1>2. b \in Seq(LinksTo(j)) /\ b \in Seq(AllLinks)
  BY DEF IInv, TypeOK, Wiring
<1>3. /\ l \in LinksTo(j) /\ l \in AllLinks
      /\ c \in Seq(LinksTo(j)) /\ c \in Seq(AllLinks)
      /\ 1 \in DOMAIN b /\ l = b[1]
      /\ \A n \in DOMAIN c : n + 1 \in DOMAIN b /\ n + 1 # 1 /\ c[n] = b[n + 1]
      /\ \A n \in DOMAIN b : n = 1 \/ \E k \in DOMAIN c : n = k + 1
  <2> HIDE DEF b
  <2> QED
    BY <1>0, <1>1, <1>2, HeadAndTail
<1>4. /\ backlog'[j] = c /\ \A k \in Processes \ {j} : backlog'[k] = backlog[k]
      /\ l[2] = j /\ l # NoLink
  BY <1>1, <1>3, LinkFacts DEF IInv, TypeOK, LinksTo
<1> HIDE DEF c
<1>5. /\ \A n \in DOMAIN c : c[n] # l
      /\ \A m, n \in DOMAIN c : c[m] = c[n] => m = n
      /\ \A n \in DOMAIN c : /\ c[n] \in made \cup {RequestLink(j)}
                             /\ c[n] \notin taken[j] \cup {sender[j]}
      /\ l \in made \cup {RequestLink(j)} /\ l \notin taken[j] \cup {sender[j]}
  <2>1. \A n \in DOMAIN c : n \in Nat
    BY <1>3
  <2> QED
    BY <2>1, <1>3 DEF IInv, Accepted
<1>6. \A m \in AllLinks : m # l => (Waits(m)' <=> Waits(m))
  BY <1>3, <1>4, LinkFacts DEF Waits
<1>7. ~Waits(l)'
  BY <1>4, <1>5 DEF Waits
<1> HIDE DEF b
<1>8. CASE AcceptForTree(j, l)
  <2>1. /\ hello[j]
        /\ rootConnection' = [rootConnection EXCEPT ![j] = l]
        /\ posted' = [posted EXCEPT ![j] = Append(@, l)]
        /\ taken' = [taken EXCEPT ![j] = @ \cup {l}]
        /\ UNCHANGED <<requests, sender>>
    BY <1>8 DEF AcceptForTree
  <2>2. posted[j] \in Seq(LinksTo(j)) /\ posted[j] \in Seq(AllLinks)
    BY DEF IInv, TypeOK, Wiring
  <2> DEFINE q == Append(posted[j], l)
  <2>3. /\ q \in Seq(LinksTo(j)) /\ q \in Seq(AllLinks)
        /\ \A n \in DOMAIN q : \/ n \in DOMAIN posted[j] /\ q[n] = posted[j][n]
                               \/ q[n] = l
    BY <2>2, <1>3, AppendedElements
  <2>4. posted' = [posted EXCEPT ![j] = q]
    BY <2>1
  <2> HIDE DEF q
  <2>5. TypeOK'
    BY <2>1, <2>3, <2>4, <1>1, <1>3 DEF IInv, TypeOK
  <2>6. Wiring'
    <3> SUFFICES ASSUME NEW k \in Processes PROVE Wiring!(k)'
      BY DEF Wiring
    <3>1. CASE k = j
      <4>1. /\ posted'[j] = q /\ rootConnection'[j] = l
            /\ taken'[j] = taken[j] \cup {l}
            /\ hello'[j] = hello[j] /\ hello[j] = TRUE
        BY <2>1, <2>4, <1>1 DEF IInv, TypeOK
      <4>2. \A n \in DOMAIN q : q[n] \in taken[j] \cup {l}
        BY <2>3 DEF IInv, Wiring
      <4>3. /\ backlog'[j] \in Seq(LinksTo(j)) /\ posted'[j] \in Seq(LinksTo(j))
            /\ \A n \in DOMAIN posted'[j] : posted'[j][n] \in taken'[j]
            /\ taken'[j] \subseteq LinksTo(j)
            /\ rootConnection'[j] \in taken'[j] /\ rootConnection'[j] # NoLink
        BY <4>1, <4>2, <2>3, <1>3, <1>4 DEF IInv, Wiring
      <4> QED
        BY <3>1, <4>1, <4>3, <1>1 DEF IInv, Wiring
    <3>2. CASE k # j
      BY <3>2, <2>1, <2>4, <1>1, <1>4 DEF IInv, Wiring, TypeOK
    <3> QED
      BY <3>1, <3>2
  <2>7. Accepted'
    BY <2>1, <1>1, <1>3, <1>4, <1>5 DEF IInv, Accepted, TypeOK
  <2>8. Session'
    <3>1. \A m \in AllLinks : Open(m) => Open(m)'
      BY <2>1, <1>4, <1>6 DEF Open, IInv, TypeOK
    <3>2. Waits(l)
      BY <1>3, <1>4 DEF Waits, b
    <3>3. \A m \in made : ~Waits(m) /\ m \notin taken[m[2]] =>
                            ~Waits(m)' /\ m \notin taken'[m[2]]
      BY <3>2, <2>1, <1>6 DEF IInv, TypeOK, AllLinks
    <3> QED
      BY <3>1, <3>3, <2>1, <1>1, SessionKept DEF IInv
  <2> QED
    BY <2>5, <2>6, <2>7, <2>8 DEF IInv
<1>9. CASE AcceptForSender(j, l)
  <2> DEFINE o == sender[j]
  <2>1. /\ ~hello[j]
        /\ sender' = [sender EXCEPT ![j] = l]
        /\ requests' = [m \in AllLinks |-> IF m = o THEN <<>> ELSE requests[m]]
        /\ UNCHANGED <<rootConnection, posted, taken>>
    BY <1>9 DEF AcceptForSender
  <2>2. /\ sender'[j] = l /\ \A k \in Processes \ {j} : sender'[k] = sender[k]
    BY <2>1 DEF IInv, TypeOK
  <2>3. TypeOK'
    <3>1. requests' \in [AllLinks -> Seq(Messages)]
      BY <2>1 DEF IInv, TypeOK
    <3> QED
      BY <3>1, <2>1, <1>1, <1>3 DEF IInv, TypeOK
  <2>4. Wiring'
    BY <2>1, <1>1, <1>3, <1>4 DEF IInv, Wiring, TypeOK
  <2>5. Accepted'
    BY <2>1, <2>2, <1>1, <1>3, <1>4, <1>5 DEF IInv, Accepted
  <2>6. /\ OneTop' /\ Callers' /\ ServesCaller'
        /\ \A i : Top(i)' <=> Top(i)
        /\ \A i : Wanted(i)' = Wanted(i)
    BY <2>1, <1>1
       DEF IInv, Session, OneTop, Callers, ServesCaller, Top, Active, Wanted
  <2>7. \A m \in AllLinks : m # o /\ Open(m) => Open(m)'
    BY <2>1, <2>2, <1>4, <1>6, LinkFacts DEF Open, IInv, TypeOK
  <2>8. \A m \in AllLinks : m # o /\ m # sender'[m[2]] => m # sender[m[2]]
    BY <2>2, LinkFacts
  <2>9. RequestsMatch'
    <3> SUFFICES ASSUME NEW m \in AllLinks, requests'[m] # <<>>
                 PROVE  RequestsMatch!(m)!2'
      BY DEF RequestsMatch
    <3>1. m # o /\ requests[m] # <<>> /\ requests'[m] = requests[m]
      BY <2>1
    <3> QED
      BY <3>1, <2>6, <2>7, <2>8, <1>1 DEF IInv, Session, RequestsMatch
  <2>10. ResponsesMatch'
    <3> SUFFICES ASSUME NEW m \in AllLinks, responses'[m] # <<>>
                 PROVE  ResponsesMatch!(m)!2'
      BY DEF ResponsesMatch
    <3>1. m[2] # j /\ m[2] \in Processes
      BY <2>1, <1>1, LinkFacts DEF IInv, Session, ResponsesMatch
    <3> QED
      BY <3>1, <2>2, <2>6, <1>1 DEF IInv, Session, ResponsesMatch
  <2>11. OwnResponse' /\ astray' \subseteq made'
    BY <2>1, <1>1, <1>6, <1>7 DEF IInv, Session, OwnResponse, TypeOK, AllLinks
  <2> QED
    BY <2>3, <2>4, <2>5, <2>6, <2>9, <2>10, <2>11 DEF IInv, Session
<1> QED
  BY <1>1, <1>8, <1>9

(* Sender::write puts what is no Response on the link of the Sender. *)
LEMMA SenderWritesStep ==
  ASSUME IInv, NEW j \in Processes, SenderWrites(j)
  PROVE  IInv'
<1> DEFINE l == sender[j]
<1>1. /\ root[j] /\ l \in Links
      /\ responses' = [responses EXCEPT ![l] = Append(@, NoResponse)]
      /\ writing' = [writing EXCEPT ![j] = TRUE]
      /\ UNCHANGED <<made, backlog, requests, sender, hello, root, posted, rootConnection,
                     strand, reading, job, taken, call, calls, astray>>
  BY DEF SenderWrites, server, client
<1>2. l \in AllLinks /\ l[2] = j /\ j # 1
  BY <1>1, LinkFacts DEF IInv, Accepted, LinksTo, AllLinks
<1>3. hello[j]
  BY <1>1, <1>2 DEF IInv, Wiring
<1>4. responses[l] \in Seq({NoResponse}) \/ l \notin ChildLinks
  <2>1. CASE responses[l] = <<>>
    BY <2>1
  <2>2. CASE responses[l] # <<>>
    BY <2>2, <1>2 DEF IInv, Session, ResponsesMatch
  <2> QED
    BY <2>1, <2>2
<1> HIDE DEF l
<1>5. /\ responses'[l] = Append(responses[l], NoResponse)
      /\ \A m \in AllLinks \ {l} : responses'[m] = responses[m]
  BY <1>1, <1>2 DEF IInv, TypeOK
<1>6. TypeOK'
  <2>1. responses' \in [AllLinks -> Seq(Messages \cup {NoResponse})]
    BY <1>1, <1>2 DEF IInv, TypeOK
  <2> QED
    BY <2>1, <1>1 DEF IInv, TypeOK
<1>7. Wiring' /\ Accepted'
  BY <1>1 DEF IInv, Wiring, Accepted
<1>8. /\ OneTop' /\ Callers' /\ ServesCaller'
      /\ \A i : Top(i)' <=> Top(i)
      /\ \A i : Wanted(i)' = Wanted(i)
      /\ \A m : (Open(m)' <=> Open(m)) /\ (Waits(m)' <=> Waits(m))
  BY <1>1 DEF IInv, Session, OneTop, Callers, ServesCaller, Top, Active, Wanted, Open, Waits
<1>9. RequestsMatch'
  BY <1>1, <1>2, <1>5, <1>8 DEF IInv, Session, RequestsMatch, l
<1>10. ResponsesMatch'
  <2> SUFFICES ASSUME NEW m \in AllLinks, responses'[m] # <<>>
               PROVE  ResponsesMatch!(m)!2'
    BY DEF ResponsesMatch
  <2>1. CASE m = l
    <3>1. l \in ChildLinks => Append(responses[l], NoResponse) \in Seq({NoResponse})
      BY <1>4
    <3> QED
      BY <3>1, <2>1, <1>1, <1>2, <1>3, <1>5 DEF l
  <2>2. CASE m # l
    BY <2>2, <1>1, <1>5, <1>8 DEF IInv, Session, ResponsesMatch
  <2> QED
    BY <2>1, <2>2
<1>11. OwnResponse' /\ astray' \subseteq made'
  BY <1>1, <1>8 DEF IInv, Session, OwnResponse
<1> QED
  BY <1>6, <1>7, <1>8, <1>9, <1>10, <1>11 DEF IInv, Session

(* and reads the next request from it. *)
LEMMA SenderReadsStep ==
  ASSUME IInv, NEW j \in Processes, SenderReads(j)
  PROVE  IInv'
<1> DEFINE l == sender[j]
<1>1. /\ requests[l] # <<>>
      /\ requests' = [requests EXCEPT ![l] = Tail(@)]
      /\ writing' = [writing EXCEPT ![j] = FALSE]
      /\ UNCHANGED <<made, backlog, responses, sender, hello, root, posted, rootConnection,
                     strand, reading, job, taken, call, calls, astray>>
  BY DEF SenderReads, server, client
<1>2. TypeOK'
  <2>1. ASSUME l \in AllLinks
        PROVE  Tail(requests[l]) \in Seq(Messages)
    <3>1. requests[l] \in Seq(Messages)
      BY <2>1 DEF IInv, TypeOK
    <3> QED
      BY <3>1, <1>1
  <2>2. requests' \in [AllLinks -> Seq(Messages)]
    BY <2>1, <1>1 DEF IInv, TypeOK
  <2> QED
    BY <2>2, <1>1 DEF IInv, TypeOK
<1>3. Wiring' /\ Accepted'
  BY <1>1 DEF IInv, Wiring, Accepted
<1>4. /\ OneTop' /\ Callers' /\ ServesCaller'
      /\ \A i : Top(i)' <=> Top(i)
      /\ \A i : Wanted(i)' = Wanted(i)
      /\ \A m : (Open(m)' <=> Open(m)) /\ (Waits(m)' <=> Waits(m))
  BY <1>1 DEF IInv, Session, OneTop, Callers, ServesCaller, Top, Active, Wanted, Open, Waits
<1>5. RequestsMatch'
  <2> SUFFICES ASSUME NEW m \in AllLinks, requests'[m] # <<>>
               PROVE  RequestsMatch!(m)!2'
    BY DEF RequestsMatch
  <2>1. CASE m = l
    <3>1. l = sender[l[2]]
      BY <2>1, LinkFacts DEF IInv, Accepted, LinksTo
    <3>2. l \in ChildLinks /\ Open(l)
      BY <2>1, <1>1 DEF IInv, Session, RequestsMatch
    <3> QED
      BY <3>1, <3>2, <2>1, <1>1, <1>4
  <2>2. CASE m # l
    <3>1. requests'[m] = requests[m]
      BY <2>2, <1>1 DEF IInv, TypeOK
    <3> QED
      BY <3>1, <1>1, <1>4 DEF IInv, Session, RequestsMatch
  <2> QED
    BY <2>1, <2>2
<1>6. ResponsesMatch'
  BY <1>1, <1>4 DEF IInv, Session, ResponsesMatch
<1>7. OwnResponse' /\ astray' \subseteq made'
  BY <1>1, <1>4 DEF IInv, Session, OwnResponse
<1> QED
  BY <1>2, <1>3, <1>4, <1>5, <1>6, <1>7 DEF IInv, Session

(* A strand that starts to read does not take part in any call.            *)
LEMMA StrandMoves ==
  ASSUME IInv, NEW j \in Processes, strand[j] # "serving",
         strand' = [strand EXCEPT ![j] = "reading"],
         \A k \in Processes \ {j} : job'[k] = job[k] /\ reading'[k] = reading[k],
         UNCHANGED <<made, backlog, requests, responses, hello, sender, taken, call, calls,
                     astray>>
  PROVE  Session'
<1>1. \A k \in Processes : strand'[k] = "serving" <=> strand[k] = "serving"
  BY DEF IInv, TypeOK
<1>2. /\ \A k \in Processes : call[k] # NoCall => call[k].link[2] \in Processes
      /\ \A l \in ChildLinks : l \in AllLinks /\ l[1] \in Processes
  BY LinkFacts DEF IInv, Session, Callers
<1>3. \A k \in Processes : Top(k)' <=> Top(k)
  BY <1>1, <1>2 DEF Top, Active
<1>4. /\ \A i : Wanted(i)' = Wanted(i)
      /\ \A m : (Open(m)' <=> Open(m)) /\ (Waits(m)' <=> Waits(m))
  BY DEF Wanted, Open, Waits
<1>5. OneTop'
  BY <1>3 DEF IInv, Session, OneTop
<1>6. Callers'
  BY <1>1 DEF IInv, Session, Callers, Active
<1>7. RequestsMatch'
  BY <1>2, <1>3, <1>4 DEF IInv, Session, RequestsMatch
<1>8. ResponsesMatch'
  BY <1>2, <1>3, <1>4 DEF IInv, Session, ResponsesMatch
<1>9. ServesCaller'
  BY <1>1 DEF IInv, Session, ServesCaller
<1>10. OwnResponse' /\ astray' \subseteq made'
  BY <1>4 DEF IInv, Session, OwnResponse
<1> QED
  BY <1>5, <1>6, <1>7, <1>8, <1>9, <1>10 DEF Session

(* The strand takes up the first read that was posted. *)
LEMMA StrandTakesStep ==
  ASSUME IInv, NEW j \in Processes, StrandTakes(j)
  PROVE  IInv'
<1> DEFINE q == posted[j]
           t == Tail(q)
<1>0. PICK l : l = Head(q)
  OBVIOUS
<1>1. /\ strand[j] = "free" /\ q # <<>>
      /\ posted' = [posted EXCEPT ![j] = t]
      /\ reading' = [reading EXCEPT ![j] = l]
      /\ strand' = [strand EXCEPT ![j] = "reading"]
      /\ UNCHANGED <<made, backlog, requests, responses, sender, writing, hello, root,
                     rootConnection, job, taken, call, calls, astray>>
  BY <1>0 DEF StrandTakes, network, talk, client
<1>2. q \in Seq(LinksTo(j)) /\ q \in Seq(AllLinks)
  BY DEF IInv, Wiring, TypeOK
<1>3. /\ l \in LinksTo(j) /\ l \in AllLinks /\ l # NoLink
      /\ t \in Seq(LinksTo(j)) /\ t \in Seq(AllLinks)
      /\ 1 \in DOMAIN q /\ l = q[1]
      /\ \A n \in DOMAIN t : n + 1 \in DOMAIN q /\ t[n] = q[n + 1]
  <2> HIDE DEF q
  <2> QED
    BY <1>0, <1>1, <1>2, HeadAndTail, LinkFacts
<1>4. l \in taken[j] /\ \A n \in DOMAIN t : t[n] \in taken[j]
  BY <1>3 DEF IInv, Wiring
<1> HIDE DEF t
<1>5. TypeOK'
  BY <1>1, <1>3 DEF IInv, TypeOK
<1>6. Wiring'
  <2> SUFFICES ASSUME NEW k \in Processes PROVE Wiring!(k)'
    BY DEF Wiring
  <2>1. CASE k = j
    <3>1. /\ posted'[j] = t /\ reading'[j] = l /\ strand'[j] = "reading"
          /\ rootConnection[j] # NoLink
      BY <1>1 DEF IInv, TypeOK, Wiring
    <3> QED
      BY <2>1, <3>1, <1>1, <1>3, <1>4 DEF IInv, Wiring
  <2>2. CASE k # j
    BY <2>2, <1>1 DEF IInv, Wiring, TypeOK
  <2> QED
    BY <2>1, <2>2
<1>7. Accepted'
  BY <1>1 DEF IInv, Accepted
<1>8. Session'
  <2>1. \A k \in Processes \ {j} : job'[k] = job[k] /\ reading'[k] = reading[k]
    BY <1>1 DEF IInv, TypeOK
  <2> QED
    BY <1>1, <2>1, StrandMoves
<1> QED
  BY <1>5, <1>6, <1>7, <1>8 DEF IInv

(* The strand reads on, at root_connection_. *)
LEMMA ReadNextStep ==
  ASSUME IInv, NEW j \in Processes, ReadNext(j)
  PROVE  IInv'
<1>1. /\ strand[j] = "replied"
      /\ strand' = [strand EXCEPT ![j] = "reading"]
      /\ reading' = [reading EXCEPT ![j] = rootConnection[j]]
      /\ job' = [job EXCEPT ![j] = NoCall]
      /\ UNCHANGED <<made, backlog, requests, responses, sender, writing, hello, root,
                     posted, rootConnection, taken, call, calls, astray>>
  BY DEF ReadNext, network, talk, client
<1>2. TypeOK'
  BY <1>1 DEF IInv, TypeOK
<1>3. Wiring'
  BY <1>1 DEF IInv, Wiring, TypeOK
<1>4. Accepted'
  BY <1>1 DEF IInv, Accepted
<1>5. Session'
  <2>1. \A k \in Processes \ {j} : job'[k] = job[k] /\ reading'[k] = reading[k]
    BY <1>1 DEF IInv, TypeOK
  <2> QED
    BY <1>1, <2>1, StrandMoves
<1> QED
  BY <1>2, <1>3, <1>4, <1>5 DEF IInv

(* What a process reads and answers on are connections that it took. *)
LEMMA ReadingTaken ==
  ASSUME IInv, NEW j \in Processes, strand[j] \in {"reading", "serving", "replied"}
  PROVE  \A l \in {reading[j], rootConnection[j]} :
           /\ l \in taken[j] /\ l # sender[j] /\ l \in AllLinks /\ l[2] = j /\ j # 1
           /\ l # NoLink /\ hello[j]
<1> TAKE l \in {reading[j], rootConnection[j]}
<1>1. l \in taken[j] /\ l # NoLink
  BY DEF IInv, Wiring
<1>2. l # sender[j]
  BY <1>1 DEF IInv, Accepted
<1>3. hello[j] /\ l \in LinksTo(j)
  BY <1>1 DEF IInv, Wiring
<1> QED
  BY <1>1, <1>2, <1>3, LinkFacts DEF LinksTo

(* What an invariant says of the process that serves a call, and of its    *)
(* caller: they are connected, and nothing is on its way between them.     *)
LEMMA Served ==
  ASSUME IInv, NEW j \in Processes, strand[j] = "serving"
  PROVE  /\ reading[j] \in ChildLinks \cap AllLinks /\ reading[j][2] = j
         /\ reading[j][1] \in Processes \ {j} /\ j # 1
         /\ reading[j] \in taken[j] /\ reading[j] # sender[j]
         /\ call[reading[j][1]].link = reading[j]
         /\ call[reading[j][1]] # NoCall
         /\ requests[reading[j]] = <<>> /\ responses[reading[j]] = <<>>
         /\ \A k \in Processes : call[k] # NoCall /\ call[k].link[2] = j =>
              k = reading[j][1]
<1> DEFINE l == reading[j]
           i == l[1]
<1>1. l \in ChildLinks /\ call[i].link = l
  BY DEF IInv, Session, ServesCaller
<1>2. /\ l \in taken[j] /\ l # sender[j] /\ l \in AllLinks /\ l[2] = j /\ j # 1
      /\ l # NoLink
  BY ReadingTaken
<1>3. call[i] # NoCall /\ i \in Processes
  BY <1>1, <1>2, LinkFacts DEF NoCall
<1>4. ~Top(i) /\ i # j
  <2>1. ~Top(i)
    BY <1>1, <1>2, <1>3 DEF Top
  <2>2. i # j
    BY <1>1, <1>2, RemoteSessionAssumption DEF ChildLinks, Processes
  <2> QED
    BY <2>1, <2>2
<1>5. requests[l] = <<>> /\ responses[l] = <<>>
  BY <1>1, <1>2, <1>3, <1>4 DEF IInv, Session, RequestsMatch, ResponsesMatch
<1>6. ASSUME NEW k \in Processes, call[k] # NoCall, call[k].link[2] = j
      PROVE  k = i
  <2>1. call[k].link \in ChildLinks /\ call[k].link[1] = k
    BY <1>6 DEF IInv, Session, Callers
  <2> QED
    BY <2>1, <1>1, <1>2, <1>6, LinkFacts
<1> QED
  BY <1>1, <1>2, <1>3, <1>4, <1>5, <1>6

(* The token passes to the process that reads the request. *)
LEMMA ReadRequestStep ==
  ASSUME IInv, NEW j \in Processes, ReadRequest(j)
  PROVE  IInv'
<1>0. PICK l, i, r : l = reading[j] /\ i = l[1] /\ r = Wanted(i)
  OBVIOUS
<1>1. strand[j] = "reading" /\ requests[l] # <<>>
  BY <1>0 DEF ReadRequest
<1>2. /\ l \in AllLinks /\ l[2] = j /\ j # 1 /\ l # sender[j] /\ l # NoLink
  BY <1>0, <1>1, ReadingTaken
<1>3. /\ l \in ChildLinks /\ i \in Processes /\ Top(i)
      /\ call[i].link = l /\ requests[l] = <<r>> /\ responses[l] = <<>>
  BY <1>0, <1>1, <1>2, LinkFacts DEF IInv, Session, RequestsMatch
<1>4. i # j /\ call[i] # NoCall
  BY <1>0, <1>1, <1>2, <1>3 DEF NoCall, Top, Active
<1>5. /\ r \in Messages /\ r.id = call[i].id /\ r.type = RequestType[call[i].method]
      /\ r.id \in 1 .. MaxCalls /\ Handler(r.type) \in DOMAIN RequestType
  <2>1. <<r>> \in Seq(Messages)
    BY <1>2, <1>3 DEF IInv, TypeOK
  <2>2. r \in Messages
    BY <2>1
  <2> QED
    BY <2>2, <1>0, ProtocolFacts DEF Messages, Wanted
<1> DEFINE c == [link |-> l, method |-> Handler(r.type), id |-> r.id]
<1>6. /\ requests' = [requests EXCEPT ![l] = <<>>]
      /\ job' = [job EXCEPT ![j] = c]
      /\ strand' = [strand EXCEPT ![j] = IF root[j] THEN "serving" ELSE "crashed"]
      /\ UNCHANGED <<made, backlog, responses, sender, writing, hello, root, posted,
                     rootConnection, reading, taken, call, calls, astray>>
  <2>1. Head(requests[l]) = r /\ Tail(requests[l]) = <<>>
    BY <1>3
  <2> QED
    BY <2>1, <1>0 DEF ReadRequest, talk, client
<1>7. c \in CallRecords /\ c.method = Handler(r.type) /\ c.id = r.id
  BY <1>3, <1>5 DEF CallRecords
<1> HIDE DEF c
<1>8. /\ requests'[l] = <<>> /\ \A m \in AllLinks \ {l} : requests'[m] = requests[m]
      /\ job'[j] = c /\ strand'[j] \in {"serving", "crashed"}
      /\ root[j] <=> strand'[j] = "serving"
      /\ \A k \in Processes \ {j} : strand'[k] = strand[k] /\ job'[k] = job[k]
  BY <1>2, <1>6 DEF IInv, TypeOK
<1>9. TypeOK'
  BY <1>2, <1>6, <1>7 DEF IInv, TypeOK
<1>10. Wiring'
  BY <1>1, <1>6, <1>8 DEF IInv, Wiring
<1>11. Accepted'
  BY <1>6 DEF IInv, Accepted
<1>12. call[j] = NoCall
  BY <1>1, <1>2 DEF IInv, Session, Callers, Active
<1>13. \A k \in Processes : Top(k) => k = i
  BY <1>3 DEF IInv, Session, OneTop
<1>14. \A k \in Processes : Top(k)' => k = IF strand'[j] = "serving" THEN j ELSE i
  <2> TAKE k \in Processes
  <2>1. k # j /\ Top(k)' => Top(k)
    <3>1. strand[j] # "serving"
      BY <1>1
    <3> QED
      BY <3>1, <1>6, <1>8 DEF Top, Active
  <2>2. strand'[j] # "serving" => ~Top(j)'
    BY <1>2 DEF Top, Active
  <2>3. strand'[j] = "serving" => ~Top(i)'
    BY <1>2, <1>3, <1>4, <1>6 DEF Top
  <2> QED
    BY <2>1, <2>2, <2>3, <1>13
<1>15. OneTop'
  BY <1>14 DEF OneTop
<1>16. Callers'
  BY <1>1, <1>6, <1>8 DEF IInv, Session, Callers, Active
<1>17. \A m \in AllLinks :
         /\ requests[m] # <<>> => m = l \/ m = sender[m[2]]
         /\ responses[m] # <<>> /\ m \in ChildLinks => m = sender[m[2]]
  <2> TAKE m \in AllLinks
  <2>1. m \in ChildLinks /\ Top(m[1]) /\ call[m[1]].link = m => m = l
    BY <1>3, <1>13, LinkFacts
  <2>2. requests[m] # <<>> => m = l \/ m = sender[m[2]]
    BY <2>1 DEF IInv, Session, RequestsMatch
  <2>3. responses[m] # <<>> /\ m \in ChildLinks => m = l \/ m = sender[m[2]]
    BY <2>1 DEF IInv, Session, ResponsesMatch
  <2> QED
    BY <2>2, <2>3, <1>3
<1>18. \A m : (Open(m)' <=> Open(m)) /\ (Waits(m)' <=> Waits(m))
  BY <1>6 DEF Open, Waits
<1>19. RequestsMatch'
  BY <1>6, <1>8, <1>17, <1>18 DEF IInv, Session, RequestsMatch
<1>20. ResponsesMatch'
  BY <1>6, <1>17 DEF IInv, Session, ResponsesMatch
<1>21. ServesCaller'
  BY <1>0, <1>3, <1>5, <1>6, <1>7, <1>8 DEF IInv, Session, ServesCaller
<1>22. OwnResponse' /\ astray' \subseteq made'
  BY <1>6, <1>18 DEF IInv, Session, OwnResponse
<1> QED
  BY <1>9, <1>10, <1>11, <1>15, <1>16, <1>19, <1>20, <1>21, <1>22 DEF IInv, Session

(* The token passes back to the caller with the response. *)
LEMMA ReplyStep ==
  ASSUME IInv, NEW j \in Processes, Reply(j)
  PROVE  IInv'
<1>0. PICK n, i, l, r : n = reading[j] /\ i = n[1] /\ l = rootConnection[j]
                        /\ r = Response(j)
  OBVIOUS
<1>1. strand[j] = "serving" /\ call[j] = NoCall
  BY DEF Reply
<1>2. /\ n \in ChildLinks \cap AllLinks /\ n[2] = j /\ i \in Processes \ {j} /\ j # 1
      /\ call[i].link = n /\ call[i] # NoCall
      /\ n # sender[j] /\ responses[n] = <<>> /\ requests[n] = <<>>
      /\ \A k \in Processes : call[k] # NoCall /\ call[k].link[2] = j => k = i
  BY <1>0, <1>1, Served
<1>3. /\ l \in AllLinks /\ l[2] = j /\ hello[j] /\ l # sender[j]
  BY <1>0, <1>1, ReadingTaken
<1>4. l \in ChildLinks => l = n
  BY <1>2, <1>3, LinkFacts
<1>5. r = Wanted(i) /\ r \in Messages
  <2>1. /\ job[j].method = Handler(RequestType[call[i].method])
        /\ job[j].id = call[i].id
    BY <1>0, <1>1 DEF IInv, Session, ServesCaller
  <2>2. /\ call[i].method \in DOMAIN RequestType /\ call[i].id \in 1 .. MaxCalls
    BY <1>2 DEF IInv, TypeOK, CallRecords
  <2>3. ResponseType(job[j].method) = RequestType[call[i].method]
    BY <2>1, <2>2, ProtocolFacts
  <2> QED
    BY <1>0, <2>1, <2>2, <2>3, ProtocolFacts DEF Response, Wanted, Messages
<1> DEFINE q == Append(responses[l], r)
<1>6. /\ responses' = [responses EXCEPT ![l] = q]
      /\ strand' = [strand EXCEPT ![j] = "replied"]
      /\ UNCHANGED <<made, backlog, requests, sender, writing, hello, root, posted,
                     rootConnection, reading, job, taken, call, calls, astray>>
  BY <1>0 DEF Reply, talk, client
<1>7. q \in Seq(Messages \cup {NoResponse})
  <2>1. responses[l] \in Seq(Messages \cup {NoResponse})
    BY <1>3 DEF IInv, TypeOK
  <2> QED
    BY <2>1, <1>5
<1>8. l = n => q = <<Wanted(i)>>
  BY <1>2, <1>5, AppendToEmpty
<1> HIDE DEF q
<1>9. /\ responses'[l] = q /\ \A m \in AllLinks \ {l} : responses'[m] = responses[m]
      /\ strand'[j] = "replied" /\ \A k \in Processes \ {j} : strand'[k] = strand[k]
  BY <1>3, <1>6 DEF IInv, TypeOK
<1>10. TypeOK'
  <2>1. responses' \in [AllLinks -> Seq(Messages \cup {NoResponse})]
    BY <1>3, <1>6, <1>7 DEF IInv, TypeOK
  <2> QED
    BY <2>1, <1>6 DEF IInv, TypeOK
<1>11. Wiring'
  BY <1>1, <1>6, <1>9 DEF IInv, Wiring
<1>12. Accepted'
  BY <1>6 DEF IInv, Accepted
<1>13. Top(j)
  BY <1>1 DEF Top, Active
<1>14. \A k \in Processes : Top(k) => k = j
  BY <1>13 DEF IInv, Session, OneTop
<1>15. \A k \in Processes : Top(k)' <=> k = i
  <2> TAKE k \in Processes
  <2>1. ~Top(j)'
    BY <1>2, <1>9 DEF Top, Active
  <2>2. k # j /\ k # i /\ Top(k)' => Top(k)
    BY <1>2, <1>6, <1>9, LinkFacts DEF Top, Active, IInv, Session, Callers
  <2>3. Top(i)'
    BY <1>2, <1>6, <1>9 DEF Top, Active, IInv, Session, Callers
  <2> QED
    BY <2>1, <2>2, <2>3, <1>14
<1>16. OneTop'
  BY <1>15 DEF OneTop
<1>17. Callers'
  BY <1>1, <1>6, <1>9 DEF IInv, Session, Callers, Active
<1>18. \A m \in AllLinks :
         /\ requests[m] # <<>> => m = sender[m[2]]
         /\ responses[m] # <<>> /\ m \in ChildLinks => m = sender[m[2]]
  <2> TAKE m \in AllLinks
  <2>1. ~(m \in ChildLinks /\ Top(m[1]) /\ call[m[1]].link = m)
    <3>1. SUFFICES ASSUME m \in ChildLinks, Top(m[1]), call[m[1]].link = m PROVE FALSE
      OBVIOUS
    <3>2. m[1] = j
      BY <3>1, <1>14, LinkFacts
    <3> QED
      BY <3>1, <3>2, <1>1, LinkFacts DEF NoCall
  <2> QED
    BY <2>1 DEF IInv, Session, RequestsMatch, ResponsesMatch
<1>19. \A m : (Open(m)' <=> Open(m)) /\ (Waits(m)' <=> Waits(m))
  BY <1>6 DEF Open, Waits
<1>20. RequestsMatch'
  BY <1>6, <1>18, <1>19 DEF IInv, Session, RequestsMatch
<1>21. ResponsesMatch'
  <2> SUFFICES ASSUME NEW m \in AllLinks, responses'[m] # <<>>
               PROVE  ResponsesMatch!(m)!2'
    BY DEF ResponsesMatch
  <2>1. CASE m = l
    <3>1. m \in ChildLinks => m = n /\ responses'[m] = <<Wanted(i)>> /\ m[1] = i
      BY <2>1, <1>0, <1>4, <1>8, <1>9
    <3>2. Wanted(i)' = Wanted(i)
      BY <1>6 DEF Wanted
    <3>3. Top(i)'
      BY <1>2, <1>15
    <3> QED
      BY <2>1, <3>1, <3>2, <3>3, <1>2, <1>3, <1>6
  <2>2. CASE m # l
    BY <2>2, <1>6, <1>9, <1>18 DEF IInv, Session, ResponsesMatch
  <2> QED
    BY <2>1, <2>2
<1>22. ServesCaller'
  BY <1>6, <1>9 DEF IInv, Session, ServesCaller
<1>23. OwnResponse' /\ astray' \subseteq made'
  BY <1>6, <1>19 DEF IInv, Session, OwnResponse
<1> QED
  BY <1>10, <1>11, <1>12, <1>16, <1>17, <1>20, <1>21, <1>22, <1>23 DEF IInv, Session

(* When a process has the token, everything on its way to or from a caller *)
(* is on the link that it called on, or on one of a Sender.                *)
LEMMA NothingElse ==
  ASSUME IInv, NEW i \in Processes, Top(i), NEW m \in AllLinks,
         m # sender[m[2]], call[i].link # m
  PROVE  /\ requests[m] = <<>>
         /\ m \in ChildLinks => responses[m] = <<>>
<1>1. ~(m \in ChildLinks /\ Top(m[1]) /\ call[m[1]].link = m)
  BY LinkFacts DEF IInv, Session, OneTop
<1> QED
  BY <1>1 DEF IInv, Session, RequestsMatch, ResponsesMatch

(* The process that calls keeps the token. *)
LEMMA StartCallStep ==
  ASSUME IInv, NEW l \in ChildLinks, NEW method \in Methods,
         StartCall(l[1], l, method)
  PROVE  IInv'
<1> DEFINE i == l[1]
<1>0. PICK r, c : /\ r = [type |-> RequestType[method], id |-> calls + 1]
                  /\ c = [link |-> l, method |-> method, id |-> calls + 1]
  OBVIOUS
<1>1. /\ l \in AllLinks /\ l \in Links /\ l # NoLink /\ i \in Processes
      /\ call[i] = NoCall /\ i \in Active /\ root[i]
  BY LinkFacts DEF StartCall, Runs, Active, IInv, Wiring
<1>2. calls + 1 \in 1 .. MaxCalls /\ calls \in Nat
  BY RemoteSessionAssumption DEF StartCall, IInv, TypeOK
<1>3. r \in Messages /\ c \in CallRecords
  BY <1>0, <1>2, ProtocolFacts, RemoteSessionAssumption DEF Messages, CallRecords
<1>4. l \in made
  BY <1>1 DEF IInv, Wiring
<1>5. /\ requests' = IF Closed(l) THEN requests
                    ELSE [requests EXCEPT ![l] = Append(@, r)]
      /\ call' = [call EXCEPT ![i] = c]
      /\ calls' = calls + 1
      /\ UNCHANGED <<made, backlog, responses, sender, writing, hello, root, posted,
                     rootConnection, strand, reading, job, taken, astray>>
  BY <1>0 DEF StartCall, talk, server
<1>6. /\ r.id = calls + 1 /\ r.type = RequestType[method]
      /\ c.id = calls + 1 /\ c.method = method /\ c.link = l /\ c # NoCall
  BY <1>0, <1>1, <1>2 DEF NoCall
<1> HIDE DEF i
<1>7. /\ call'[i] = c
      /\ \A k \in Processes \ {i} : call'[k] = call[k]
      /\ \A m \in AllLinks \ {l} : requests'[m] = requests[m]
  BY <1>1, <1>5 DEF IInv, TypeOK
<1>8. TypeOK'
  <2>1. Append(requests[l], r) \in Seq(Messages)
    BY <1>1, <1>3 DEF IInv, TypeOK
  <2>2. requests' \in [AllLinks -> Seq(Messages)]
    BY <2>1, <1>1, <1>5 DEF IInv, TypeOK
  <2>3. calls' \in 0 .. MaxCalls
    BY <1>2, <1>5
  <2> QED
    BY <2>2, <2>3, <1>3, <1>5 DEF IInv, TypeOK
<1>9. Wiring' /\ Accepted'
  BY <1>5 DEF IInv, Wiring, Accepted
<1>10. Top(i)
  BY <1>1 DEF Top
<1>11. \A m \in AllLinks :
         m # sender[m[2]] => /\ requests[m] = <<>>
                             /\ m \in ChildLinks => responses[m] = <<>>
  BY <1>1, <1>10, LinkFacts, NothingElse DEF NoCall
<1>12. strand[l[2]] # "serving"
  BY <1>1, Served, LinkFacts DEF i
<1>13. \A k \in Processes : Top(k)' <=> Top(k)
  <2> TAKE k \in Processes
  <2>1. CASE k = i
    BY <2>1, <1>1, <1>5, <1>6, <1>7, <1>10, <1>12 DEF Top, Active
  <2>2. CASE k # i
    BY <2>2, <1>5, <1>7 DEF Top, Active
  <2> QED
    BY <2>1, <2>2
<1>14. OneTop'
  BY <1>13 DEF OneTop, IInv, Session
<1>15. Callers'
  <2>1. \A k \in Processes \ {i} : call[k].id < calls + 1
    BY <1>2 DEF IInv, Session, Callers, NoCall
  <2>2. \A k \in Processes \ {i} : call[k].id # calls + 1
    BY <2>1, <1>2
  <2>3. ASSUME NEW k \in Processes, call'[k] # NoCall, k # i
        PROVE  /\ k \in Active
               /\ call[k].link \in ChildLinks \cap made
               /\ call[k].link[1] = k
               /\ call[k].method \in Methods
               /\ call[k].id \in 1 .. calls'
               /\ \A n \in Processes : call'[n].id = call[k].id => n = k
    BY <2>2, <2>3, <1>2, <1>5, <1>6, <1>7 DEF IInv, Session, Callers
  <2>4. \A n \in Processes : call'[n].id = c.id => n = i
    BY <2>2, <1>6, <1>7
  <2>5. c.link[1] = i /\ c.method \in Methods /\ c.id \in 1 .. calls'
    BY <1>2, <1>5, <1>6 DEF i
  <2>6. Active' = Active
    BY <1>5 DEF Active
  <2> QED
    BY <2>3, <2>4, <2>5, <2>6, <1>1, <1>4, <1>5, <1>6, <1>7 DEF Callers
<1>16. \A m : (Open(m)' <=> Open(m)) /\ (Waits(m)' <=> Waits(m))
  BY <1>5 DEF Open, Waits
<1>17. RequestsMatch'
  <2> SUFFICES ASSUME NEW m \in AllLinks, requests'[m] # <<>>
               PROVE  RequestsMatch!(m)!2'
    BY DEF RequestsMatch
  <2>1. CASE requests'[m] = requests[m]
    <3>1. m = sender[m[2]]
      BY <2>1, <1>11
    <3> QED
      BY <3>1, <2>1, <1>5, <1>16 DEF IInv, Session, RequestsMatch
  <2>2. CASE requests'[m] # requests[m]
    <3>1. m = l /\ ~Closed(l) /\ requests'[l] = Append(requests[l], r)
      BY <2>2, <1>1, <1>5, <1>7 DEF IInv, TypeOK
    <3>2. Open(l)
      BY <3>1, <1>4 DEF Closed, Open
    <3>3. ASSUME l # sender[l[2]]
          PROVE  requests'[l] = <<r>> /\ responses[l] = <<>>
      BY <3>1, <3>3, <1>1, <1>11, AppendToEmpty
    <3>4. Wanted(i)' = r
      BY <1>0, <1>6, <1>7 DEF Wanted
    <3>5. Top(i)' /\ call'[i].link = l
      BY <1>1, <1>6, <1>7, <1>10, <1>13
    <3> QED
      BY <3>1, <3>2, <3>3, <3>4, <3>5, <1>5, <1>16 DEF i
  <2> QED
    BY <2>1, <2>2
<1>18. ResponsesMatch'
  <2> SUFFICES ASSUME NEW m \in AllLinks, responses'[m] # <<>>
               PROVE  ResponsesMatch!(m)!2'
    BY DEF ResponsesMatch
  <2>1. m \in ChildLinks => m = sender[m[2]]
    BY <1>5, <1>11
  <2> QED
    BY <2>1, <1>5 DEF IInv, Session, ResponsesMatch
<1>19. ServesCaller'
  <2>1. ASSUME NEW k \in Processes, strand[k] = "serving"
        PROVE  reading[k][1] \in Processes \ {i}
    BY <2>1, <1>1, Served
  <2> QED
    BY <2>1, <1>5, <1>7 DEF IInv, Session, ServesCaller
<1>20. OwnResponse' /\ astray' \subseteq made'
  BY <1>5, <1>16 DEF IInv, Session, OwnResponse
<1> QED
  BY <1>8, <1>9, <1>14, <1>15, <1>17, <1>18, <1>19, <1>20 DEF IInv, Session

(* A call returns to the process that has the token: with the response to  *)
(* it, or from a link of the Sender.                                       *)
LEMMA ReturnFacts ==
  ASSUME IInv, NEW i \in Processes, Return(i)
  PROVE  LET l == call[i].link IN
         /\ call[i] # NoCall /\ i \in Active
         /\ l \in ChildLinks \cap AllLinks /\ l \in made /\ l[1] = i
         /\ strand[l[2]] # "serving" /\ Top(i)
         /\ l # sender[l[2]] => requests[l] = <<>>
         /\ \/ responses[l] = <<Wanted(i)>> /\ Answer(l) = Wanted(i)
            \/ responses[l] = <<>> /\ ~Waits(l) /\ l \notin taken[l[2]]
            \/ /\ responses[l] \in Seq({NoResponse}) /\ l = sender[l[2]]
               /\ hello[l[2]] /\ ~Waits(l) /\ l \notin taken[l[2]]
<1> DEFINE l == call[i].link
<1>1. call[i] # NoCall /\ (responses[l] # <<>> \/ Closed(l))
  BY DEF Return
<1>2. /\ l \in ChildLinks /\ l \in AllLinks /\ l \in made /\ l[1] = i /\ i \in Active
      /\ l[2] \in Processes
  BY <1>1, LinkFacts DEF IInv, Session, Callers
<1>3. strand[l[2]] # "serving"
  <2>1. SUFFICES ASSUME strand[l[2]] = "serving" PROVE FALSE
    OBVIOUS
  <2>2. reading[l[2]] = l /\ l \in taken[l[2]] /\ responses[l] = <<>>
    BY <2>1, <1>2, Served, LinkFacts
  <2> QED
    BY <2>2, <1>1 DEF Closed
<1>4. Top(i)
  BY <1>2, <1>3 DEF Top
<1>5. l # sender[l[2]] => requests[l] = <<>>
  BY <1>1, <1>2 DEF IInv, Session, RequestsMatch, Open, Closed
<1>6. CASE responses[l] = <<>>
  BY <1>1, <1>2, <1>3, <1>4, <1>5, <1>6 DEF Closed
<1>7. CASE responses[l] # <<>> /\ l # sender[l[2]]
  <2>1. responses[l] = <<Wanted(i)>>
    BY <1>2, <1>7 DEF IInv, Session, ResponsesMatch
  <2>2. Head(<<Wanted(i)>>) = Wanted(i)
    OBVIOUS
  <2>3. Answer(l) = Wanted(i)
    BY <2>1, <2>2, <1>7 DEF Answer
  <2> QED
    BY <2>1, <2>3, <1>1, <1>2, <1>3, <1>4, <1>5
<1>8. CASE responses[l] # <<>> /\ l = sender[l[2]]
  <2>1. responses[l] \in Seq({NoResponse}) /\ hello[l[2]]
    BY <1>2, <1>8 DEF IInv, Session, ResponsesMatch
  <2>2. ~Waits(l) /\ l \notin taken[l[2]]
    BY <1>2, <1>8 DEF IInv, Accepted, Waits
  <2> QED
    BY <2>1, <2>2, <1>1, <1>2, <1>3, <1>4, <1>5, <1>8
<1> QED
  BY <1>6, <1>7, <1>8

(* The process that called goes on, or dies and hands the token back. *)
LEMMA ReturnStep ==
  ASSUME IInv, NEW i \in Processes, Return(i)
  PROVE  IInv'
<1>0. PICK l : l = call[i].link
  OBVIOUS
<1>1. /\ call[i] # NoCall /\ i \in Active
      /\ l \in ChildLinks /\ l \in AllLinks /\ l \in made /\ l[1] = i
      /\ strand[l[2]] # "serving" /\ Top(i)
      /\ l # sender[l[2]] => requests[l] = <<>>
      /\ \/ responses[l] = <<Wanted(i)>> /\ Answer(l) = Wanted(i)
         \/ responses[l] = <<>> /\ ~Waits(l) /\ l \notin taken[l[2]]
         \/ /\ responses[l] \in Seq({NoResponse}) /\ l = sender[l[2]]
            /\ hello[l[2]] /\ ~Waits(l) /\ l \notin taken[l[2]]
  BY <1>0, ReturnFacts
<1>2. PICK q, s :
        /\ q = IF responses[l] = <<>> THEN <<>> ELSE Tail(responses[l])
        /\ s \in {strand[i], "crashed"}
        /\ responses' = [responses EXCEPT ![l] = q]
        /\ strand' = [strand EXCEPT ![i] = s]
  BY <1>0 DEF Return
<1>3. /\ call' = [call EXCEPT ![i] = NoCall]
      /\ astray' = astray \cup {m \in {l} : Answer(l) # Wanted(i)}
      /\ UNCHANGED <<made, backlog, requests, sender, writing, hello, root, posted, calls,
                     rootConnection, reading, job, taken>>
  BY <1>0 DEF Return, Wanted, talk
<1>4. /\ q \in Seq(Messages \cup {NoResponse})
      /\ l # sender[l[2]] => q = <<>>
      /\ q # <<>> => q \in Seq({NoResponse}) /\ hello[l[2]]
  <2>1. responses[l] \in Seq(Messages \cup {NoResponse})
    BY <1>1 DEF IInv, TypeOK
  <2>2. Tail(<<Wanted(i)>>) = <<>>
    OBVIOUS
  <2>3. \A p \in Seq({NoResponse}) : p # <<>> => Tail(p) \in Seq({NoResponse})
    OBVIOUS
  <2> QED
    BY <2>1, <2>2, <2>3, <1>1, <1>2
<1>5. /\ call'[i] = NoCall /\ \A k \in Processes \ {i} : call'[k] = call[k]
      /\ strand'[i] = s /\ \A k \in Processes \ {i} : strand'[k] = strand[k]
      /\ responses'[l] = q /\ \A m \in AllLinks \ {l} : responses'[m] = responses[m]
  BY <1>1, <1>2, <1>3 DEF IInv, TypeOK
<1>6. TypeOK'
  <2>1. responses' \in [AllLinks -> Seq(Messages \cup {NoResponse})]
    BY <1>1, <1>2, <1>4 DEF IInv, TypeOK
  <2>2. astray' \subseteq Links
    BY <1>1, <1>3, LinkFacts DEF IInv, TypeOK
  <2> QED
    BY <2>1, <2>2, <1>2, <1>3 DEF IInv, TypeOK
<1>7. Wiring'
  <2> SUFFICES ASSUME NEW k \in Processes PROVE Wiring!(k)'
    BY DEF Wiring
  <2>1. /\ strand'[k] \in {"reading", "serving", "replied"} => strand'[k] = strand[k]
        /\ strand'[k] = "serving" => strand[k] = "serving"
    BY <1>2, <1>5
  <2> QED
    BY <2>1, <1>3 DEF IInv, Wiring
<1>8. Accepted'
  BY <1>3 DEF IInv, Accepted
<1>9. \A k \in Processes : Top(k) => k = i
  BY <1>1 DEF IInv, Session, OneTop
<1>10. \A m \in AllLinks :
         m # sender[m[2]] => /\ requests[m] = <<>>
                             /\ m \in ChildLinks => responses'[m] = <<>>
  <2> SUFFICES ASSUME NEW m \in AllLinks, m # sender[m[2]]
               PROVE  /\ requests[m] = <<>>
                      /\ m \in ChildLinks => responses'[m] = <<>>
    OBVIOUS
  <2>1. CASE m = l
    BY <2>1, <1>1, <1>4, <1>5
  <2>2. CASE m # l
    BY <2>2, <1>0, <1>1, <1>5, NothingElse
  <2> QED
    BY <2>1, <2>2
<1>11. /\ \A k \in Processes : strand'[k] = "serving" => strand[k] = "serving"
       /\ \A k \in Processes \ {i} : k \in Active' <=> k \in Active
  BY <1>2, <1>5 DEF Active
<1>12. OneTop'
  <2>1. CASE i \in Active'
    <3>1. \A k \in Processes \ {i} : Top(k)' => Top(k)
      <4> SUFFICES ASSUME NEW k \in Processes \ {i}, Top(k)' PROVE Top(k)
        OBVIOUS
      <4>1. CASE call[k] = NoCall
        BY <4>1, <1>11 DEF Top
      <4>2. CASE call[k] # NoCall
        <5>1. call[k].link[2] \in Processes /\ call[k].link[2] # 1
          BY <4>2, LinkFacts DEF IInv, Session, Callers
        <5>2. strand'[call[k].link[2]] # "serving"
          BY <4>2, <1>5 DEF Top
        <5>3. CASE call[k].link[2] = i
          BY <5>1, <5>2, <5>3, <2>1, <1>5 DEF Active
        <5>4. CASE call[k].link[2] # i
          BY <5>1, <5>2, <5>4, <1>5, <1>11 DEF Top
        <5> QED
          BY <5>3, <5>4
      <4> QED
        BY <4>1, <4>2
    <3> QED
      BY <3>1, <1>9 DEF OneTop
  <2>2. CASE i \notin Active'
    <3>1. strand[i] = "serving"
      BY <2>2, <1>1 DEF Active
    <3>2. \A k \in Processes : Top(k)' => k = reading[i][1]
      <4> SUFFICES ASSUME NEW k \in Processes, Top(k)' PROVE k = reading[i][1]
        OBVIOUS
      <4>1. k # i /\ k \in Active /\ ~Top(k)
        BY <2>2, <1>9, <1>11 DEF Top
      <4>2. call[k] # NoCall /\ strand[call[k].link[2]] = "serving"
        BY <4>1 DEF Top
      <4>3. call[k].link[2] \in Processes
        BY <4>2, LinkFacts DEF IInv, Session, Callers
      <4>4. call[k].link[2] = i
        BY <4>1, <4>2, <4>3, <1>5 DEF Top
      <4> QED
        BY <4>2, <4>4, <3>1, Served
    <3> QED
      BY <3>2 DEF OneTop
  <2> QED
    BY <2>1, <2>2
<1>13. Callers'
  <2>1. NoCall.id = 0
    BY DEF NoCall
  <2> QED
    BY <2>1, <1>3, <1>5, <1>11 DEF IInv, Session, Callers
<1>14. \A m : (Open(m)' <=> Open(m)) /\ (Waits(m)' <=> Waits(m))
  BY <1>3 DEF Open, Waits
<1>15. RequestsMatch'
  BY <1>3, <1>10, <1>14 DEF IInv, Session, RequestsMatch
<1>16. ResponsesMatch'
  <2> SUFFICES ASSUME NEW m \in AllLinks, responses'[m] # <<>>
               PROVE  ResponsesMatch!(m)!2'
    BY DEF ResponsesMatch
  <2>1. CASE m = l
    BY <2>1, <1>1, <1>3, <1>4, <1>5
  <2>2. CASE m # l
    BY <2>2, <1>3, <1>5, <1>10 DEF IInv, Session, ResponsesMatch
  <2> QED
    BY <2>1, <2>2
<1>17. ServesCaller'
  <2>1. ASSUME NEW k \in Processes, strand[k] = "serving"
        PROVE  reading[k][1] \in Processes \ {i}
    BY <2>1, <1>0, <1>1, Served
  <2> QED
    BY <2>1, <1>3, <1>5, <1>11 DEF IInv, Session, ServesCaller
<1>18. OwnResponse' /\ astray' \subseteq made'
  BY <1>1, <1>3, <1>14 DEF IInv, Session, OwnResponse
<1> QED
  BY <1>6, <1>7, <1>8, <1>12, <1>13, <1>15, <1>16, <1>17, <1>18 DEF IInv, Session

-----------------------------------------------------------------------------
(* All actions together. *)
LEMMA Invariance == Spec => []IInv
<1>1. IInv /\ [Next]_vars => IInv'
  <2> SUFFICES ASSUME IInv, [Next]_vars PROVE IInv'
    OBVIOUS
  <2>1. ASSUME NEW l \in Links, Connect(l) PROVE IInv'
    BY <2>1, ConnectStep
  <2>2. ASSUME NEW i \in Processes, Hello(i) \/ SetRoot(i) \/ Accept(i) PROVE IInv'
    BY <2>2, HelloStep, SetRootStep, AcceptStep
  <2>3. ASSUME NEW i \in Processes, SenderWrites(i) \/ SenderReads(i) PROVE IInv'
    BY <2>3, SenderWritesStep, SenderReadsStep
  <2>4. ASSUME NEW i \in Processes, Serve(i) PROVE IInv'
    BY <2>4, StrandTakesStep, ReadRequestStep, ReplyStep, ReadNextStep DEF Serve
  <2>5. ASSUME NEW i \in Processes, Return(i) PROVE IInv'
    BY <2>5, ReturnStep
  <2>6. ASSUME NEW l \in ChildLinks, NEW method \in Methods,
               StartCall(l[1], l, method)
        PROVE  IInv'
    BY <2>6, StartCallStep
  <2>7. CASE UNCHANGED vars
    <3>1. UNCHANGED <<made, backlog, requests, responses, sender, writing, hello, root,
                      posted, rootConnection, strand, reading, job, taken, call, calls,
                      astray>>
      BY <2>7 DEF vars, network, talk, server, client
    <3>2. TypeOK' /\ Wiring' /\ Accepted'
      BY <3>1 DEF IInv, TypeOK, Wiring, Accepted
    <3>3. \A l : (Open(l)' <=> Open(l)) /\ (Waits(l)' <=> Waits(l))
      BY <3>1 DEF Open, Waits
    <3> QED
      BY <3>1, <3>2, <3>3, SessionKept DEF IInv
  <2> QED
    BY <2>1, <2>2, <2>3, <2>4, <2>5, <2>6, <2>7 DEF Next
<1> QED
  BY InitIInv, <1>1, PTL DEF Spec

(* The variables of all processes and connections keep their types: no     *)
(* message goes to a connection that is not there.                         *)
THEOREM TypeCorrect == Spec => []TypeOK
  BY Invariance, PTL DEF IInv

(* However many processes there are, in whatever order connections are     *)
(* accepted and whatever the Sender closes or writes, at most one process  *)
(* runs tree code at a time.                                               *)
THEOREM OneProcessRunsHolds == Spec => []OneProcessRuns
<1>1. IInv => OneProcessRuns
  BY DEF IInv, Session, OneTop, OneProcessRuns, Runs, Top, Active
<1> QED
  BY <1>1, Invariance, PTL

(* RemoteTreeManager runs a handler only while the process that called it  *)
(* waits in RemoteAVLTreeClient::send for that very call.                  *)
THEOREM CallerWaitsHolds == Spec => []CallerWaits
<1>1. IInv => CallerWaits
  BY DEF IInv, Session, ServesCaller, CallerWaits
<1> QED
  BY <1>1, Invariance, PTL

(* On a connection that was taken for the tree, handle_response never      *)
(* takes anything but the response to its own call, although it looks at   *)
(* the type only.                                                          *)
THEOREM OwnResponseHolds == Spec => []OwnResponse
<1>1. IInv => OwnResponse
  BY DEF IInv, Session
<1> QED
  BY <1>1, Invariance, PTL

(* The method that runs is the one that was called, of all methods of      *)
(* RemoteAVLTreeClient but one, which sends the type of another.           *)
THEOREM RunsWhatWasCalledHolds ==
  ASSUME "pull_right_subtree" \notin Methods
  PROVE  Spec => []RunsWhatWasCalled
<1>1. IInv => RunsWhatWasCalled
  <2> SUFFICES ASSUME IInv, NEW i \in Processes, NEW j \in Processes,
                      strand[j] = "serving", call[i].id = job[j].id,
                      call[i] # NoCall
               PROVE  job[j].method = call[i].method
    BY DEF RunsWhatWasCalled
  <2> DEFINE k == reading[j][1]
  <2>1. /\ k \in Processes /\ job[j].id = call[k].id
        /\ job[j].method = Handler(RequestType[call[k].method])
    BY LinkFacts DEF IInv, Session, ServesCaller
  <2>2. k = i /\ call[i].method \in Methods
    BY <2>1 DEF IInv, Session, Callers
  <2> QED
    BY <2>1, <2>2, ProtocolFacts, RemoteSessionAssumption
<1> QED
  BY <1>1, Invariance, PTL

-----------------------------------------------------------------------------
(* A process above one that is in tree code waits for it. *)
LEMMA CallersOfServing ==
  ASSUME IInv, NEW i \in Processes, NEW k \in Stack!Children(i) \cap Active
  PROVE  call[i].link = <<i, k>> /\ call[i] # NoCall
<1>1. k \in Processes /\ strand[k] = "serving"
  BY DEF Stack!Children, Stack!Processes, Active, Processes
<1>2. <<i, k>> \in ChildLinks
  BY <1>1 DEF ChildLinks, Stack!Children
<1>3. /\ reading[k] \in ChildLinks /\ reading[k][2] = k
      /\ call[reading[k][1]].link = reading[k] /\ call[reading[k][1]] # NoCall
  BY <1>1, Served
<1>4. reading[k] = <<i, k>>
  BY <1>2, <1>3, LinkFacts
<1> QED
  BY <1>3, <1>4

(* Remote calls behave as procedure calls in one thread: ReadRequest is    *)
(* Enter, Reply and the death of a process are Leave, and every other step *)
(* is a stutter.                                                           *)
THEOREM ImplementsCallStackHolds == Spec => ImplementsCallStack
<1>1. Init => Stack!Init
  BY RemoteSessionAssumption DEF Init, Stack!Init, Active, Processes
<1>2. IInv /\ [Next]_vars => [Stack!Next]_Active
  <2> SUFFICES ASSUME IInv, [Next]_vars
               PROVE  Stack!Next \/ UNCHANGED Active
    OBVIOUS
  <2>1. ASSUME NEW j \in Processes, ReadRequest(j)
        PROVE  Stack!Next \/ UNCHANGED Active
    <3>0. PICK l, i : l = reading[j] /\ i = l[1]
      OBVIOUS
    <3>1. /\ strand[j] = "reading" /\ requests[l] # <<>>
          /\ l \in AllLinks /\ l[2] = j /\ l # sender[j] /\ j # 1
      BY <2>1, <3>0, ReadingTaken DEF ReadRequest
    <3>2. l \in ChildLinks /\ i \in Processes /\ call[i].link = l /\ i \in Active
      BY <3>0, <3>1, LinkFacts DEF IInv, Session, RequestsMatch, Top
    <3>3. j \notin Active
      BY <3>1 DEF Active
    <3>4. j \in Stack!Children(i)
      BY <3>0, <3>1, <3>2 DEF ChildLinks, Stack!Children, Stack!Processes, Processes
    <3>5. Stack!Children(i) \cap Active = {}
      <4>1. ASSUME NEW k \in Stack!Children(i) \cap Active PROVE FALSE
        <5>1. call[i].link = <<i, k>>
          BY <3>2, CallersOfServing
        <5> QED
          BY <5>1, <3>1, <3>2, <3>3
      <4> QED
        BY <4>1
    <3>6. CASE strand' = [strand EXCEPT ![j] = "serving"]
      <4>1. Active' = Active \cup {j}
        BY <3>6 DEF Active, IInv, TypeOK
      <4>2. Stack!Enter(j)
        BY <4>1, <3>2, <3>3, <3>4, <3>5
           DEF Stack!Enter, Stack!Last, Stack!Processes, Processes
      <4> QED
        BY <4>2 DEF Stack!Next, Stack!Processes, Processes
    <3>7. CASE strand' = [strand EXCEPT ![j] = "crashed"]
      BY <3>1, <3>7 DEF Active, IInv, TypeOK
    <3> QED
      BY <2>1, <3>6, <3>7 DEF ReadRequest
  <2>2. ASSUME NEW j \in Processes, j # 1, strand[j] = "serving",
               Stack!Children(j) \cap Active = {},
               NEW s, s # "serving", strand' = [strand EXCEPT ![j] = s]
        PROVE  Stack!Next
    <3>1. Active' = Active \ {j}
      BY <2>2 DEF Active, IInv, TypeOK
    <3>2. Stack!Leave(j)
      BY <3>1, <2>2 DEF Stack!Leave, Stack!Last, Active
    <3> QED
      BY <3>2 DEF Stack!Next, Stack!Processes, Processes
  <2>3. ASSUME NEW j \in Processes, Reply(j)
        PROVE  Stack!Next
    <3>1. /\ strand[j] = "serving" /\ call[j] = NoCall
          /\ strand' = [strand EXCEPT ![j] = "replied"]
      BY <2>3 DEF Reply
    <3>2. Stack!Children(j) \cap Active = {}
      BY <3>1, CallersOfServing
    <3> QED
      BY <3>1, <3>2, <2>2, Served
  <2>4. ASSUME NEW i \in Processes, Return(i)
        PROVE  Stack!Next \/ UNCHANGED Active
    <3>1. PICK l : l = call[i].link
      OBVIOUS
    <3>2. strand[l[2]] # "serving" /\ i \in Active
      BY <2>4, <3>1, ReturnFacts
    <3>3. Stack!Children(i) \cap Active = {}
      <4>1. ASSUME NEW k \in Stack!Children(i) \cap Active PROVE FALSE
        <5>1. l[2] = k
          BY <3>1, CallersOfServing
        <5>2. strand[k] = "serving"
          BY DEF Stack!Children, Stack!Processes, Active, Processes
        <5> QED
          BY <5>1, <5>2, <3>2
      <4> QED
        BY <4>1
    <3>4. PICK s : s \in {strand[i], "crashed"} /\ strand' = [strand EXCEPT ![i] = s]
      BY <2>4 DEF Return
    <3>5. CASE s = strand[i]
      BY <3>4, <3>5 DEF Active, IInv, TypeOK
    <3>6. CASE s = "crashed" /\ i = 1
      BY <3>4, <3>6 DEF Active, IInv, TypeOK
    <3>7. CASE s = "crashed" /\ i # 1
      BY <3>2, <3>3, <3>4, <3>7, <2>2 DEF Active
    <3> QED
      BY <3>4, <3>5, <3>6, <3>7
  <2>5. ASSUME NEW j \in Processes, StrandTakes(j) \/ ReadNext(j)
        PROVE  UNCHANGED Active
    BY <2>5 DEF StrandTakes, ReadNext, Active, IInv, TypeOK
  <2>6. ASSUME UNCHANGED strand
        PROVE  UNCHANGED Active
    BY <2>6 DEF Active
  <2> QED
    BY <2>1, <2>3, <2>4, <2>5, <2>6
       DEF Next, Serve, Connect, Hello, SetRoot, Accept, SenderWrites, SenderReads,
           StartCall, vars, server
<1> QED
  BY <1>1, <1>2, Invariance, PTL DEF Spec, ImplementsCallStack, Stack!Spec
=============================================================================
