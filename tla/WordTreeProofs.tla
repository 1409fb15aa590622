---------------------------- MODULE WordTreeProofs ----------------------------
(***************************************************************************)
(* Proofs about WordTree, for any set of words and any number of           *)
(* insertions and removals: that nodes stay well-formed, that no word is   *)
(* counted more often than it was inserted, and that no step makes up an   *)
(* occurrence of a word.                                                   *)
(*                                                                         *)
(* The methods of NodeData call themselves on the children of a node by    *)
(* late binding, through operators that are constants there.  LateBinding, *)
(* the hypothesis of every theorem, says of these constants what every     *)
(* configuration makes of them: on finite trees they are the methods.  It  *)
(* is a set of recursive equations, one for each method and measure, each  *)
(* of which leads to smaller trees, so that it determines the values that  *)
(* are used here.                                                          *)
(*                                                                         *)
(* Facts about a method that calls itself are proved by induction over the *)
(* finite trees (TreeInduction), which are built level by level.  One fact *)
(* is carried through all methods: what the result counts, of any set of   *)
(* words, is at most what was there before plus what was given to it.      *)
(***************************************************************************)
EXTENDS WordTree, WellFoundedInduction, TLAPS

(* Induction over natural numbers, for a set of them.                      *)
LEMMA Least ==
  ASSUME NEW T, T \subseteq Nat, T # {}
  PROVE  \E x \in T : \A y \in T : x <= y
<1>1. \E R : IsWellFoundedOn(R, Nat) /\ \A a, b \in Nat : a < b => <<a, b>> \in R
  <2>1. IsWellFoundedOn(OpToRel(<, Nat), Nat)
    BY NatLessThanWellFounded
  <2>2. \A a, b \in Nat : a < b => <<a, b>> \in OpToRel(<, Nat)
    BY DEF OpToRel
  <2> QED
    BY <2>1, <2>2, Zenon
<1>2. PICK R : IsWellFoundedOn(R, Nat) /\ \A a, b \in Nat : a < b => <<a, b>> \in R
  BY <1>1
<1>3. PICK x \in T : \A y \in T : <<y, x>> \notin R
  <2>1. IsWellFoundedOn(R, Nat)
    BY <1>2
  <2> QED
    BY <2>1, WFMin, Zenon
<1>4. ASSUME NEW y \in T PROVE x <= y
  <2>1. x \in Nat /\ y \in Nat
    OBVIOUS
  <2>2. <<y, x>> \notin R
    BY <1>3
  <2>3. ~(y < x)
    BY <1>2, <2>1, <2>2, Zenon
  <2> QED
    BY <2>1, <2>3
<1> QED
  BY <1>4

LEMMA Induction ==
  ASSUME NEW S, 0 \in S, \A n \in Nat : n \in S => n + 1 \in S
  PROVE  Nat \subseteq S
<1> SUFFICES ASSUME Nat \ S # {} PROVE FALSE
  OBVIOUS
<1>1. PICK x \in Nat \ S : \A y \in Nat \ S : x <= y
  BY Least
<1>2. x # 0 /\ x - 1 \in Nat /\ x - 1 + 1 = x
  BY <1>1
<1>3. x - 1 \in S
  BY <1>1, <1>2
<1> QED
  BY <1>1, <1>2, <1>3

-----------------------------------------------------------------------------
(* The finite trees, level by level.  Every node that counts something has *)
(* a height, in all of them.                                               *)
NodesOver(S) ==
  {n \in [kind : {"node"}, word : Words \cup {Empty}, counter : Nat,
          height : Nat \cup {-1}, left : S, right : S] :
     n.counter # 0 => n.height # -1}

ProxiesOver(S) == [kind : {"proxy"}, root : S]

Above(S) == S \cup NodesOver(S) \cup ProxiesOver(NodesOver(S))

Level[n \in Nat] == IF n = 0 THEN {Nil} ELSE Above(Level[n - 1])

Trees   == UNION {Level[n] : n \in Nat}
Nodes   == NodesOver(Trees)
Proxies == ProxiesOver(Nodes)

(* Level is a function: it is the union of its finite beginnings.          *)
Begins(g, n) == g = [i \in 0..n |-> IF i = 0 THEN {Nil} ELSE Above(g[i - 1])]

LEMMA BeginsAt ==
  ASSUME NEW g, NEW n \in Nat, Begins(g, n), NEW i \in 0..n
  PROVE  /\ i = 0 => g[i] = {Nil}
         /\ i # 0 => g[i] = Above(g[i - 1])
<1> DEFINE h == [j \in 0..n |-> IF j = 0 THEN {Nil} ELSE Above(g[j - 1])]
<1>1. h[i] = IF i = 0 THEN {Nil} ELSE Above(g[i - 1])
  OBVIOUS
<1>2. g = h
  BY DEF Begins
<1> HIDE DEF h
<1> QED
  BY <1>1, <1>2, Zenon

LEMMA BeginsAgree ==
  ASSUME NEW m \in Nat, NEW n \in Nat, NEW g, NEW h, Begins(g, m), Begins(h, n)
  PROVE  \A i \in Nat : i <= m /\ i <= n => g[i] = h[i]
<1> DEFINE S == {i \in Nat : i <= m /\ i <= n => g[i] = h[i]}
<1>1. 0 \in S
  <2>1. 0 \in 0..m /\ 0 \in 0..n
    OBVIOUS
  <2> QED
    BY <2>1, BeginsAt
<1>2. ASSUME NEW i \in Nat, i \in S PROVE i + 1 \in S
  <2> SUFFICES ASSUME i + 1 <= m, i + 1 <= n PROVE g[i + 1] = h[i + 1]
    OBVIOUS
  <2>1. i + 1 \in 0..m /\ i + 1 \in 0..n /\ i + 1 # 0 /\ i + 1 - 1 = i
    OBVIOUS
  <2>2. g[i + 1] = Above(g[i]) /\ h[i + 1] = Above(h[i])
    BY <2>1, BeginsAt
  <2>3. g[i] = h[i]
    BY <1>2
  <2> QED
    BY <2>2, <2>3
<1> HIDE DEF S
<1>3. Nat \subseteq S
  BY <1>1, <1>2, Induction
<1> QED
  BY <1>3 DEF S

LEMMA BeginsExist == \A n \in Nat : \E g : Begins(g, n)
<1> DEFINE S == {n \in Nat : \E g : Begins(g, n)}
<1>1. 0 \in S
  <2> DEFINE g == [i \in 0..0 |-> {Nil}]
  <2>1. Begins(g, 0)
    BY DEF Begins
  <2> QED
    BY <2>1
<1>2. ASSUME NEW n \in Nat, n \in S PROVE n + 1 \in S
  <2>1. PICK g : Begins(g, n)
    BY <1>2
  <2> DEFINE h == [i \in 0..(n + 1) |-> IF i = n + 1 THEN Above(g[n]) ELSE g[i]]
  <2>2. ASSUME NEW i \in 0..(n + 1)
        PROVE  h[i] = IF i = 0 THEN {Nil} ELSE Above(h[i - 1])
    <3>1. CASE i = 0
      <4>1. 0 \in 0..n /\ h[0] = g[0]
        OBVIOUS
      <4> QED
        BY <2>1, <3>1, <4>1, BeginsAt
    <3>2. CASE i = n + 1
      <4>1. i # 0 /\ i - 1 = n /\ h[n] = g[n] /\ h[i] = Above(g[n])
        BY <3>2
      <4> QED
        BY <4>1
    <3>3. CASE i # 0 /\ i # n + 1
      <4>1. i \in 0..n /\ h[i] = g[i] /\ h[i - 1] = g[i - 1]
        BY <3>3
      <4>2. g[i] = Above(g[i - 1])
        BY <2>1, <3>3, <4>1, BeginsAt
      <4> QED
        BY <3>3, <4>1, <4>2
    <3> QED
      BY <3>1, <3>2, <3>3
  <2>3. Begins(h, n + 1)
    BY <2>2 DEF Begins
  <2> QED
    BY <2>3
<1> HIDE DEF S
<1>3. Nat \subseteq S
  BY <1>1, <1>2, Induction
<1> QED
  BY <1>3 DEF S

LEMMA LevelDef ==
  Level = [n \in Nat |-> IF n = 0 THEN {Nil} ELSE Above(Level[n - 1])]
<1> DEFINE G(n) == CHOOSE g : Begins(g, n)
           f == [n \in Nat |-> G(n)[n]]
<1>1. \A n \in Nat : Begins(G(n), n)
  BY BeginsExist
<1>2. ASSUME NEW n \in Nat
      PROVE  f[n] = IF n = 0 THEN {Nil} ELSE Above(f[n - 1])
  <2>1. n \in 0..n
    OBVIOUS
  <2>2. /\ n = 0 => G(n)[n] = {Nil}
        /\ n # 0 => G(n)[n] = Above(G(n)[n - 1])
    <3>1. Begins(G(n), n)
      BY <1>1
    <3> HIDE DEF G
    <3> QED
      BY <2>1, <3>1, BeginsAt
  <2>3. CASE n # 0
    <3>1. n - 1 \in Nat /\ n - 1 <= n
      BY <2>3
    <3>2. G(n)[n - 1] = G(n - 1)[n - 1]
      BY <1>1, <3>1, BeginsAgree
    <3> QED
      BY <2>2, <2>3, <3>1, <3>2
  <2> QED
    BY <2>2, <2>3
<1> HIDE DEF f
<1>3. \E h : h = [n \in Nat |-> IF n = 0 THEN {Nil} ELSE Above(h[n - 1])]
  <2>1. f = [n \in Nat |-> f[n]]
    BY DEF f
  <2>2. f = [n \in Nat |-> IF n = 0 THEN {Nil} ELSE Above(f[n - 1])]
    BY <1>2, <2>1
  <2> QED
    BY <2>2
<1> QED
  BY <1>3 DEF Level

LEMMA LevelSteps ==
  /\ Level[0] = {Nil}
  /\ \A n \in Nat : Level[n + 1] = Above(Level[n])
<1>1. Level[0] = {Nil}
  BY LevelDef
<1>2. ASSUME NEW n \in Nat PROVE Level[n + 1] = Above(Level[n])
  <2>1. n + 1 \in Nat /\ n + 1 # 0 /\ n + 1 - 1 = n
    OBVIOUS
  <2> QED
    BY <2>1, LevelDef
<1> QED
  BY <1>1, <1>2

LEMMA LevelsGrow ==
  \A i, j \in Nat : i <= j => Level[i] \subseteq Level[j]
<1> DEFINE S == {j \in Nat : \A i \in Nat : i <= j => Level[i] \subseteq Level[j]}
<1>1. 0 \in S
  OBVIOUS
<1>2. ASSUME NEW j \in Nat, j \in S PROVE j + 1 \in S
  <2>1. Level[j] \subseteq Level[j + 1]
    BY LevelSteps DEF Above
  <2>2. ASSUME NEW i \in Nat, i <= j + 1 PROVE Level[i] \subseteq Level[j + 1]
    <3>1. CASE i <= j
      <4>1. Level[i] \subseteq Level[j]
        BY <1>2, <3>1
      <4> QED
        BY <2>1, <4>1
    <3>2. CASE i = j + 1
      BY <3>2
    <3> QED
      BY <2>2, <3>1, <3>2
  <2> QED
    BY <2>2
<1> HIDE DEF S
<1>3. Nat \subseteq S
  BY <1>1, <1>2, Induction
<1> QED
  BY <1>3 DEF S

LEMMA NodesOverGrow ==
  ASSUME NEW S, NEW T, S \subseteq T
  PROVE  NodesOver(S) \subseteq NodesOver(T)
BY DEF NodesOver

(* What a tree is made of, and induction over trees. *)
LEMMA TreesAre == Trees = {Nil} \cup Nodes \cup Proxies
<1>1. ASSUME NEW n \in Nodes
      PROVE  \E k \in Nat : n \in NodesOver(Level[k])
  <2>1. n.left \in Trees /\ n.right \in Trees
    BY DEF Nodes, NodesOver
  <2>2. PICK i \in Nat, j \in Nat : n.left \in Level[i] /\ n.right \in Level[j]
    BY <2>1 DEF Trees
  <2>3. PICK k \in Nat : i <= k /\ j <= k
    <3>1. i <= i + j /\ j <= i + j /\ i + j \in Nat
      OBVIOUS
    <3> QED
      BY <3>1
  <2>4. n.left \in Level[k] /\ n.right \in Level[k]
    BY <2>2, <2>3, LevelsGrow
  <2>5. n \in NodesOver(Level[k])
    BY <2>4 DEF Nodes, NodesOver
  <2> QED
    BY <2>5
<1>2. Nodes \subseteq Trees
  <2>1. ASSUME NEW n \in Nodes PROVE n \in Trees
    <3>1. PICK k \in Nat : n \in NodesOver(Level[k])
      BY <1>1
    <3>2. n \in Level[k + 1] /\ k + 1 \in Nat
      BY <3>1, LevelSteps DEF Above
    <3> QED
      BY <3>2 DEF Trees
  <2> QED
    BY <2>1
<1>3. Proxies \subseteq Trees
  <2>1. ASSUME NEW p \in Proxies PROVE p \in Trees
    <3>1. p.root \in Nodes
      BY DEF Proxies, ProxiesOver
    <3>2. PICK k \in Nat : p.root \in NodesOver(Level[k])
      BY <1>1, <3>1
    <3>3. p \in ProxiesOver(NodesOver(Level[k]))
      BY <3>2 DEF Proxies, ProxiesOver
    <3>4. p \in Level[k + 1] /\ k + 1 \in Nat
      BY <3>3, LevelSteps DEF Above
    <3> QED
      BY <3>4 DEF Trees
  <2> QED
    BY <2>1
<1>4. Nil \in Trees
  BY LevelSteps DEF Trees
<1> DEFINE S == {k \in Nat : Level[k] \subseteq {Nil} \cup Nodes \cup Proxies}
<1>5. 0 \in S
  BY LevelSteps
<1>6. ASSUME NEW k \in Nat, k \in S PROVE k + 1 \in S
  <2>1. Level[k] \subseteq Trees
    BY DEF Trees
  <2>2. NodesOver(Level[k]) \subseteq Nodes
    BY <2>1, NodesOverGrow DEF Nodes
  <2>3. ProxiesOver(NodesOver(Level[k])) \subseteq Proxies
    BY <2>2 DEF Proxies, ProxiesOver
  <2> QED
    BY <1>6, <2>2, <2>3, LevelSteps DEF Above
<1> HIDE DEF S
<1>7. Nat \subseteq S
  BY <1>5, <1>6, Induction
<1>8. Trees \subseteq {Nil} \cup Nodes \cup Proxies
  BY <1>7 DEF S, Trees
<1> QED
  BY <1>2, <1>3, <1>4, <1>8

LEMMA TreeInduction ==
  ASSUME NEW S, Nil \in S,
         \A n \in Nodes : n.left \in S /\ n.right \in S => n \in S,
         \A p \in Proxies : p.root \in S => p \in S
  PROVE  Trees \subseteq S
<1> DEFINE K == {k \in Nat : Level[k] \subseteq S}
<1>1. 0 \in K
  BY LevelSteps
<1>2. ASSUME NEW k \in Nat, k \in K PROVE k + 1 \in K
  <2>1. Level[k] \subseteq Trees /\ Level[k] \subseteq S
    BY <1>2 DEF Trees
  <2>2. NodesOver(Level[k]) \subseteq Nodes
    BY <2>1, NodesOverGrow DEF Nodes
  <2>3. NodesOver(Level[k]) \subseteq S
    <3>1. \A n \in NodesOver(Level[k]) : n.left \in Level[k] /\ n.right \in Level[k]
      BY DEF NodesOver
    <3> QED
      BY <2>1, <2>2, <3>1
  <2>4. ProxiesOver(NodesOver(Level[k])) \subseteq S
    <3>1. \A p \in ProxiesOver(NodesOver(Level[k])) :
             p \in Proxies /\ p.root \in NodesOver(Level[k])
      BY <2>2 DEF ProxiesOver, Proxies
    <3> QED
      BY <2>3, <3>1
  <2> QED
    BY <2>1, <2>3, <2>4, LevelSteps DEF Above
<1> HIDE DEF K
<1>3. Nat \subseteq K
  BY <1>1, <1>2, Induction
<1> QED
  BY <1>3 DEF K, Trees

-----------------------------------------------------------------------------
Field == Words \cup {Empty}
Sides == {"left", "right"}

(* What the calls of virtual methods, and the measures, are bound to: on   *)
(* every tree they are what the definitions of these names say.            *)
LateBinding ==
  /\ \A t \in Trees : Wire(t) = wireHere(t)
  /\ \A n \in Nodes : ClearData(n) = clearData(n)
  /\ \A n \in Nodes, side \in Sides, w \in Field, c \in Nat :
       Push(n, side, w, c) = pushHere(n, side, w, c)
  /\ \A n \in Nodes : FindSuccessor(n) = findSuccessorHere(n)
  /\ \A n \in Nodes, w \in Words : /\ InsertInto(n, w) = insertHere(n, w)
                                   /\ RemoveFrom(n, w) = removeHere(n, w)
  /\ \A t \in Trees \cup {Crash} : /\ AllNodes(t) = allNodes(t)
                                   /\ \A ws \in SUBSET Field :
                                        CountIn(t, ws) = countIn(t, ws)
  /\ \A t \in Trees : Depth(t) = depth(t)
  /\ \A t \in Nodes \cup Proxies, w \in Words : Light(t, w) = lightHere(t, w)

(* A node in the middle of a method: its counter may be anything.          *)
Loose == [kind : {"node"}, word : Field, counter : Int, height : Nat \cup {-1},
          left : Trees, right : Trees]

LEMMA NodesAre ==
  Nodes = {n \in Loose : n.counter \in Nat /\ (n.counter # 0 => n.height # -1)}
<1>1. Nodes \subseteq {n \in Loose : n.counter \in Nat /\ (n.counter # 0 => n.height # -1)}
  BY DEF Nodes, NodesOver, Loose, Field
<1>2. ASSUME NEW n \in Loose, n.counter \in Nat, n.counter # 0 => n.height # -1
      PROVE  n \in Nodes
  BY <1>2 DEF Nodes, NodesOver, Loose, Field
<1> QED
  BY <1>1, <1>2

LEMMA Kinds ==
  /\ \A n \in Loose : n.kind = "node" /\ n # Nil /\ n # Crash
  /\ \A p \in Proxies : p.kind = "proxy" /\ p # Nil /\ p # Crash /\ p.root \in Nodes
                        /\ p = Proxy(p.root)
  /\ \A n \in Nodes : Proxy(n) \in Proxies /\ Proxy(n).root = n
  /\ Nil.kind = "nil" /\ Nil # Crash /\ Crash \notin Trees
<1>1. \A n \in Loose : n.kind = "node" /\ n # Nil /\ n # Crash
  BY DEF Loose, Nil, Crash
<1>2. \A p \in Proxies : p.kind = "proxy" /\ p # Nil /\ p # Crash /\ p.root \in Nodes
                         /\ p = Proxy(p.root)
  BY DEF Proxies, ProxiesOver, Proxy, Nil, Crash
<1>3. \A n \in Nodes : Proxy(n) \in Proxies /\ Proxy(n).root = n
  BY DEF Proxies, ProxiesOver, Proxy
<1>4. Nil.kind = "nil" /\ Nil # Crash
  BY DEF Nil, Crash
<1>5. Crash \notin Trees
  BY <1>1, <1>2, <1>4, TreesAre, NodesAre
<1> QED
  BY <1>1, <1>2, <1>3, <1>4, <1>5

LEMMA Fields ==
  /\ \A n \in Loose : /\ n.word \in Field /\ n.counter \in Int
                      /\ n.height \in Int /\ n.height >= -1
                      /\ n.left \in Trees /\ n.right \in Trees
                      /\ \A side \in Sides : n[side] \in Trees
  /\ \A n \in Nodes : n \in Loose /\ n.counter \in Nat /\ (n.counter # 0 => n.height # -1)
<1>1. ASSUME NEW n \in Loose
      PROVE  /\ n.word \in Field /\ n.counter \in Int
             /\ n.height \in Int /\ n.height >= -1
             /\ n.left \in Trees /\ n.right \in Trees
  BY DEF Loose
<1>2. ASSUME NEW n \in Loose, NEW side \in Sides PROVE n[side] \in Trees
  BY <1>1 DEF Sides
<1> QED
  BY <1>1, <1>2, NodesAre

Own(n, ws) == IF n.word \in ws THEN n.counter ELSE 0

LEMMA Counting ==
  ASSUME LateBinding, NEW ws \in SUBSET Field
  PROVE  /\ CountIn(Nil, ws) = 0 /\ CountIn(Crash, ws) = 0
         /\ \A p \in Proxies : CountIn(p, ws) = CountIn(p.root, ws)
         /\ \A n \in Nodes : /\ CountIn(n, ws) = CountIn(n.left, ws) + CountIn(n.right, ws)
                                                 + Own(n, ws)
                             /\ Own(n, ws) \in Nat
         /\ \A t \in Trees : CountIn(t, ws) \in Nat
<1>1. \A t \in Trees \cup {Crash} : CountIn(t, ws) = countIn(t, ws)
  BY DEF LateBinding
<1>2. CountIn(Nil, ws) = 0 /\ CountIn(Crash, ws) = 0
  <2>1. countIn(Nil, ws) = 0 /\ countIn(Crash, ws) = 0
    BY DEF countIn, Nil, Crash
  <2>2. Nil \in Trees \cup {Crash} /\ Crash \in Trees \cup {Crash}
    BY TreesAre
  <2> QED
    BY <1>1, <2>1, <2>2, Zenon
<1>3. \A p \in Proxies : CountIn(p, ws) = CountIn(p.root, ws)
  BY <1>1, TreesAre, Kinds DEF countIn
<1>4. \A n \in Nodes : CountIn(n, ws) = CountIn(n.left, ws) + CountIn(n.right, ws)
                                        + Own(n, ws)
  BY <1>1, TreesAre, Kinds, Fields DEF countIn, Own
<1>5. \A n \in Nodes : Own(n, ws) \in Nat
  BY Fields DEF Own
<1> DEFINE S == {t \in Trees : CountIn(t, ws) \in Nat}
<1>6. Nil \in S
  BY <1>2, TreesAre
<1>7. \A n \in Nodes : n.left \in S /\ n.right \in S => n \in S
  BY <1>4, <1>5, TreesAre
<1>8. \A p \in Proxies : p.root \in S => p \in S
  BY <1>3, TreesAre
<1> HIDE DEF S
<1>9. Trees \subseteq S
  BY <1>6, <1>7, <1>8, TreeInduction
<1> QED
  BY <1>2, <1>3, <1>4, <1>5, <1>9 DEF S

(* What makes a record a node. *)
LEMMA NodeMade ==
  ASSUME NEW w \in Field, NEW c \in Nat, NEW h \in Nat \cup {-1}, c # 0 => h # -1,
         NEW l \in Trees, NEW r \in Trees
  PROVE  [kind |-> "node", word |-> w, counter |-> c, height |-> h,
          left |-> l, right |-> r] \in Nodes
<1> DEFINE n == [kind |-> "node", word |-> w, counter |-> c, height |-> h,
                 left |-> l, right |-> r]
<1>1. n \in Loose
  BY DEF Loose
<1>2. n.counter = c /\ n.height = h
  OBVIOUS
<1> HIDE DEF n
<1>3. n \in Nodes
  BY <1>1, <1>2, NodesAre
<1> QED
  BY <1>3 DEF n

(* On the wire nothing is added, and a node that counts nothing is lost.   *)
LEMMA WireOf ==
  ASSUME LateBinding, NEW ws \in SUBSET Field, NEW t \in Trees
  PROVE  /\ Wire(t) \in {Nil} \cup Nodes
         /\ CountIn(Wire(t), ws) <= CountIn(t, ws)
         /\ t \in Nodes /\ Wire(t) = Nil => t.counter = 0
<1> DEFINE Good(u) == /\ Wire(u) \in {Nil} \cup Nodes
                      /\ CountIn(Wire(u), ws) <= CountIn(u, ws)
           S == {u \in Trees : Good(u)}
           Parsed(n, l, r) == [kind |-> "node", word |-> n.word, counter |-> n.counter,
                               height |-> 0, left |-> l, right |-> r]
<1>1. ASSUME NEW n \in Nodes, NEW l \in Trees, NEW r \in Trees
      PROVE  /\ Parsed(n, l, r) \in Nodes
             /\ CountIn(Parsed(n, l, r), ws) = CountIn(l, ws) + CountIn(r, ws) + Own(n, ws)
  <2> DEFINE m == Parsed(n, l, r)
  <2>1. m \in Nodes
    BY NodeMade, Fields
  <2>2. m.left = l /\ m.right = r /\ Own(m, ws) = Own(n, ws)
    BY DEF Own
  <2> HIDE DEF m
  <2> QED
    BY <2>1, <2>2, Counting DEF m
<1>2. Wire(Nil) = Nil /\ Nil \in Trees
  BY TreesAre DEF LateBinding, wireHere, Null
<1>3. ASSUME NEW n \in Nodes
      PROVE  Wire(n) = IF n.counter = 0 THEN Nil ELSE Parsed(n, Wire(n.left), Wire(n.right))
  <2>1. n \in Trees /\ n # Nil /\ n.kind = "node"
    BY TreesAre, Kinds, Fields
  <2>2. Wire(n) = wireHere(n)
    BY <2>1 DEF LateBinding
  <2> QED
    BY <2>1, <2>2 DEF wireHere, getWord, getCounter, getLeft, getRight, Data, IsProxy,
                      Null, NewNode
<1>4. ASSUME NEW p \in Proxies
      PROVE  Wire(p) = IF p.root.counter = 0 THEN Nil ELSE Parsed(p.root, Nil, Nil)
  <2>1. p \in Trees /\ p # Nil /\ p.kind = "proxy"
    BY TreesAre, Kinds
  <2>2. Wire(p) = wireHere(p)
    BY <2>1 DEF LateBinding
  <2> QED
    BY <1>2, <2>1, <2>2 DEF wireHere, getWord, getCounter, getLeft, getRight, Data, IsProxy,
                            Null, NewNode
<1> HIDE DEF Parsed
<1>5. Nil \in S
  BY <1>2, Counting
<1>6. ASSUME NEW n \in Nodes, n.left \in S, n.right \in S PROVE n \in S
  <2>1. /\ Wire(n.left) \in Trees /\ CountIn(Wire(n.left), ws) <= CountIn(n.left, ws)
        /\ Wire(n.right) \in Trees /\ CountIn(Wire(n.right), ws) <= CountIn(n.right, ws)
        /\ n \in Trees /\ n.left \in Trees /\ n.right \in Trees
    BY <1>6, TreesAre
  <2>2. CASE n.counter = 0
    BY <1>3, <2>1, <2>2, Counting
  <2>3. CASE n.counter # 0
    <3>1. /\ Wire(n) \in Nodes
          /\ CountIn(Wire(n), ws) = CountIn(Wire(n.left), ws) + CountIn(Wire(n.right), ws)
                                    + Own(n, ws)
      BY <1>1, <1>3, <2>1, <2>3
    <3>2. /\ CountIn(n, ws) = CountIn(n.left, ws) + CountIn(n.right, ws) + Own(n, ws)
          /\ Own(n, ws) \in Nat
          /\ CountIn(n.left, ws) \in Nat /\ CountIn(n.right, ws) \in Nat
          /\ CountIn(Wire(n.left), ws) \in Nat /\ CountIn(Wire(n.right), ws) \in Nat
      BY <2>1, Counting
    <3> QED
      BY <2>1, <3>1, <3>2
  <2> QED
    BY <2>2, <2>3
<1>7. ASSUME NEW p \in Proxies, p.root \in S PROVE p \in S
  <2>1. p \in Trees /\ p.root \in Nodes
    BY TreesAre, Kinds
  <2>2. CASE p.root.counter = 0
    BY <1>4, <2>1, <2>2, Counting
  <2>3. CASE p.root.counter # 0
    <3>1. p.root.left \in Trees /\ p.root.right \in Trees
      BY <2>1, Fields
    <3>2. /\ Wire(p) \in Nodes
          /\ CountIn(Wire(p), ws) = CountIn(Nil, ws) + CountIn(Nil, ws) + Own(p.root, ws)
      BY <1>1, <1>2, <1>4, <2>1, <2>3
    <3> QED
      BY <2>1, <3>1, <3>2, Counting
  <2> QED
    BY <2>2, <2>3
<1>8. Trees \subseteq S
  <2> HIDE DEF S
  <2> QED
    BY <1>5, <1>6, <1>7, TreeInduction
<1>9. ASSUME t \in Nodes, Wire(t) = Nil PROVE t.counter = 0
  <2>1. \A l, r : Parsed(t, l, r) # Nil
    BY DEF Parsed, Nil
  <2> QED
    BY <1>3, <1>9, <2>1
<1> QED
  BY <1>8, <1>9

LEMMA Sorts ==
  /\ \A t \in Trees : /\ IsProxy(t) <=> t \in Proxies
                      /\ Null(t) <=> t = Nil
                      /\ t = Nil \/ t \in Nodes \/ t \in Proxies
                      /\ t \in Nodes => t \notin Proxies /\ t # Nil
  /\ \A n \in Loose : ~IsProxy(n) /\ ~Null(n)
  /\ Nodes \subseteq Trees /\ Proxies \subseteq Trees /\ Nil \in Trees
  /\ Nodes \subseteq Loose
<1>1. \A n \in Loose : ~IsProxy(n) /\ ~Null(n)
  BY Kinds DEF IsProxy, Null
<1>2. \A p \in Proxies : IsProxy(p) /\ ~Null(p)
  BY Kinds DEF IsProxy, Null
<1>3. ~IsProxy(Nil) /\ Null(Nil)
  BY Kinds DEF IsProxy, Null
<1>4. \A t \in Trees : Null(t) <=> t = Nil
  BY DEF Null
<1>5. Nodes \subseteq Loose
  BY NodesAre
<1> QED
  BY <1>1, <1>2, <1>3, <1>4, <1>5, TreesAre

LEMMA Reroot ==
  ASSUME NEW p \in Proxies, NEW r \in Nodes
  PROVE  [p EXCEPT !.root = r] = Proxy(r) /\ Proxy(r) \in Proxies
<1>1. [p EXCEPT !.root = r] = Proxy(r)
  BY DEF Proxies, ProxiesOver, Proxy
<1> QED
  BY <1>1, Kinds

(* Clearing leaves nothing: no node, or a proxy of a root without words.   *)
LEMMA ClearedOf ==
  ASSUME LateBinding, NEW ws \in SUBSET Field
  PROVE  /\ \A n \in Loose : /\ clearData(n) \in Nodes
                             /\ CountIn(clearData(n), ws) = 0
         /\ \A t \in Trees : /\ Cleared(t) \in {Nil} \cup Proxies
                             /\ CountIn(Cleared(t), ws) = 0
                             /\ t \in Proxies => Cleared(t) \in Proxies
                             /\ t \notin Proxies => Cleared(t) = Nil
<1> DEFINE Gone(c) == c \in {Nil} \cup Proxies /\ CountIn(c, ws) = 0
           S == {t \in Trees : /\ Gone(Cleared(t))
                               /\ t \in Proxies => Cleared(t) \in Proxies
                               /\ t \in Nodes => /\ ClearData(t) \in Nodes
                                                 /\ CountIn(ClearData(t), ws) = 0}
<1>1. ASSUME NEW n \in Loose, Gone(Cleared(n.left)), Gone(Cleared(n.right))
      PROVE  clearData(n) \in Nodes /\ CountIn(clearData(n), ws) = 0
  <2> DEFINE m == clearData(n)
  <2>1. Cleared(n.left) \in Trees /\ Cleared(n.right) \in Trees
    BY <1>1, TreesAre
  <2>2. /\ m.word = Empty /\ m.counter = 0 /\ m.height = -1
        /\ m.left = Cleared(n.left) /\ m.right = Cleared(n.right)
    BY DEF clearData, Loose
  <2>3. m \in Loose
    <3> DEFINE Up(w, c, h) == [n EXCEPT !.word = w, !.counter = c, !.height = h,
                                        !.left = Cleared(@), !.right = Cleared(@)]
    <3>1. \A c \in Int, h \in Nat \cup {-1}, w \in Field : Up(w, c, h) \in Loose
      BY <2>1 DEF Loose
    <3>2. m = Up(Empty, 0, -1)
      BY DEF clearData
    <3>3. Empty \in Field /\ 0 \in Int /\ -1 \in Nat \cup {-1}
      BY DEF Field
    <3> HIDE DEF Up, m
    <3> QED
      BY <3>1, <3>2, <3>3
  <2> HIDE DEF m
  <2>4. m \in Nodes
    BY <2>2, <2>3, NodesAre
  <2>5. CountIn(m, ws) = CountIn(Cleared(n.left), ws) + CountIn(Cleared(n.right), ws) + 0
    BY <2>2, <2>4, Counting DEF Own
  <2>6. CountIn(m, ws) = 0
    BY <1>1, <2>5
  <2> QED
    BY <2>4, <2>6 DEF m
<1>2. Cleared(Nil) = Nil
  BY DEF Cleared, Null
<1>3. \A n \in Nodes : Cleared(n) = Nil
  BY Sorts DEF Cleared, clear
<1>4. \A p \in Proxies : ClearData(p.root) \in Nodes => Cleared(p) = Proxy(ClearData(p.root))
  <2> SUFFICES ASSUME NEW p \in Proxies, ClearData(p.root) \in Nodes
               PROVE  Cleared(p) = Proxy(ClearData(p.root))
    OBVIOUS
  <2>1. p \in Trees /\ ~Null(p) /\ IsProxy(p)
    <3>1. p \in Trees /\ p # Nil
      BY Sorts, Kinds
    <3> QED
      BY <3>1, Sorts
  <2>2. ClearData(p.root) # Crash
    BY Kinds, Sorts
  <2>3. [p EXCEPT !.root = ClearData(p.root)] = Proxy(ClearData(p.root))
    BY Reroot
  <2> QED
    BY <2>1, <2>2, <2>3 DEF Cleared, clear, Call
<1>5. Gone(Nil)
  BY Counting
<1>6. Nil \in S
  BY <1>2, <1>5, Sorts
<1>7. ASSUME NEW n \in Nodes, n.left \in S, n.right \in S PROVE n \in S
  <2>1. Gone(Cleared(n.left)) /\ Gone(Cleared(n.right))
    BY <1>7
  <2>2. ClearData(n) = clearData(n) /\ n \in Loose
    BY Sorts DEF LateBinding
  <2> HIDE DEF Gone
  <2>3. ClearData(n) \in Nodes /\ CountIn(ClearData(n), ws) = 0
    BY <1>1, <2>1, <2>2
  <2> QED
    BY <1>3, <1>5, <2>3, Sorts
<1>8. ASSUME NEW p \in Proxies, p.root \in S PROVE p \in S
  <2>1. ClearData(p.root) \in Nodes /\ CountIn(ClearData(p.root), ws) = 0
    BY <1>8, Kinds
  <2>2. Cleared(p) = Proxy(ClearData(p.root)) /\ Cleared(p) \in Proxies
        /\ Cleared(p).root = ClearData(p.root)
    BY <1>4, <2>1, Kinds
  <2>3. CountIn(Cleared(p), ws) = 0
    BY <2>1, <2>2, Counting
  <2> QED
    BY <2>2, <2>3, Sorts
<1>9. Trees \subseteq S
  <2> HIDE DEF S
  <2> QED
    BY <1>6, <1>7, <1>8, TreeInduction
<1>10. ASSUME NEW n \in Loose PROVE clearData(n) \in Nodes /\ CountIn(clearData(n), ws) = 0
  <2>1. Gone(Cleared(n.left)) /\ Gone(Cleared(n.right))
    BY <1>9, Fields
  <2> HIDE DEF Gone
  <2> QED
    BY <1>1, <2>1
<1> QED
  BY <1>2, <1>3, <1>9, <1>10, Sorts

(* setData, updateHeight and the rest of the small change. *)
LEMMA SetDataOf ==
  ASSUME NEW n \in Loose, NEW w \in Field, NEW c \in Nat
  PROVE  /\ setDataHere(n, w, c) \in Nodes
         /\ setDataHere(n, w, c).word = w /\ setDataHere(n, w, c).counter = c
         /\ setDataHere(n, w, c).left = n.left /\ setDataHere(n, w, c).right = n.right
<1> DEFINE m == setDataHere(n, w, c)
<1>1. /\ m.word = w /\ m.counter = c /\ m.height = 0
      /\ m.left = n.left /\ m.right = n.right
  BY DEF setDataHere, Loose
<1>2. m \in Loose
  <2> DEFINE Up(k, h) == [n EXCEPT !.word = w, !.counter = k, !.height = h]
  <2>1. \A k \in Int, h \in Nat \cup {-1} : Up(k, h) \in Loose
    BY DEF Loose
  <2>2. m = Up(c, 0) /\ c \in Int /\ 0 \in Nat \cup {-1}
    BY DEF setDataHere
  <2> HIDE DEF Up, m
  <2> QED
    BY <2>1, <2>2
<1> HIDE DEF m
<1>3. m \in Nodes
  BY <1>1, <1>2, NodesAre
<1> QED
  BY <1>1, <1>3 DEF m

LEMMA CreateOf == create \in Nodes /\ create.left = Nil /\ create.right = Nil
<1>1. create = [kind |-> "node", word |-> Empty, counter |-> 0, height |-> -1,
                left |-> Nil, right |-> Nil]
  BY DEF create, NewNode
<1>2. Empty \in Field /\ Nil \in Trees
  BY TreesAre DEF Field
<1>3. create \in Nodes
  BY <1>1, <1>2, NodeMade
<1> QED
  BY <1>1, <1>3

LEMMA HeightOrOf ==
  ASSUME NEW t \in Trees
  PROVE  HeightOr(t) \in Int /\ HeightOr(t) >= -1 /\ (t = Nil => HeightOr(t) = -1)
<1>1. CASE t = Nil
  BY <1>1, Sorts DEF HeightOr
<1>2. CASE t \in Nodes
  BY <1>2, Sorts, Fields DEF HeightOr, getHeight, Data
<1>3. CASE t \in Proxies
  BY <1>3, Sorts, Fields, Kinds DEF HeightOr, getHeight, Data
<1> QED
  BY <1>1, <1>2, <1>3, Sorts

LEMMA UpdateHeightOf ==
  ASSUME NEW n \in Loose
  PROVE  /\ updateHeight(n) \in Loose
         /\ updateHeight(n).word = n.word /\ updateHeight(n).counter = n.counter
         /\ updateHeight(n).left = n.left /\ updateHeight(n).right = n.right
         /\ updateHeight(n).height >= 0
         /\ n.counter \in Nat => updateHeight(n) \in Nodes
<1> DEFINE h == 1 + HeightOr(IF Balance(n) > 0 THEN n.right ELSE n.left)
           m == [n EXCEPT !.height = h]
<1>1. h \in Nat
  BY Fields, HeightOrOf
<1>2. updateHeight(n) = m
  BY DEF updateHeight
<1> HIDE DEF h
<1>3. /\ m \in Loose /\ m.word = n.word /\ m.counter = n.counter
      /\ m.left = n.left /\ m.right = n.right /\ m.height = h
  BY <1>1 DEF Loose
<1> HIDE DEF m
<1>4. n.counter \in Nat => m \in Nodes
  BY <1>1, <1>3, NodesAre
<1> QED
  BY <1>1, <1>2, <1>3, <1>4

LEMMA SidesOf ==
  ASSUME NEW side \in Sides
  PROVE  /\ Other(side) \in Sides /\ Other(side) # side /\ Other(Other(side)) = side
         /\ \A n \in Loose : \/ side = "left"  /\ n[side] = n.left  /\ n[Other(side)] = n.right
                             \/ side = "right" /\ n[side] = n.right /\ n[Other(side)] = n.left
BY DEF Sides, Other

LEMMA SideCount ==
  ASSUME LateBinding, NEW ws \in SUBSET Field, NEW n \in Nodes, NEW side \in Sides
  PROVE  /\ CountIn(n, ws) = CountIn(n[side], ws) + CountIn(n[Other(side)], ws) + Own(n, ws)
         /\ CountIn(n, ws) \in Nat /\ Own(n, ws) \in Nat
         /\ CountIn(n[side], ws) \in Nat /\ CountIn(n[Other(side)], ws) \in Nat
         /\ n[side] \in Trees /\ n[Other(side)] \in Trees
<1>1. /\ n[side] \in Trees /\ n[Other(side)] \in Trees
  BY Fields, SidesOf
<1>2. /\ CountIn(n, ws) = CountIn(n.left, ws) + CountIn(n.right, ws) + Own(n, ws)
      /\ CountIn(n, ws) \in Nat /\ Own(n, ws) \in Nat
      /\ CountIn(n.left, ws) \in Nat /\ CountIn(n.right, ws) \in Nat
  BY Counting, Fields, TreesAre
<1>3. \/ n[side] = n.left  /\ n[Other(side)] = n.right
      \/ n[side] = n.right /\ n[Other(side)] = n.left
  BY SidesOf, Fields
<1> QED
  BY <1>1, <1>2, <1>3

(* Replacing one child. *)
LEMMA Replaced ==
  ASSUME NEW n \in Loose, NEW side \in Sides, NEW t \in Trees
  PROVE  LET m == [n EXCEPT ![side] = t]
         IN  /\ m \in Loose /\ m.word = n.word /\ m.counter = n.counter
             /\ m.height = n.height
             /\ m[side] = t /\ m[Other(side)] = n[Other(side)]
             /\ n \in Nodes => m \in Nodes
<1> DEFINE m == [n EXCEPT ![side] = t]
<1>1. CASE side = "left"
  <2>1. /\ m \in Loose /\ m.word = n.word /\ m.counter = n.counter
        /\ m.height = n.height /\ m.left = t /\ m.right = n.right
    BY <1>1 DEF Loose
  <2> QED
    BY <1>1, <2>1, NodesAre DEF Other
<1>2. CASE side = "right"
  <2>1. /\ m \in Loose /\ m.word = n.word /\ m.counter = n.counter
        /\ m.height = n.height /\ m.right = t /\ m.left = n.left
    BY <1>2 DEF Loose
  <2> QED
    BY <1>2, <2>1, NodesAre DEF Other
<1> QED
  BY <1>1, <1>2 DEF Sides

-----------------------------------------------------------------------------
(* Copying and grafting: what is copied is at most what was there, what is *)
(* grafted replaces what was there.                                        *)
Times(w, c, ws) == IF w \in ws THEN c ELSE 0

LEMMA SetDataCount ==
  ASSUME LateBinding, NEW ws \in SUBSET Field,
         NEW n \in Loose, NEW w \in Field, NEW c \in Nat
  PROVE  CountIn(setDataHere(n, w, c), ws) =
           CountIn(n.left, ws) + CountIn(n.right, ws) + Times(w, c, ws)
<1> DEFINE m == setDataHere(n, w, c)
<1>1. /\ m \in Nodes /\ m.word = w /\ m.counter = c
      /\ m.left = n.left /\ m.right = n.right
  BY SetDataOf
<1> HIDE DEF m
<1>2. Own(m, ws) = Times(w, c, ws)
  BY <1>1 DEF Own, Times
<1>3. CountIn(m, ws) = CountIn(m.left, ws) + CountIn(m.right, ws) + Own(m, ws)
  BY <1>1, Counting
<1> QED
  BY <1>1, <1>2, <1>3 DEF m

LEMMA SubtreeOf ==
  ASSUME LateBinding, NEW ws \in SUBSET Field, NEW t \in Nodes \cup Proxies
  PROVE  get_subtree(t) \in {Nil} \cup Nodes /\ CountIn(get_subtree(t), ws) <= CountIn(t, ws)
<1>1. CASE t \in Proxies
  <2>1. t \in Trees /\ IsProxy(t) /\ t.root \in Nodes /\ t.root \in Trees
    BY <1>1, Sorts, Kinds
  <2>2. CountIn(t, ws) = CountIn(t.root, ws)
    BY <1>1, Counting
  <2> QED
    BY <2>1, <2>2, WireOf DEF get_subtree
<1>2. CASE t \in Nodes
  <2> DEFINE d == setDataHere(create, t.word, t.counter)
             g == [d EXCEPT !.left = t.left, !.right = t.right]
  <2>1. d \in Nodes /\ d \in Loose /\ d.word = t.word /\ d.counter = t.counter
    BY <1>2, SetDataOf, CreateOf, Fields
  <2>2. t.left \in Trees /\ t.right \in Trees /\ t.counter \in Nat
    BY <1>2, Fields
  <2> HIDE DEF d
  <2>3. /\ g \in Loose /\ g.left = t.left /\ g.right = t.right
        /\ g.word = t.word /\ g.counter = t.counter
    BY <2>1, <2>2 DEF Loose
  <2> HIDE DEF g
  <2>4. getSubtreeHere(t) = updateHeight(g)
    BY DEF getSubtreeHere, d, g
  <2> DEFINE m == getSubtreeHere(t)
  <2>5. /\ m \in Nodes /\ m.left = t.left /\ m.right = t.right
        /\ m.word = t.word /\ m.counter = t.counter
    BY <2>2, <2>3, <2>4, UpdateHeightOf
  <2> HIDE DEF m
  <2>6. CountIn(m, ws) = CountIn(m.left, ws) + CountIn(m.right, ws) + Own(m, ws)
    BY <2>5, Counting
  <2>7. CountIn(t, ws) = CountIn(t.left, ws) + CountIn(t.right, ws) + Own(t, ws)
        /\ CountIn(t, ws) \in Nat
    BY <1>2, Counting, TreesAre
  <2>8. Own(m, ws) = Own(t, ws)
    BY <2>5 DEF Own
  <2>9. get_subtree(t) = m
    BY <1>2, Sorts DEF get_subtree, m
  <2> QED
    BY <2>5, <2>6, <2>7, <2>8, <2>9
<1> QED
  BY <1>1, <1>2

LEMMA SideSubtreeOf ==
  ASSUME LateBinding, NEW ws \in SUBSET Field, NEW side \in Sides
  PROVE  /\ \A n \in Loose : /\ getSideHere(n, side) \in {Nil} \cup Nodes
                             /\ CountIn(getSideHere(n, side), ws) <= CountIn(n[side], ws)
         /\ \A t \in Nodes \cup Proxies :
              /\ get_side_subtree(t, side) \in {Nil} \cup Nodes
              /\ CountIn(get_side_subtree(t, side), ws) <= CountIn(Data(t)[side], ws)
<1>1. ASSUME NEW n \in Loose
      PROVE  /\ getSideHere(n, side) \in {Nil} \cup Nodes
             /\ CountIn(getSideHere(n, side), ws) <= CountIn(n[side], ws)
  <2>1. n[side] \in Trees
    BY Fields
  <2>2. CASE n[side] = Nil
    BY <2>2, Counting, Sorts DEF getSideHere
  <2>3. CASE n[side] # Nil
    <3>1. n[side] \in Nodes \cup Proxies /\ ~Null(n[side])
      BY <2>1, <2>3, Sorts
    <3> QED
      BY <3>1, SubtreeOf DEF getSideHere
  <2> QED
    BY <2>2, <2>3
<1>2. ASSUME NEW t \in Proxies
      PROVE  /\ get_side_subtree(t, side) \in {Nil} \cup Nodes
             /\ CountIn(get_side_subtree(t, side), ws) <= CountIn(Data(t)[side], ws)
  <2>1. t \in Trees /\ IsProxy(t) /\ t.root[side] \in Trees
    BY Sorts, Kinds, Fields
  <2> QED
    BY <2>1, WireOf DEF get_side_subtree, Data
<1>3. ASSUME NEW t \in Nodes
      PROVE  /\ get_side_subtree(t, side) \in {Nil} \cup Nodes
             /\ CountIn(get_side_subtree(t, side), ws) <= CountIn(Data(t)[side], ws)
  <2>1. ~IsProxy(t) /\ t \in Loose
    BY Sorts
  <2> QED
    BY <1>1, <2>1 DEF get_side_subtree, Data
<1> QED
  BY <1>1, <1>2, <1>3

(* set_subtree on an owner t, of a subtree s. *)
LEMMA SetSubtreeOf ==
  ASSUME LateBinding, NEW ws \in SUBSET Field,
         NEW t \in Nodes \cup Proxies, NEW s \in Nodes
  PROVE  /\ t \in Nodes => set_subtree(t, s) \in Nodes
         /\ t \in Proxies => set_subtree(t, s) \in Proxies
         /\ \/ CountIn(set_subtree(t, s), ws) <= CountIn(s, ws)
            \/ s.counter = 0 /\ set_subtree(t, s) = t
<1>1. ASSUME NEW n \in Nodes, NEW u \in Nodes
      PROVE  /\ setSubtreeHere(n, u) \in Nodes
             /\ CountIn(setSubtreeHere(n, u), ws) = CountIn(u, ws)
  <2> DEFINE d == setDataHere(n, u.word, u.counter)
             m == [d EXCEPT !.left = u.left, !.right = u.right]
  <2>1. /\ d \in Nodes /\ d \in Loose /\ d.word = u.word /\ d.counter = u.counter
        /\ d.counter # 0 => d.height # -1
    BY SetDataOf, Fields
  <2>2. u.left \in Trees /\ u.right \in Trees /\ u.counter \in Nat
    BY Fields
  <2> HIDE DEF d
  <2>3. /\ m \in Loose /\ m.left = u.left /\ m.right = u.right
        /\ m.word = u.word /\ m.counter = u.counter /\ m.height = d.height
    BY <2>1, <2>2 DEF Loose
  <2> HIDE DEF m
  <2>4. m \in Nodes
    BY <2>1, <2>2, <2>3, NodesAre
  <2>5. setSubtreeHere(n, u) = m
    BY Sorts DEF setSubtreeHere, m, d
  <2>6. /\ CountIn(m, ws) = CountIn(m.left, ws) + CountIn(m.right, ws) + Own(m, ws)
        /\ CountIn(u, ws) = CountIn(u.left, ws) + CountIn(u.right, ws) + Own(u, ws)
    BY <2>4, Counting
  <2>7. Own(m, ws) = Own(u, ws)
    BY <2>3 DEF Own
  <2> QED
    BY <2>3, <2>4, <2>5, <2>6, <2>7
<1>2. CASE t \in Nodes
  <2>1. set_subtree(t, s) = setSubtreeHere(t, s)
    BY <1>2, Sorts DEF set_subtree
  <2>2. CountIn(s, ws) \in Nat
    BY Counting, Sorts
  <2>3. t \notin Proxies
    BY <1>2, Sorts
  <2> QED
    BY <1>1, <1>2, <2>1, <2>2, <2>3
<1>3. CASE t \in Proxies
  <2>1. t \in Trees /\ IsProxy(t) /\ t.root \in Nodes /\ t = Proxy(t.root) /\ t \notin Nodes
    BY <1>3, Sorts, Kinds
  <2>2. set_subtree(t, s) = LET r == setSubtreeHere(t.root, Wire(s))
                            IN  IF r = Crash THEN Crash ELSE [t EXCEPT !.root = r]
    BY <2>1 DEF set_subtree, Call
  <2>3. Wire(s) \in {Nil} \cup Nodes /\ CountIn(Wire(s), ws) <= CountIn(s, ws)
        /\ (Wire(s) = Nil => s.counter = 0)
    BY WireOf, Sorts
  <2>4. CASE Wire(s) = Nil
    <3>1. setSubtreeHere(t.root, Wire(s)) = t.root
      BY <2>4, Sorts DEF setSubtreeHere
    <3>2. set_subtree(t, s) = Proxy(t.root)
      BY <1>3, <2>1, <2>2, <3>1, Kinds, Sorts, Reroot
    <3> QED
      BY <1>3, <2>1, <2>3, <2>4, <3>2
  <2>5. CASE Wire(s) \in Nodes
    <3> DEFINE r == setSubtreeHere(t.root, Wire(s))
    <3>1. r \in Nodes /\ CountIn(r, ws) = CountIn(Wire(s), ws)
      BY <1>1, <2>1, <2>5
    <3>2. set_subtree(t, s) = IF r = Crash THEN Crash ELSE [t EXCEPT !.root = r]
      BY <2>2
    <3> HIDE DEF r
    <3>3. r # Crash
      BY <3>1, Kinds, Sorts
    <3>4. set_subtree(t, s) = Proxy(r) /\ Proxy(r) \in Proxies
      BY <1>3, <3>1, <3>2, <3>3, Reroot
    <3>5. CountIn(Proxy(r), ws) = CountIn(r, ws)
      BY <3>1, <3>4, Counting, Kinds
    <3> QED
      BY <2>1, <2>3, <3>1, <3>4, <3>5
  <2> QED
    BY <2>3, <2>4, <2>5
<1> QED
  BY <1>2, <1>3

(* set_left_subtree and set_right_subtree, and the graft that calls them.  *)
LEMMA SetSideOf ==
  ASSUME LateBinding, NEW ws \in SUBSET Field,
         NEW n \in Loose, NEW side \in Sides, NEW s \in Nodes
  PROVE  /\ setSideHere(n, side, s) \in Loose
         /\ setSideHere(n, side, s).word = n.word
         /\ setSideHere(n, side, s).counter = n.counter
         /\ setSideHere(n, side, s)[Other(side)] = n[Other(side)]
         /\ CountIn(setSideHere(n, side, s)[side], ws) <= CountIn(s, ws)
         /\ n.counter \in Nat => setSideHere(n, side, s) \in Nodes
<1> DEFINE c == Cleared(n[side])
           d == IF Null(c) THEN s ELSE setData(c, s.word, s.counter)
           f == set_subtree(d, s)
<1>1. c \in {Nil} \cup Proxies /\ CountIn(c, ws) = 0
  BY ClearedOf, Fields
<1>2. s.word \in Field /\ s.counter \in Nat /\ CountIn(s, ws) \in Nat /\ ~Null(s)
      /\ Own(s, ws) \in Nat
  BY Fields, Counting, Sorts
<1>3. d \in Nodes \cup Proxies /\ (s.counter = 0 => CountIn(d, ws) <= CountIn(s, ws))
  <2> HIDE DEF c
  <2>1. CASE c = Nil
    BY <1>2, <2>1, Sorts
  <2>2. CASE c \in Proxies
    <3> DEFINE r == setDataHere(c.root, s.word, s.counter)
    <3>1. ~Null(c) /\ IsProxy(c) /\ c.root \in Nodes /\ c.root \in Loose
      BY <2>2, Sorts, Kinds
    <3>2. r \in Nodes
      BY <1>2, <3>1, SetDataOf
    <3>3. CountIn(r, ws) = CountIn(c.root.left, ws) + CountIn(c.root.right, ws)
                           + Times(s.word, s.counter, ws)
      BY <1>2, <3>1, SetDataCount
    <3>4. setData(c, s.word, s.counter) = IF r = Crash THEN Crash ELSE [c EXCEPT !.root = r]
      BY <3>1 DEF setData, Call
    <3> HIDE DEF r
    <3>5. r # Crash
      BY <3>2, Kinds, Sorts
    <3>6. d = Proxy(r) /\ Proxy(r) \in Proxies
      BY <2>2, <3>1, <3>2, <3>4, <3>5, Reroot
    <3>7. CountIn(c.root, ws) = 0
      BY <1>1, <2>2, Counting
    <3>8. /\ CountIn(c.root, ws) = CountIn(c.root.left, ws) + CountIn(c.root.right, ws)
                                   + Own(c.root, ws)
          /\ Own(c.root, ws) \in Nat
          /\ CountIn(c.root.left, ws) \in Nat /\ CountIn(c.root.right, ws) \in Nat
      BY <3>1, Counting, Fields
    <3>9. CountIn(d, ws) = Times(s.word, s.counter, ws)
      <4>1. CountIn(Proxy(r), ws) = CountIn(r, ws)
        BY <3>2, <3>6, Counting, Kinds
      <4>2. CountIn(c.root.left, ws) = 0 /\ CountIn(c.root.right, ws) = 0
        BY <3>7, <3>8
      <4>3. Times(s.word, s.counter, ws) \in Nat
        BY <1>2 DEF Times
      <4> QED
        BY <3>3, <3>6, <4>1, <4>2, <4>3
    <3>10. s.counter = 0 => CountIn(d, ws) <= CountIn(s, ws)
      BY <1>2, <3>9 DEF Times
    <3> HIDE DEF d
    <3> QED
      BY <3>6, <3>10
  <2> QED
    BY <1>1, <2>1, <2>2
<1> HIDE DEF d
<1>4. f \in Trees /\ CountIn(f, ws) <= CountIn(s, ws)
  BY <1>3, SetSubtreeOf, Sorts
<1>5. setSideHere(n, side, s) = updateHeight([n EXCEPT ![side] = f])
  BY <1>2 DEF setSideHere, d
<1> HIDE DEF f
<1> DEFINE m == [n EXCEPT ![side] = f]
<1>6. /\ m \in Loose /\ m.word = n.word /\ m.counter = n.counter
      /\ m[side] = f /\ m[Other(side)] = n[Other(side)]
  BY <1>4, Replaced
<1> HIDE DEF m
<1> DEFINE u == updateHeight(m)
<1>7. /\ u \in Loose /\ u.word = m.word /\ u.counter = m.counter
      /\ u.left = m.left /\ u.right = m.right
      /\ m.counter \in Nat => u \in Nodes
  BY <1>6, UpdateHeightOf
<1> HIDE DEF u
<1>8. u[side] = m[side] /\ u[Other(side)] = m[Other(side)]
  BY <1>6, <1>7, SidesOf
<1>9. setSideHere(n, side, s) = u
  BY <1>5 DEF m, u
<1> QED
  BY <1>4, <1>6, <1>7, <1>8, <1>9

LEMMA GraftOf ==
  ASSUME LateBinding, NEW ws \in SUBSET Field,
         NEW t \in Nodes \cup Proxies, NEW side \in Sides, NEW s \in {Nil} \cup Nodes
  PROVE  /\ Graft(t, side, s) \in Nodes \cup Proxies
         /\ CountIn(Graft(t, side, s), ws) <= CountIn(t, ws) + CountIn(s, ws)
<1>1. CountIn(t, ws) \in Nat /\ CountIn(s, ws) \in Nat /\ CountIn(Nil, ws) = 0
  BY Counting, Sorts
<1>2. ASSUME NEW n \in Nodes, NEW v \in Nodes
      PROVE  /\ setSideHere(n, side, v) \in Nodes
             /\ CountIn(setSideHere(n, side, v), ws) <= CountIn(n, ws) + CountIn(v, ws)
  <2> DEFINE m == setSideHere(n, side, v)
  <2>1. /\ m \in Nodes /\ m.word = n.word /\ m.counter = n.counter
        /\ m[Other(side)] = n[Other(side)]
        /\ CountIn(m[side], ws) <= CountIn(v, ws)
    BY SetSideOf, Fields
  <2> HIDE DEF m
  <2>2. /\ CountIn(m, ws) = CountIn(m[side], ws) + CountIn(m[Other(side)], ws) + Own(m, ws)
        /\ CountIn(m[side], ws) \in Nat
    BY <2>1, SideCount
  <2>3. /\ CountIn(n, ws) = CountIn(n[side], ws) + CountIn(n[Other(side)], ws) + Own(n, ws)
        /\ CountIn(n[side], ws) \in Nat /\ CountIn(n[Other(side)], ws) \in Nat
        /\ Own(n, ws) \in Nat
    BY SideCount
  <2>4. Own(m, ws) = Own(n, ws)
    BY <2>1 DEF Own
  <2>5. CountIn(v, ws) \in Nat
    BY Counting, Sorts
  <2>6. CountIn(m, ws) <= CountIn(n, ws) + CountIn(v, ws)
    BY <2>1, <2>2, <2>3, <2>4, <2>5
  <2> QED
    BY <2>1, <2>6 DEF m
<1>3. CASE s = Nil
  BY <1>1, <1>3, Sorts DEF Graft
<1>4. CASE s \in Nodes /\ t \in Nodes
  <2>1. Graft(t, side, s) = setSideHere(t, side, s)
    BY <1>4, Sorts DEF Graft, set_side_subtree
  <2> QED
    BY <1>2, <1>4, <2>1
<1>5. CASE s \in Nodes /\ t \in Proxies
  <2>1. t \in Trees /\ IsProxy(t) /\ ~Null(s) /\ t.root \in Nodes /\ t = Proxy(t.root)
    BY <1>5, Sorts, Kinds
  <2> DEFINE r == setSideHere(t.root, side, Wire(s))
  <2>2. Graft(t, side, s) = IF r = Crash THEN Crash ELSE [t EXCEPT !.root = r]
    BY <2>1 DEF Graft, set_side_subtree, Call
  <2>3. Wire(s) \in {Nil} \cup Nodes /\ CountIn(Wire(s), ws) <= CountIn(s, ws)
    BY <1>5, WireOf, Sorts
  <2>4. r \in Nodes /\ CountIn(r, ws) <= CountIn(t.root, ws) + CountIn(s, ws)
    <3>1. CountIn(t.root, ws) \in Nat /\ CountIn(Wire(s), ws) \in Nat
      BY <2>1, <2>3, Counting, Sorts
    <3>2. CASE Wire(s) = Nil
      <4>1. r = t.root
        BY <3>2, Sorts DEF setSideHere
      <4> QED
        BY <1>1, <2>1, <3>1, <4>1
    <3>3. CASE Wire(s) \in Nodes
      <4>1. r \in Nodes /\ CountIn(r, ws) <= CountIn(t.root, ws) + CountIn(Wire(s), ws)
        BY <1>2, <2>1, <3>3
      <4> HIDE DEF r
      <4>2. CountIn(r, ws) \in Nat
        BY <4>1, Counting, Sorts
      <4> QED
        BY <1>1, <2>3, <3>1, <4>1, <4>2
    <3> QED
      BY <2>3, <3>2, <3>3
  <2> HIDE DEF r
  <2>5. r # Crash
    BY <2>4, Kinds, Sorts
  <2>6. Graft(t, side, s) = Proxy(r) /\ Proxy(r) \in Proxies
    BY <1>5, <2>2, <2>4, <2>5, Reroot
  <2>7. CountIn(Proxy(r), ws) = CountIn(r, ws) /\ CountIn(t, ws) = CountIn(t.root, ws)
    BY <1>5, <2>4, <2>6, Counting, Kinds
  <2> QED
    BY <2>4, <2>6, <2>7
<1> QED
  BY <1>3, <1>4, <1>5

-----------------------------------------------------------------------------
(* push_left_subtree and push_right_subtree add the word that they bring.  *)

(* The call on a child, once the method is known below it. *)
LEMMA PushCall ==
  ASSUME LateBinding, NEW ws \in SUBSET Field, NEW side \in Sides,
         NEW t \in Nodes \cup Proxies, NEW w \in Field, NEW c \in Nat,
         LET n == Data(t)
         IN  /\ Push(n, side, w, c) \in Nodes
             /\ CountIn(Push(n, side, w, c), ws) <= CountIn(n, ws) + Times(w, c, ws)
  PROVE  /\ push_subtree(t, side, w, c) \in Nodes \cup Proxies
         /\ CountIn(push_subtree(t, side, w, c), ws) <= CountIn(t, ws) + Times(w, c, ws)
<1>1. CASE t \in Nodes
  BY <1>1, Sorts DEF push_subtree, Call, Data
<1>2. CASE t \in Proxies
  <2>1. t \in Trees /\ IsProxy(t) /\ t.root \in Nodes /\ Data(t) = t.root
    BY <1>2, Sorts, Kinds DEF Data
  <2> DEFINE r == Push(t.root, side, w, c)
  <2>2. push_subtree(t, side, w, c) = IF r = Crash THEN Crash ELSE [t EXCEPT !.root = r]
    BY <2>1 DEF push_subtree, Call
  <2>3. r \in Nodes /\ CountIn(r, ws) <= CountIn(t.root, ws) + Times(w, c, ws)
    BY <2>1
  <2> HIDE DEF r
  <2>4. r # Crash
    BY <2>3, Kinds, Sorts
  <2>5. push_subtree(t, side, w, c) = Proxy(r) /\ Proxy(r) \in Proxies
    BY <1>2, <2>2, <2>3, <2>4, Reroot
  <2>6. CountIn(Proxy(r), ws) = CountIn(r, ws) /\ CountIn(t, ws) = CountIn(t.root, ws)
    BY <1>2, <2>3, <2>5, Counting, Kinds
  <2> QED
    BY <2>3, <2>5, <2>6
<1> QED
  BY <1>1, <1>2

(* Word, counter and both children at once. *)
Refill(n, w, c, h, side, t) ==
  [n EXCEPT !.word = w, !.counter = c, !.height = h, ![side] = t,
            ![Other(side)] = Cleared(@)]

LEMMA Refilled ==
  ASSUME NEW n \in Loose, NEW w \in Field, NEW c \in Nat, NEW side \in Sides,
         NEW t \in Trees, Cleared(n[Other(side)]) \in Trees
  PROVE  /\ Refill(n, w, c, 1, side, t) \in Nodes
         /\ Refill(n, w, c, 1, side, t).word = w
         /\ Refill(n, w, c, 1, side, t).counter = c
         /\ Refill(n, w, c, 1, side, t)[side] = t
         /\ Refill(n, w, c, 1, side, t)[Other(side)] = Cleared(n[Other(side)])
<1> DEFINE Up(h) == Refill(n, w, c, h, side, t)
<1>1. ASSUME NEW h \in Nat
      PROVE  /\ Up(h) \in Loose /\ Up(h).word = w /\ Up(h).counter = c /\ Up(h).height = h
             /\ Up(h)[side] = t /\ Up(h)[Other(side)] = Cleared(n[Other(side)])
  <2>1. CASE side = "left"
    <3> DEFINE g == Cleared(n.right)
               u == [n EXCEPT !.word = w, !.counter = c, !.height = h, !.left = t, !.right = g]
    <3>1. Other(side) = "right" /\ n[Other(side)] = n.right
      BY <2>1 DEF Other
    <3>2. Up(h) = u
      BY <2>1, <3>1 DEF Refill
    <3>3. g \in Trees /\ c \in Int /\ h \in Nat \cup {-1}
      BY <3>1
    <3> HIDE DEF g
    <3>4. u \in Loose
      BY <3>3 DEF Loose
    <3>5. /\ u.word = w /\ u.counter = c /\ u.height = h
          /\ u.left = t /\ u.right = g
      BY DEF Loose
    <3> HIDE DEF u, Up
    <3> QED
      BY <2>1, <3>1, <3>2, <3>4, <3>5 DEF g
  <2>2. CASE side = "right"
    <3> DEFINE g == Cleared(n.left)
               u == [n EXCEPT !.word = w, !.counter = c, !.height = h, !.right = t, !.left = g]
    <3>1. Other(side) = "left" /\ n[Other(side)] = n.left
      BY <2>2 DEF Other
    <3>2. Up(h) = u
      BY <2>2, <3>1 DEF Refill
    <3>3. g \in Trees /\ c \in Int /\ h \in Nat \cup {-1}
      BY <3>1
    <3> HIDE DEF g
    <3>4. u \in Loose
      BY <3>3 DEF Loose
    <3>5. /\ u.word = w /\ u.counter = c /\ u.height = h
          /\ u.right = t /\ u.left = g
      BY DEF Loose
    <3> HIDE DEF u, Up
    <3> QED
      BY <2>2, <3>1, <3>2, <3>4, <3>5 DEF g
  <2> QED
    BY <2>1, <2>2 DEF Sides
<1> DEFINE m == Up(1)
<1> HIDE DEF Up
<1>2. /\ m \in Loose /\ m.word = w /\ m.counter = c /\ m.height = 1
      /\ m[side] = t /\ m[Other(side)] = Cleared(n[Other(side)])
  BY <1>1
<1> HIDE DEF m
<1>3. m \in Nodes
  BY <1>2, NodesAre
<1> QED
  BY <1>2, <1>3 DEF m, Up

LEMMA PushOf ==
  ASSUME LateBinding, NEW ws \in SUBSET Field, NEW side \in Sides
  PROVE  \A n \in Nodes, w \in Field, c \in Nat :
           /\ Push(n, side, w, c) \in Nodes
           /\ CountIn(Push(n, side, w, c), ws) <= CountIn(n, ws) + Times(w, c, ws)
<1> DEFINE Good(n) == \A w \in Field, c \in Nat :
                        /\ Push(n, side, w, c) \in Nodes
                        /\ CountIn(Push(n, side, w, c), ws)
                             <= CountIn(n, ws) + Times(w, c, ws)
           S == {t \in Trees : t # Nil => Good(Data(t))}
<1>1. Nil \in S
  BY Sorts
<1>2. ASSUME NEW p \in Proxies, p.root \in S PROVE p \in S
  BY <1>2, Sorts, Kinds DEF Data
<1>3. ASSUME NEW n \in Nodes, n.left \in S, n.right \in S PROVE n \in S
  <2>1. Data(n) = n /\ n \in Trees /\ n \in Loose /\ n.word \in Field /\ n.counter \in Nat
    BY Sorts, Fields DEF Data
  <2>2. n[side] \in S
    BY <1>3, SidesOf, <2>1
  <2> SUFFICES ASSUME NEW w \in Field, NEW c \in Nat
               PROVE  /\ pushHere(n, side, w, c) \in Nodes
                      /\ CountIn(pushHere(n, side, w, c), ws)
                           <= CountIn(n, ws) + Times(w, c, ws)
    BY <2>1 DEF LateBinding
  <2> DEFINE x == n[side]
             pushed == IF Null(x) THEN setDataHere(create, n.word, n.counter)
                       ELSE push_subtree(x, side, n.word, n.counter)
             moved == getSideHere(n, Other(side))
             f == IF Null(moved) THEN pushed ELSE set_subtree(pushed, moved)
             m == Refill(n, w, c, 1, side, f)
  <2>3. pushHere(n, side, w, c) = IF ~hasWord(n) THEN setDataHere(n, w, c) ELSE m
    BY DEF pushHere, Refill
  <2>4. Times(w, c, ws) \in Nat /\ Other(side) \in Sides
    BY SidesOf DEF Times
  <2>5. /\ CountIn(n, ws) = CountIn(x, ws) + CountIn(n[Other(side)], ws) + Own(n, ws)
        /\ CountIn(x, ws) \in Nat /\ CountIn(n[Other(side)], ws) \in Nat
        /\ Own(n, ws) \in Nat
        /\ x \in Trees /\ n[Other(side)] \in Trees
    BY SideCount
  <2>6. pushed \in Nodes \cup Proxies /\ CountIn(pushed, ws) <= CountIn(x, ws) + Own(n, ws)
    <3>1. CASE x = Nil
      <4>1. pushed = setDataHere(create, n.word, n.counter)
        BY <3>1, Sorts
      <4>2. /\ setDataHere(create, n.word, n.counter) \in Nodes
            /\ CountIn(setDataHere(create, n.word, n.counter), ws)
                 = CountIn(Nil, ws) + CountIn(Nil, ws) + Times(n.word, n.counter, ws)
        BY <2>1, CreateOf, Fields, SetDataOf, SetDataCount
      <4>3. Times(n.word, n.counter, ws) = Own(n, ws) /\ CountIn(Nil, ws) = 0
        BY Counting DEF Times, Own
      <4> QED
        BY <2>5, <3>1, <4>1, <4>2, <4>3
    <3>2. CASE x # Nil
      <4>1. x \in Nodes \cup Proxies /\ ~Null(x) /\ Good(Data(x))
        BY <2>2, <2>5, <3>2, Sorts
      <4>2. /\ push_subtree(x, side, n.word, n.counter) \in Nodes \cup Proxies
            /\ CountIn(push_subtree(x, side, n.word, n.counter), ws)
                 <= CountIn(x, ws) + Times(n.word, n.counter, ws)
        BY <2>1, <4>1, PushCall
      <4>3. Times(n.word, n.counter, ws) = Own(n, ws)
        BY DEF Times, Own
      <4> QED
        BY <4>1, <4>2, <4>3
    <3> QED
      BY <3>1, <3>2
  <2>7. moved \in {Nil} \cup Nodes /\ CountIn(moved, ws) <= CountIn(n[Other(side)], ws)
    BY <2>1, <2>4, SideSubtreeOf
  <2> HIDE DEF pushed, moved, x, Good, S
  <2>8. CountIn(pushed, ws) \in Nat /\ CountIn(moved, ws) \in Nat
    BY <2>6, <2>7, Counting, Sorts
  <2>9. f \in Trees /\ CountIn(f, ws) <= CountIn(pushed, ws) + CountIn(moved, ws)
    <3>1. CASE moved = Nil
      BY <2>6, <2>8, <3>1, Sorts
    <3>2. CASE moved \in Nodes
      <4>1. f = set_subtree(pushed, moved)
        BY <3>2, Sorts
      <4>2. /\ set_subtree(pushed, moved) \in Nodes \cup Proxies
            /\ \/ CountIn(set_subtree(pushed, moved), ws) <= CountIn(moved, ws)
               \/ set_subtree(pushed, moved) = pushed
        BY <2>6, <3>2, SetSubtreeOf
      <4>3. set_subtree(pushed, moved) \in Trees
            /\ CountIn(set_subtree(pushed, moved), ws) \in Nat
        BY <4>2, Counting, Sorts
      <4> QED
        BY <2>8, <4>1, <4>2, <4>3
    <3> QED
      BY <2>7, <3>1, <3>2
  <2> HIDE DEF f
  <2>10. CASE ~hasWord(n)
    <3>1. /\ setDataHere(n, w, c) \in Nodes
          /\ CountIn(setDataHere(n, w, c), ws)
               = CountIn(n.left, ws) + CountIn(n.right, ws) + Times(w, c, ws)
      BY <2>1, SetDataOf, SetDataCount
    <3>2. /\ CountIn(n, ws) = CountIn(n.left, ws) + CountIn(n.right, ws) + Own(n, ws)
          /\ CountIn(n.left, ws) \in Nat /\ CountIn(n.right, ws) \in Nat
      BY <2>1, Counting, Fields
    <3> QED
      BY <2>3, <2>4, <2>5, <2>10, <3>1, <3>2
  <2>11. CASE hasWord(n)
    <3>1. Cleared(n[Other(side)]) \in Trees /\ CountIn(Cleared(n[Other(side)]), ws) = 0
      BY <2>5, ClearedOf, Sorts
    <3>2. /\ m \in Nodes /\ m.word = w /\ m.counter = c /\ m[side] = f
          /\ m[Other(side)] = Cleared(n[Other(side)])
      BY <2>1, <2>9, <3>1, Refilled
    <3> HIDE DEF m
    <3>3. CountIn(m, ws) = CountIn(m[side], ws) + CountIn(m[Other(side)], ws) + Own(m, ws)
      BY <3>2, SideCount
    <3>4. Own(m, ws) = Times(w, c, ws)
      BY <3>2 DEF Own, Times
    <3>5. CountIn(m, ws) = CountIn(f, ws) + Times(w, c, ws)
      <4>1. CountIn(f, ws) \in Nat
        BY <2>9, Counting
      <4> QED
        BY <2>4, <3>1, <3>2, <3>3, <3>4, <4>1
    <3>6. CountIn(f, ws) \in Nat
      BY <2>9, Counting
    <3>7. CountIn(m, ws) <= CountIn(n, ws) + Times(w, c, ws)
      BY <2>4, <2>5, <2>6, <2>7, <2>8, <2>9, <3>5, <3>6
    <3> QED
      BY <2>3, <2>11, <3>2, <3>7
  <2> QED
    BY <2>10, <2>11
<1>4. Trees \subseteq S
  <2> HIDE DEF S
  <2> QED
    BY <1>1, <1>2, <1>3, TreeInduction
<1>5. ASSUME NEW n \in Nodes PROVE Good(n)
  <2>1. n \in S /\ n # Nil /\ Data(n) = n
    BY <1>4, Sorts DEF Data
  <2> QED
    BY <2>1
<1> QED
  BY <1>5

-----------------------------------------------------------------------------
(* Pulling a subtree up, and rotating.                                     *)
LEMMA DataOf ==
  ASSUME LateBinding, NEW ws \in SUBSET Field, NEW t \in Nodes \cup Proxies
  PROVE  /\ Data(t) \in Nodes /\ CountIn(Data(t), ws) = CountIn(t, ws)
         /\ getWord(t) = Data(t).word /\ getWord(t) \in Field
         /\ getCounter(t) = Data(t).counter /\ getCounter(t) \in Nat
<1>1. Data(t) \in Nodes /\ CountIn(Data(t), ws) = CountIn(t, ws)
  <2>1. CASE t \in Nodes
    BY <2>1, Sorts DEF Data
  <2>2. CASE t \in Proxies
    BY <2>2, Sorts, Kinds, Counting DEF Data
  <2> QED
    BY <2>1, <2>2
<1> QED
  BY <1>1, Fields DEF getWord, getCounter

LEMMA UpdateHeightCount ==
  ASSUME LateBinding, NEW ws \in SUBSET Field, NEW n \in Nodes
  PROVE  updateHeight(n) \in Nodes /\ CountIn(updateHeight(n), ws) = CountIn(n, ws)
<1> DEFINE m == updateHeight(n)
<1>1. /\ m \in Nodes /\ m.word = n.word /\ m.counter = n.counter
      /\ m.left = n.left /\ m.right = n.right
  BY UpdateHeightOf, Fields
<1> HIDE DEF m
<1>2. /\ CountIn(m, ws) = CountIn(m.left, ws) + CountIn(m.right, ws) + Own(m, ws)
      /\ CountIn(n, ws) = CountIn(n.left, ws) + CountIn(n.right, ws) + Own(n, ws)
  BY <1>1, Counting
<1>3. Own(m, ws) = Own(n, ws)
  BY <1>1 DEF Own
<1> QED
  BY <1>1, <1>2, <1>3 DEF m

LEMMA GraftHereOf ==
  ASSUME LateBinding, NEW ws \in SUBSET Field,
         NEW n \in Loose, NEW side \in Sides, NEW s \in {Nil} \cup Nodes
  PROVE  /\ Graft(n, side, s) \in Loose
         /\ Graft(n, side, s)[Other(side)] = n[Other(side)]
         /\ CountIn(Graft(n, side, s)[side], ws) <= CountIn(n[side], ws) + CountIn(s, ws)
<1>1. CountIn(n[side], ws) \in Nat /\ CountIn(s, ws) \in Nat
  BY Counting, Fields, Sorts
<1>2. CASE s = Nil
  BY <1>1, <1>2, Counting, Sorts DEF Graft
<1>3. CASE s \in Nodes
  <2> DEFINE m == setSideHere(n, side, s)
  <2>1. Graft(n, side, s) = m
    BY <1>3, Sorts DEF Graft, set_side_subtree
  <2>2. /\ m \in Loose /\ m[Other(side)] = n[Other(side)]
        /\ CountIn(m[side], ws) <= CountIn(s, ws)
    BY <1>3, SetSideOf
  <2> HIDE DEF m
  <2>3. CountIn(m[side], ws) \in Nat
    BY <2>2, Counting, Fields
  <2> QED
    BY <1>1, <2>1, <2>2, <2>3
<1> QED
  BY <1>2, <1>3

LEMMA PullOf ==
  ASSUME LateBinding, NEW ws \in SUBSET Field, NEW n \in Loose, NEW side \in Sides
  PROVE  /\ pullHere(n, side) \in Nodes
         /\ CountIn(pullHere(n, side), ws) <= CountIn(n[side], ws)
<1> DEFINE c == n[side]
           bare == [n EXCEPT !.left = Cleared(@), !.right = Cleared(@)]
           a == get_side_subtree(c, "right")
           b == get_side_subtree(c, "left")
           g1 == Graft(bare, "right", a)
           g2 == Graft(g1, "right", b)
           d == setDataHere(g2, getWord(c), getCounter(c))
<1>1. pullHere(n, side) = IF Null(c) THEN clearData(bare) ELSE updateHeight(d)
  BY DEF pullHere
<1>2. /\ bare \in Loose
      /\ CountIn(bare.left, ws) = 0 /\ CountIn(bare.right, ws) = 0
  <2> DEFINE l == Cleared(n.left)
             r == Cleared(n.right)
             m == [n EXCEPT !.left = l, !.right = r]
  <2>1. l \in Trees /\ r \in Trees /\ CountIn(l, ws) = 0 /\ CountIn(r, ws) = 0
    BY ClearedOf, Fields, Sorts
  <2>2. bare = m
    OBVIOUS
  <2> HIDE DEF l, r
  <2>3. m \in Loose /\ m.left = l /\ m.right = r
    BY <2>1 DEF Loose
  <2> HIDE DEF m, bare
  <2> QED
    BY <2>1, <2>2, <2>3
<1>3. c \in Trees /\ CountIn(c, ws) \in Nat
  BY Fields, Counting
<1> HIDE DEF c, bare
<1>4. CASE c = Nil
  BY <1>1, <1>2, <1>3, <1>4, Sorts, ClearedOf DEF c
<1>5. CASE c \in Nodes \cup Proxies
  <2>1. /\ a \in {Nil} \cup Nodes /\ CountIn(a, ws) <= CountIn(Data(c).right, ws)
        /\ b \in {Nil} \cup Nodes /\ CountIn(b, ws) <= CountIn(Data(c).left, ws)
    BY <1>5, SideSubtreeOf DEF Sides
  <2> HIDE DEF a, b
  <2>2. "right" \in Sides /\ Other("right") = "left"
    BY DEF Sides, Other
  <2>3. /\ g1 \in Loose /\ g1.left = bare.left
        /\ CountIn(g1.right, ws) <= 0 + CountIn(a, ws)
    BY <1>2, <2>1, <2>2, GraftHereOf
  <2> HIDE DEF g1
  <2>4. /\ g2 \in Loose /\ g2.left = bare.left
        /\ CountIn(g2.right, ws) <= CountIn(g1.right, ws) + CountIn(b, ws)
    BY <2>1, <2>2, <2>3, GraftHereOf
  <2> HIDE DEF g2
  <2>5. /\ Data(c) \in Nodes /\ CountIn(Data(c), ws) = CountIn(c, ws)
        /\ getWord(c) = Data(c).word /\ getWord(c) \in Field
        /\ getCounter(c) = Data(c).counter /\ getCounter(c) \in Nat
    BY <1>5, DataOf
  <2>6. /\ d \in Nodes
        /\ CountIn(d, ws) = CountIn(g2.left, ws) + CountIn(g2.right, ws)
                            + Times(getWord(c), getCounter(c), ws)
    BY <2>4, <2>5, SetDataOf, SetDataCount
  <2> HIDE DEF d
  <2>7. Times(getWord(c), getCounter(c), ws) = Own(Data(c), ws)
    BY <2>5 DEF Times, Own
  <2>8. /\ CountIn(Data(c), ws) = CountIn(Data(c).left, ws) + CountIn(Data(c).right, ws)
                                  + Own(Data(c), ws)
        /\ Own(Data(c), ws) \in Nat
        /\ CountIn(Data(c).left, ws) \in Nat /\ CountIn(Data(c).right, ws) \in Nat
    BY <2>5, Counting, Fields
  <2>9. /\ CountIn(a, ws) \in Nat /\ CountIn(b, ws) \in Nat
        /\ CountIn(g1.right, ws) \in Nat /\ CountIn(g2.right, ws) \in Nat
    BY <2>1, <2>3, <2>4, Counting, Fields, Sorts
  <2>10. CountIn(d, ws) <= CountIn(c, ws)
    BY <1>2, <2>1, <2>3, <2>4, <2>5, <2>6, <2>7, <2>8, <2>9
  <2>11. pullHere(n, side) = updateHeight(d)
    BY <1>1, <1>3, <1>5, Kinds, Sorts
  <2>12. updateHeight(d) \in Nodes /\ CountIn(updateHeight(d), ws) = CountIn(d, ws)
    BY <2>6, UpdateHeightCount
  <2> QED
    BY <2>10, <2>11, <2>12 DEF c
<1> QED
  BY <1>3, <1>4, <1>5, Sorts

(* A rotation has a child to lift, or the program crashes. *)
LEMMA RotateHereOf ==
  ASSUME LateBinding, NEW ws \in SUBSET Field, NEW n \in Nodes, NEW to \in Sides
  PROVE  /\ n[Other(to)] = Nil => rotateHere(n, to) = Crash
         /\ n[Other(to)] # Nil => /\ rotateHere(n, to) \in Nodes
                                  /\ CountIn(rotateHere(n, to), ws) <= CountIn(n, ws)
<1> DEFINE from == Other(to)
           x    == n[to]
           up   == n[from]
           down == IF Null(x) THEN setDataHere(create, n.word, n.counter)
                   ELSE push_subtree(x, to, n.word, n.counter)
           rest == IF Null(getLeft(up)) /\ Null(getRight(up))
                   THEN clear(up) ELSE pullHere(up, from)
           sub  == get_side_subtree(up, to)
           new  == Graft(down, from, sub)
           d    == setDataHere(n, getWord(up), getCounter(up))
           m    == [d EXCEPT ![to] = new, ![from] = rest]
<1>1. rotateHere(n, to) = IF Null(up) THEN Crash ELSE updateHeight(m)
  BY DEF rotateHere
<1>2. from \in Sides /\ Other(from) = to
  BY SidesOf
<1>3. /\ CountIn(n, ws) = CountIn(x, ws) + CountIn(up, ws) + Own(n, ws)
      /\ CountIn(n, ws) \in Nat /\ Own(n, ws) \in Nat
      /\ CountIn(x, ws) \in Nat /\ CountIn(up, ws) \in Nat
      /\ x \in Trees /\ up \in Trees
  BY SideCount
<1>4. n.word \in Field /\ n.counter \in Nat /\ n \in Loose
  BY Fields
<1>5. down \in Nodes \cup Proxies /\ CountIn(down, ws) <= CountIn(x, ws) + Own(n, ws)
  <2>0. Times(n.word, n.counter, ws) = Own(n, ws) /\ CountIn(Nil, ws) = 0
    BY Counting DEF Times, Own
  <2>1. CASE x = Nil
    <3>1. down = setDataHere(create, n.word, n.counter)
      BY <2>1, Sorts
    <3>2. /\ setDataHere(create, n.word, n.counter) \in Nodes
          /\ CountIn(setDataHere(create, n.word, n.counter), ws)
               = CountIn(Nil, ws) + CountIn(Nil, ws) + Times(n.word, n.counter, ws)
      BY <1>4, CreateOf, Fields, SetDataOf, SetDataCount
    <3> QED
      BY <1>3, <2>0, <2>1, <3>1, <3>2
  <2>2. CASE x # Nil
    <3>1. x \in Nodes \cup Proxies /\ ~Null(x)
      BY <1>3, <2>2, Sorts
    <3>2. Data(x) \in Nodes
      BY <3>1, DataOf
    <3>3. /\ push_subtree(x, to, n.word, n.counter) \in Nodes \cup Proxies
          /\ CountIn(push_subtree(x, to, n.word, n.counter), ws)
               <= CountIn(x, ws) + Times(n.word, n.counter, ws)
      BY <1>4, <3>1, <3>2, PushOf, PushCall
    <3> QED
      BY <2>0, <3>1, <3>3
  <2> QED
    BY <2>1, <2>2
<1> HIDE DEF down, x
<1>6. CASE up = Nil
  BY <1>1, <1>6, Sorts
<1>7. CASE up # Nil
  <2>1. up \in Nodes \cup Proxies /\ ~Null(up)
    BY <1>3, <1>7, Sorts
  <2>2. /\ Data(up) \in Nodes /\ CountIn(Data(up), ws) = CountIn(up, ws)
        /\ getWord(up) = Data(up).word /\ getWord(up) \in Field
        /\ getCounter(up) = Data(up).counter /\ getCounter(up) \in Nat
    BY <2>1, DataOf
  <2>3. /\ CountIn(Data(up), ws) = CountIn(Data(up)[to], ws) + CountIn(Data(up)[from], ws)
                                   + Own(Data(up), ws)
        /\ CountIn(Data(up)[to], ws) \in Nat /\ CountIn(Data(up)[from], ws) \in Nat
        /\ Own(Data(up), ws) \in Nat
    BY <2>2, SideCount
  <2>4. sub \in {Nil} \cup Nodes /\ CountIn(sub, ws) <= CountIn(Data(up)[to], ws)
    BY <2>1, SideSubtreeOf
  <2>5. rest \in Trees /\ CountIn(rest, ws) <= CountIn(Data(up)[from], ws)
    <3>1. CASE up \in Proxies
      <4>1. IsProxy(up) /\ Null(Nil)
        BY <1>3, <3>1, Sorts
      <4>2. rest = Cleared(up)
        BY <2>1, <4>1 DEF getLeft, getRight, Cleared
      <4>3. Cleared(up) \in Trees /\ CountIn(Cleared(up), ws) = 0
        BY <1>3, ClearedOf, Sorts
      <4> QED
        BY <2>3, <4>2, <4>3
    <3>2. CASE up \in Nodes
      <4>1. ~IsProxy(up) /\ Data(up) = up /\ up \in Loose
        BY <3>2, Sorts DEF Data
      <4>2. clear(up) = Nil
        BY <4>1 DEF clear
      <4>3. pullHere(up, from) \in Nodes /\ CountIn(pullHere(up, from), ws) <= CountIn(up[from], ws)
        BY <1>2, <4>1, PullOf
      <4>4. CountIn(Nil, ws) = 0 /\ Nil \in Trees /\ Nodes \subseteq Trees
        BY Counting, Sorts
      <4> QED
        BY <2>3, <4>1, <4>2, <4>3, <4>4
    <3> QED
      BY <2>1, <3>1, <3>2
  <2> HIDE DEF sub, rest
  <2>6. new \in Trees /\ CountIn(new, ws) <= CountIn(down, ws) + CountIn(sub, ws)
    BY <1>2, <1>5, <2>4, GraftOf, Sorts
  <2> HIDE DEF new
  <2>7. /\ d \in Nodes /\ d.word = getWord(up) /\ d.counter = getCounter(up)
    BY <1>4, <2>2, SetDataOf
  <2> HIDE DEF d
  <2> DEFINE d1 == [d EXCEPT ![to] = new]
             d2 == [d1 EXCEPT ![from] = rest]
  <2>8. /\ d1 \in Nodes /\ d1.word = d.word /\ d1.counter = d.counter /\ d1[to] = new
    BY <2>6, <2>7, Fields, Replaced
  <2>9. m = d2
    OBVIOUS
  <2> HIDE DEF d1
  <2>10. /\ d2 \in Nodes /\ d2.word = d.word /\ d2.counter = d.counter
         /\ d2[from] = rest /\ d2[to] = new
    BY <1>2, <2>5, <2>8, Fields, Replaced
  <2> HIDE DEF d2, m
  <2>11. CountIn(d2, ws) = CountIn(d2[to], ws) + CountIn(d2[from], ws) + Own(d2, ws)
    BY <2>10, SideCount
  <2>12. Own(d2, ws) = Own(Data(up), ws)
    BY <2>2, <2>7, <2>10 DEF Own
  <2>13. /\ CountIn(new, ws) \in Nat /\ CountIn(rest, ws) \in Nat
         /\ CountIn(down, ws) \in Nat /\ CountIn(sub, ws) \in Nat
    BY <1>5, <2>4, <2>5, <2>6, Counting, Sorts
  <2> HIDE DEF from, up
  <2>14. CountIn(d2, ws) <= CountIn(n, ws)
    BY <1>3, <1>5, <2>2, <2>3, <2>4, <2>5, <2>6, <2>10, <2>11, <2>12, <2>13
  <2>15. updateHeight(d2) \in Nodes /\ CountIn(updateHeight(d2), ws) = CountIn(d2, ws)
    BY <2>10, UpdateHeightCount
  <2>16. rotateHere(n, to) = updateHeight(d2)
    BY <1>1, <2>1, <2>9
  <2> QED
    BY <1>7, <2>14, <2>15, <2>16 DEF up, from
<1> QED
  BY <1>6, <1>7

LEMMA RotateOf ==
  ASSUME LateBinding, NEW ws \in SUBSET Field, NEW t \in Nodes \cup Proxies, NEW to \in Sides
  PROVE  \/ rotate(t, to) = Crash
         \/ /\ rotate(t, to) \in Nodes \cup Proxies
            /\ CountIn(rotate(t, to), ws) <= CountIn(t, ws)
<1>1. CASE t \in Nodes
  <2>1. rotate(t, to) = rotateHere(t, to)
    BY <1>1, Sorts DEF rotate, Call
  <2> QED
    BY <1>1, <2>1, RotateHereOf
<1>2. CASE t \in Proxies
  <2>1. t \in Trees /\ IsProxy(t) /\ t.root \in Nodes
    BY <1>2, Sorts, Kinds
  <2> DEFINE r == rotateHere(t.root, to)
  <2>2. rotate(t, to) = IF r = Crash THEN Crash ELSE [t EXCEPT !.root = r]
    BY <2>1 DEF rotate, Call
  <2>3. r = Crash \/ (r \in Nodes /\ CountIn(r, ws) <= CountIn(t.root, ws))
    BY <2>1, RotateHereOf
  <2> HIDE DEF r
  <2>4. CASE r = Crash
    BY <2>2, <2>4
  <2>5. CASE r # Crash
    <3>1. rotate(t, to) = Proxy(r) /\ Proxy(r) \in Proxies
      BY <1>2, <2>2, <2>3, <2>5, Reroot
    <3>2. CountIn(Proxy(r), ws) = CountIn(r, ws) /\ CountIn(t, ws) = CountIn(t.root, ws)
      BY <1>2, <2>3, <2>5, <3>1, Counting, Kinds
    <3> QED
      BY <2>3, <2>5, <3>1, <3>2
  <2> QED
    BY <2>4, <2>5
<1> QED
  BY <1>1, <1>2

LEMMA BalanceOf ==
  ASSUME LateBinding, NEW ws \in SUBSET Field, NEW n \in Nodes, NEW w
  PROVE  \/ balance(n, w) = Crash
         \/ balance(n, w) \in Nodes /\ CountIn(balance(n, w), ws) <= CountIn(n, ws)
<1> DEFINE to   == IF Balance(n) = 2 THEN "left" ELSE "right"
           from == Other(to)
           c    == IF ChildFirst(n, w) THEN rotate(n[from], from) ELSE n[from]
           m    == [n EXCEPT ![from] = c]
<1>1. balance(n, w) = IF Balance(n) \notin {-2, 2} THEN n
                      ELSE IF c = Crash THEN Crash ELSE rotateHere(m, to)
  BY DEF balance
<1>2. to \in Sides /\ from \in Sides /\ Other(from) = to
  BY DEF Sides, Other
<1>3. /\ CountIn(n, ws) = CountIn(n[from], ws) + CountIn(n[Other(from)], ws) + Own(n, ws)
      /\ CountIn(n, ws) \in Nat /\ Own(n, ws) \in Nat
      /\ CountIn(n[from], ws) \in Nat /\ CountIn(n[Other(from)], ws) \in Nat
      /\ n[from] \in Trees /\ n \in Loose
  BY <1>2, SideCount, Fields
<1>4. CASE Balance(n) \notin {-2, 2}
  BY <1>1, <1>3, <1>4
<1>5. CASE Balance(n) \in {-2, 2} /\ c = Crash
  BY <1>1, <1>5
<1>6. CASE Balance(n) \in {-2, 2} /\ c # Crash
  <2>1. n[from] \in Nodes \cup Proxies
    <3>1. /\ n.left \in Trees /\ n.right \in Trees
          /\ HeightOr(n.left) \in Int /\ HeightOr(n.left) >= -1
          /\ n.left = Nil => HeightOr(n.left) = -1
          /\ HeightOr(n.right) \in Int /\ HeightOr(n.right) >= -1
          /\ n.right = Nil => HeightOr(n.right) = -1
      BY Fields, HeightOrOf
    <3>2. CASE Balance(n) = 2
      <4>1. n[from] = n.right
        BY <3>2 DEF Other
      <4>2. n.right # Nil
        BY <3>1, <3>2 DEF Balance
      <4> QED
        BY <3>1, <4>1, <4>2, Sorts
    <3>3. CASE Balance(n) = -2
      <4>1. n[from] = n.left
        BY <3>3 DEF Other
      <4>2. n.left # Nil
        BY <3>1, <3>3 DEF Balance
      <4> QED
        BY <3>1, <4>1, <4>2, Sorts
    <3> QED
      BY <1>6, <3>2, <3>3
  <2> HIDE DEF to
  <2>2. c \in Nodes \cup Proxies /\ CountIn(c, ws) <= CountIn(n[from], ws)
    BY <1>2, <1>3, <1>6, <2>1, RotateOf
  <2> HIDE DEF c
  <2>3. c \in Trees /\ c # Nil /\ CountIn(c, ws) \in Nat
    BY <2>2, Sorts, Kinds, Counting
  <2>4. /\ m \in Nodes /\ m.word = n.word /\ m.counter = n.counter
        /\ m[from] = c /\ m[Other(from)] = n[Other(from)]
    BY <1>2, <1>3, <2>3, Replaced
  <2> HIDE DEF m
  <2>5. CountIn(m, ws) = CountIn(m[from], ws) + CountIn(m[Other(from)], ws) + Own(m, ws)
    BY <1>2, <2>4, SideCount
  <2>6. Own(m, ws) = Own(n, ws)
    BY <2>4 DEF Own
  <2>7. CountIn(m, ws) <= CountIn(n, ws)
    BY <1>3, <2>2, <2>3, <2>4, <2>5, <2>6
  <2>8. /\ rotateHere(m, to) \in Nodes
        /\ CountIn(rotateHere(m, to), ws) <= CountIn(m, ws)
    BY <1>2, <2>3, <2>4, RotateHereOf
  <2>9. CountIn(m, ws) \in Nat /\ CountIn(rotateHere(m, to), ws) \in Nat
    BY <2>4, <2>8, Counting, Sorts
  <2>10. balance(n, w) = rotateHere(m, to)
    BY <1>1, <1>6
  <2> QED
    BY <1>3, <2>7, <2>8, <2>9, <2>10
<1> QED
  BY <1>4, <1>5, <1>6

-----------------------------------------------------------------------------
(* insert adds one occurrence of its word at most, if those of the empty   *)
(* string, which setWord may turn into another word, are counted as well.  *)
InsertGood(n, w, ws) ==
  \/ InsertInto(n, w) = Crash
  \/ /\ InsertInto(n, w) \in Nodes
     /\ CountIn(InsertInto(n, w), ws) <= CountIn(n, ws) + Times(w, 1, ws)

LEMMA InsertCall ==
  ASSUME LateBinding, NEW ws \in SUBSET Field, NEW w \in Words,
         NEW t \in Nodes \cup Proxies, InsertGood(Data(t), w, ws)
  PROVE  \/ insert(t, w) = Crash
         \/ /\ insert(t, w) \in Nodes \cup Proxies
            /\ CountIn(insert(t, w), ws) <= CountIn(t, ws) + Times(w, 1, ws)
            /\ t \in Nodes => insert(t, w) \in Nodes
<1>1. CASE t \in Nodes
  BY <1>1, Sorts DEF insert, Call, Data, InsertGood
<1>2. CASE t \in Proxies
  <2>1. t \in Trees /\ IsProxy(t) /\ t.root \in Nodes /\ Data(t) = t.root /\ t \notin Nodes
    BY <1>2, Sorts, Kinds DEF Data
  <2> DEFINE r == InsertInto(t.root, w)
  <2>2. insert(t, w) = IF r = Crash THEN Crash ELSE [t EXCEPT !.root = r]
    BY <2>1 DEF insert, Call
  <2>3. r = Crash \/ (r \in Nodes /\ CountIn(r, ws) <= CountIn(t.root, ws) + Times(w, 1, ws))
    BY <2>1 DEF InsertGood
  <2> HIDE DEF r
  <2>4. CASE r = Crash
    BY <2>2, <2>4
  <2>5. CASE r # Crash
    <3>1. insert(t, w) = Proxy(r) /\ Proxy(r) \in Proxies
      BY <1>2, <2>2, <2>3, <2>5, Reroot
    <3>2. CountIn(Proxy(r), ws) = CountIn(r, ws) /\ CountIn(t, ws) = CountIn(t.root, ws)
      BY <1>2, <2>3, <2>5, <3>1, Counting, Kinds
    <3> QED
      BY <2>1, <2>3, <2>5, <3>1, <3>2
  <2> QED
    BY <2>4, <2>5
<1> QED
  BY <1>1, <1>2

LEMMA InsertOf ==
  ASSUME LateBinding, NEW ws \in SUBSET Field, Empty \in ws, NEW w \in Words
  PROVE  \A n \in Nodes : InsertGood(n, w, ws)
<1> DEFINE S == {t \in Trees : t # Nil => InsertGood(Data(t), w, ws)}
<1>1. Nil \in S
  BY Sorts
<1>2. ASSUME NEW p \in Proxies, p.root \in S PROVE p \in S
  BY <1>2, Sorts, Kinds DEF Data
<1>3. ASSUME NEW n \in Nodes, n.left \in S, n.right \in S PROVE n \in S
  <2>1. /\ Data(n) = n /\ n \in Trees /\ n \in Loose /\ n.word \in Field /\ n.counter \in Nat
        /\ (n.counter # 0 => n.height # -1) /\ n.height \in Int /\ n.height >= -1
        /\ w \in Field
    BY Sorts, Fields DEF Data, Field
  <2> DEFINE side == SideOf(n, w)
             x == n[side]
             c == IF Null(x) THEN NewNode(w, 1, 0) ELSE insert(x, w)
             m == [n EXCEPT ![side] = c]
             res == insertHere(n, w)
  <2>2. side \in Sides
    BY DEF SideOf, Sides
  <2> SUFFICES \/ res = Crash
               \/ res \in Nodes /\ CountIn(res, ws) <= CountIn(n, ws) + Times(w, 1, ws)
    BY <2>1 DEF LateBinding, InsertGood
  <2>3. x \in S
    <3>1. x = n.left \/ x = n.right
      BY <2>1, <2>2, SidesOf
    <3> HIDE DEF x, S
    <3> QED
      BY <1>3, <3>1
  <2>4. /\ CountIn(n, ws) = CountIn(x, ws) + CountIn(n[Other(side)], ws) + Own(n, ws)
        /\ CountIn(n, ws) \in Nat /\ Own(n, ws) \in Nat
        /\ CountIn(x, ws) \in Nat /\ CountIn(n[Other(side)], ws) \in Nat
        /\ x \in Trees
    BY <2>2, SideCount
  <2>5. Times(w, 1, ws) \in Nat
    BY DEF Times
  <2>6. CASE ~hasWord(n)
    <3>1. res = setWord(n, w)
      BY <2>6 DEF insertHere
    <3>2. setWord(n, w) = setDataHere(n, w, n.counter + 1)
      BY DEF setWord, setDataHere
    <3>3. n.counter + 1 \in Nat
      BY <2>1
    <3>4. /\ res \in Nodes
          /\ CountIn(res, ws) = CountIn(n.left, ws) + CountIn(n.right, ws)
                                + Times(w, n.counter + 1, ws)
      BY <2>1, <3>1, <3>2, <3>3, SetDataOf, SetDataCount
    <3>5. n.counter = 0 \/ n.word = Empty
      <4>1. ~(n.height > -1 /\ n.counter # 0 /\ n.word # Empty)
        BY <2>1, <2>6 DEF hasWord, getHeight, getCounter, getWord
      <4> QED
        BY <2>1, <4>1
    <3>6. Times(w, n.counter + 1, ws) <= Own(n, ws) + Times(w, 1, ws)
      BY <2>1, <3>5 DEF Times, Own
    <3>7. /\ CountIn(n, ws) = CountIn(n.left, ws) + CountIn(n.right, ws) + Own(n, ws)
          /\ CountIn(n.left, ws) \in Nat /\ CountIn(n.right, ws) \in Nat
          /\ Times(w, n.counter + 1, ws) \in Nat
      BY <2>1, Counting, Fields DEF Times
    <3> HIDE DEF res
    <3> QED
      BY <2>4, <2>5, <3>4, <3>6, <3>7
  <2>7. CASE hasWord(n) /\ w = n.word
    <3> DEFINE k == n.counter + 1
               u == [n EXCEPT !.counter = k]
    <3>1. res = u
      BY <2>7 DEF insertHere
    <3>2. k \in Nat
      BY <2>1
    <3>3. n.height # -1
      BY <2>1, <2>7 DEF hasWord, getHeight
    <3> HIDE DEF k
    <3>4. /\ u \in Loose /\ u.word = n.word /\ u.counter = k /\ u.height = n.height
          /\ u.left = n.left /\ u.right = n.right
      BY <2>1, <3>2 DEF Loose
    <3> HIDE DEF u, res
    <3>5. u \in Nodes
      BY <3>2, <3>3, <3>4, NodesAre
    <3>6. /\ CountIn(n, ws) = CountIn(n.left, ws) + CountIn(n.right, ws) + Own(n, ws)
          /\ CountIn(u, ws) = CountIn(u.left, ws) + CountIn(u.right, ws) + Own(u, ws)
      BY <3>5, Counting
    <3>7. Own(u, ws) = Own(n, ws) + Times(w, 1, ws)
      BY <2>1, <2>7, <3>4 DEF Own, Times, k
    <3>8. CountIn(n.left, ws) \in Nat /\ CountIn(n.right, ws) \in Nat
      BY <2>1, Counting, Fields
    <3> QED
      BY <2>4, <2>5, <3>1, <3>4, <3>5, <3>6, <3>7, <3>8
  <2>8. CASE hasWord(n) /\ w # n.word
    <3>1. res = IF c = Crash THEN Crash ELSE balance(updateHeight(m), w)
      BY <2>8 DEF insertHere
    <3>2. \/ c = Crash
          \/ c \in Nodes \cup Proxies /\ CountIn(c, ws) <= CountIn(x, ws) + Times(w, 1, ws)
      <4>1. CASE x = Nil
        <5> DEFINE u == NewNode(w, 1, 0)
        <5>1. c = u
          BY <4>1, <2>4, Sorts
        <5>2. u.word = w /\ u.counter = 1 /\ u.left = Nil /\ u.right = Nil
          BY DEF NewNode
        <5>3. u \in Nodes
          BY <2>1, NodeMade, Sorts DEF NewNode
        <5> HIDE DEF u, c, x
        <5>4. /\ CountIn(u, ws) = CountIn(u.left, ws) + CountIn(u.right, ws) + Own(u, ws)
              /\ CountIn(Nil, ws) = 0
          BY <5>3, Counting
        <5>5. Own(u, ws) = Times(w, 1, ws)
          BY <5>2 DEF Own, Times
        <5> QED
          BY <2>5, <4>1, <5>1, <5>2, <5>3, <5>4, <5>5
      <4>2. CASE x # Nil
        <5>1. x \in Nodes \cup Proxies /\ c = insert(x, w) /\ InsertGood(Data(x), w, ws)
          BY <2>3, <2>4, <4>2, Sorts
        <5> HIDE DEF x, c
        <5> QED
          BY <5>1, InsertCall
      <4> QED
        BY <4>1, <4>2
    <3> HIDE DEF c, x, side, res
    <3>3. CASE c = Crash
      BY <3>1, <3>3
    <3>4. CASE c # Crash
      <4>1. c \in Trees /\ CountIn(c, ws) \in Nat
        BY <3>2, <3>4, Counting, Sorts
      <4>2. /\ m \in Nodes /\ m.word = n.word /\ m.counter = n.counter
            /\ m[side] = c /\ m[Other(side)] = n[Other(side)]
        BY <2>1, <2>2, <4>1, Replaced
      <4> HIDE DEF m
      <4>3. CountIn(m, ws) = CountIn(m[side], ws) + CountIn(m[Other(side)], ws) + Own(m, ws)
        BY <2>2, <4>2, SideCount
      <4>4. Own(m, ws) = Own(n, ws)
        BY <4>2 DEF Own
      <4>5. CountIn(m, ws) <= CountIn(n, ws) + Times(w, 1, ws)
        BY <2>4, <2>5, <3>2, <3>4, <4>1, <4>2, <4>3, <4>4
      <4> DEFINE u == updateHeight(m)
      <4>6. u \in Nodes /\ CountIn(u, ws) = CountIn(m, ws)
        BY <4>2, UpdateHeightCount
      <4>7. res = balance(u, w)
        BY <3>1, <3>4
      <4> HIDE DEF u
      <4>8. \/ balance(u, w) = Crash
            \/ balance(u, w) \in Nodes /\ CountIn(balance(u, w), ws) <= CountIn(u, ws)
        BY <4>6, BalanceOf
      <4>9. CountIn(u, ws) \in Nat /\ (res # Crash => CountIn(res, ws) \in Nat)
        BY <4>6, <4>7, <4>8, Counting, Sorts
      <4> QED
        BY <2>4, <2>5, <4>5, <4>6, <4>7, <4>8, <4>9
    <3> QED
      BY <3>3, <3>4
  <2> QED
    BY <2>6, <2>7, <2>8
<1>4. Trees \subseteq S
  <2> HIDE DEF S
  <2> QED
    BY <1>1, <1>2, <1>3, TreeInduction
<1>5. ASSUME NEW n \in Nodes PROVE InsertGood(n, w, ws)
  <2>1. n \in S /\ n # Nil /\ Data(n) = n
    BY <1>4, Sorts DEF Data
  <2> QED
    BY <2>1
<1> QED
  BY <1>5

-----------------------------------------------------------------------------
(* remove adds nothing.  The search for a successor never finds one.       *)
LEMMA FindSuccessorOf ==
  ASSUME LateBinding
  PROVE  \A t \in Nodes \cup Proxies : find_successor(t) = Crash
<1> DEFINE S == {t \in Trees : t # Nil => find_successor(t) = Crash}
<1>1. Nil \in S
  BY Sorts
<1>2. ASSUME NEW p \in Proxies, p.root \in S PROVE p \in S
  <2>1. p.root \in Nodes /\ Data(p) = p.root /\ Data(p.root) = p.root /\ p \in Trees
        /\ p.root # Nil
    BY Sorts, Kinds DEF Data
  <2> QED
    BY <1>2, <2>1 DEF find_successor
<1>3. ASSUME NEW n \in Nodes, n.left \in S, n.right \in S PROVE n \in S
  <2>1. Data(n) = n /\ n \in Trees /\ n.left \in Trees
    BY Sorts, Fields DEF Data
  <2>2. find_successor(n) = IF Null(n.left) THEN Crash ELSE find_successor(n.left)
    BY <2>1 DEF find_successor, LateBinding, findSuccessorHere
  <2> QED
    BY <1>3, <2>1, <2>2, Sorts
<1>4. Trees \subseteq S
  <2> HIDE DEF S
  <2> QED
    BY <1>1, <1>2, <1>3, TreeInduction
<1> QED
  BY <1>4, Sorts, Kinds

LEMMA RemoveLastOf ==
  ASSUME LateBinding, NEW ws \in SUBSET Field, NEW n \in Loose, NEW k \in Nat,
         CountIn(n.left, ws) <= k, CountIn(n.right, ws) <= k
  PROVE  \/ removeLast(n) = Crash
         \/ removeLast(n) \in Nodes /\ CountIn(removeLast(n), ws) <= k
<1>1. clearData(n) \in Nodes /\ CountIn(clearData(n), ws) <= k
  BY ClearedOf
<1>2. ASSUME NEW side \in Sides
      PROVE  pullHere(n, side) \in Nodes /\ CountIn(pullHere(n, side), ws) <= k
  <2>1. /\ pullHere(n, side) \in Nodes
        /\ CountIn(pullHere(n, side), ws) <= CountIn(n[side], ws)
        /\ n[side] = n.left \/ n[side] = n.right
    BY PullOf, SidesOf
  <2>2. /\ CountIn(pullHere(n, side), ws) \in Nat
        /\ CountIn(n.left, ws) \in Nat /\ CountIn(n.right, ws) \in Nat
    BY <2>1, Counting, Fields, Sorts
  <2> QED
    BY <2>1, <2>2
<1>3. "left" \in Sides /\ "right" \in Sides
  BY DEF Sides
<1>4. Holds(n.right) => find_successor(n.right) = Crash
  <2>1. n.right \in Trees
    BY Fields
  <2>2. Holds(n.right) => n.right \in Nodes \cup Proxies
    BY <2>1, Sorts DEF Holds
  <2> QED
    BY <2>2, FindSuccessorOf
<1>5. \/ remove_local_word(n) = Crash
      \/ remove_local_word(n) \in Nodes /\ CountIn(remove_local_word(n), ws) <= k
  <2>1. CASE Holds(n.left) /\ Holds(n.right)
    BY <1>4, <2>1 DEF remove_local_word
  <2>2. CASE Holds(n.left) /\ ~Holds(n.right)
    <3>1. remove_local_word(n) = pullHere(n, "left")
      BY <2>2 DEF remove_local_word
    <3> QED
      BY <1>2, <1>3, <3>1
  <2>3. CASE ~Holds(n.left) /\ Holds(n.right)
    <3>1. remove_local_word(n) = pullHere(n, "right")
      BY <2>3 DEF remove_local_word
    <3> QED
      BY <1>2, <1>3, <3>1
  <2>4. CASE ~Holds(n.left) /\ ~Holds(n.right)
    BY <1>1, <2>4 DEF remove_local_word
  <2> QED
    BY <2>1, <2>2, <2>3, <2>4
<1>6. removeLast(n) \in {clearData(n), remove_local_word(n), Crash}
  <2>1. CASE Null(n.left) /\ Null(n.right)
    BY <2>1 DEF removeLast, Holds
  <2>2. CASE Holds(n.left)
    BY <2>2 DEF removeLast, Holds
  <2>3. CASE ~Null(n.left) /\ ~hasWord(n.left) /\ ~Null(n.right)
    BY <2>3 DEF removeLast, Holds
  <2>4. CASE /\ ~(Null(n.left) /\ Null(n.right))
             /\ ~Holds(n.left)
             /\ ~(~Null(n.left) /\ ~hasWord(n.left) /\ ~Null(n.right))
    BY <2>4 DEF removeLast
  <2> QED
    BY <2>1, <2>2, <2>3, <2>4
<1> QED
  BY <1>1, <1>5, <1>6

RemoveGood(n, w, ws) ==
  \/ RemoveFrom(n, w) = Crash
  \/ RemoveFrom(n, w) \in Nodes /\ CountIn(RemoveFrom(n, w), ws) <= CountIn(n, ws)

LEMMA RemoveCall ==
  ASSUME LateBinding, NEW ws \in SUBSET Field, NEW w \in Words,
         NEW t \in Nodes \cup Proxies, RemoveGood(Data(t), w, ws)
  PROVE  \/ remove(t, w) = Crash
         \/ /\ remove(t, w) \in Nodes \cup Proxies
            /\ CountIn(remove(t, w), ws) <= CountIn(t, ws)
            /\ t \in Nodes => remove(t, w) \in Nodes
<1>1. CASE t \in Nodes
  BY <1>1, Sorts DEF remove, Call, Data, RemoveGood
<1>2. CASE t \in Proxies
  <2>1. t \in Trees /\ IsProxy(t) /\ t.root \in Nodes /\ Data(t) = t.root /\ t \notin Nodes
    BY <1>2, Sorts, Kinds DEF Data
  <2> DEFINE r == RemoveFrom(t.root, w)
  <2>2. remove(t, w) = IF r = Crash THEN Crash ELSE [t EXCEPT !.root = r]
    BY <2>1 DEF remove, Call
  <2>3. r = Crash \/ (r \in Nodes /\ CountIn(r, ws) <= CountIn(t.root, ws))
    BY <2>1 DEF RemoveGood
  <2> HIDE DEF r
  <2>4. CASE r = Crash
    BY <2>2, <2>4
  <2>5. CASE r # Crash
    <3>1. remove(t, w) = Proxy(r) /\ Proxy(r) \in Proxies
      BY <1>2, <2>2, <2>3, <2>5, Reroot
    <3>2. CountIn(Proxy(r), ws) = CountIn(r, ws) /\ CountIn(t, ws) = CountIn(t.root, ws)
      BY <1>2, <2>3, <2>5, <3>1, Counting, Kinds
    <3> QED
      BY <2>1, <2>3, <2>5, <3>1, <3>2
  <2> QED
    BY <2>4, <2>5
<1> QED
  BY <1>1, <1>2

LEMMA RemoveOf ==
  ASSUME LateBinding, NEW ws \in SUBSET Field, NEW w \in Words
  PROVE  \A n \in Nodes : RemoveGood(n, w, ws)
<1> DEFINE S == {t \in Trees : t # Nil => RemoveGood(Data(t), w, ws)}
<1>1. Nil \in S
  BY Sorts
<1>2. ASSUME NEW p \in Proxies, p.root \in S PROVE p \in S
  BY <1>2, Sorts, Kinds DEF Data
<1>3. ASSUME NEW n \in Nodes, n.left \in S, n.right \in S PROVE n \in S
  <2>1. /\ Data(n) = n /\ n \in Trees /\ n \in Loose /\ n.word \in Field /\ n.counter \in Nat
        /\ (n.counter # 0 => n.height # -1)
    BY Sorts, Fields DEF Data, Field
  <2>2. /\ CountIn(n, ws) = CountIn(n.left, ws) + CountIn(n.right, ws) + Own(n, ws)
        /\ CountIn(n, ws) \in Nat /\ Own(n, ws) \in Nat
        /\ CountIn(n.left, ws) \in Nat /\ CountIn(n.right, ws) \in Nat
    BY <2>1, Counting, Fields
  <2> DEFINE res == removeHere(n, w)
  <2> SUFFICES \/ res = Crash
               \/ res \in Nodes /\ CountIn(res, ws) <= CountIn(n, ws)
    BY <2>1 DEF LateBinding, RemoveGood
  <2>3. CASE w = n.word
    <3> DEFINE k == n.counter - 1
               t1 == [n EXCEPT !.counter = k]
    <3>1. res = IF t1.counter > 0 THEN t1 ELSE removeLast(t1)
      BY <2>3 DEF removeHere
    <3>2. k \in Int /\ k = n.counter - 1
      BY <2>1
    <3> HIDE DEF k
    <3>3. /\ t1 \in Loose /\ t1.word = n.word /\ t1.counter = k /\ t1.height = n.height
          /\ t1.left = n.left /\ t1.right = n.right
      BY <2>1, <3>2 DEF Loose
    <3> HIDE DEF t1, res
    <3>4. CASE k > 0
      <4>1. t1 \in Nodes
        BY <2>1, <3>2, <3>3, <3>4, NodesAre
      <4>2. CountIn(t1, ws) = CountIn(n.left, ws) + CountIn(n.right, ws) + Own(t1, ws)
        BY <3>3, <4>1, Counting
      <4>3. Own(t1, ws) <= Own(n, ws) /\ Own(t1, ws) \in Nat
        BY <2>1, <3>2, <3>3, <3>4 DEF Own
      <4> QED
        BY <2>2, <3>1, <3>3, <3>4, <4>1, <4>2, <4>3
    <3>5. CASE ~(k > 0)
      <4>1. res = removeLast(t1)
        BY <3>1, <3>3, <3>5
      <4>2. CountIn(t1.left, ws) <= CountIn(n, ws) /\ CountIn(t1.right, ws) <= CountIn(n, ws)
        BY <2>2, <3>3
      <4> QED
        BY <2>2, <3>3, <4>1, <4>2, RemoveLastOf
    <3> QED
      BY <3>4, <3>5
  <2>4. CASE w # n.word
    <3> DEFINE side == SideOf(n, w)
               x == n[side]
               c == remove(x, w)
               m == [n EXCEPT ![side] = clear(c)]
    <3>1. res = IF Null(x) THEN n ELSE IF c = Crash THEN Crash ELSE m
      BY <2>4 DEF removeHere, remove_remote_word
    <3>2. side \in Sides
      BY DEF SideOf, Sides
    <3>3. /\ CountIn(n, ws) = CountIn(x, ws) + CountIn(n[Other(side)], ws) + Own(n, ws)
          /\ CountIn(x, ws) \in Nat /\ CountIn(n[Other(side)], ws) \in Nat
          /\ x \in Trees
      BY <3>2, SideCount
    <3>4. x \in S
      <4>1. x = n.left \/ x = n.right
        BY <2>1, <3>2, SidesOf
      <4> HIDE DEF x, S
      <4> QED
        BY <1>3, <4>1
    <3>5. CASE x = Nil
      BY <2>1, <2>2, <3>1, <3>3, <3>5, Sorts
    <3>6. CASE x # Nil
      <4>1. x \in Nodes \cup Proxies /\ ~Null(x) /\ RemoveGood(Data(x), w, ws)
        BY <3>3, <3>4, <3>6, Sorts
      <4> HIDE DEF x
      <4>2. c = Crash \/ c \in Nodes \cup Proxies
        BY <4>1, RemoveCall
      <4> HIDE DEF c
      <4>3. CASE c = Crash
        BY <3>1, <4>1, <4>3
      <4>4. CASE c # Crash
        <5>1. c \in Trees /\ c # Nil /\ ~Null(c)
          BY <4>2, <4>4, Sorts, Kinds
        <5>2. clear(c) = Cleared(c)
          BY <5>1 DEF Cleared
        <5>3. clear(c) \in Trees /\ CountIn(clear(c), ws) = 0
          BY <5>1, <5>2, ClearedOf, Sorts
        <5>4. /\ m \in Nodes /\ m.word = n.word /\ m.counter = n.counter
              /\ m[side] = clear(c) /\ m[Other(side)] = n[Other(side)]
          BY <2>1, <3>2, <5>3, Replaced
        <5>5. res = m
          BY <3>1, <4>1, <4>4
        <5> HIDE DEF m, side, res
        <5>6. CountIn(m, ws) = CountIn(m[side], ws) + CountIn(m[Other(side)], ws) + Own(m, ws)
          BY <3>2, <5>4, SideCount
        <5>7. Own(m, ws) = Own(n, ws)
          BY <5>4 DEF Own
        <5> QED
          BY <2>2, <3>3, <5>3, <5>4, <5>5, <5>6, <5>7
      <4> QED
        BY <4>3, <4>4
    <3> QED
      BY <3>5, <3>6
  <2> QED
    BY <2>3, <2>4
<1>4. Trees \subseteq S
  <2> HIDE DEF S
  <2> QED
    BY <1>1, <1>2, <1>3, TreeInduction
<1>5. ASSUME NEW n \in Nodes PROVE RemoveGood(n, w, ws)
  <2>1. n \in S /\ n # Nil /\ Data(n) = n
    BY <1>4, Sorts DEF Data
  <2> QED
    BY <2>1
<1> QED
  BY <1>5

-----------------------------------------------------------------------------
(* The nodes of a tree, and below it.                                      *)
LEMMA AllNodesAre ==
  ASSUME LateBinding
  PROVE  /\ AllNodes(Nil) = {}
         /\ \A p \in Proxies : AllNodes(p) = AllNodes(p.root)
         /\ \A n \in Nodes : AllNodes(n) = {n} \cup AllNodes(n.left) \cup AllNodes(n.right)
<1>1. \A t \in Trees \cup {Crash} : AllNodes(t) = allNodes(t)
  BY DEF LateBinding
<1>2. AllNodes(Nil) = {}
  <2>1. allNodes(Nil) = {}
    BY DEF allNodes, Nil, Crash
  <2> QED
    BY <1>1, <2>1, Sorts
<1>3. \A p \in Proxies : AllNodes(p) = AllNodes(p.root)
  BY <1>1, Sorts, Kinds DEF allNodes
<1>4. \A n \in Nodes : AllNodes(n) = {n} \cup AllNodes(n.left) \cup AllNodes(n.right)
  BY <1>1, Sorts, Kinds DEF allNodes
<1> QED
  BY <1>2, <1>3, <1>4

(* Each of them counts no more than the whole tree.                        *)
LEMMA AllNodesOf ==
  ASSUME LateBinding, NEW ws \in SUBSET Field
  PROVE  /\ AllNodes(Crash) = {}
         /\ \A t \in Trees : \A n \in AllNodes(t) :
              n \in Nodes /\ Own(n, ws) <= CountIn(t, ws)
<1>1. AllNodes(Crash) = {}
  BY DEF LateBinding, allNodes, Nil, Crash
<1>2. AllNodes(Nil) = {}
  BY AllNodesAre
<1> DEFINE S == {t \in Trees : \A n \in AllNodes(t) :
                                 n \in Nodes /\ Own(n, ws) <= CountIn(t, ws)}
<1>3. Nil \in S
  BY <1>2, TreesAre
<1>4. ASSUME NEW n \in Nodes, n.left \in S, n.right \in S PROVE n \in S
  <2>1. AllNodes(n) = {n} \cup AllNodes(n.left) \cup AllNodes(n.right)
    BY AllNodesAre
  <2>2. /\ CountIn(n, ws) = CountIn(n.left, ws) + CountIn(n.right, ws) + Own(n, ws)
        /\ Own(n, ws) \in Nat
        /\ CountIn(n.left, ws) \in Nat /\ CountIn(n.right, ws) \in Nat
    BY Counting, Sorts, Fields
  <2>3. ASSUME NEW m \in AllNodes(n) PROVE m \in Nodes /\ Own(m, ws) <= CountIn(n, ws)
    <3>1. CASE m = n
      BY <2>2, <3>1
    <3>2. ASSUME NEW t \in {n.left, n.right}, m \in AllNodes(t)
          PROVE  m \in Nodes /\ Own(m, ws) <= CountIn(n, ws)
      <4>1. m \in Nodes /\ Own(m, ws) <= CountIn(t, ws)
        BY <1>4, <3>2
      <4>2. Own(m, ws) \in Nat
        BY <4>1, Counting
      <4> QED
        BY <2>2, <3>2, <4>1, <4>2
    <3> QED
      BY <2>1, <3>1, <3>2
  <2> QED
    BY <2>3, Sorts
<1>5. ASSUME NEW p \in Proxies, p.root \in S PROVE p \in S
  <2>1. AllNodes(p) = AllNodes(p.root)
    BY AllNodesAre
  <2>2. CountIn(p, ws) = CountIn(p.root, ws)
    BY Counting
  <2> QED
    BY <1>5, <2>1, <2>2, Sorts
<1>6. Trees \subseteq S
  <2> HIDE DEF S
  <2> QED
    BY <1>3, <1>4, <1>5, TreeInduction
<1> QED
  BY <1>1, <1>6

(* A subtree that goes to another process arrives with every occurrence of *)
(* every word, if each of its nodes counts something and it does not reach *)
(* into a third process: SubtreeMessageParser loses nothing else.          *)
THEOREM WireKeeps ==
  ASSUME LateBinding, NEW t \in Trees, t \notin Proxies,
         \A n \in AllNodes(t) :
           n.counter # 0 /\ n.left \notin Proxies /\ n.right \notin Proxies
  PROVE  \A ws \in SUBSET Field : CountIn(Wire(t), ws) = CountIn(t, ws)
<1> DEFINE Sound(u) == \A n \in AllNodes(u) :
                         n.counter # 0 /\ n.left \notin Proxies /\ n.right \notin Proxies
           Kept(u) == \A ws \in SUBSET Field : CountIn(Wire(u), ws) = CountIn(u, ws)
           S == {u \in Trees : u \notin Proxies /\ Sound(u) => Kept(u)}
<1>1. Nil \in S
  <2>1. Wire(Nil) = Nil
    BY TreesAre DEF LateBinding, wireHere, Null
  <2> QED
    BY <2>1, TreesAre
<1>2. ASSUME NEW n \in Nodes, n.left \in S, n.right \in S PROVE n \in S
  <2> SUFFICES ASSUME Sound(n) PROVE Kept(n)
    BY TreesAre
  <2>1. AllNodes(n) = {n} \cup AllNodes(n.left) \cup AllNodes(n.right)
    BY AllNodesAre
  <2>2. n.counter # 0 /\ Kept(n.left) /\ Kept(n.right)
    BY <1>2, <2>1
  <2> DEFINE l == Wire(n.left)
             r == Wire(n.right)
             m == [kind |-> "node", word |-> n.word, counter |-> n.counter,
                   height |-> 0, left |-> l, right |-> r]
  <2>3. l \in Trees /\ r \in Trees
    BY WireOf, Fields, Sorts
  <2>4. Wire(n) = m
    <3>1. n \in Trees /\ ~Null(n) /\ ~IsProxy(n)
      BY Sorts
    <3>2. Wire(n) = wireHere(n)
      BY <3>1 DEF LateBinding
    <3> QED
      BY <2>2, <3>1, <3>2 DEF wireHere, getWord, getCounter, getLeft, getRight, Data, NewNode
  <2>5. m \in Nodes
    <3> HIDE DEF l, r
    <3> QED
      BY <2>3, NodeMade, Fields
  <2>6. m.left = l /\ m.right = r /\ m.word = n.word /\ m.counter = n.counter
    OBVIOUS
  <2> HIDE DEF m
  <2>7. ASSUME NEW ws \in SUBSET Field PROVE CountIn(m, ws) = CountIn(n, ws)
    <3>1. CountIn(m, ws) = CountIn(m.left, ws) + CountIn(m.right, ws) + Own(m, ws)
      BY <2>5, Counting
    <3>2. CountIn(n, ws) = CountIn(n.left, ws) + CountIn(n.right, ws) + Own(n, ws)
      BY Counting
    <3>3. Own(m, ws) = Own(n, ws)
      BY <2>6 DEF Own
    <3> QED
      BY <2>2, <2>6, <3>1, <3>2, <3>3
  <2> QED
    BY <2>4, <2>7
<1>3. ASSUME NEW p \in Proxies PROVE p \in S
  BY TreesAre
<1> HIDE DEF S
<1>4. Trees \subseteq S
  BY <1>1, <1>2, <1>3, TreeInduction
<1> QED
  BY <1>4 DEF S

(* A word and the empty string are counted together, or one by one.        *)
LEMMA Pair ==
  ASSUME LateBinding, NEW v \in Words \ {Empty}, NEW t \in Trees
  PROVE  /\ CountIn(t, {v, Empty}) = CountIn(t, {v}) + CountIn(t, {Empty})
         /\ CountIn(t, {v}) \in Nat /\ CountIn(t, {Empty}) \in Nat
<1> DEFINE both == {v, Empty}
           one  == {v}
           none == {Empty}
<1>1. both \in SUBSET Field /\ one \in SUBSET Field /\ none \in SUBSET Field
  BY DEF Field
<1>2. ASSUME NEW n \in Nodes PROVE Own(n, both) = Own(n, one) + Own(n, none)
  <2>1. n.counter \in Nat
    BY Fields
  <2> QED
    BY <2>1 DEF Own
<1> HIDE DEF both, one, none
<1> DEFINE S == {x \in Trees : CountIn(x, both) = CountIn(x, one) + CountIn(x, none)}
<1>3. Nil \in S
  <2>1. CountIn(Nil, both) = 0 /\ CountIn(Nil, one) = 0 /\ CountIn(Nil, none) = 0
    BY <1>1, Counting
  <2> QED
    BY <2>1, TreesAre
<1>4. ASSUME NEW n \in Nodes, n.left \in S, n.right \in S PROVE n \in S
  <2>1. ASSUME NEW ws \in SUBSET Field
        PROVE  /\ CountIn(n, ws) = CountIn(n.left, ws) + CountIn(n.right, ws) + Own(n, ws)
               /\ Own(n, ws) \in Nat
               /\ CountIn(n.left, ws) \in Nat /\ CountIn(n.right, ws) \in Nat
    BY Counting, Sorts, Fields
  <2>2. CountIn(n, both) = CountIn(n, one) + CountIn(n, none)
    BY <1>1, <1>2, <1>4, <2>1
  <2> QED
    BY <2>2, Sorts
<1>5. ASSUME NEW p \in Proxies, p.root \in S PROVE p \in S
  <2>1. ASSUME NEW ws \in SUBSET Field PROVE CountIn(p, ws) = CountIn(p.root, ws)
    BY Counting
  <2> QED
    BY <1>1, <1>5, <2>1, Sorts
<1>6. Trees \subseteq S
  <2> HIDE DEF S
  <2> QED
    BY <1>3, <1>4, <1>5, TreeInduction
<1>7. CountIn(t, one) \in Nat /\ CountIn(t, none) \in Nat
  BY <1>1, Counting
<1> QED
  BY <1>6, <1>7 DEF both, one, none

-----------------------------------------------------------------------------
(* The invariant.  What holds a word was inserted: the words and the empty *)
(* strings together are counted at most as often as something was added,   *)
(* and nothing is counted for the empty string as long as none was added.  *)
(* The two strengthen each other: insert can turn what is counted for the  *)
(* empty string into occurrences of its word.                              *)
NoneEmpty == ~empties => CountIn(root, {Empty}) = 0

Inv == /\ root \in Nodes \cup {Crash}
       /\ added \in 0..MaxOps /\ empties \in BOOLEAN /\ light \in BOOLEAN
       /\ TotalBounded
       /\ NoneEmpty

(* The trees of the processes at the start.                                *)
LEMMA StartOf ==
  ASSUME LateBinding, NEW n \in 1..3
  PROVE  /\ LocalRoot(1, n) \in Nodes
         /\ \A ws \in SUBSET Field : CountIn(LocalRoot(1, n), ws) = 0
<1> DEFINE Child(j) == IF j > n THEN Nil ELSE Proxy(create)
           l == Child(2)
           r == Child(3)
<1>1. create \in Nodes /\ create \in Loose
  BY CreateOf, Sorts
<1>2. l \in {Nil, Proxy(create)} /\ r \in {Nil, Proxy(create)}
  OBVIOUS
<1>3. LocalRoot(1, n) = [create EXCEPT !.left = l, !.right = r]
  BY DEF LocalRoot
<1> HIDE DEF l, r
<1>4. Proxy(create) \in Proxies /\ Proxy(create).root = create
  BY <1>1, Kinds
<1>5. l \in Trees /\ r \in Trees
  BY <1>2, <1>4, Sorts
<1> DEFINE m == [create EXCEPT !.left = l, !.right = r]
<1>6. /\ m \in Loose /\ m.word = create.word /\ m.counter = create.counter
      /\ m.left = l /\ m.right = r
  BY <1>1, <1>5 DEF Loose
<1>7. create.word = Empty /\ create.counter = 0
  BY DEF create, NewNode
<1> HIDE DEF m
<1>8. m \in Nodes
  BY <1>6, <1>7, NodesAre
<1>9. ASSUME NEW ws \in SUBSET Field PROVE CountIn(m, ws) = 0
  <2>1. Own(create, ws) = 0 /\ Own(m, ws) = 0
    BY <1>6, <1>7 DEF Own
  <2>2. CountIn(Nil, ws) = 0
    BY Counting
  <2>3. CountIn(create, ws) = CountIn(create.left, ws) + CountIn(create.right, ws)
                              + Own(create, ws)
    BY <1>1, Counting
  <2>4. CountIn(create, ws) = 0
    BY <2>1, <2>2, <2>3, CreateOf
  <2>5. CountIn(Proxy(create), ws) = 0
    BY <1>4, <2>4, Counting
  <2>6. CountIn(m, ws) = CountIn(m.left, ws) + CountIn(m.right, ws) + Own(m, ws)
    BY <1>8, Counting
  <2>7. CountIn(l, ws) = 0 /\ CountIn(r, ws) = 0
    BY <1>2, <2>2, <2>5
  <2> QED
    BY <1>6, <2>1, <2>6, <2>7
<1> QED
  BY <1>3, <1>8, <1>9 DEF m

LEMMA InitInv == LateBinding /\ Init => Inv
<1> SUFFICES ASSUME LateBinding, Init PROVE Inv
  OBVIOUS
<1>1. nodes \in 1..3 /\ root = LocalRoot(1, nodes) /\ added = 0 /\ empties = FALSE
      /\ light = TRUE /\ MaxOps \in Nat
  BY WordTreeAssumption DEF Init
<1>2. root \in Nodes /\ \A ws \in SUBSET Field : CountIn(root, ws) = 0
  BY <1>1, StartOf
<1>3. Field \in SUBSET Field /\ {Empty} \in SUBSET Field
  BY DEF Field
<1>4. CountIn(root, Field) = 0 /\ CountIn(root, {Empty}) = 0
  BY <1>2, <1>3
<1>5. TotalBounded /\ NoneEmpty
  BY <1>1, <1>4 DEF TotalBounded, NoneEmpty, Field
<1>6. added \in 0..MaxOps /\ root \in Nodes \cup {Crash}
  BY <1>1, <1>2
<1>7. empties \in BOOLEAN /\ light \in BOOLEAN
  BY <1>1, Zenon
<1> QED
  BY <1>5, <1>6, <1>7, Zenon DEF Inv

(* What the two actions do to the counts of any words.                     *)
LEMMA AddStep ==
  ASSUME LateBinding, root \in Nodes \cup {Crash}, NEW w \in Words, ADD(w)
  PROVE  /\ root \in Nodes /\ root' \in Nodes \cup {Crash}
         /\ \A ws \in SUBSET Field : Empty \in ws =>
              CountIn(root', ws) <= CountIn(root, ws) + Times(w, 1, ws)
<1>1. root # Crash /\ root' = insert(root, w)
  BY DEF ADD
<1>2. root \in Nodes /\ Data(root) = root
  BY <1>1, Sorts DEF Data
<1>3. ASSUME NEW ws \in SUBSET Field, Empty \in ws
      PROVE  \/ root' = Crash
             \/ /\ root' \in Nodes
                /\ CountIn(root', ws) <= CountIn(root, ws) + Times(w, 1, ws)
  <2>1. InsertGood(Data(root), w, ws)
    BY <1>2, <1>3, InsertOf
  <2> QED
    BY <1>1, <1>2, <2>1, InsertCall
<1>4. Field \in SUBSET Field /\ Empty \in Field
  BY DEF Field
<1>5. ASSUME NEW ws \in SUBSET Field, Empty \in ws
      PROVE  CountIn(root', ws) <= CountIn(root, ws) + Times(w, 1, ws)
  <2>1. CountIn(root, ws) \in Nat /\ CountIn(Crash, ws) = 0
    BY <1>2, Counting, Sorts
  <2>2. Times(w, 1, ws) \in Nat
    BY DEF Times
  <2> QED
    BY <1>3, <1>5, <2>1, <2>2
<1> QED
  BY <1>2, <1>3, <1>4, <1>5

LEMMA RemoveStep ==
  ASSUME LateBinding, root \in Nodes \cup {Crash}, NEW w \in Words, REMOVE(w)
  PROVE  /\ root \in Nodes /\ root' \in Nodes \cup {Crash}
         /\ \A ws \in SUBSET Field : CountIn(root', ws) <= CountIn(root, ws)
<1>1. root # Crash /\ root' = remove(root, w)
  BY DEF REMOVE
<1>2. root \in Nodes /\ Data(root) = root
  BY <1>1, Sorts DEF Data
<1>3. ASSUME NEW ws \in SUBSET Field
      PROVE  \/ root' = Crash
             \/ root' \in Nodes /\ CountIn(root', ws) <= CountIn(root, ws)
  <2>1. RemoveGood(Data(root), w, ws)
    BY <1>2, RemoveOf
  <2> QED
    BY <1>1, <1>2, <2>1, RemoveCall
<1>4. ASSUME NEW ws \in SUBSET Field PROVE CountIn(root', ws) <= CountIn(root, ws)
  <2>1. CountIn(root, ws) \in Nat /\ CountIn(Crash, ws) = 0
    BY <1>2, Counting, Sorts
  <2> QED
    BY <1>3, <2>1
<1> QED
  BY <1>2, <1>3, <1>4

LEMMA NextInv == LateBinding /\ Inv /\ [Next]_vars => Inv'
<1> SUFFICES ASSUME LateBinding, Inv, [Next]_vars PROVE Inv'
  OBVIOUS
<1>1. Field \in SUBSET Field /\ {Empty} \in SUBSET Field /\ Empty \in {Empty} /\ Empty \in Field
  BY DEF Field
<1>2. /\ root \in Nodes \cup {Crash} /\ added \in 0..MaxOps /\ empties \in BOOLEAN
      /\ light \in BOOLEAN /\ CountIn(root, Field) <= added /\ NoneEmpty /\ MaxOps \in Nat
  BY WordTreeAssumption DEF Inv, TotalBounded, Field
<1>3. \A t \in Nodes \cup {Crash}, ws \in SUBSET Field : CountIn(t, ws) \in Nat
  BY Counting, Sorts
<1>4. ASSUME NEW w \in Words, ADD(w) PROVE Inv'
  <2>1. added' = added + 1 /\ added < MaxOps /\ empties' = (empties \/ w = Empty)
        /\ light' = (light /\ Light(root, w))
    BY <1>4 DEF ADD
  <2>2. /\ root' \in Nodes \cup {Crash}
        /\ \A ws \in SUBSET Field : Empty \in ws =>
             CountIn(root', ws) <= CountIn(root, ws) + Times(w, 1, ws)
    BY <1>2, <1>4, AddStep
  <2>3. CountIn(root', Field) <= added'
    <3>1. CountIn(root', Field) <= CountIn(root, Field) + 1
      BY <1>1, <2>2 DEF Times, Field
    <3> QED
      BY <1>1, <1>2, <1>3, <2>1, <2>2, <3>1
  <2>4. NoneEmpty'
    <3> SUFFICES ASSUME ~empties' PROVE CountIn(root', {Empty}) = 0
      BY DEF NoneEmpty
    <3>1. Times(w, 1, {Empty}) = 0 /\ CountIn(root, {Empty}) = 0
      BY <1>2, <2>1 DEF Times, NoneEmpty
    <3>2. CountIn(root', {Empty}) <= CountIn(root, {Empty}) + Times(w, 1, {Empty})
      BY <1>1, <2>2
    <3>3. CountIn(root', {Empty}) \in Nat
      BY <1>1, <1>3, <2>2
    <3> QED
      BY <3>1, <3>2, <3>3
  <2>5. added' \in 0..MaxOps /\ empties' \in BOOLEAN /\ light' \in BOOLEAN
    BY <1>2, <2>1
  <2> QED
    BY <2>2, <2>3, <2>4, <2>5 DEF Inv, TotalBounded, Field
<1>5. ASSUME NEW w \in Words, REMOVE(w) PROVE Inv'
  <2>1. UNCHANGED <<added, empties, light>>
    BY <1>5 DEF REMOVE
  <2>2. /\ root' \in Nodes \cup {Crash}
        /\ \A ws \in SUBSET Field : CountIn(root', ws) <= CountIn(root, ws)
    BY <1>2, <1>5, RemoveStep
  <2>3. CountIn(root', Field) <= added'
    BY <1>1, <1>2, <1>3, <2>1, <2>2
  <2>4. NoneEmpty'
    <3> SUFFICES ASSUME ~empties' PROVE CountIn(root', {Empty}) = 0
      BY DEF NoneEmpty
    <3>1. CountIn(root, {Empty}) = 0
      BY <1>2, <2>1 DEF NoneEmpty
    <3>2. CountIn(root', {Empty}) <= CountIn(root, {Empty})
      BY <1>1, <2>2
    <3>3. CountIn(root', {Empty}) \in Nat
      BY <1>1, <1>3, <2>2
    <3> QED
      BY <3>1, <3>2, <3>3
  <2> QED
    BY <1>2, <2>1, <2>2, <2>3, <2>4 DEF Inv, TotalBounded, Field
<1>6. CASE UNCHANGED vars
  BY <1>2, <1>6 DEF Inv, TotalBounded, NoneEmpty, vars, Field
<1> QED
  BY <1>4, <1>5, <1>6 DEF Next, InsertNext

(* The invariant as a theorem.                                             *)
LEMMA Invariance == ASSUME LateBinding PROVE Spec => []Inv
<1>1. Init => Inv
  BY InitInv
<1>2. Inv /\ [Next]_vars => Inv'
  BY NextInv
<1> QED
  BY <1>1, <1>2, PTL DEF Spec

-----------------------------------------------------------------------------
(* A node below the root holds an inserted word with a positive count and  *)
(* a height, or it holds no word, and then it counts something only if an  *)
(* empty string was inserted: for any words and any number of operations,  *)
(* in one process and across processes (TypeOK).                           *)
THEOREM TypeCorrect == ASSUME LateBinding PROVE Spec => []TypeOK
<1>1. ASSUME Inv PROVE TypeOK
  <2>1. {Empty} \in SUBSET Field
    BY DEF Field
  <2>2. ASSUME NEW n \in AllNodes(root) PROVE NodeOK(n)
    <3>1. root \in Trees
      <4>1. root \in Nodes \cup {Crash} /\ AllNodes(Crash) = {}
        BY <1>1, <2>1, AllNodesOf DEF Inv
      <4> QED
        BY <2>2, <4>1, Sorts
    <3>2. n \in Nodes /\ Own(n, {Empty}) <= CountIn(root, {Empty})
      BY <2>1, <2>2, <3>1, AllNodesOf
    <3>3. /\ n.word \in Field /\ n.counter \in Nat /\ n.height \in Int /\ n.height >= -1
          /\ n.counter # 0 => n.height # -1
      BY <3>2, Fields
    <3>4. hasWord(n) <=> n.height > -1 /\ n.counter # 0 /\ n.word # Empty
      BY <3>2, Sorts DEF hasWord, getHeight, getCounter, getWord, Data
    <3>5. CASE hasWord(n)
      <4>1. n.word \in Words /\ n.counter > 0 /\ n.height >= 0
        BY <3>3, <3>4, <3>5 DEF Field
      <4> QED
        BY <3>5, <4>1 DEF NodeOK
    <3>6. CASE ~hasWord(n)
      <4>1. ASSUME ~empties PROVE n.counter = 0
        <5>1. CountIn(root, {Empty}) = 0
          BY <1>1, <4>1 DEF Inv, NoneEmpty
        <5>2. n.word = Empty => Own(n, {Empty}) = n.counter
          BY DEF Own
        <5> QED
          BY <3>2, <3>3, <3>4, <3>6, <5>1, <5>2
      <4> QED
        BY <3>3, <3>6, <4>1 DEF NodeOK
    <3> QED
      BY <3>5, <3>6
  <2>3. added \in 0..MaxOps /\ empties \in BOOLEAN /\ light \in BOOLEAN
    BY <1>1 DEF Inv
  <2> QED
    BY <2>2, <2>3 DEF TypeOK
<1>2. Spec => []Inv
  BY Invariance
<1> QED
  BY <1>1, <1>2, PTL

(* All words and empty strings together are counted at most as often as    *)
(* something was inserted, whatever the rotations lose, the wire drops and *)
(* removals clear on the way (TotalBounded).                               *)
THEOREM TotalBoundedHolds == ASSUME LateBinding PROVE Spec => []TotalBounded
<1>1. Inv => TotalBounded
  BY DEF Inv
<1>2. Spec => []Inv
  BY Invariance
<1> QED
  BY <1>1, <1>2, PTL

(* No insertion raises the count of a word other than its own, or its own  *)
(* by more than one, and no removal raises any count, as long as no empty  *)
(* string was inserted: no step of push, pull or a rotation leaves two     *)
(* copies of what it moves, within a process or between two                *)
(* (NothingMadeUp).                                                        *)
THEOREM NothingMadeUpHolds == ASSUME LateBinding PROVE Spec => NothingMadeUp
<1>1. ASSUME Inv, [Next]_vars PROVE [~empties' => Bag!LossyNext]_vars
  <2> SUFFICES ASSUME Next, ~empties' PROVE Bag!LossyNext
    BY <1>1
  <2>1. root \in Nodes \cup {Crash} /\ NoneEmpty
    BY <1>1 DEF Inv
  <2>2. \A v \in Words \ {Empty} :
          /\ {v} \in SUBSET Field /\ {v, Empty} \in SUBSET Field /\ Empty \in {v, Empty}
          /\ Counts(root)[v] = CountIn(root, {v})
          /\ Counts(root)'[v] = CountIn(root', {v})
    BY DEF Counts, Field
  <2>3. ASSUME NEW w \in Words, ADD(w) PROVE Bag!LossyNext
    <3>1. added' = added + 1 /\ w \in Words \ {Empty} /\ ~empties
      BY <2>3 DEF ADD
    <3>2. root \in Nodes /\ root' \in Nodes \cup {Crash}
      BY <2>1, <2>3, AddStep
    <3>3. CountIn(root, {Empty}) = 0
      BY <2>1, <3>1 DEF NoneEmpty
    <3>4. ASSUME NEW v \in Words \ {Empty}
          PROVE  Counts(root)'[v] <= [Counts(root) EXCEPT ![w] = @ + 1][v]
      <4>1. CountIn(root', {v, Empty}) <= CountIn(root, {v, Empty}) + Times(w, 1, {v, Empty})
        BY <2>1, <2>2, <2>3, AddStep
      <4>2. /\ CountIn(root, {v, Empty}) = CountIn(root, {v}) + CountIn(root, {Empty})
            /\ CountIn(root, {v}) \in Nat
        BY <3>2, Pair, Sorts
      <4>3. CountIn(root', {v}) \in Nat /\ CountIn(root', {v}) <= CountIn(root', {v, Empty})
        <5>1. CASE root' = Crash
          BY <2>2, <5>1, Counting
        <5>2. CASE root' \in Trees
          <6>1. /\ CountIn(root', {v, Empty}) = CountIn(root', {v}) + CountIn(root', {Empty})
                /\ CountIn(root', {v}) \in Nat /\ CountIn(root', {Empty}) \in Nat
            BY <5>2, Pair
          <6> QED
            BY <6>1
        <5> QED
          BY <3>2, <5>1, <5>2, Sorts
      <4>4. Times(w, 1, {v, Empty}) = IF v = w THEN 1 ELSE 0
        BY <3>1 DEF Times
      <4>5. [Counts(root) EXCEPT ![w] = @ + 1][v] =
              IF v = w THEN CountIn(root, {v}) + 1 ELSE CountIn(root, {v})
        BY <2>2, <3>1 DEF Counts
      <4>6. CountIn(root', {v, Empty}) \in Nat
        <5>1. \A t \in Nodes \cup {Crash} : CountIn(t, {v, Empty}) \in Nat
          BY <2>2, Counting, Sorts
        <5> QED
          BY <3>2, <5>1
      <4> QED
        BY <2>2, <3>3, <4>1, <4>2, <4>3, <4>4, <4>5, <4>6
    <3>5. Bag!AtMost([Counts(root) EXCEPT ![w] = @ + 1])
      BY <3>4 DEF Bag!AtMost
    <3> QED
      BY <3>1, <3>5 DEF Bag!LossyNext, Bag!LossyAdd
  <2>4. ASSUME NEW w \in Words, REMOVE(w) PROVE Bag!LossyNext
    <3>1. \A v \in Words \ {Empty} : CountIn(root', {v}) <= CountIn(root, {v})
      BY <2>1, <2>2, <2>4, RemoveStep
    <3>2. Bag!AtMost(Counts(root))
      BY <2>2, <3>1 DEF Bag!AtMost
    <3>3. UNCHANGED added
      BY <2>4 DEF REMOVE
    <3> QED
      BY <3>2, <3>3 DEF Bag!LossyNext, Bag!LossyRemove
  <2> QED
    BY <2>3, <2>4 DEF Next, InsertNext
<1>2. Spec => []Inv
  BY Invariance
<1> QED
  BY <1>1, <1>2, PTL DEF Spec, NothingMadeUp

(* A program that only inserts, as FileManager does, keeps all of this.    *)
LEMMA InsertionsOnly == InsertSpec => Spec
<1>1. [InsertNext]_vars => [Next]_vars
  BY DEF Next
<1> QED
  BY <1>1, PTL DEF InsertSpec, Spec

(* So no insertion makes up a word (NothingMadeUp, as the run with         *)
(* insertions only checks it).                                             *)
COROLLARY NothingMadeUpByInsertions ==
  ASSUME LateBinding PROVE InsertSpec => NothingMadeUp
BY InsertionsOnly, NothingMadeUpHolds, PTL
=============================================================================
