---------------------------- MODULE LightTreeProofs ----------------------------
(***************************************************************************)
(* Proofs about WordTree as long as rotations are light and no word is the *)
(* empty string: whatever is inserted, how many words, how often and in    *)
(* which order, in systems of one to three processes, the tree is an AVL   *)
(* tree in order, its heights are right, no null pointer is dereferenced,  *)
(* and each insertion counts its word.                                     *)
(*                                                                         *)
(* Light is no weakness of the proof.  A rotation that is not can leave    *)
(* the order (six words in one process), the balance (seven) or words (all *)
(* that a remote child held) behind, as the runs about WordTree show.      *)
(*                                                                         *)
(* The argument: a light rotation is one of two.  Either the other side    *)
(* of the node holds nothing; then the side that grew was a leaf that has  *)
(* just got a child, and three words change places.  Or the other side is  *)
(* a leaf.  Then its word is pushed below the one that comes down, the     *)
(* inner leaf is grafted beside it, and the outer child is pulled up with  *)
(* its right child, a leaf; six words are where they should be.  In both   *)
(* cases the lifted word comes from the same process.                      *)
(***************************************************************************)
EXTENDS WordTreeProofs

-----------------------------------------------------------------------------
(* The measures of a tree, unfolded.                                       *)
OwnWord(n) == IF hasWord(n) THEN {n.word} ELSE {}

(* A node of this process holds a word: the test, on its own fields. *)
LEMMA HasWordIs ==
  ASSUME NEW n \in Loose
  PROVE  /\ hasWord(n) <=> n.height > -1 /\ n.counter # 0 /\ n.word # Empty
         /\ Data(n) = n
BY Sorts DEF hasWord, getHeight, getCounter, getWord, Data

(* The words that a tree holds, *)
LEMMA HeldAre ==
  ASSUME LateBinding
  PROVE  /\ HeldWords(Nil) = {}
         /\ \A p \in Proxies : HeldWords(p) = HeldWords(p.root)
         /\ \A n \in Nodes : HeldWords(n) = HeldWords(n.left) \cup HeldWords(n.right)
                                            \cup OwnWord(n)
         /\ \A n \in Nodes, side \in Sides :
              HeldWords(n) = HeldWords(n[side]) \cup HeldWords(n[Other(side)]) \cup OwnWord(n)
         /\ \A t \in Trees : HeldWords(t) \subseteq Words
<1>1. HeldWords(Nil) = {}
  BY AllNodesAre DEF HeldWords
<1>2. \A p \in Proxies : HeldWords(p) = HeldWords(p.root)
  BY AllNodesAre DEF HeldWords
<1>3. ASSUME NEW n \in Nodes
      PROVE  HeldWords(n) = HeldWords(n.left) \cup HeldWords(n.right) \cup OwnWord(n)
  BY AllNodesAre DEF HeldWords, OwnWord
<1>4. ASSUME NEW n \in Nodes, NEW side \in Sides
      PROVE  HeldWords(n) = HeldWords(n[side]) \cup HeldWords(n[Other(side)]) \cup OwnWord(n)
  <2>1. \/ n[side] = n.left  /\ n[Other(side)] = n.right
        \/ n[side] = n.right /\ n[Other(side)] = n.left
    BY SidesOf, Sorts
  <2> QED
    BY <1>3, <2>1
<1>5. ASSUME NEW t \in Trees PROVE HeldWords(t) \subseteq Words
  <2>1. {} \in SUBSET Field
    OBVIOUS
  <2>2. \A n \in AllNodes(t) : n \in Nodes
    BY <2>1, AllNodesOf
  <2>3. \A n \in Nodes : hasWord(n) => n.word \in Words
    BY HasWordIs, Fields DEF Field
  <2> QED
    BY <2>2, <2>3 DEF HeldWords
<1> QED
  BY <1>1, <1>2, <1>3, <1>4, <1>5

Higher(i, j) == IF i > j THEN i ELSE j

(* and the height of what holds words. *)
LEMMA DepthsAre ==
  ASSUME LateBinding
  PROVE  /\ Depth(Nil) = -1
         /\ \A p \in Proxies : Depth(p) = Depth(p.root)
         /\ \A n \in Nodes : /\ ~hasWord(n) => Depth(n) = -1
                             /\ hasWord(n) => Depth(n) = 1 + Higher(Depth(n.left), Depth(n.right))
         /\ \A t \in Trees : Depth(t) \in Nat \cup {-1}
         /\ \A n \in Nodes : hasWord(n) => Depth(n) \in Nat
<1>1. \A t \in Trees : Depth(t) = depth(t)
  BY DEF LateBinding
<1>2. Depth(Nil) = -1
  <2>1. depth(Nil) = -1
    BY DEF depth, Null, Nil
  <2> QED
    BY <1>1, <2>1, Sorts
<1>3. \A p \in Proxies : Depth(p) = Depth(p.root)
  <2>1. \A p \in Proxies : p \in Trees /\ ~Null(p) /\ p.kind = "proxy"
    BY Sorts, Kinds
  <2> QED
    BY <1>1, <2>1 DEF depth
<1>4. ASSUME NEW n \in Nodes
      PROVE  /\ ~hasWord(n) => Depth(n) = -1
             /\ hasWord(n) => Depth(n) = 1 + Higher(Depth(n.left), Depth(n.right))
  <2>1. n \in Trees /\ ~Null(n) /\ n.kind = "node"
    BY Sorts, Kinds
  <2> QED
    BY <1>1, <2>1 DEF depth, Higher
<1> DEFINE S == {t \in Trees : Depth(t) \in Nat \cup {-1}}
<1>5. Nil \in S
  BY <1>2, Sorts
<1>6. ASSUME NEW n \in Nodes, n.left \in S, n.right \in S PROVE n \in S
  <2>1. n \in Trees
    BY Sorts
  <2>2. Higher(Depth(n.left), Depth(n.right)) \in Nat \cup {-1}
    BY <1>6 DEF Higher
  <2>3. Depth(n) \in Nat \cup {-1}
    BY <1>4, <2>2
  <2> QED
    BY <2>1, <2>3
<1>7. ASSUME NEW p \in Proxies, p.root \in S PROVE p \in S
  BY <1>3, <1>7, Sorts
<1>8. Trees \subseteq S
  <2> HIDE DEF S
  <2> QED
    BY <1>5, <1>6, <1>7, TreeInduction
<1>9. ASSUME NEW n \in Nodes, hasWord(n) PROVE Depth(n) \in Nat
  <2>1. n.left \in Trees /\ n.right \in Trees
    BY Fields
  <2>2. Higher(Depth(n.left), Depth(n.right)) \in Nat \cup {-1}
    BY <1>8, <2>1 DEF Higher
  <2> QED
    BY <1>4, <1>9, <2>2
<1> QED
  BY <1>2, <1>3, <1>4, <1>8, <1>9

-----------------------------------------------------------------------------
(* What the insertion keeps.                                               *)

(* x belongs on the given side of y. *)
Aside(x, side, y) == IF side = "left" THEN x < y ELSE y < x

(* A node with a word, with everything a node of an AVL tree should have.  *)
At(n) ==
  /\ hasWord(n)
  /\ n.height = Depth(n)
  /\ Depth(n.left) - Depth(n.right) \in -1..1
  /\ \A side \in Sides : \A x \in HeldWords(n[side]) : Aside(x, side, n.word)

(* A tree within one process. *)
Well(t) == \A m \in AllNodes(t) : At(m) /\ m.left \notin Proxies /\ m.right \notin Proxies

(* A node as the constructor and clear leave it. *)
Blank(n) == /\ n.word = Empty /\ n.counter = 0 /\ n.height = -1
            /\ n.left = Nil /\ n.right = Nil

(* What may be below a node: nothing, or something, within the process or  *)
(* in another one.                                                         *)
Bare(a) == a = Nil \/ (a \in Proxies /\ Blank(a.root))
Full(a) == a \in Nodes \cup Proxies /\ Well(Data(a))
Arm(a)  == Bare(a) \/ Full(a)

(* Sides are opposite, and nothing is on both sides of anything. *)
LEMMA Asides ==
  ASSUME NEW side \in Sides
  PROVE  /\ \A x, y \in Nat : Aside(x, side, y) => x # y /\ Aside(y, Other(side), x)
         /\ \A x, y \in Nat : ~(Aside(x, side, y) /\ Aside(x, Other(side), y))
         /\ \A x, y, z \in Nat : Aside(x, side, y) /\ Aside(y, side, z) => Aside(x, side, z)
BY DEF Aside, Sides, Other

(* The node at an arm, in whichever process it is. *)
LEMMA DataOfArm ==
  /\ \A n \in Nodes : Data(n) = n
  /\ \A p \in Proxies : Data(p) = p.root /\ Data(p) \in Nodes
BY Sorts, Kinds DEF Data

(* A tree within a process, from node to node. *)
LEMMA WellIs ==
  ASSUME LateBinding
  PROVE  /\ Well(Nil)
         /\ \A n \in Nodes :
              Well(n) <=> /\ At(n) /\ n.left \notin Proxies /\ n.right \notin Proxies
                          /\ Well(n.left) /\ Well(n.right)
BY AllNodesAre DEF Well

(* The arms of a node: bare ones are as if they were not there. *)
LEMMA ArmIs ==
  ASSUME LateBinding, NEW a, Arm(a)
  PROVE  /\ a \in Trees /\ Depth(a) \in Nat \cup {-1} /\ HeightOr(a) = Depth(a)
         /\ Bare(a) <=> Depth(a) = -1
         /\ Bare(a) => /\ HeldWords(a) = {}
                       /\ \A ws \in SUBSET Field : CountIn(a, ws) = 0
         /\ Full(a) => /\ Data(a) \in Nodes /\ At(Data(a))
                       /\ Depth(a) = Depth(Data(a)) /\ Depth(a) \in Nat
                       /\ HeldWords(a) = HeldWords(Data(a))
                       /\ \A ws \in SUBSET Field : CountIn(a, ws) = CountIn(Data(a), ws)
<1>1. CASE Bare(a)
  <2>1. CASE a = Nil
    <3>1. a \notin Nodes /\ a \notin Proxies
      BY <2>1, Kinds, Sorts
    <3>2. a \in Trees /\ Depth(a) = -1 /\ HeightOr(a) = -1 /\ HeldWords(a) = {}
      BY <2>1, DepthsAre, HeldAre, HeightOrOf, Sorts
    <3>3. \A ws \in SUBSET Field : CountIn(a, ws) = 0
      BY <2>1, Counting
    <3> QED
      BY <1>1, <3>1, <3>2, <3>3 DEF Full
  <2>2. CASE a \in Proxies /\ Blank(a.root)
    <3> DEFINE b == a.root
    <3>1. /\ b \in Nodes /\ b \in Loose /\ a \in Trees /\ a # Nil /\ Data(a) = b /\ IsProxy(a)
          /\ ~Null(a)
      BY <2>2, Sorts, Kinds, DataOfArm
    <3>2. /\ b.word = Empty /\ b.counter = 0 /\ b.height = -1
          /\ b.left = Nil /\ b.right = Nil
      BY <2>2 DEF Blank
    <3> HIDE DEF b
    <3>3. ~hasWord(b)
      BY <3>1, <3>2, HasWordIs
    <3>4. Depth(a) = Depth(b) /\ Depth(b) = -1
      BY <2>2, <3>1, <3>3, DepthsAre DEF b
    <3>5. HeightOr(a) = -1
      BY <3>1, <3>2 DEF HeightOr, getHeight
    <3>6. HeldWords(a) = {}
      <4>1. HeldWords(a) = HeldWords(b)
        BY <2>2, HeldAre DEF b
      <4>2. HeldWords(b) = HeldWords(Nil) \cup HeldWords(Nil) \cup OwnWord(b)
        BY <3>1, <3>2, HeldAre
      <4> QED
        BY <3>3, <4>1, <4>2, HeldAre DEF OwnWord
    <3>7. ASSUME NEW ws \in SUBSET Field PROVE CountIn(a, ws) = 0
      <4>1. CountIn(a, ws) = CountIn(b, ws)
        BY <2>2, Counting DEF b
      <4>2. CountIn(b, ws) = CountIn(Nil, ws) + CountIn(Nil, ws) + Own(b, ws)
        BY <3>1, <3>2, Counting
      <4>3. Own(b, ws) = 0 /\ CountIn(Nil, ws) = 0
        BY <3>2, Counting DEF Own
      <4> QED
        BY <4>1, <4>2, <4>3
    <3>8. ~Full(a)
      <4>1. Well(b) => At(b)
        BY <3>1, WellIs
      <4> QED
        BY <3>1, <3>3, <4>1 DEF Full, At
    <3> QED
      BY <1>1, <3>1, <3>4, <3>5, <3>6, <3>7, <3>8
  <2> QED
    BY <1>1, <2>1, <2>2 DEF Bare
<1>2. CASE Full(a)
  <2> DEFINE d == Data(a)
  <2>1. /\ a \in Nodes \cup Proxies /\ a \in Trees /\ a # Nil /\ ~Null(a)
        /\ d \in Nodes /\ d \in Trees
    BY <1>2, Sorts, Kinds, DataOfArm DEF Full
  <2>2. At(d) /\ hasWord(d)
    BY <1>2, <2>1, WellIs DEF Full, At
  <2>3. /\ Depth(a) = Depth(d) /\ HeldWords(a) = HeldWords(d)
        /\ \A ws \in SUBSET Field : CountIn(a, ws) = CountIn(d, ws)
    BY <2>1, DataOfArm, DepthsAre, HeldAre, Counting
  <2>4. Depth(d) \in Nat
    BY <2>1, <2>2, DepthsAre
  <2>5. HeightOr(a) = d.height
    BY <2>1 DEF HeightOr, getHeight
  <2>6. d.height = Depth(d)
    BY <2>2 DEF At
  <2>7. ~Bare(a)
    <3>1. Blank(d) => ~hasWord(d)
      BY <2>1, HasWordIs, Sorts DEF Blank
    <3>2. a \in Proxies => d = a.root
      BY DataOfArm
    <3> QED
      BY <2>1, <2>2, <3>1, <3>2 DEF Bare
  <2> HIDE DEF d
  <2>8. Depth(a) # -1 /\ Depth(a) \in Nat \cup {-1} /\ HeightOr(a) = Depth(a)
    BY <2>3, <2>4, <2>5, <2>6
  <2> QED
    BY <1>2, <2>1, <2>2, <2>3, <2>4, <2>7, <2>8 DEF d
<1> QED
  BY <1>1, <1>2 DEF Arm

(* The arms of a node within a process. *)
LEMMA WellArms ==
  ASSUME LateBinding, NEW n \in Nodes
  PROVE  Well(n) <=> /\ At(n) /\ n.left \notin Proxies /\ n.right \notin Proxies
                     /\ Arm(n.left) /\ Arm(n.right)
<1>1. ASSUME NEW t \in Trees, t \notin Proxies PROVE Well(t) <=> Arm(t)
  <2>1. CASE t = Nil
    BY <2>1, WellIs DEF Arm, Bare
  <2>2. CASE t \in Nodes
    BY <2>2, <1>1, DataOfArm, Kinds, Sorts DEF Arm, Bare, Full
  <2> QED
    BY <1>1, <2>1, <2>2, Sorts
<1>2. n.left \in Trees /\ n.right \in Trees
  BY Fields
<1> QED
  BY <1>1, <1>2, WellIs

-----------------------------------------------------------------------------
(* A node with no children. *)
Leaf(t, w, c) == /\ t \in Nodes /\ t.word = w /\ t.counter = c /\ t.height = 0
                 /\ t.left = Nil /\ t.right = Nil

LeafArm(a, w, c) == a \in Nodes \cup Proxies /\ Leaf(Data(a), w, c)

(* The children by sides. *)
LEMMA ChildrenBySides ==
  ASSUME NEW n \in Loose, NEW side \in Sides
  PROVE  n.left = Nil /\ n.right = Nil <=> n[side] = Nil /\ n[Other(side)] = Nil
BY SidesOf

(* What setData makes of a node with no children. *)
LEMMA LeafMade ==
  ASSUME NEW n \in Nodes, n.left = Nil, n.right = Nil, NEW w \in Field, NEW c \in Nat
  PROVE  Leaf(setDataHere(n, w, c), w, c)
<1>1. setDataHere(n, w, c).height = 0
  BY Sorts DEF setDataHere, Loose
<1>2. n \in Loose
  BY Sorts
<1> QED
  BY <1>1, <1>2, SetDataOf DEF Leaf

(* updateHeight takes the higher child. *)
LEMMA HeightUpdated ==
  ASSUME NEW n \in Loose
  PROVE  updateHeight(n).height = 1 + Higher(HeightOr(n.left), HeightOr(n.right))
<1>1. HeightOr(n.left) \in Int /\ HeightOr(n.right) \in Int
  BY Fields, HeightOrOf
<1>2. updateHeight(n).height = 1 + HeightOr(IF Balance(n) > 0 THEN n.right ELSE n.left)
  BY DEF updateHeight, Loose
<1> QED
  BY <1>1, <1>2 DEF Balance, Higher

(* A word that is pushed to where nothing is becomes a leaf there. *)
LEMMA PushedDown ==
  ASSUME LateBinding, NEW n \in Nodes, NEW side \in Sides, Bare(n[side])
  PROVE  LET down == IF Null(n[side]) THEN setDataHere(create, n.word, n.counter)
                     ELSE push_subtree(n[side], side, n.word, n.counter)
         IN  /\ LeafArm(down, n.word, n.counter)
             /\ down \in Proxies <=> n[side] \in Proxies
<1> DEFINE a    == n[side]
           leaf == setDataHere(create, n.word, n.counter)
           pushed == push_subtree(a, side, n.word, n.counter)
<1>1. n.word \in Field /\ n.counter \in Nat
  BY Fields
<1>2. CASE a = Nil
  <2>1. Leaf(leaf, n.word, n.counter) /\ leaf \in Nodes
    BY <1>1, LeafMade, CreateOf DEF Leaf
  <2> HIDE DEF leaf
  <2>2. Null(a) /\ a \notin Proxies /\ leaf \notin Proxies /\ Data(leaf) = leaf
    BY <1>2, <2>1, Sorts, Kinds, DataOfArm
  <2> QED
    BY <2>1, <2>2 DEF LeafArm, leaf
<1>3. CASE a \in Proxies /\ Blank(a.root)
  <2> DEFINE b == a.root
             m == setDataHere(b, n.word, n.counter)
  <2>1. b \in Nodes /\ b \in Loose /\ a \in Trees /\ IsProxy(a) /\ ~Null(a)
    BY <1>3, Sorts, Kinds
  <2>2. b.left = Nil /\ b.right = Nil /\ ~hasWord(b)
    BY <1>3, <2>1, HasWordIs DEF Blank
  <2>3. Leaf(m, n.word, n.counter) /\ m \in Nodes
    BY <1>1, <2>1, <2>2, LeafMade DEF Leaf
  <2>4. Push(b, side, n.word, n.counter) = pushHere(b, side, n.word, n.counter)
    BY <1>1, <2>1 DEF LateBinding
  <2>5. pushHere(b, side, n.word, n.counter) = m
    BY <2>2 DEF pushHere
  <2>6. pushed = LET r == Push(b, side, n.word, n.counter)
                 IN  IF r = Crash THEN Crash ELSE [a EXCEPT !.root = r]
    BY <2>1 DEF push_subtree, Call
  <2> HIDE DEF b, m, pushed
  <2>7. m # Crash
    BY <2>3, Kinds, Sorts
  <2>8. pushed = [a EXCEPT !.root = m]
    BY <2>4, <2>5, <2>6, <2>7
  <2>9. pushed = Proxy(m) /\ pushed \in Proxies /\ Data(pushed) = m
    BY <1>3, <2>3, <2>8, Reroot, Kinds, DataOfArm
  <2> QED
    BY <1>3, <2>1, <2>3, <2>9 DEF LeafArm, pushed
<1> QED
  BY <1>2, <1>3 DEF Bare

(* Its height is right already. *)
LEMMA LeafUpdated ==
  ASSUME NEW m, NEW w, NEW c, Leaf(m, w, c)
  PROVE  Leaf(updateHeight(m), w, c)
<1>1. m \in Loose /\ HeightOr(m.left) = -1 /\ HeightOr(m.right) = -1
  BY HeightOrOf, Sorts DEF Leaf
<1>2. updateHeight(m).height = 0
  BY <1>1, HeightUpdated DEF Higher
<1>3. m.counter \in Nat
  BY Fields DEF Leaf
<1> QED
  BY <1>1, <1>2, <1>3, UpdateHeightOf DEF Leaf

(* A node within a process that is to be refilled by a pull. *)
LEMMA BareIs ==
  ASSUME LateBinding, NEW n \in Nodes, n.left \notin Proxies, n.right \notin Proxies
  PROVE  LET bare == [n EXCEPT !.left = Cleared(@), !.right = Cleared(@)]
         IN  bare \in Nodes /\ bare.left = Nil /\ bare.right = Nil
<1> DEFINE b == [n EXCEPT !.left = Nil, !.right = Nil]
<1>1. Cleared(n.left) = Nil /\ Cleared(n.right) = Nil
  <2>1. {} \in SUBSET Field
    OBVIOUS
  <2>2. n.left \in Trees /\ n.right \in Trees
    BY Fields
  <2> QED
    BY <2>1, <2>2, ClearedOf
<1>2. /\ b \in Loose /\ b.left = Nil /\ b.right = Nil
      /\ b.counter = n.counter /\ b.height = n.height
  BY Sorts DEF Loose
<1> HIDE DEF b
<1>3. b \in Nodes
  BY <1>2, NodesAre
<1> QED
  BY <1>1, <1>2, <1>3 DEF b

(* What is left of a lifted node where it was: its outer child, a leaf, or *)
(* nothing.                                                                *)
LEMMA LiftedFrom ==
  ASSUME LateBinding, NEW up \in Nodes, NEW to \in Sides, up[to] = Nil,
         NEW v, v = up[Other(to)], v = Nil \/ Leaf(v, v.word, v.counter)
  PROVE  LET rest == IF Null(getLeft(up)) /\ Null(getRight(up))
                     THEN clear(up) ELSE pullHere(up, Other(to))
         IN  /\ v = Nil => rest = Nil
             /\ v # Nil => Leaf(rest, v.word, v.counter)
<1> DEFINE from == Other(to)
<1>1. /\ up \in Loose /\ v \in Trees /\ v \notin Proxies
      /\ from \in Sides /\ Other(from) = to
      /\ ~IsProxy(up) /\ up[from] = v
  BY Sorts, Kinds, SidesOf DEF Leaf
<1>2. CASE v = Nil
  <2>1. up.left = Nil /\ up.right = Nil
    BY <1>1, <1>2, ChildrenBySides
  <2>2. getLeft(up) = Nil /\ getRight(up) = Nil /\ Null(Nil) /\ clear(up) = Nil
    BY <1>1, <2>1 DEF getLeft, getRight, clear, Null
  <2> QED
    BY <1>2, <2>2
<1>3. CASE v # Nil
  <2>1. Leaf(v, v.word, v.counter)
    BY <1>3
  <2>2. ~(Null(getLeft(up)) /\ Null(getRight(up)))
    BY <1>1, <1>3, SidesOf DEF getLeft, getRight, Null
  <2>3. up.left \notin Proxies /\ up.right \notin Proxies
    BY <1>1, SidesOf, Sorts, Kinds
  <2> DEFINE bare == [up EXCEPT !.left = Cleared(@), !.right = Cleared(@)]
  <2>4. bare \in Nodes /\ bare.left = Nil /\ bare.right = Nil
    BY <2>3, BareIs
  <2>5. \A s \in Sides : get_side_subtree(v, s) = Nil
    <3>1. ~IsProxy(v) /\ \A s \in Sides : v[s] = Nil
      BY <2>1, Sorts DEF Leaf, Sides
    <3> QED
      BY <3>1 DEF get_side_subtree, getSideHere, Null
  <2> DEFINE m == setDataHere(bare, v.word, v.counter)
  <2>6. pullHere(up, from) = updateHeight(m)
    <3>1. get_side_subtree(v, "right") = Nil /\ get_side_subtree(v, "left") = Nil
      BY <2>5 DEF Sides
    <3>2. getWord(v) = v.word /\ getCounter(v) = v.counter /\ ~Null(v)
      BY <2>1, Sorts, DataOfArm DEF getWord, getCounter, Leaf
    <3>3. Graft(Graft(bare, "right", Nil), "right", Nil) = bare
      BY DEF Graft, Null
    <3> HIDE DEF bare
    <3> QED
      BY <1>1, <3>1, <3>2, <3>3 DEF pullHere, bare
  <2>7. Leaf(m, v.word, v.counter) /\ m \in Loose
    <3>1. v.word \in Field /\ v.counter \in Nat
      BY <2>1, Fields, Sorts DEF Leaf
    <3> HIDE DEF bare
    <3> QED
      BY <2>4, <3>1, LeafMade, Sorts DEF Leaf
  <2> HIDE DEF m
  <2>8. Leaf(updateHeight(m), v.word, v.counter)
    BY <2>7, LeafUpdated
  <2> QED
    BY <1>3, <2>2, <2>6, <2>8
<1> QED
  BY <1>2, <1>3

(* What a rotation that lifts a node of this process puts together. *)
LEMMA Rotated ==
  ASSUME NEW n \in Nodes, NEW to \in Sides,
         NEW up \in Nodes, n[Other(to)] = up,
         NEW down \in Trees, NEW rest \in Trees,
         down = Graft(IF Null(n[to]) THEN setDataHere(create, n.word, n.counter)
                      ELSE push_subtree(n[to], to, n.word, n.counter),
                      Other(to), get_side_subtree(up, to)),
         rest = IF Null(getLeft(up)) /\ Null(getRight(up))
                THEN clear(up) ELSE pullHere(up, Other(to))
  PROVE  LET r == rotateHere(n, to)
         IN  /\ r \in Nodes /\ r.word = up.word /\ r.counter = up.counter
             /\ r[to] = down /\ r[Other(to)] = rest
             /\ r.height = 1 + Higher(HeightOr(down), HeightOr(rest))
<1> DEFINE from == Other(to)
           d == setDataHere(n, up.word, up.counter)
           m == [d EXCEPT ![to] = down, ![from] = rest]
           r == updateHeight(m)
<1>1. /\ up \in Loose /\ n \in Loose /\ Data(up) = up /\ ~Null(up)
      /\ from \in Sides /\ Other(from) = to /\ from # to
  BY DataOfArm, Sorts, Kinds, SidesOf DEF Null
<1>2. rotateHere(n, to) = r
  BY <1>1 DEF rotateHere, getWord, getCounter
<1>3. d \in Nodes /\ d \in Loose /\ d.word = up.word /\ d.counter = up.counter
  <2>1. up.word \in Field /\ up.counter \in Nat
    BY Fields
  <2>2. d \in Nodes /\ d.word = up.word /\ d.counter = up.counter
    BY <1>1, <2>1, SetDataOf
  <2> QED
    BY <2>2, Sorts
<1> HIDE DEF d
<1>4. /\ m \in Loose /\ m.word = up.word /\ m.counter = up.counter
      /\ m[to] = down /\ m[from] = rest /\ m \in Nodes
  <2> DEFINE k == [d EXCEPT ![to] = down]
  <2>1. /\ k \in Nodes /\ k \in Loose /\ k.word = up.word /\ k.counter = up.counter
        /\ k[to] = down
    BY <1>3, Replaced
  <2> DEFINE j == [k EXCEPT ![from] = rest]
  <2>2. m = j
    OBVIOUS
  <2> HIDE DEF k, m, from
  <2>3. /\ j \in Loose /\ j.word = k.word /\ j.counter = k.counter
        /\ j[from] = rest /\ j[Other(from)] = k[Other(from)]
        /\ k \in Nodes => j \in Nodes
    BY <1>1, <2>1, Replaced
  <2> QED
    BY <1>1, <2>1, <2>2, <2>3
<1> HIDE DEF m
<1>5. /\ r \in Loose /\ r \in Nodes /\ r.word = up.word /\ r.counter = up.counter
      /\ r.left = m.left /\ r.right = m.right
  BY <1>4, UpdateHeightOf, Fields
<1>6. r.height = 1 + Higher(HeightOr(m.left), HeightOr(m.right))
  BY <1>4, HeightUpdated
<1> HIDE DEF r
<1>7. r[to] = down /\ r[from] = rest
  BY <1>1, <1>4, <1>5, SidesOf
<1>8. r.height = 1 + Higher(HeightOr(down), HeightOr(rest))
  <2>1. \/ m.left = down /\ m.right = rest
        \/ m.left = rest /\ m.right = down
    BY <1>1, <1>4, SidesOf
  <2>2. HeightOr(down) \in Int /\ HeightOr(rest) \in Int
    BY HeightOrOf
  <2> QED
    BY <1>6, <2>1, <2>2 DEF Higher
<1> QED
  BY <1>2, <1>5, <1>7, <1>8

(* One rotation, of a node with nothing on one side and one node, with no  *)
(* inner child, on the other.                                              *)
LEMMA RotateStick ==
  ASSUME LateBinding, NEW n \in Nodes, NEW to \in Sides, Bare(n[to]),
         NEW up \in Nodes, n[Other(to)] = up, up[to] = Nil,
         NEW v, v = up[Other(to)], v = Nil \/ Leaf(v, v.word, v.counter)
  PROVE  LET r == rotateHere(n, to)
         IN  /\ r \in Nodes /\ r.word = up.word /\ r.counter = up.counter
             /\ r.height = 1
             /\ LeafArm(r[to], n.word, n.counter)
             /\ r[to] \in Proxies <=> n[to] \in Proxies
             /\ v = Nil => r[Other(to)] = Nil
             /\ v # Nil => Leaf(r[Other(to)], v.word, v.counter)
<1> DEFINE from == Other(to)
           down == IF Null(n[to]) THEN setDataHere(create, n.word, n.counter)
                   ELSE push_subtree(n[to], to, n.word, n.counter)
           rest == IF Null(getLeft(up)) /\ Null(getRight(up))
                   THEN clear(up) ELSE pullHere(up, from)
           r    == rotateHere(n, to)
<1>1. LeafArm(down, n.word, n.counter) /\ (down \in Proxies <=> n[to] \in Proxies)
  BY PushedDown
<1>2. /\ v = Nil => rest = Nil
      /\ v # Nil => Leaf(rest, v.word, v.counter)
  BY LiftedFrom
<1>3. Graft(down, from, get_side_subtree(up, to)) = down
  <2>1. get_side_subtree(up, to) = Nil
    BY Sorts DEF get_side_subtree, getSideHere, Null
  <2> QED
    BY <2>1 DEF Graft, Null
<1> HIDE DEF down, rest
<1>4. rest \in Trees /\ down \in Trees
  BY <1>1, <1>2, Sorts DEF Leaf, LeafArm
<1>5. /\ r \in Nodes /\ r.word = up.word /\ r.counter = up.counter
      /\ r[to] = down /\ r[from] = rest
      /\ r.height = 1 + Higher(HeightOr(down), HeightOr(rest))
  BY <1>3, <1>4, Rotated DEF down, rest
<1> HIDE DEF r
<1>6. HeightOr(down) = 0
  <2>1. down # Nil /\ Data(down).height = 0
    BY <1>1, Sorts, Kinds DEF LeafArm, Leaf
  <2> QED
    BY <2>1 DEF HeightOr, getHeight, Null
<1>7. HeightOr(rest) \in {-1, 0}
  <2>1. CASE v = Nil
    BY <1>2, <2>1, HeightOrOf, Sorts
  <2>2. CASE v # Nil
    <3>1. Leaf(rest, v.word, v.counter) /\ Data(rest) = rest
      BY <1>2, <2>2, DataOfArm DEF Leaf
    <3> QED
      BY <3>1, Sorts DEF HeightOr, getHeight, Leaf
  <2> QED
    BY <2>1, <2>2
<1>8. r.height = 1
  BY <1>5, <1>6, <1>7 DEF Higher
<1> QED
  BY <1>1, <1>2, <1>5, <1>8 DEF r

-----------------------------------------------------------------------------
(* What the parts hold, counted in words. *)

(* A leaf is an AVL tree of one word, *)
LEMMA LeafIs ==
  ASSUME LateBinding, NEW t, NEW w \in Words, w # Empty, NEW c \in Nat, c # 0, Leaf(t, w, c)
  PROVE  /\ t \in Nodes /\ t \in Trees /\ Well(t) /\ At(t) /\ Depth(t) = 0
         /\ HeldWords(t) = {w}
         /\ \A ws \in SUBSET Field : CountIn(t, ws) = Times(w, c, ws)
<1>1. /\ t \in Nodes /\ t \in Loose /\ t \in Trees /\ t.word = w /\ t.counter = c /\ t.height = 0
      /\ t.left = Nil /\ t.right = Nil
  BY Sorts DEF Leaf
<1>2. hasWord(t)
  BY <1>1, HasWordIs
<1>3. Depth(t) = 0
  BY <1>1, <1>2, DepthsAre DEF Higher
<1>4. HeldWords(t) = {w}
  BY <1>1, <1>2, HeldAre DEF OwnWord
<1>5. At(t)
  <2>1. Depth(t.left) - Depth(t.right) \in -1..1
    BY <1>1, DepthsAre
  <2>2. \A side \in Sides : HeldWords(t[side]) = {}
    BY <1>1, HeldAre DEF Sides
  <2> QED
    BY <1>1, <1>2, <1>3, <2>1, <2>2 DEF At
<1>6. Well(t)
  BY <1>1, <1>5, WellIs, Kinds
<1>7. ASSUME NEW ws \in SUBSET Field PROVE CountIn(t, ws) = Times(w, c, ws)
  <2>1. CountIn(t, ws) = CountIn(Nil, ws) + CountIn(Nil, ws) + Own(t, ws)
    BY <1>1, Counting
  <2>2. CountIn(Nil, ws) = 0 /\ Own(t, ws) = Times(w, c, ws) /\ Own(t, ws) \in Nat
    BY <1>1, Counting DEF Own, Times
  <2> QED
    BY <2>1, <2>2
<1> QED
  BY <1>1, <1>3, <1>4, <1>5, <1>6, <1>7

(* What a node counts of its own word. *)
LEMMA OwnIs == \A n, ws : Own(n, ws) = Times(n.word, n.counter, ws)
BY DEF Own, Times

LEMMA TimesIs == \A w, ws : \A c \in Nat : Times(w, c, ws) \in Nat
BY DEF Times

(* What At says, by sides. *)
LEMMA AtSides ==
  ASSUME LateBinding, NEW n \in Nodes, At(n), NEW side \in Sides
  PROVE  /\ n.word \in Words /\ n.word \in Nat /\ n.word # Empty
         /\ n.counter \in Nat /\ n.counter # 0
         /\ n.word \in HeldWords(n) /\ HeldWords(n[side]) \subseteq HeldWords(n)
         /\ HeldWords(n) = HeldWords(n[side]) \cup HeldWords(n[Other(side)]) \cup {n.word}
         /\ HeldWords(n) \subseteq Words /\ HeldWords(n) \subseteq Nat
         /\ \A x \in HeldWords(n[side]) : Aside(x, side, n.word)
         /\ Depth(n[side]) \in Nat \cup {-1} /\ Depth(n[Other(side)]) \in Nat \cup {-1}
         /\ Depth(n) = 1 + Higher(Depth(n[side]), Depth(n[Other(side)]))
         /\ Depth(n[side]) - Depth(n[Other(side)]) \in -1..1
         /\ Depth(n) \in Nat
<1>1. n \in Loose /\ n \in Trees /\ hasWord(n)
  BY Sorts DEF At
<1>2. /\ n.word \in Words /\ n.word \in Nat /\ n.word # Empty
      /\ n.counter \in Nat /\ n.counter # 0
  BY <1>1, HasWordIs, Fields, WordTreeAssumption DEF Field
<1>3. HeldWords(n) = HeldWords(n[side]) \cup HeldWords(n[Other(side)]) \cup {n.word}
  BY <1>1, HeldAre DEF OwnWord
<1>4. HeldWords(n) \subseteq Words /\ HeldWords(n) \subseteq Nat
  BY <1>1, HeldAre, WordTreeAssumption
<1>5. \/ n[side] = n.left  /\ n[Other(side)] = n.right
      \/ n[side] = n.right /\ n[Other(side)] = n.left
  BY <1>1, SidesOf
<1>6. Depth(n.left) \in Nat \cup {-1} /\ Depth(n.right) \in Nat \cup {-1}
  BY <1>1, Fields, DepthsAre
<1>7. Depth(n) = 1 + Higher(Depth(n.left), Depth(n.right)) /\ Depth(n) \in Nat
  BY <1>1, DepthsAre
<1>8. Depth(n) = 1 + Higher(Depth(n[side]), Depth(n[Other(side)]))
  BY <1>5, <1>6, <1>7 DEF Higher
<1>9. Depth(n.left) - Depth(n.right) \in -1..1
  BY DEF At
<1>10. Depth(n[side]) - Depth(n[Other(side)]) \in -1..1
  BY <1>5, <1>6, <1>9
<1>11. \A x \in HeldWords(n[side]) : Aside(x, side, n.word)
  BY DEF At
<1> QED
  BY <1>2, <1>3, <1>4, <1>5, <1>6, <1>7, <1>8, <1>10, <1>11

(* The higher side of a node. *)
LEMMA DeepSide ==
  ASSUME LateBinding, NEW n \in Nodes, At(n)
  PROVE  \E side \in Sides : /\ Depth(n) = 1 + Depth(n[side])
                             /\ Depth(n[side]) >= Depth(n[Other(side)])
<1>1. "left" \in Sides /\ "right" \in Sides /\ Other("left") = "right" /\ Other("right") = "left"
  BY DEF Sides, Other
<1>2. /\ Depth(n.left) \in Nat \cup {-1} /\ Depth(n.right) \in Nat \cup {-1}
      /\ Depth(n) = 1 + Higher(Depth(n.left), Depth(n.right))
  BY <1>1, AtSides
<1>3. CASE Depth(n.left) >= Depth(n.right)
  BY <1>1, <1>2, <1>3 DEF Higher
<1>4. CASE ~(Depth(n.left) >= Depth(n.right))
  BY <1>1, <1>2, <1>4 DEF Higher
<1> QED
  BY <1>3, <1>4

(* and so it is in another process. *)
LEMMA LeafArmIs ==
  ASSUME LateBinding, NEW a, NEW w \in Words, w # Empty, NEW c \in Nat, c # 0,
         LeafArm(a, w, c)
  PROVE  /\ a \in Trees /\ Full(a) /\ Arm(a) /\ Depth(a) = 0 /\ HeldWords(a) = {w}
         /\ \A ws \in SUBSET Field : CountIn(a, ws) = Times(w, c, ws)
<1> DEFINE t == Data(a)
<1>1. a \in Nodes \cup Proxies /\ Leaf(t, w, c)
  BY DEF LeafArm
<1>2. /\ t \in Nodes /\ Well(t) /\ Depth(t) = 0 /\ HeldWords(t) = {w}
      /\ \A ws \in SUBSET Field : CountIn(t, ws) = Times(w, c, ws)
  <2> HIDE DEF t
  <2> QED
    BY <1>1, LeafIs
<1>3. Full(a) /\ Arm(a)
  BY <1>1, <1>2 DEF Full, Arm
<1> HIDE DEF t
<1>4. /\ a \in Trees /\ Depth(a) = Depth(t) /\ HeldWords(a) = HeldWords(t)
      /\ \A ws \in SUBSET Field : CountIn(a, ws) = CountIn(t, ws)
  BY <1>3, ArmIs DEF t
<1> QED
  BY <1>2, <1>3, <1>4

(* The subtrees of a tree within a process. *)
LEMMA SubtreeOfWell ==
  ASSUME LateBinding, NEW n \in Nodes, Well(n), NEW side \in Sides
  PROVE  /\ n[side] \in Trees /\ n[side] \notin Proxies
         /\ Well(n[side]) /\ Arm(n[side]) /\ Depth(n[side]) \in Nat \cup {-1}
         /\ Depth(n[side]) = -1 => n[side] = Nil
         /\ Depth(n[side]) # -1 => n[side] \in Nodes
<1>1. n \in Loose /\ n.left \in Trees /\ n.right \in Trees
  BY Sorts, Fields
<1>2. /\ n.left \notin Proxies /\ n.right \notin Proxies /\ Well(n.left) /\ Well(n.right)
      /\ Arm(n.left) /\ Arm(n.right)
  BY WellIs, WellArms
<1>3. /\ n[side] \in Trees /\ n[side] \notin Proxies /\ Well(n[side]) /\ Arm(n[side])
  BY <1>1, <1>2, SidesOf
<1>4. /\ Depth(n[side]) \in Nat \cup {-1} /\ (Bare(n[side]) <=> Depth(n[side]) = -1)
  BY <1>3, ArmIs
<1> QED
  BY <1>3, <1>4, DepthsAre DEF Arm, Bare, Full

(* A tree of height zero within a process is a leaf. *)
LEMMA LeafFound ==
  ASSUME LateBinding, NEW n \in Nodes, Well(n), Depth(n) = 0
  PROVE  /\ Leaf(n, n.word, n.counter) /\ HeldWords(n) = {n.word}
         /\ n.word \in Words /\ n.word # Empty /\ n.counter \in Nat /\ n.counter # 0
         /\ \A ws \in SUBSET Field : CountIn(n, ws) = Times(n.word, n.counter, ws)
<1>1. At(n)
  BY WellIs
<1>2. ASSUME NEW q \in Sides PROVE n[q] = Nil
  <2>1. /\ Depth(n[q]) \in Nat \cup {-1} /\ Depth(n[Other(q)]) \in Nat \cup {-1}
        /\ Depth(n) = 1 + Higher(Depth(n[q]), Depth(n[Other(q)]))
    BY <1>1, AtSides
  <2>2. Depth(n[q]) = -1
    BY <2>1 DEF Higher
  <2> QED
    BY <2>2, SubtreeOfWell
<1>3. n.left = Nil /\ n.right = Nil /\ n.height = 0
  BY <1>1, <1>2 DEF Sides, At
<1>4. n.word \in Words /\ n.word # Empty /\ n.counter \in Nat /\ n.counter # 0
  BY <1>1, AtSides DEF Sides
<1>5. HeldWords(n) = {n.word}
  BY <1>1, <1>3, HeldAre DEF OwnWord, At
<1>6. ASSUME NEW ws \in SUBSET Field PROVE CountIn(n, ws) = Times(n.word, n.counter, ws)
  <2>1. CountIn(n, ws) = CountIn(Nil, ws) + CountIn(Nil, ws) + Times(n.word, n.counter, ws)
    BY <1>3, Counting, OwnIs
  <2>2. CountIn(Nil, ws) = 0 /\ Times(n.word, n.counter, ws) \in Nat
    BY <1>4, Counting, TimesIs
  <2> QED
    BY <2>1, <2>2
<1> QED
  BY <1>3, <1>4, <1>5, <1>6 DEF Leaf

-----------------------------------------------------------------------------
(* The rotations of sticks: three words in a row. *)

(* A node of height one with two words: the other word is in its one child. *)
LEMMA Stick ==
  ASSUME LateBinding, NEW d \in Nodes, Well(d), Depth(d) = 1,
         NEW w, HeldWords(d) \subseteq {d.word, w}
  PROVE  \E s \in Sides : /\ Leaf(d[s], w, d[s].counter) /\ d[s].counter \in Nat \ {0}
                          /\ d[Other(s)] = Nil /\ Aside(w, s, d.word)
                          /\ w \in Words /\ w # Empty
<1>1. At(d) /\ d \in Loose
  BY WellIs, Sorts
<1>2. PICK s \in Sides : Depth(d) = 1 + Depth(d[s]) /\ Depth(d[s]) >= Depth(d[Other(s)])
  BY <1>1, DeepSide
<1> DEFINE o == Other(s)
           t == d[s]
<1>3. o \in Sides /\ Other(o) = s
  BY SidesOf
<1>4. \A q \in Sides : /\ Arm(d[q]) /\ d[q] \notin Proxies /\ Depth(d[q]) \in Nat \cup {-1}
                       /\ \A x \in HeldWords(d[q]) : Aside(x, q, d.word) /\ x \in Nat /\ x = w
  <2>1. ASSUME NEW q \in Sides PROVE Arm(d[q]) /\ d[q] \notin Proxies
    <3>1. Arm(d.left) /\ Arm(d.right) /\ d.left \notin Proxies /\ d.right \notin Proxies
      BY WellArms
    <3> QED
      BY <1>1, <3>1, SidesOf
  <2>2. ASSUME NEW q \in Sides, NEW x \in HeldWords(d[q])
        PROVE  Aside(x, q, d.word) /\ x \in Nat /\ x = w
    <3>1. /\ Aside(x, q, d.word) /\ x \in HeldWords(d) /\ x \in Nat /\ d.word \in Nat
      BY <1>1, AtSides
    <3>2. x # d.word
      BY <3>1, Asides
    <3> QED
      BY <3>1, <3>2
  <2> QED
    BY <2>1, <2>2, ArmIs
<1>5. t \in Nodes /\ Full(t) /\ Data(t) = t /\ At(t) /\ Depth(t) = 0 /\ Well(t) /\ t \in Loose
  <2>1. Depth(t) = 0
    BY <1>2, <1>4
  <2>2. Full(t) /\ t \notin Proxies
    BY <1>4, <2>1, ArmIs DEF Arm
  <2>3. t \in Nodes
    BY <2>2 DEF Full
  <2>4. Data(t) = t
    BY <2>3, DataOfArm
  <2>5. Well(t) /\ At(t)
    BY <2>2, <2>3, <2>4, WellIs DEF Full
  <2> QED
    BY <2>1, <2>2, <2>3, <2>4, <2>5, Sorts
<1> HIDE DEF t
<1>6. /\ t.word = w /\ t.word \in Words /\ t.word # Empty /\ Aside(w, s, d.word)
      /\ t.counter \in Nat \ {0} /\ w \in Nat
  <2>1. /\ t.word \in HeldWords(t) /\ t.word \in Words /\ t.word # Empty
        /\ t.counter \in Nat \ {0}
    BY <1>5, AtSides
  <2>2. \A x \in HeldWords(t) : Aside(x, s, d.word) /\ x \in Nat /\ x = w
    BY <1>4 DEF t
  <2> QED
    BY <2>1, <2>2
<1>7. t.left = Nil /\ t.right = Nil /\ t.height = 0
  BY <1>5, LeafFound DEF Leaf
<1>8. d[o] = Nil
  <2>1. ~Full(d[o])
    <3> SUFFICES ASSUME Full(d[o]) PROVE FALSE
      OBVIOUS
    <3>1. Arm(d[o])
      BY <1>3, <1>4
    <3>2. Data(d[o]) \in Nodes /\ At(Data(d[o])) /\ HeldWords(d[o]) = HeldWords(Data(d[o]))
      BY <3>1, ArmIs
    <3>3. PICK x \in HeldWords(d[o]) : TRUE
      BY <1>3, <3>2, AtSides
    <3>4. Aside(x, o, d.word) /\ x = w
      BY <1>3, <1>4, <3>3
    <3>5. d.word \in Nat
      BY <1>1, <1>3, AtSides
    <3> QED
      BY <1>6, <3>4, <3>5, Asides
  <2> QED
    BY <1>3, <1>4, <2>1 DEF Arm, Bare
<1> QED
  BY <1>5, <1>6, <1>7, <1>8 DEF Leaf, t

(* What balance does to a node with nothing on one side and a node with    *)
(* one child, the new word, on the other.                                  *)
LEMMA BalanceStick ==
  ASSUME LateBinding, NEW t \in Nodes, NEW side \in Sides, Bare(t[Other(side)]),
         NEW c \in Nodes, c = t[side], Well(c), Depth(c) = 1,
         NEW w \in Nat, w # Empty, NEW s \in Sides,
         NEW v, v = c[s], Leaf(v, w, v.counter), v.counter # 0,
         c[Other(s)] = Nil, Aside(w, s, c.word)
  PROVE  LET r == balance(t, w)
         IN  /\ r \in Nodes /\ r.height = 1
             /\ LeafArm(r[Other(side)], t.word, t.counter)
             /\ r[Other(side)] \in Proxies <=> t[Other(side)] \in Proxies
             /\ s = side => /\ r.word = c.word /\ r.counter = c.counter
                            /\ Leaf(r[side], w, v.counter)
             /\ s # side => /\ r.word = w /\ r.counter = v.counter
                            /\ Leaf(r[side], c.word, c.counter)
<1> DEFINE to == Other(side)
           r  == balance(t, w)
<1>1. to \in Sides /\ Other(to) = side /\ to # side /\ t \in Loose
  BY SidesOf, Sorts
<1>2. /\ At(c) /\ hasWord(c) /\ c \in Loose /\ Data(c) = c /\ ~IsProxy(c) /\ c \notin Proxies
      /\ HeightOr(c) = 1 /\ ~Null(c) /\ c.word \in Nat
  <2>1. Full(c) /\ Arm(c) /\ Data(c) = c
    BY DataOfArm DEF Arm, Full
  <2>2. At(c) /\ HeightOr(c) = 1
    BY <2>1, ArmIs
  <2>3. c.word \in Nat
    BY <1>1, <2>2, AtSides
  <2> QED
    BY <2>1, <2>2, <2>3, Sorts, Kinds DEF At, Null
<1>3. HeightOr(t[to]) = -1
  BY ArmIs DEF Arm
<1>4. Balance(t) = IF side = "right" THEN 2 ELSE -2
  BY <1>1, <1>2, <1>3 DEF Balance, Sides, Other
<1>5. smaller(c, w) <=> w < c.word
  BY <1>2 DEF smaller, getWord
<1>6. ChildFirst(t, w) <=> s # side
  BY <1>1, <1>2, <1>4, <1>5 DEF ChildFirst, Sides, Aside
<1> DEFINE e  == rotateHere(c, side)
           c2 == IF s # side THEN e ELSE c
<1>7. r = IF c2 = Crash THEN Crash ELSE rotateHere([t EXCEPT ![side] = c2], to)
  <2>1. (IF Balance(t) = 2 THEN "left" ELSE "right") = to
    BY <1>4 DEF Sides, Other
  <2>2. Balance(t) \in {-2, 2}
    BY <1>4
  <2>3. rotate(c, side) = e
    BY <1>2 DEF rotate, Call
  <2> HIDE DEF to, e
  <2> QED
    BY <1>1, <1>6, <2>1, <2>2, <2>3 DEF balance
<1> HIDE DEF r
<1>8. v \in Nodes /\ v \in Loose /\ v.word = w /\ v # Nil /\ \A q \in Sides : v[q] = Nil
  BY Sorts DEF Leaf, Sides
<1>9. CASE s = side
  <2>1. c2 = c /\ c # Crash
    BY <1>9, Kinds, Sorts
  <2>2. [t EXCEPT ![side] = c] = t
    BY <1>1 DEF Loose, Sides
  <2>3. r = rotateHere(t, to)
    BY <1>7, <2>1, <2>2
  <2>4. /\ Bare(t[to]) /\ t[Other(to)] = c /\ c[to] = Nil /\ v = c[Other(to)]
    BY <1>1, <1>9
  <2> QED
    BY <1>1, <1>8, <1>9, <2>3, <2>4, RotateStick DEF r
<1>10. CASE s # side
  <2>1. s = to
    BY <1>1, <1>10 DEF Sides
  <2>2. /\ e \in Nodes /\ e.word = w /\ e.counter = v.counter
        /\ Leaf(e[side], c.word, c.counter) /\ e[to] = Nil
    <3>1. c[to] = v /\ c[side] = Nil /\ Bare(c[side]) /\ c[side] \notin Proxies
      BY <1>1, <2>1, Kinds DEF Bare
    <3>2. v[side] = Nil /\ v[to] = Nil
      BY <1>1, <1>8
    <3>3. /\ e \in Nodes /\ e.word = v.word /\ e.counter = v.counter
          /\ LeafArm(e[side], c.word, c.counter)
          /\ e[side] \in Proxies <=> c[side] \in Proxies
          /\ e[to] = Nil
      BY <1>8, <3>1, <3>2, RotateStick
    <3> HIDE DEF e
    <3>4. Leaf(e[side], c.word, c.counter)
      BY <3>1, <3>3, DataOfArm DEF LeafArm
    <3> QED
      BY <1>8, <3>3, <3>4
  <2> HIDE DEF e
  <2>3. c2 = e /\ e # Crash
    BY <1>10, <2>2, Kinds, Sorts
  <2> DEFINE t2 == [t EXCEPT ![side] = e]
  <2>4. /\ t2 \in Nodes /\ t2.word = t.word /\ t2.counter = t.counter
        /\ t2[side] = e /\ t2[to] = t[to]
    BY <1>1, <2>2, Replaced, Sorts
  <2>5. r = rotateHere(t2, to)
    BY <1>7, <2>3
  <2> HIDE DEF t2
  <2> DEFINE y == e[side]
  <2>6. /\ y = e[Other(to)] /\ e[to] = Nil /\ Leaf(y, y.word, y.counter) /\ y # Nil
        /\ y.word = c.word /\ y.counter = c.counter
    BY <1>1, <2>2, Kinds, Sorts DEF Leaf
  <2>7. Bare(t2[to]) /\ t2[Other(to)] = e
    BY <1>1, <2>4
  <2> HIDE DEF y, to
  <2>8. /\ r \in Nodes /\ r.word = e.word /\ r.counter = e.counter /\ r.height = 1
        /\ LeafArm(r[to], t2.word, t2.counter)
        /\ r[to] \in Proxies <=> t2[to] \in Proxies
        /\ Leaf(r[Other(to)], y.word, y.counter)
    BY <1>1, <2>2, <2>4, <2>5, <2>6, <2>7, RotateStick
  <2> QED
    BY <1>1, <1>10, <2>2, <2>4, <2>6, <2>8 DEF r, to
<1> QED
  BY <1>9, <1>10

-----------------------------------------------------------------------------
(* The other light rotation, which carries subtrees: leaves, all of them.  *)

(* A leaf is a leaf after it was copied, sent, or set as a subtree. *)
LEMMA LeafCopied ==
  ASSUME LateBinding, NEW t, NEW w \in Field, NEW c \in Nat, c # 0, Leaf(t, w, c)
  PROVE  Leaf(get_subtree(t), w, c) /\ Leaf(Wire(t), w, c) /\ Leaf(set_subtree(t, t), w, c)
<1>1. /\ t \in Nodes /\ t \in Loose /\ t \in Trees /\ t.word = w /\ t.counter = c
      /\ t.left = Nil /\ t.right = Nil
      /\ Data(t) = t /\ ~IsProxy(t) /\ ~Null(t)
  BY DataOfArm, Sorts, Kinds DEF Leaf, Null
<1> DEFINE e == setDataHere(create, w, c)
           m == [e EXCEPT !.left = Nil, !.right = Nil]
           f == setDataHere(t, w, c)
           g == [f EXCEPT !.left = Nil, !.right = Nil]
<1>2. Leaf(e, w, c) /\ Leaf(f, w, c)
  BY <1>1, CreateOf, LeafMade
<1>3. get_subtree(t) = updateHeight(m)
  BY <1>1 DEF get_subtree, getSubtreeHere
<1>4. set_subtree(t, t) = g
  BY <1>1 DEF set_subtree, setSubtreeHere
<1> HIDE DEF e, f
<1>5. m = e /\ g = f
  <2>1. e \in Loose /\ e.left = Nil /\ e.right = Nil
    BY <1>2, Sorts DEF Leaf
  <2>2. f \in Loose /\ f.left = Nil /\ f.right = Nil
    BY <1>2, Sorts DEF Leaf
  <2> QED
    BY <2>1, <2>2 DEF Loose
<1>6. Leaf(get_subtree(t), w, c)
  BY <1>2, <1>3, <1>5, LeafUpdated
<1>7. Leaf(Wire(t), w, c)
  <2>1. Wire(t) = wireHere(t) /\ Wire(Nil) = wireHere(Nil)
    BY <1>1, Sorts DEF LateBinding
  <2>2. wireHere(Nil) = Nil
    BY DEF wireHere, Null
  <2>3. getLeft(t) = Nil /\ getRight(t) = Nil /\ getWord(t) = w /\ getCounter(t) = c
    BY <1>1 DEF getLeft, getRight, getWord, getCounter
  <2> DEFINE k == NewNode(w, c, 0)
  <2>4. wireHere(t) = [k EXCEPT !.left = Nil, !.right = Nil]
    BY <1>1, <2>1, <2>2, <2>3 DEF wireHere
  <2>5. k \in Nodes
    BY NodeMade, Sorts DEF NewNode
  <2>6. k.word = w /\ k.counter = c /\ k.height = 0 /\ k.left = Nil /\ k.right = Nil
    BY DEF NewNode
  <2> HIDE DEF k
  <2>7. [k EXCEPT !.left = Nil, !.right = Nil] = k
    <3>1. k \in Loose
      BY <2>5, Sorts
    <3> QED
      BY <2>6, <3>1 DEF Loose
  <2> QED
    BY <2>1, <2>4, <2>5, <2>6, <2>7 DEF Leaf
<1> QED
  BY <1>2, <1>4, <1>5, <1>6, <1>7

(* A leaf that is grafted where nothing is, *)
LEMMA LeafSet ==
  ASSUME LateBinding, NEW n \in Nodes, NEW side \in Sides, n[side] = Nil,
         NEW t, NEW w \in Field, NEW c \in Nat, c # 0, Leaf(t, w, c)
  PROVE  LET g == setSideHere(n, side, t)
         IN  /\ g \in Nodes /\ g.word = n.word /\ g.counter = n.counter
             /\ Leaf(g[side], w, c) /\ g[Other(side)] = n[Other(side)]
             /\ g.height = 1 + Higher(0, HeightOr(n[Other(side)]))
<1> DEFINE o == Other(side)
           l == set_subtree(t, t)
           m == [n EXCEPT ![side] = l]
           g == updateHeight(m)
<1>1. n \in Loose /\ ~Null(t) /\ Leaf(l, w, c)
  BY LeafCopied, Sorts, Kinds DEF Leaf, Null
<1>2. setSideHere(n, side, t) = g
  <2>1. Cleared(n[side]) = Nil
    BY DEF Cleared, Null
  <2> QED
    BY <1>1, <2>1 DEF setSideHere, Null
<1> HIDE DEF l
<1>3. l \in Nodes /\ l \in Trees /\ HeightOr(l) = 0
  <2>1. l \in Nodes /\ l.height = 0 /\ Data(l) = l
    BY <1>1, DataOfArm DEF Leaf
  <2> QED
    BY <2>1, Sorts, Kinds DEF HeightOr, getHeight, Null
<1>4. /\ m \in Loose /\ m \in Nodes /\ m.word = n.word /\ m.counter = n.counter
      /\ m[side] = l /\ m[o] = n[o]
  BY <1>1, <1>3, Replaced
<1> HIDE DEF m
<1>5. /\ g \in Loose /\ g \in Nodes /\ g.word = n.word /\ g.counter = n.counter
      /\ g.left = m.left /\ g.right = m.right
      /\ g.height = 1 + Higher(HeightOr(m.left), HeightOr(m.right))
  BY <1>4, UpdateHeightOf, HeightUpdated, Fields
<1> HIDE DEF g
<1>6. g[side] = l /\ g[o] = n[o]
  BY <1>4, <1>5, SidesOf
<1>7. g.height = 1 + Higher(0, HeightOr(n[o]))
  <2>1. \/ m.left = l /\ m.right = n[o]
        \/ m.left = n[o] /\ m.right = l
    BY <1>4, SidesOf
  <2>2. HeightOr(n[o]) \in Int
    <3>1. n[o] \in Trees
      BY <1>1, SidesOf, Fields
    <3> QED
      BY <3>1, HeightOrOf
  <2> QED
    BY <1>3, <1>5, <2>1, <2>2 DEF Higher
<1> QED
  BY <1>1, <1>2, <1>5, <1>6, <1>7

(* in this process or in another one. *)
LEMMA LeafGrafted ==
  ASSUME LateBinding, NEW a \in Nodes \cup Proxies, NEW side \in Sides, Data(a)[side] = Nil,
         NEW t, NEW w \in Field, NEW c \in Nat, c # 0, Leaf(t, w, c)
  PROVE  LET g == Graft(a, side, t)
             d == Data(a)
             e == Data(g)
         IN  /\ g \in Nodes \cup Proxies /\ (g \in Proxies <=> a \in Proxies)
             /\ e \in Nodes /\ e.word = d.word /\ e.counter = d.counter
             /\ Leaf(e[side], w, c) /\ e[Other(side)] = d[Other(side)]
             /\ e.height = 1 + Higher(0, HeightOr(d[Other(side)]))
<1> DEFINE g == Graft(a, side, t)
<1>1. ~Null(t) /\ g = set_side_subtree(a, side, t)
  BY Sorts, Kinds DEF Leaf, Null, Graft
<1>2. CASE a \in Nodes
  <2> DEFINE h == setSideHere(a, side, t)
  <2>1. ~IsProxy(a) /\ a \notin Proxies /\ Data(a) = a
    BY <1>2, Sorts, DataOfArm
  <2>2. g = h
    BY <1>1, <2>1 DEF set_side_subtree
  <2>3. /\ h \in Nodes /\ h.word = a.word /\ h.counter = a.counter
        /\ Leaf(h[side], w, c) /\ h[Other(side)] = a[Other(side)]
        /\ h.height = 1 + Higher(0, HeightOr(a[Other(side)]))
    BY <1>2, <2>1, LeafSet
  <2> HIDE DEF h, g
  <2>4. Data(h) = h /\ h \notin Proxies
    BY <2>3, Sorts, DataOfArm
  <2> QED
    BY <2>1, <2>2, <2>3, <2>4 DEF g
<1>3. CASE a \in Proxies
  <2> DEFINE d == a.root
             u == Wire(t)
             h == setSideHere(d, side, u)
  <2>1. IsProxy(a) /\ Data(a) = d /\ d \in Nodes /\ d[side] = Nil
    BY <1>3, Sorts, DataOfArm
  <2>2. g = IF h = Crash THEN Crash ELSE [a EXCEPT !.root = h]
    BY <1>1, <2>1 DEF set_side_subtree, Call
  <2>3. Leaf(u, w, c)
    BY LeafCopied
  <2> HIDE DEF u, d
  <2>4. /\ h \in Nodes /\ h.word = d.word /\ h.counter = d.counter
        /\ Leaf(h[side], w, c) /\ h[Other(side)] = d[Other(side)]
        /\ h.height = 1 + Higher(0, HeightOr(d[Other(side)]))
    BY <2>1, <2>3, LeafSet
  <2> HIDE DEF h, g
  <2>5. h # Crash
    BY <2>4, Kinds, Sorts
  <2>6. g = Proxy(h) /\ g \in Proxies
    BY <1>3, <2>2, <2>4, <2>5, Reroot
  <2>7. Data(g) = h
    BY <2>4, <2>6, DataOfArm, Kinds
  <2> QED
    BY <1>3, <2>1, <2>4, <2>6, <2>7 DEF g
<1> QED
  BY <1>2, <1>3

(* p has, where b was, a node of the word w with a leaf of k on one side. *)
OneLeaf(p, b, side, w, c, k, i) ==
  /\ p \in Nodes \cup Proxies /\ (p \in Proxies <=> b \in Proxies)
  /\ Data(p) \in Nodes /\ Data(p).word = w /\ Data(p).counter = c
  /\ Leaf(Data(p)[side], k, i) /\ Data(p)[Other(side)] = Nil

(* A word that is pushed onto a leaf has the leaf below it. *)
LEMMA WordPushed ==
  ASSUME LateBinding, NEW b, NEW k \in Words, k # Empty, NEW i \in Nat, i # 0,
         LeafArm(b, k, i), NEW side \in Sides, NEW w \in Field, NEW c \in Nat, c # 0
  PROVE  OneLeaf(push_subtree(b, side, w, c), b, side, w, c, k, i)
<1> DEFINE l == Data(b)
           o == Other(side)
           leaf == setDataHere(create, k, i)
           m == [l EXCEPT !.word = w, !.counter = c, !.height = 1,
                          ![side] = leaf, ![o] = Nil]
           p == push_subtree(b, side, w, c)
<1>1. /\ l \in Nodes /\ l \in Loose /\ l.word = k /\ l.counter = i /\ l.height = 0
      /\ l[side] = Nil /\ l[o] = Nil /\ hasWord(l) /\ k \in Field
  <2>1. l \in Nodes /\ l.word = k /\ l.counter = i /\ l.height = 0
        /\ l.left = Nil /\ l.right = Nil
    BY DEF LeafArm, Leaf
  <2> HIDE DEF l
  <2>2. l \in Loose /\ hasWord(l)
    BY <2>1, HasWordIs, Sorts
  <2> QED
    BY <2>1, <2>2, SidesOf DEF Field
<1>2. Leaf(leaf, k, i)
  BY <1>1, CreateOf, LeafMade
<1>3. Push(l, side, w, c) = pushHere(l, side, w, c)
  BY <1>1 DEF LateBinding
<1> HIDE DEF l
<1>4. pushHere(l, side, w, c) = m
  <2>1. getSideHere(l, o) = Nil /\ Cleared(l[o]) = Nil
    BY <1>1 DEF getSideHere, Cleared, Null
  <2> HIDE DEF o, leaf
  <2>2. [l EXCEPT !.word = w, !.counter = c, !.height = 1,
                  ![side] = leaf, ![o] = Cleared(@)] = m
    <3>1. o # side
      BY SidesOf DEF o
    <3> QED
      BY <1>1, <2>1, <3>1 DEF Loose
  <2> QED
    BY <1>1, <2>1, <2>2 DEF pushHere, Null, o, leaf
<1> HIDE DEF leaf
<1>5. /\ m \in Nodes /\ m.word = w /\ m.counter = c /\ m[side] = leaf /\ m[o] = Nil
  <2> DEFINE Up(x, j, h) == [l EXCEPT !.word = x, !.counter = j, !.height = h]
             q == Up(w, c, 1)
  <2>1. \A x \in Field, j \in Int, h \in Nat \cup {-1} :
          Up(x, j, h) \in Loose /\ Up(x, j, h).word = x /\ Up(x, j, h).counter = j
          /\ Up(x, j, h).height = h
    BY <1>1 DEF Loose
  <2>2. q \in Loose /\ q.word = w /\ q.counter = c /\ q.height = 1
    <3>1. c \in Int /\ 1 \in Nat \cup {-1}
      OBVIOUS
    <3> HIDE DEF Up
    <3> QED
      BY <2>1, <3>1
  <2> DEFINE r == [q EXCEPT ![side] = leaf]
             v == [r EXCEPT ![o] = Nil]
  <2>3. m = v
    OBVIOUS
  <2> HIDE DEF q, Up
  <2>4. q \in Nodes
    BY <2>2, NodesAre
  <2>5. /\ r \in Loose /\ r \in Nodes /\ r.word = w /\ r.counter = c /\ r[side] = leaf
    BY <1>2, <2>2, <2>4, Replaced, Sorts DEF Leaf
  <2> HIDE DEF r, m
  <2>6. /\ v \in Nodes /\ v.word = w /\ v.counter = c /\ v[o] = Nil /\ v[Other(o)] = leaf
    BY <2>5, Replaced, SidesOf, Sorts
  <2> QED
    BY <2>3, <2>6, SidesOf
<1> HIDE DEF m
<1>6. p = IF IsProxy(b) THEN IF m = Crash THEN Crash ELSE [b EXCEPT !.root = m] ELSE m
  BY <1>3, <1>4 DEF push_subtree, Call, Data, l
<1>7. m # Crash
  BY <1>5, Kinds, Sorts
<1> HIDE DEF p
<1>8. p \in Nodes \cup Proxies /\ (p \in Proxies <=> b \in Proxies) /\ Data(p) = m
  <2>1. CASE b \in Proxies
    <3>1. p = Proxy(m) /\ p \in Proxies
      BY <1>5, <1>6, <1>7, <2>1, Reroot, Sorts
    <3> QED
      BY <1>5, <2>1, <3>1, DataOfArm, Kinds
  <2>2. CASE b \in Nodes
    <3>1. p = m /\ b \notin Proxies
      BY <1>6, <2>2, Sorts
    <3> QED
      BY <1>5, <3>1, DataOfArm, Sorts
  <2> QED
    BY <2>1, <2>2 DEF LeafArm
<1> QED
  BY <1>2, <1>5, <1>8 DEF p, OneLeaf

(* A pulled node keeps what is on its right, a leaf. *)
LEMMA StickPulled ==
  ASSUME LateBinding, NEW up \in Nodes, up.left \notin Proxies, up.right \notin Proxies,
         NEW from \in Sides, NEW out \in Nodes, out = up[from], out.left = Nil,
         NEW k \in Field, NEW i \in Nat, i # 0, Leaf(out.right, k, i)
  PROVE  LET r == pullHere(up, from)
         IN  /\ r \in Nodes /\ r.word = out.word /\ r.counter = out.counter /\ r.height = 1
             /\ r.left = Nil /\ Leaf(r.right, k, i)
<1> DEFINE bare == [up EXCEPT !.left = Cleared(@), !.right = Cleared(@)]
           l == get_subtree(out.right)
           g == Graft(bare, "right", l)
           m == setDataHere(g, out.word, out.counter)
           r == updateHeight(m)
<1>1. bare \in Nodes /\ bare.left = Nil /\ bare.right = Nil
  BY BareIs
<1>2. /\ ~Null(out) /\ ~IsProxy(out) /\ Data(out) = out
      /\ out.word \in Field /\ out.counter \in Nat
  BY DataOfArm, Sorts, Kinds, Fields DEF Null
<1>3. Leaf(l, k, i)
  BY LeafCopied
<1>4. get_side_subtree(out, "right") = l /\ get_side_subtree(out, "left") = Nil
  <2>1. ~Null(out.right)
    BY Kinds, Sorts DEF Leaf, Null
  <2> QED
    BY <1>2, <2>1 DEF get_side_subtree, getSideHere, Null
<1> HIDE DEF bare, l
<1>5. pullHere(up, from) = r
  <2>1. Graft(g, "right", Nil) = g
    BY DEF Graft, Null
  <2>2. getWord(out) = out.word /\ getCounter(out) = out.counter
    BY <1>2 DEF getWord, getCounter
  <2> HIDE DEF g
  <2> QED
    BY <1>2, <1>4, <2>1, <2>2 DEF pullHere, bare, g
<1>6. g \in Nodes /\ Leaf(g.right, k, i) /\ g.left = Nil
  <2>1. "right" \in Sides /\ Other("right") = "left" /\ "left" \in Sides
    BY DEF Sides, Other
  <2>2. /\ bare \in Nodes \cup Proxies /\ Data(bare) = bare /\ bare \notin Proxies
        /\ bare["right"] = Nil /\ bare["left"] = Nil
    BY <1>1, DataOfArm, Sorts
  <2>3. /\ g \in Nodes \cup Proxies /\ g \notin Proxies
        /\ Leaf(Data(g)["right"], k, i) /\ Data(g)["left"] = Nil
    BY <1>3, <2>1, <2>2, LeafGrafted
  <2> HIDE DEF g
  <2>4. Data(g) = g
    BY <2>3, DataOfArm
  <2> QED
    BY <2>3, <2>4
<1> HIDE DEF g
<1>7. /\ m \in Nodes /\ m.word = out.word /\ m.counter = out.counter
      /\ m.left = Nil /\ Leaf(m.right, k, i)
  <2>1. g \in Loose
    BY <1>6, Sorts
  <2> QED
    BY <1>2, <1>6, <2>1, SetDataOf
<1> HIDE DEF m
<1>8. m \in Loose /\ m.counter \in Nat
  BY <1>2, <1>7, Sorts
<1>9. /\ r \in Nodes /\ r.word = out.word /\ r.counter = out.counter
      /\ r.left = Nil /\ r.right = m.right
  BY <1>7, <1>8, UpdateHeightOf
<1>10. r.height = 1
  <2>1. HeightOr(m.left) = -1
    BY <1>7, HeightOrOf, Sorts
  <2>2. HeightOr(m.right) = 0
    <3> DEFINE v == m.right
    <3>1. v \in Nodes /\ v.height = 0
      BY <1>7 DEF Leaf
    <3> HIDE DEF v
    <3>2. Data(v) = v /\ ~Null(v)
      BY <3>1, DataOfArm, Sorts, Kinds DEF Null
    <3>3. HeightOr(v) = 0
      BY <3>1, <3>2 DEF HeightOr, getHeight
    <3> QED
      BY <3>3 DEF v
  <2> QED
    BY <1>8, <2>1, <2>2, HeightUpdated DEF Higher
<1> QED
  BY <1>5, <1>7, <1>9, <1>10

(* What balance does to a node with a leaf on one side and on the other a  *)
(* node whose inner child is a leaf, and whose outer child has one more,   *)
(* on its right.                                                           *)
LEMMA BalanceCarry ==
  ASSUME LateBinding, NEW t \in Nodes, NEW v \in Field, t.word = v,
         NEW m \in Nat, t.counter = m, m # 0,
         NEW side \in Sides, NEW to \in Sides, to = Other(side), NEW b, b = t[to],
         NEW k \in Words, k # Empty, NEW i \in Nat, i # 0, LeafArm(b, k, i),
         NEW c \in Nodes, c = t[side], c.left \notin Proxies, c.right \notin Proxies,
         NEW x \in Field, NEW j \in Nat, j # 0, Leaf(c[to], x, j),
         NEW out \in Nodes, out = c[side], out.left = Nil,
         NEW z \in Field, NEW l \in Nat, l # 0, Leaf(out.right, z, l),
         Balance(t) = IF side = "right" THEN 2 ELSE -2,
         NEW w, ~ChildFirst(t, w)
  PROVE  LET r == balance(t, w)
             d == Data(r[to])
             q == r[side]
         IN  /\ r \in Nodes /\ r.word = c.word /\ r.counter = c.counter /\ r.height = 2
             /\ r[to] \in Nodes \cup Proxies /\ (r[to] \in Proxies <=> b \in Proxies)
             /\ d \in Nodes /\ d.word = v /\ d.counter = m /\ d.height = 1
             /\ Leaf(d[to], k, i) /\ Leaf(d[side], x, j)
             /\ q \in Nodes /\ q.word = out.word /\ q.counter = out.counter /\ q.height = 1
             /\ q.left = Nil /\ Leaf(q.right, z, l)
<1> DEFINE in   == c[to]
           copy == get_subtree(in)
           p    == push_subtree(b, to, v, m)
           down == Graft(p, side, copy)
           rest == pullHere(c, side)
           r    == rotateHere(t, to)
<1>1. /\ to \in Sides /\ Other(to) = side /\ to # side /\ t \in Loose /\ c \in Loose
      /\ c # Crash /\ ~IsProxy(c)
  BY SidesOf, Sorts, Kinds
<1>2. balance(t, w) = r
  <2>1. (IF Balance(t) = 2 THEN "left" ELSE "right") = to /\ Balance(t) \in {-2, 2}
    BY DEF Sides, Other
  <2>2. [t EXCEPT ![side] = c] = t
    BY <1>1 DEF Loose, Sides
  <2> QED
    BY <1>1, <2>1, <2>2 DEF balance, r
<1>3. OneLeaf(p, b, to, v, m, k, i)
  BY WordPushed
<1>4. Leaf(copy, x, j)
  BY LeafCopied
<1> HIDE DEF p, copy
<1>5. /\ down \in Nodes \cup Proxies /\ (down \in Proxies <=> b \in Proxies)
      /\ Data(down) \in Nodes /\ Data(down).word = v /\ Data(down).counter = m
      /\ Leaf(Data(down)[side], x, j) /\ Leaf(Data(down)[to], k, i)
      /\ Data(down).height = 1
  <2> DEFINE u == Data(p)[to]
  <2>1. /\ down \in Nodes \cup Proxies /\ (down \in Proxies <=> p \in Proxies)
        /\ Data(down) \in Nodes /\ Data(down).word = Data(p).word
        /\ Data(down).counter = Data(p).counter
        /\ Leaf(Data(down)[side], x, j) /\ Data(down)[to] = u
        /\ Data(down).height = 1 + Higher(0, HeightOr(u))
    BY <1>1, <1>3, <1>4, LeafGrafted DEF OneLeaf
  <2>2. Leaf(u, k, i)
    BY <1>3 DEF OneLeaf
  <2> HIDE DEF u, down
  <2>3. HeightOr(u) = 0
    BY <2>2, DataOfArm, Sorts, Kinds DEF Leaf, HeightOr, getHeight, Null
  <2> QED
    BY <1>3, <2>1, <2>2, <2>3 DEF Higher, OneLeaf
<1>6. /\ rest \in Nodes /\ rest.word = out.word /\ rest.counter = out.counter
      /\ rest.height = 1 /\ rest.left = Nil /\ Leaf(rest.right, z, l)
  BY StickPulled
<1>7. down = Graft(IF Null(t[to]) THEN setDataHere(create, v, m)
                   ELSE push_subtree(t[to], to, v, m),
                   Other(to), get_side_subtree(c, to))
  <2>1. ~Null(t[to])
    BY Kinds, Sorts DEF LeafArm, Null
  <2>2. get_side_subtree(c, to) = copy
    <3>1. ~Null(c[to])
      BY Kinds, Sorts DEF Leaf, Null
    <3> QED
      BY <1>1, <3>1 DEF get_side_subtree, getSideHere, copy
  <2> QED
    BY <1>1, <2>1, <2>2 DEF p
<1>8. rest = IF Null(getLeft(c)) /\ Null(getRight(c)) THEN clear(c) ELSE pullHere(c, Other(to))
  <2>1. ~(Null(getLeft(c)) /\ Null(getRight(c)))
    <3>1. c[side] # Nil
      BY Kinds, Sorts
    <3> QED
      BY <1>1, <3>1, SidesOf DEF getLeft, getRight, Null
  <2> QED
    BY <1>1, <2>1
<1> HIDE DEF down, rest
<1>9. /\ r \in Nodes /\ r.word = c.word /\ r.counter = c.counter
      /\ r[to] = down /\ r[Other(to)] = rest
      /\ r.height = 1 + Higher(HeightOr(down), HeightOr(rest))
  <2>1. down \in Trees /\ rest \in Trees /\ t[Other(to)] = c
    BY <1>1, <1>5, <1>6, Sorts
  <2> HIDE DEF r
  <2> QED
    BY <1>1, <1>7, <1>8, <2>1, Rotated DEF r
<1>10. HeightOr(down) = 1 /\ HeightOr(rest) = 1
  BY <1>5, <1>6, DataOfArm, Sorts, Kinds DEF HeightOr, getHeight, Null
<1> HIDE DEF r
<1>11. r.height = 2
  BY <1>9, <1>10 DEF Higher
<1> QED
  BY <1>1, <1>2, <1>5, <1>6, <1>9, <1>11

-----------------------------------------------------------------------------
(* One insertion, at a node. *)

(* One more w, and nothing else. *)
Exact(a, c, w) == /\ HeldWords(c) = HeldWords(a) \cup {w}
                  /\ \A v \in Words : CountIn(c, {v}) = CountIn(a, {v}) + Times(w, 1, {v})

(* What insert makes of an arm, *)
Grown(a, c, w) == /\ Full(c) /\ (c \in Proxies <=> a \in Proxies)
                  /\ Depth(c) \in {Depth(a), Depth(a) + 1}
                  /\ Depth(a) = 0 => Data(c).word = Data(a).word
                  /\ Exact(a, c, w)

Single(n) == n.left \notin Proxies /\ n.right \notin Proxies

(* and of a node. *)
Grew(n, r, w) == /\ r \in Nodes /\ At(r) /\ Arm(r.left) /\ Arm(r.right)
                 /\ Depth(r) \in {Depth(n), Depth(n) + 1}
                 /\ Depth(n) = 0 => r.word = n.word
                 /\ Single(n) => Single(r)
                 /\ Exact(n, r, w)

(* What makes a node of an AVL tree. *)
LEMMA AtMade ==
  ASSUME LateBinding, NEW r \in Nodes, NEW side \in Sides,
         r.word \in Words, r.word # Empty, r.counter # 0,
         NEW i, i = Depth(r[side]), NEW j, j = Depth(r[Other(side)]),
         r.height = 1 + Higher(i, j), i - j \in -1..1,
         \A x \in HeldWords(r[side]) : Aside(x, side, r.word),
         \A x \in HeldWords(r[Other(side)]) : Aside(x, Other(side), r.word)
  PROVE  /\ At(r) /\ Depth(r) = 1 + Higher(i, j)
         /\ HeldWords(r) = HeldWords(r[side]) \cup HeldWords(r[Other(side)]) \cup {r.word}
<1>1. r \in Loose /\ r[side] \in Trees /\ r[Other(side)] \in Trees
  BY Sorts, Fields, SidesOf
<1>2. i \in Nat \cup {-1} /\ j \in Nat \cup {-1}
  BY <1>1, DepthsAre
<1>3. hasWord(r)
  <2>1. r.height > -1
    BY <1>2 DEF Higher
  <2> QED
    BY <1>1, <2>1, HasWordIs
<1>4. \/ r[side] = r.left  /\ r[Other(side)] = r.right
      \/ r[side] = r.right /\ r[Other(side)] = r.left
  BY <1>1, SidesOf
<1>5. Depth(r) = 1 + Higher(Depth(r.left), Depth(r.right))
  BY <1>3, DepthsAre
<1>6. Depth(r) = 1 + Higher(i, j)
  BY <1>2, <1>4, <1>5 DEF Higher
<1>7. Depth(r.left) - Depth(r.right) \in -1..1
  BY <1>2, <1>4
<1>8. \A q \in Sides : \A x \in HeldWords(r[q]) : Aside(x, q, r.word)
  <2>1. \A q \in Sides : q = side \/ q = Other(side)
    BY DEF Sides, Other
  <2> QED
    BY <2>1
<1>9. HeldWords(r) = HeldWords(r[side]) \cup HeldWords(r[Other(side)]) \cup {r.word}
  BY <1>3, HeldAre DEF OwnWord
<1> QED
  BY <1>3, <1>6, <1>7, <1>8, <1>9 DEF At

(* The new node before balance looks at it. *)
LEMMA Updated ==
  ASSUME LateBinding, NEW n \in Nodes, At(n), NEW w \in Words,
         NEW side \in Sides, Arm(n[Other(side)]), NEW c, Grown(n[side], c, w)
  PROVE  LET t == updateHeight([n EXCEPT ![side] = c])
         IN  /\ t \in Nodes /\ t.word = n.word /\ t.counter = n.counter
             /\ t[side] = c /\ t[Other(side)] = n[Other(side)]
             /\ t.height = 1 + Higher(Depth(c), Depth(n[Other(side)]))
<1> DEFINE o == Other(side)
           m == [n EXCEPT ![side] = c]
           t == updateHeight(m)
<1>1. n \in Loose /\ o \in Sides
  BY Sorts, SidesOf
<1>2. c \in Trees /\ HeightOr(c) = Depth(c) /\ Depth(c) \in Nat \cup {-1}
  BY ArmIs DEF Grown, Arm
<1>3. HeightOr(n[o]) = Depth(n[o]) /\ Depth(n[o]) \in Nat \cup {-1}
  BY ArmIs
<1>4. /\ m \in Loose /\ m \in Nodes /\ m.word = n.word /\ m.counter = n.counter
      /\ m[side] = c /\ m[o] = n[o]
  BY <1>1, <1>2, Replaced
<1> HIDE DEF m
<1>5. /\ t \in Loose /\ t \in Nodes /\ t.word = n.word /\ t.counter = n.counter
      /\ t.left = m.left /\ t.right = m.right
      /\ t.height = 1 + Higher(HeightOr(m.left), HeightOr(m.right))
  BY <1>4, UpdateHeightOf, HeightUpdated, Fields
<1> HIDE DEF t
<1>6. t[side] = m[side] /\ t[o] = m[o]
  BY <1>4, <1>5, SidesOf
<1>7. t.height = 1 + Higher(Depth(c), Depth(n[o]))
  <2>1. \/ m.left = c /\ m.right = n[o]
        \/ m.left = n[o] /\ m.right = c
    BY <1>4, SidesOf
  <2> QED
    BY <1>2, <1>3, <1>5, <2>1 DEF Higher
<1> QED
  BY <1>4, <1>5, <1>6, <1>7 DEF m, t

(* No rotation: the subtrees of the new node are near in height. *)
LEMMA GrowStill ==
  ASSUME LateBinding, NEW n \in Nodes, At(n), Arm(n.left), Arm(n.right),
         NEW w \in Words, NEW side \in Sides, Aside(w, side, n.word),
         NEW c, Grown(n[side], c, w),
         Depth(c) - Depth(n[Other(side)]) \in -1..1
  PROVE  Grew(n, balance(updateHeight([n EXCEPT ![side] = c]), w), w)
<1> DEFINE o == Other(side)
           a == n[side]
           b == n[o]
           t == updateHeight([n EXCEPT ![side] = c])
<1>1. /\ n \in Loose /\ o \in Sides /\ Other(o) = side /\ Arm(a) /\ Arm(b)
      /\ Full(c) /\ Arm(c)
  BY Sorts, SidesOf DEF Grown, Arm
<1>2. /\ t \in Nodes /\ t.word = n.word /\ t.counter = n.counter
      /\ t[side] = c /\ t[o] = b /\ t.height = 1 + Higher(Depth(c), Depth(b))
  BY <1>1, Updated
<1> HIDE DEF t
<1>3. t \in Loose
  BY <1>2, Sorts
<1>4. /\ HeightOr(c) = Depth(c) /\ HeightOr(b) = Depth(b)
      /\ Depth(c) \in Nat \cup {-1} /\ Depth(b) \in Nat \cup {-1}
      /\ Depth(a) \in Nat \cup {-1}
  BY <1>1, ArmIs
<1>5. balance(t, w) = t
  <2>1. \/ t.left = c /\ t.right = b
        \/ t.left = b /\ t.right = c
    BY <1>1, <1>2, <1>3, SidesOf
  <2>2. Balance(t) \notin {-2, 2}
    BY <1>4, <2>1 DEF Balance
  <2> QED
    BY <2>2 DEF balance
<1>6. /\ n.word \in Words /\ n.word # Empty /\ n.counter \in Nat /\ n.counter # 0
      /\ HeldWords(n) = HeldWords(a) \cup HeldWords(b) \cup {n.word}
      /\ \A x \in HeldWords(a) : Aside(x, side, n.word)
      /\ \A x \in HeldWords(b) : Aside(x, o, n.word)
      /\ Depth(n) = 1 + Higher(Depth(a), Depth(b))
  BY <1>1, AtSides
<1>7. HeldWords(c) = HeldWords(a) \cup {w} /\ Depth(c) \in {Depth(a), Depth(a) + 1}
  BY DEF Grown, Exact
<1>8. /\ At(t) /\ Depth(t) = 1 + Higher(Depth(c), Depth(b))
      /\ HeldWords(t) = HeldWords(c) \cup HeldWords(b) \cup {t.word}
  <2>1. \A x \in HeldWords(c) : Aside(x, side, n.word)
    BY <1>6, <1>7
  <2> QED
    BY <1>2, <1>6, <2>1, AtMade
<1>9. Depth(t) \in {Depth(n), Depth(n) + 1}
  BY <1>4, <1>6, <1>7, <1>8 DEF Higher
<1>10. ASSUME NEW v \in Words PROVE CountIn(t, {v}) = CountIn(n, {v}) + Times(w, 1, {v})
  <2>1. {v} \in SUBSET Field
    BY DEF Field
  <2>2. /\ CountIn(t, {v}) = CountIn(c, {v}) + CountIn(b, {v}) + Own(t, {v})
        /\ CountIn(n, {v}) = CountIn(a, {v}) + CountIn(b, {v}) + Own(n, {v})
        /\ CountIn(a, {v}) \in Nat /\ CountIn(b, {v}) \in Nat /\ Own(n, {v}) \in Nat
    BY <1>2, <2>1, SideCount
  <2>3. Own(t, {v}) = Own(n, {v})
    BY <1>2 DEF Own
  <2>4. CountIn(c, {v}) = CountIn(a, {v}) + Times(w, 1, {v})
    BY DEF Grown, Exact
  <2>5. Times(w, 1, {v}) \in Nat
    BY TimesIs
  <2> QED
    BY <2>2, <2>3, <2>4, <2>5
<1>11. Exact(n, t, w)
  BY <1>2, <1>6, <1>7, <1>8, <1>10 DEF Exact
<1>12. Arm(t.left) /\ Arm(t.right) /\ (Single(n) => Single(t))
  <2>1. \/ t.left = c /\ t.right = b /\ n.left = a /\ n.right = b
        \/ t.left = b /\ t.right = c /\ n.left = b /\ n.right = a
    BY <1>1, <1>2, <1>3 DEF Sides, Other
  <2>2. c \in Proxies <=> a \in Proxies
    BY DEF Grown
  <2> QED
    BY <1>1, <2>1, <2>2 DEF Single
<1> QED
  BY <1>2, <1>5, <1>8, <1>9, <1>11, <1>12 DEF Grew, t

(* A rotation with nothing on the other side: what has grown was a leaf.   *)
LEMMA GrowStick ==
  ASSUME LateBinding,
         NEW n \in Nodes, At(n), Arm(n.left), Arm(n.right),
         NEW w \in Words, w # Empty, NEW side \in Sides, Aside(w, side, n.word),
         NEW c \in Nodes, Grown(n[side], c, w),
         ~(Depth(c) - Depth(n[Other(side)]) \in -1..1), Depth(n[Other(side)]) = -1
  PROVE  Grew(n, balance(updateHeight([n EXCEPT ![side] = c]), w), w)
<1> DEFINE o == Other(side)
           a == n[side]
           b == n[o]
           t == updateHeight([n EXCEPT ![side] = c])
<1>1. /\ n \in Loose /\ o \in Sides /\ Other(o) = side /\ o # side /\ Arm(a) /\ Arm(b)
      /\ Full(c) /\ Arm(c) /\ Data(c) = c
  BY Sorts, SidesOf, DataOfArm DEF Grown, Arm
<1>2. /\ t \in Nodes /\ t.word = n.word /\ t.counter = n.counter
      /\ t[side] = c /\ t[o] = b /\ t.height = 1 + Higher(Depth(c), Depth(b))
  BY <1>1, Updated
<1> HIDE DEF t
<1>3. /\ n.word \in Words /\ n.word \in Nat /\ n.word # Empty
      /\ n.counter \in Nat /\ n.counter # 0
      /\ HeldWords(n) = HeldWords(a) \cup HeldWords(b) \cup {n.word}
      /\ Depth(n) = 1 + Higher(Depth(a), Depth(b)) /\ Depth(a) - Depth(b) \in -1..1
      /\ Depth(a) \in Nat \cup {-1} /\ Depth(b) \in Nat \cup {-1}
      /\ \A x \in HeldWords(a) : Aside(x, side, n.word)
      /\ \A x \in HeldWords(b) : Aside(x, o, n.word)
      /\ w \in Nat
  BY <1>1, AtSides, WordTreeAssumption
<1>4. HeldWords(c) = HeldWords(a) \cup {w} /\ Depth(c) \in {Depth(a), Depth(a) + 1}
  BY DEF Grown, Exact
<1>5. Depth(c) = Depth(b) + 2 /\ Depth(a) = Depth(b) + 1
  BY <1>3, <1>4
<1>6. At(c) /\ Well(c)
  BY <1>1, ArmIs DEF Full
<1>7. \A x \in HeldWords(c) : Aside(x, side, n.word) /\ x \in Nat
  <2>1. HeldWords(c) \subseteq Nat
    BY <1>1, <1>6, AtSides
  <2> QED
    BY <1>3, <1>4, <2>1
<1>8. Depth(a) = 0 /\ Depth(c) = 1 /\ Depth(n) = 1
  BY <1>3, <1>5 DEF Higher
<1>9. Bare(b)
  BY <1>1, ArmIs
<1>10. HeldWords(a) = {c.word}
  <2>1. Full(a) /\ Data(a) \in Nodes /\ Depth(Data(a)) = 0 /\ Well(Data(a))
        /\ HeldWords(a) = HeldWords(Data(a)) /\ Data(a).word = c.word
    BY <1>1, <1>8, ArmIs DEF Arm, Grown, Full
  <2> QED
    BY <2>1, LeafFound
<1>11. HeldWords(c) = {c.word, w} /\ Depth(c) = 1
  BY <1>4, <1>8, <1>10
<1>12. PICK s \in Sides : /\ Leaf(c[s], w, c[s].counter) /\ c[s].counter \in Nat \ {0}
                          /\ c[Other(s)] = Nil /\ Aside(w, s, c.word)
  BY <1>6, <1>11, Stick
<1> DEFINE k == c[s].counter
           r == balance(t, w)
<1>13. /\ r \in Nodes /\ r.height = 1
       /\ LeafArm(r[o], n.word, n.counter)
       /\ r[o] \in Proxies <=> b \in Proxies
       /\ s = side => /\ r.word = c.word /\ r.counter = c.counter
                      /\ Leaf(r[side], w, k)
       /\ s # side => /\ r.word = w /\ r.counter = k
                      /\ Leaf(r[side], c.word, c.counter)
  BY <1>1, <1>2, <1>3, <1>6, <1>8, <1>9, <1>12, BalanceStick
<1> HIDE DEF r
<1>14. /\ c.word \in Words /\ c.word \in Nat /\ c.word # Empty
       /\ c.counter \in Nat /\ c.counter # 0 /\ k \in Nat /\ k # 0
  BY <1>1, <1>6, <1>12, AtSides
(* x and its count go up, y and its count stay, if they do. *)
<1>15. PICK x \in Nat, i \in Nat, y \in Nat, j \in Nat :
         /\ r.word = x /\ r.counter = i
         /\ Leaf(r[side], y, j)
         /\ i # 0 /\ j # 0 /\ Aside(y, side, x)
         /\ \/ x = c.word /\ i = c.counter /\ y = w /\ j = k
            \/ x = w /\ i = k /\ y = c.word /\ j = c.counter
  <2>1. CASE s = side
    BY <1>3, <1>12, <1>13, <1>14, <2>1
  <2>2. CASE s # side
    <3>1. Other(s) = side
      BY <2>2 DEF Sides, Other
    <3>2. Aside(c.word, side, w)
      BY <1>3, <1>12, <1>14, <3>1, Asides
    <3> QED
      BY <1>3, <1>13, <1>14, <2>2, <3>2
  <2> QED
    BY <2>1, <2>2
<1>16. /\ x \in Words /\ x # Empty /\ y \in Words /\ y # Empty
       /\ Aside(x, side, n.word) /\ Aside(n.word, o, x) /\ x # n.word
  <2>1. x \in HeldWords(c)
    BY <1>4, <1>10, <1>15
  <2>2. Aside(x, side, n.word)
    BY <1>7, <2>1
  <2> QED
    BY <1>3, <1>14, <1>15, <2>2, Asides
<1>17. /\ Arm(r[o]) /\ Depth(r[o]) = 0 /\ HeldWords(r[o]) = {n.word}
       /\ \A ws \in SUBSET Field : CountIn(r[o], ws) = Times(n.word, n.counter, ws)
  BY <1>3, <1>13, LeafArmIs
<1>18. /\ Arm(r[side]) /\ Depth(r[side]) = 0 /\ HeldWords(r[side]) = {y}
       /\ r[side] \in Nodes
       /\ \A ws \in SUBSET Field : CountIn(r[side], ws) = Times(y, j, ws)
  <2>1. Leaf(r[side], y, j) /\ r[side] \in Nodes
    BY <1>15 DEF Leaf
  <2>2. LeafArm(r[side], y, j)
    BY <2>1, DataOfArm DEF LeafArm
  <2> QED
    BY <1>15, <1>16, <2>1, <2>2, LeafArmIs
<1>19. /\ At(r) /\ Depth(r) = 1
       /\ HeldWords(r) = HeldWords(r[side]) \cup HeldWords(r[o]) \cup {r.word}
  <2> DEFINE i1 == Depth(r[side])
             j1 == Depth(r[o])
  <2>1. i1 = 0 /\ j1 = 0
    BY <1>17, <1>18
  <2> HIDE DEF i1, j1
  <2>2. Higher(i1, j1) = 0 /\ i1 - j1 \in -1..1 /\ r.height = 1 + Higher(i1, j1)
    BY <1>13, <2>1 DEF Higher
  <2>3. \A z \in HeldWords(r[side]) : Aside(z, side, r.word)
    BY <1>15, <1>18
  <2>4. \A z \in HeldWords(r[o]) : Aside(z, o, r.word)
    BY <1>15, <1>16, <1>17
  <2>5. /\ r \in Nodes /\ r.word \in Words /\ r.word # Empty /\ r.counter # 0
    BY <1>13, <1>15, <1>16
  <2>6. /\ At(r) /\ Depth(r) = 1 + Higher(i1, j1)
        /\ HeldWords(r) = HeldWords(r[side]) \cup HeldWords(r[o]) \cup {r.word}
    BY <2>2, <2>3, <2>4, <2>5, AtMade DEF i1, j1
  <2> QED
    BY <2>2, <2>6
<1>20. \/ r.left = r[side] /\ r.right = r[o] /\ n.left = a /\ n.right = b
       \/ r.left = r[o] /\ r.right = r[side] /\ n.left = b /\ n.right = a
  BY DEF Sides, Other
<1>21. Arm(r.left) /\ Arm(r.right)
  BY <1>17, <1>18, <1>20
<1>22. Single(n) => Single(r)
  <2>1. r[side] \notin Proxies /\ (b \notin Proxies => r[o] \notin Proxies)
    BY <1>13, <1>18, Sorts
  <2> QED
    BY <1>20, <2>1 DEF Single
<1>23. Exact(n, r, w)
  <2>1. HeldWords(r) = HeldWords(n) \cup {w}
    <3>1. HeldWords(b) = {}
      BY <1>1, <1>9, ArmIs
    <3> QED
      BY <1>3, <1>10, <1>15, <1>17, <1>18, <1>19, <3>1
  <2>2. ASSUME NEW z \in Words PROVE CountIn(r, {z}) = CountIn(n, {z}) + Times(w, 1, {z})
    <3>1. {z} \in SUBSET Field
      BY DEF Field
    <3>2. CountIn(r, {z}) = CountIn(r[side], {z}) + CountIn(r[o], {z}) + Own(r, {z})
      BY <1>13, <3>1, SideCount
    <3>3. /\ CountIn(r[side], {z}) = Times(y, j, {z})
          /\ CountIn(r[o], {z}) = Times(n.word, n.counter, {z})
          /\ Own(r, {z}) = Times(x, i, {z})
      BY <1>15, <1>17, <1>18, <3>1, OwnIs
    <3>4. CountIn(n, {z}) = CountIn(a, {z}) + CountIn(b, {z}) + Times(n.word, n.counter, {z})
      BY <3>1, SideCount, OwnIs
    <3>5. CountIn(b, {z}) = 0
      BY <1>1, <1>9, <3>1, ArmIs
    <3>6. CountIn(c, {z}) = CountIn(a, {z}) + Times(w, 1, {z}) /\ CountIn(a, {z}) \in Nat
      BY <3>1, SideCount DEF Grown, Exact
    <3>7. CountIn(c, {z}) = Times(c.word, c.counter, {z}) + Times(w, k, {z})
      <4>2. /\ CountIn(c, {z}) = CountIn(c[s], {z}) + CountIn(c[Other(s)], {z})
                                 + Times(c.word, c.counter, {z})
            /\ CountIn(c[s], {z}) \in Nat
        BY <3>1, SideCount, OwnIs
      <4>3. CountIn(c[s], {z}) = Times(w, k, {z})
        <5> DEFINE u == c[s]
        <5>1. Leaf(u, w, k) /\ k \in Nat /\ k # 0 /\ w # Empty
          BY <1>3, <1>12, <1>14
        <5> HIDE DEF u, k
        <5>2. \A ws \in SUBSET Field : CountIn(u, ws) = Times(w, k, ws)
          BY <5>1, LeafIs
        <5> QED
          BY <3>1, <5>2 DEF u
      <4>4. CountIn(c[Other(s)], {z}) = 0
        BY <1>12, <3>1, Counting
      <4>5. Times(c.word, c.counter, {z}) \in Nat
        BY <1>14, TimesIs
      <4> QED
        BY <4>2, <4>3, <4>4, <4>5
    <3>8. /\ Times(c.word, c.counter, {z}) \in Nat /\ Times(w, k, {z}) \in Nat
          /\ Times(n.word, n.counter, {z}) \in Nat /\ Times(w, 1, {z}) \in Nat
      BY <1>3, <1>14, TimesIs
    <3>9. Times(x, i, {z}) + Times(y, j, {z}) = Times(c.word, c.counter, {z}) + Times(w, k, {z})
      BY <1>15, <3>8
    <3>10. Times(x, i, {z}) \in Nat /\ Times(y, j, {z}) \in Nat
      BY TimesIs
    <3> QED
      BY <3>2, <3>3, <3>4, <3>5, <3>6, <3>7, <3>8, <3>9, <3>10
  <2> QED
    BY <2>1, <2>2 DEF Exact
<1>24. Depth(n) # 0
  BY <1>8
<1> QED
  BY <1>8, <1>13, <1>19, <1>21, <1>22, <1>23, <1>24 DEF Grew, r, t

(* r is an AVL tree of height h: its k times x, on top of a and b. *)
Joined(r, a, b, x, k, h) ==
  /\ At(r) /\ Arm(r.left) /\ Arm(r.right) /\ Depth(r) = h
  /\ HeldWords(r) = HeldWords(a) \cup HeldWords(b) \cup {x}
  /\ \A ws \in SUBSET Field : /\ CountIn(r, ws) = CountIn(a, ws) + CountIn(b, ws)
                                                  + Times(x, k, ws)
                              /\ CountIn(a, ws) \in Nat /\ CountIn(b, ws) \in Nat

(* What a node with two children, by sides, is an AVL tree of. *)
LEMMA TwoArms ==
  ASSUME LateBinding, NEW r \in Nodes, NEW side \in Sides, NEW o \in Sides, o = Other(side),
         NEW x \in Words, x # Empty, r.word = x, NEW k \in Nat, k # 0, r.counter = k,
         Arm(r[side]), Arm(r[o]),
         NEW i \in Nat, NEW j \in Nat \cup {-1}, Depth(r[side]) = i, Depth(r[o]) = j,
         i - j \in 0..1, r.height = i + 1,
         \A y \in HeldWords(r[side]) : Aside(y, side, x),
         \A y \in HeldWords(r[o]) : Aside(y, o, x)
  PROVE  Joined(r, r[side], r[o], x, k, i + 1)
<1>1. Higher(i, j) = i /\ i - j \in -1..1
  BY DEF Higher
<1>2. At(r) /\ Depth(r) = 1 + Higher(i, j)
      /\ HeldWords(r) = HeldWords(r[side]) \cup HeldWords(r[o]) \cup {r.word}
  BY <1>1, AtMade
<1>3. Arm(r.left) /\ Arm(r.right)
  BY SidesOf, Sorts
<1>4. ASSUME NEW ws \in SUBSET Field
      PROVE  /\ CountIn(r, ws) = CountIn(r[side], ws) + CountIn(r[o], ws) + Times(x, k, ws)
             /\ CountIn(r[side], ws) \in Nat /\ CountIn(r[o], ws) \in Nat
  BY SideCount, OwnIs
<1> QED
  BY <1>1, <1>2, <1>3, <1>4 DEF Joined

(* The shape that the carrying rotation finds below a node with a leaf on  *)
(* the other side, by its words.                                           *)
LEMMA CarryFound ==
  ASSUME LateBinding, NEW c \in Nodes, Well(c), Depth(c) = 2,
         NEW side \in Sides, NEW o \in Sides, o = Other(side), side = Other(o),
         Depth(c[o]) = 0, Null(c[side].left)
  PROVE  LET in  == c[o]
             out == c[side]
             far == out.right
         IN  /\ Leaf(in, in.word, in.counter) /\ in.word \in Words /\ in.word # Empty
             /\ in.counter \in Nat /\ in.counter # 0
             /\ out \in Nodes /\ Well(out) /\ At(out) /\ out.left = Nil
             /\ Leaf(far, far.word, far.counter) /\ far.word \in Words /\ far.word # Empty
             /\ far.counter \in Nat /\ far.counter # 0
             /\ HeldWords(c) = {in.word, c.word, out.word, far.word}
             /\ \A ws \in SUBSET Field :
                  CountIn(c, ws) = Times(c.word, c.counter, ws) + Times(in.word, in.counter, ws)
                    + (Times(out.word, out.counter, ws) + Times(far.word, far.counter, ws))
<1> DEFINE in  == c[o]
           out == c[side]
           far == out.right
<1>1. /\ in \in Nodes /\ Well(in) /\ Depth(in) = 0
  BY SubtreeOfWell
<1>2. /\ Leaf(in, in.word, in.counter) /\ HeldWords(in) = {in.word}
      /\ in.word \in Words /\ in.word # Empty /\ in.counter \in Nat /\ in.counter # 0
      /\ \A ws \in SUBSET Field : CountIn(in, ws) = Times(in.word, in.counter, ws)
  BY <1>1, LeafFound
<1>3. /\ Depth(out) = 1 /\ At(c)
      /\ HeldWords(c) = HeldWords(out) \cup HeldWords(in) \cup {c.word}
  <2>1. At(c) /\ Depth(in) = 0
    BY <1>1, WellIs
  <2>2. /\ Depth(c) = 1 + Higher(Depth(out), Depth(in)) /\ Depth(out) \in Nat \cup {-1}
        /\ HeldWords(c) = HeldWords(out) \cup HeldWords(in) \cup {c.word}
    BY <2>1, AtSides
  <2> HIDE DEF in, out
  <2>3. Depth(out) = 1
    BY <2>1, <2>2 DEF Higher
  <2> QED
    BY <2>1, <2>2, <2>3
<1>4. out \in Nodes /\ Well(out)
  BY <1>3, SubtreeOfWell
<1> HIDE DEF in, out
<1>5. At(out) /\ out.left = Nil
  BY <1>4, WellIs DEF Null, out
<1>6. /\ Depth(far) = 0 /\ HeldWords(out) = HeldWords(far) \cup {out.word}
  <2>1. "right" \in Sides /\ Other("right") = "left"
    BY DEF Sides, Other
  <2>2. Depth(out) = 1 + Higher(Depth(out["right"]), Depth(out["left"]))
        /\ Depth(out["right"]) \in Nat \cup {-1}
        /\ HeldWords(out) = HeldWords(out["right"]) \cup HeldWords(out["left"]) \cup {out.word}
    BY <1>4, <1>5, <2>1, AtSides
  <2>3. Depth(Nil) = -1 /\ HeldWords(Nil) = {}
    BY DepthsAre, HeldAre
  <2> QED
    BY <1>3, <1>5, <2>2, <2>3 DEF Higher
<1>7. far \in Nodes /\ Well(far)
  <2>1. "right" \in Sides
    BY DEF Sides
  <2>2. Depth(out["right"]) # -1
    BY <1>6
  <2>3. out["right"] \in Nodes /\ Well(out["right"])
    BY <1>4, <2>1, <2>2, SubtreeOfWell
  <2> QED
    BY <2>3
<1>8. /\ Leaf(far, far.word, far.counter) /\ HeldWords(far) = {far.word}
      /\ far.word \in Words /\ far.word # Empty /\ far.counter \in Nat /\ far.counter # 0
      /\ \A ws \in SUBSET Field : CountIn(far, ws) = Times(far.word, far.counter, ws)
  BY <1>6, <1>7, LeafFound
<1>9. HeldWords(c) = {in.word, c.word, out.word, far.word}
  BY <1>2, <1>3, <1>6, <1>8
<1>10. ASSUME NEW ws \in SUBSET Field
       PROVE  CountIn(c, ws) = Times(c.word, c.counter, ws) + Times(in.word, in.counter, ws)
                + (Times(out.word, out.counter, ws) + Times(far.word, far.counter, ws))
  <2>1. /\ CountIn(c, ws) = CountIn(out, ws) + CountIn(in, ws) + Times(c.word, c.counter, ws)
        /\ CountIn(out, ws) \in Nat /\ CountIn(in, ws) \in Nat
    BY SideCount, OwnIs DEF in, out
  <2>2. /\ CountIn(out, ws) = CountIn(Nil, ws) + CountIn(far, ws) + Times(out.word, out.counter, ws)
        /\ CountIn(Nil, ws) = 0
    BY <1>4, <1>5, Counting, OwnIs
  <2> HIDE DEF far
  <2>3. CountIn(in, ws) = Times(in.word, in.counter, ws)
    BY <1>2
  <2>4. CountIn(far, ws) = Times(far.word, far.counter, ws)
    BY <1>8
  <2>5. /\ Times(c.word, c.counter, ws) \in Nat /\ Times(out.word, out.counter, ws) \in Nat
        /\ Times(in.word, in.counter, ws) \in Nat /\ Times(far.word, far.counter, ws) \in Nat
    <3>1. c.counter \in Nat /\ out.counter \in Nat
      BY <1>4, Fields
    <3> QED
      BY <1>2, <1>8, <3>1, TimesIs
  <2> QED
    BY <2>1, <2>2, <2>3, <2>4, <2>5
<1> QED
  BY <1>2, <1>4, <1>5, <1>8, <1>9, <1>10 DEF in, out

(* Two trees of height one, joined. *)
LEMMA EvenArms ==
  ASSUME LateBinding, NEW r \in Nodes, r.height = 2,
         NEW side \in Sides, NEW o \in Sides, o = Other(side),
         NEW u \in Words, u # Empty, r.word = u, NEW e \in Nat, e # 0, r.counter = e,
         NEW q, r[side] = q, Arm(q), Depth(q) = 1,
         NEW p, r[o] = p, Arm(p), Depth(p) = 1,
         \A s \in HeldWords(q) : Aside(s, side, u),
         \A s \in HeldWords(p) : Aside(s, o, u)
  PROVE  Joined(r, q, p, u, e, 2)
<1> DEFINE one == 1
<1>1. /\ one \in Nat /\ one \in Nat \cup {-1} /\ one - one \in 0..1
      /\ r.height = one + 1 /\ Depth(r[side]) = one /\ Depth(r[o]) = one /\ one + 1 = 2
  OBVIOUS
<1> HIDE DEF one
<1>2. Joined(r, r[side], r[o], u, e, one + 1)
  BY <1>1, TwoArms
<1> QED
  BY <1>1, <1>2

(* What the carrying rotation makes is an AVL tree of the six words. *)
LEMMA CarryMade ==
  ASSUME LateBinding, NEW r \in Nodes,
         NEW side \in Sides, NEW o \in Sides, o = Other(side), side = Other(o),
         NEW u \in Words, u # Empty, NEW e \in Nat, e # 0,
         r.word = u, r.counter = e, r.height = 2,
         NEW p \in Nodes \cup Proxies, r[o] = p, NEW d \in Nodes, d = Data(p),
         NEW v \in Words, v # Empty, NEW m \in Nat, m # 0,
         d.word = v, d.counter = m, d.height = 1,
         NEW k \in Words, k # Empty, NEW i \in Nat, i # 0, Leaf(d[o], k, i),
         NEW x \in Words, x # Empty, NEW j \in Nat, j # 0, Leaf(d[side], x, j),
         NEW q \in Nodes, r[side] = q,
         NEW y \in Words, y # Empty, NEW h \in Nat, h # 0,
         q.word = y, q.counter = h, q.height = 1, q.left = Nil,
         NEW z \in Words, z # Empty, NEW l \in Nat, l # 0, Leaf(q.right, z, l),
         Aside(k, o, v), Aside(x, side, v), Aside(z, "right", y),
         \A s \in {v, k, x} : Aside(s, o, u), \A s \in {y, z} : Aside(s, side, u)
  PROVE  /\ At(r) /\ Arm(r.left) /\ Arm(r.right) /\ Depth(r) = 2
         /\ HeldWords(r) = {u, v, k, x, y, z}
         /\ \A ws \in SUBSET Field :
              CountIn(r, ws) = Times(u, e, ws)
                               + (Times(v, m, ws) + Times(k, i, ws) + Times(x, j, ws))
                               + (Times(y, h, ws) + Times(z, l, ws))
<1>1. ASSUME NEW f, NEW s \in Words, s # Empty, NEW c \in Nat, c # 0, Leaf(f, s, c)
      PROVE  /\ f \in Nodes /\ f \notin Proxies /\ Arm(f) /\ Depth(f) = 0 /\ HeldWords(f) = {s}
             /\ \A ws \in SUBSET Field : CountIn(f, ws) = Times(s, c, ws)
  <2>1. f \in Nodes /\ Data(f) = f /\ f \notin Proxies
    BY <1>1, DataOfArm, Sorts DEF Leaf
  <2>2. Well(f) /\ Depth(f) = 0 /\ HeldWords(f) = {s}
        /\ \A ws \in SUBSET Field : CountIn(f, ws) = Times(s, c, ws)
    BY <1>1, LeafIs
  <2> QED
    BY <2>1, <2>2 DEF Arm, Full
<1>2. /\ Arm(d[o]) /\ Depth(d[o]) = 0 /\ HeldWords(d[o]) = {k} /\ d[o] \notin Proxies
      /\ \A ws \in SUBSET Field : CountIn(d[o], ws) = Times(k, i, ws)
  BY <1>1
<1>3. /\ Arm(d[side]) /\ Depth(d[side]) = 0 /\ HeldWords(d[side]) = {x} /\ d[side] \notin Proxies
      /\ \A ws \in SUBSET Field : CountIn(d[side], ws) = Times(x, j, ws)
  <2> DEFINE f == d[side]
  <2>1. Leaf(f, x, j)
    OBVIOUS
  <2> HIDE DEF f
  <2>2. /\ Arm(f) /\ Depth(f) = 0 /\ HeldWords(f) = {x} /\ f \notin Proxies
        /\ \A ws \in SUBSET Field : CountIn(f, ws) = Times(x, j, ws)
    BY <1>1, <2>1
  <2> QED
    BY <2>2 DEF f
<1>4. /\ Arm(q.right) /\ Depth(q.right) = 0 /\ HeldWords(q.right) = {z} /\ q.right \notin Proxies
      /\ \A ws \in SUBSET Field : CountIn(q.right, ws) = Times(z, l, ws)
  BY <1>1
<1>5. /\ Arm(Nil) /\ Depth(Nil) = -1 /\ HeldWords(Nil) = {} /\ Nil \notin Proxies
      /\ \A ws \in SUBSET Field : CountIn(Nil, ws) = 0
  BY DepthsAre, HeldAre, Counting, Sorts, Kinds DEF Arm, Bare
<1>6. /\ At(d) /\ Arm(d.left) /\ Arm(d.right) /\ Depth(d) = 1 /\ HeldWords(d) = {k, x, v}
      /\ \A ws \in SUBSET Field :
           CountIn(d, ws) = Times(v, m, ws) + Times(k, i, ws) + Times(x, j, ws)
  <2> DEFINE nil == 0
  <2>1. /\ nil \in Nat /\ nil \in Nat \cup {-1} /\ nil - nil \in 0..1 /\ d.height = nil + 1
        /\ Depth(d[o]) = nil /\ Depth(d[side]) = nil
        /\ \A s \in HeldWords(d[o]) : Aside(s, o, v)
        /\ \A s \in HeldWords(d[side]) : Aside(s, side, v)
    BY <1>2, <1>3
  <2> HIDE DEF nil
  <2>2. /\ At(d) /\ Arm(d.left) /\ Arm(d.right) /\ Depth(d) = nil + 1
        /\ HeldWords(d) = HeldWords(d[o]) \cup HeldWords(d[side]) \cup {v}
        /\ \A ws \in SUBSET Field :
             CountIn(d, ws) = CountIn(d[o], ws) + CountIn(d[side], ws) + Times(v, m, ws)
    <3>1. Joined(d, d[o], d[side], v, m, nil + 1)
      BY <1>2, <1>3, <2>1, TwoArms
    <3> QED
      BY <3>1 DEF Joined
  <2>3. ASSUME NEW ws \in SUBSET Field
        PROVE  CountIn(d, ws) = Times(v, m, ws) + Times(k, i, ws) + Times(x, j, ws)
    BY <1>2, <1>3, <2>2, TimesIs
  <2> QED
    BY <1>2, <1>3, <2>2, <2>3 DEF nil
<1>7. /\ At(q) /\ Arm(q.left) /\ Arm(q.right) /\ Depth(q) = 1 /\ HeldWords(q) = {y, z}
      /\ \A ws \in SUBSET Field : CountIn(q, ws) = Times(y, h, ws) + Times(z, l, ws)
  <2> DEFINE nil == 0
             R == "right"
             L == "left"
  <2>1. /\ nil \in Nat /\ -1 \in Nat \cup {-1} /\ nil - (-1) \in 0..1 /\ q.height = nil + 1
        /\ Depth(q[R]) = nil /\ Depth(q[L]) = -1 /\ Arm(q[R]) /\ Arm(q[L])
        /\ \A s \in HeldWords(q[R]) : Aside(s, R, y)
        /\ \A s \in HeldWords(q[L]) : Aside(s, L, y)
        /\ R \in Sides /\ L \in Sides /\ L = Other(R)
    BY <1>4, <1>5 DEF Sides, Other
  <2>2. q[R] = q.right /\ q[L] = Nil
    OBVIOUS
  <2> HIDE DEF nil, R, L
  <2>3. /\ At(q) /\ Arm(q.left) /\ Arm(q.right) /\ Depth(q) = nil + 1
        /\ HeldWords(q) = HeldWords(q[R]) \cup HeldWords(q[L]) \cup {y}
        /\ \A ws \in SUBSET Field :
             CountIn(q, ws) = CountIn(q[R], ws) + CountIn(q[L], ws) + Times(y, h, ws)
    <3>1. Joined(q, q[R], q[L], y, h, nil + 1)
      BY <2>1, TwoArms
    <3> QED
      BY <3>1 DEF Joined
  <2>4. ASSUME NEW ws \in SUBSET Field
        PROVE  CountIn(q, ws) = Times(y, h, ws) + Times(z, l, ws)
    BY <1>4, <1>5, <2>2, <2>3, TimesIs
  <2> QED
    BY <1>4, <1>5, <2>2, <2>3, <2>4 DEF nil
<1>8. Well(d) /\ Well(q)
  <2>1. d.left \notin Proxies /\ d.right \notin Proxies
    BY <1>2, <1>3, SidesOf, Sorts
  <2> QED
    BY <1>4, <1>5, <1>6, <1>7, <2>1, WellArms
<1>9. /\ Arm(p) /\ Depth(p) = 1 /\ HeldWords(p) = {k, x, v}
      /\ \A ws \in SUBSET Field : CountIn(p, ws) = CountIn(d, ws)
  <2>1. Full(p) /\ Arm(p)
    BY <1>8 DEF Full, Arm
  <2> QED
    BY <1>6, <2>1, ArmIs
<1>10. Arm(q)
  BY <1>8, DataOfArm DEF Full, Arm
<1>11. Joined(r, q, p, u, e, 2)
  <2>1. /\ \A s \in HeldWords(p) : Aside(s, o, u)
        /\ \A s \in HeldWords(q) : Aside(s, side, u)
    BY <1>7, <1>9
  <2>2. Depth(q) = 1 /\ Depth(p) = 1 /\ Arm(q) /\ Arm(p)
    BY <1>7, <1>9, <1>10
  <2> QED
    BY <2>1, <2>2, EvenArms
<1>12. HeldWords(r) = {u, v, k, x, y, z}
  BY <1>7, <1>9, <1>11 DEF Joined
<1>13. ASSUME NEW ws \in SUBSET Field
       PROVE  CountIn(r, ws) = Times(u, e, ws)
                               + (Times(v, m, ws) + Times(k, i, ws) + Times(x, j, ws))
                               + (Times(y, h, ws) + Times(z, l, ws))
  <2>1. /\ CountIn(r, ws) = CountIn(q, ws) + CountIn(d, ws) + Times(u, e, ws)
        /\ CountIn(q, ws) = Times(y, h, ws) + Times(z, l, ws)
        /\ CountIn(d, ws) = Times(v, m, ws) + Times(k, i, ws) + Times(x, j, ws)
    BY <1>6, <1>7, <1>9, <1>11 DEF Joined
  <2>2. /\ Times(u, e, ws) \in Nat /\ Times(v, m, ws) \in Nat /\ Times(k, i, ws) \in Nat
        /\ Times(x, j, ws) \in Nat /\ Times(y, h, ws) \in Nat /\ Times(z, l, ws) \in Nat
    BY TimesIs
  <2> QED
    BY <2>1, <2>2
<1> QED
  BY <1>11, <1>12, <1>13 DEF Joined

(* A rotation that carries a leaf to the other side. *)
LEMMA GrowCarry ==
  ASSUME LateBinding,
         NEW n \in Nodes, At(n), Arm(n.left), Arm(n.right),
         NEW w \in Words, w # Empty,
         NEW side \in Sides, NEW o \in Sides, o = Other(side), side = Other(o),
         Aside(w, side, n.word),
         NEW c \in Nodes, Grown(n[side], c, w),
         NEW t, t = updateHeight([n EXCEPT ![side] = c]), ~ChildFirst(t, w),
         ~(Depth(c) - Depth(n[o]) \in -1..1), Depth(n[o]) = 0,
         Depth(c[o]) = 0, Null(c[side].left)
  PROVE  Grew(n, balance(t, w), w)
<1> DEFINE a   == n[side]
           b   == n[o]
           v   == n.word
           m   == n.counter
           u   == c.word
           e   == c.counter
<1>1. /\ n \in Loose /\ Arm(a) /\ Arm(b) /\ Full(c) /\ Arm(c) /\ Data(c) = c
  BY Sorts, SidesOf, DataOfArm DEF Grown, Arm
<1>2. t \in Nodes /\ t.word = v /\ t.counter = m /\ t[side] = c /\ t[o] = b /\ t \in Loose
  BY <1>1, Updated, Sorts
<1>3. /\ v \in Words /\ v \in Nat /\ v # Empty /\ m \in Nat /\ m # 0
      /\ HeldWords(n) = HeldWords(a) \cup HeldWords(b) \cup {v}
      /\ Depth(n) = 1 + Higher(Depth(a), Depth(b)) /\ Depth(a) - Depth(b) \in -1..1
      /\ Depth(a) \in Nat \cup {-1} /\ Depth(b) \in Nat \cup {-1}
      /\ \A s \in HeldWords(a) : Aside(s, side, v)
      /\ \A s \in HeldWords(b) : Aside(s, o, v)
  BY <1>1, AtSides
<1>4. HeldWords(c) = HeldWords(a) \cup {w} /\ Depth(c) \in {Depth(a), Depth(a) + 1}
  BY DEF Grown, Exact
<1>5. Depth(c) = 2 /\ Depth(n) = 2
  BY <1>3, <1>4 DEF Higher
<1>6. /\ At(c) /\ Well(c) /\ HeightOr(c) = 2 /\ HeightOr(b) = 0
      /\ c.left \notin Proxies /\ c.right \notin Proxies
  <2>1. At(c) /\ Well(c) /\ HeightOr(c) = 2 /\ HeightOr(b) = 0
    BY <1>1, <1>5, ArmIs DEF Full
  <2> QED
    BY <2>1, WellIs
<1>7. Balance(t) = IF side = "right" THEN 2 ELSE -2
  <2>1. CASE side = "right"
    <3>1. t.right = c /\ t.left = b
      BY <1>2, <2>1 DEF Other
    <3> HIDE DEF a, b, v, m, u, e
    <3> QED
      BY <1>6, <2>1, <3>1 DEF Balance
  <2>2. CASE side = "left"
    <3>1. t.left = c /\ t.right = b
      BY <1>2, <2>2 DEF Other
    <3> HIDE DEF a, b, v, m, u, e
    <3> QED
      BY <1>6, <2>2, <3>1 DEF Balance
  <2> QED
    BY <2>1, <2>2 DEF Sides
<1>8. PICK k \in Words, i \in Nat :
        /\ k # Empty /\ i # 0 /\ LeafArm(b, k, i) /\ HeldWords(b) = {k}
        /\ \A ws \in SUBSET Field : CountIn(b, ws) = Times(k, i, ws)
  <2> DEFINE d == Data(b)
  <2>1. /\ Full(b) /\ b \in Nodes \cup Proxies /\ Well(d) /\ d \in Nodes /\ Depth(d) = 0
        /\ HeldWords(b) = HeldWords(d)
        /\ \A ws \in SUBSET Field : CountIn(b, ws) = CountIn(d, ws)
    BY <1>1, ArmIs DEF Arm, Full
  <2> HIDE DEF d
  <2>2. /\ Leaf(d, d.word, d.counter) /\ HeldWords(d) = {d.word}
        /\ d.word \in Words /\ d.word # Empty /\ d.counter \in Nat /\ d.counter # 0
        /\ \A ws \in SUBSET Field : CountIn(d, ws) = Times(d.word, d.counter, ws)
    BY <2>1, LeafFound
  <2>3. LeafArm(b, d.word, d.counter)
    BY <2>1, <2>2 DEF LeafArm, d
  <2> QED
    BY <2>1, <2>2, <2>3
<1> DEFINE in  == c[o]
           out == c[side]
           far == out.right
           x   == in.word
           j   == in.counter
           y   == out.word
           h   == out.counter
           z   == far.word
           l   == far.counter
<1>9. /\ Leaf(in, x, j) /\ x \in Words /\ x # Empty /\ j \in Nat /\ j # 0
      /\ out \in Nodes /\ Well(out) /\ At(out) /\ out.left = Nil
      /\ Leaf(far, z, l) /\ z \in Words /\ z # Empty /\ l \in Nat /\ l # 0
      /\ HeldWords(c) = {x, u, y, z}
      /\ \A ws \in SUBSET Field :
           CountIn(c, ws) = Times(u, e, ws) + Times(x, j, ws) + (Times(y, h, ws) + Times(z, l, ws))
  BY <1>5, <1>6, CarryFound
<1>10. /\ u \in Words /\ u # Empty /\ e \in Nat /\ e # 0
       /\ \A s \in HeldWords(in) : Aside(s, o, u)
       /\ \A s \in HeldWords(out) : Aside(s, side, u)
  BY <1>6, AtSides
<1>11. /\ y \in Words /\ y # Empty /\ h \in Nat /\ h # 0 /\ y \in HeldWords(out)
       /\ \A s \in HeldWords(far) : Aside(s, "right", y) /\ s \in HeldWords(out)
  <2>1. "right" \in Sides
    BY DEF Sides
  <2>2. /\ y \in Words /\ y # Empty /\ h \in Nat /\ h # 0 /\ y \in HeldWords(out)
        /\ HeldWords(out["right"]) \subseteq HeldWords(out)
        /\ \A s \in HeldWords(out["right"]) : Aside(s, "right", y)
    BY <1>9, <2>1, AtSides
  <2> QED
    BY <2>2
<1>12. x \in HeldWords(in) /\ z \in HeldWords(far)
  <2>1. \A f, s, g : Leaf(f, s, g) /\ s \in Words /\ s # Empty /\ g \in Nat /\ g # 0
                     => s \in HeldWords(f)
    BY LeafIs
  <2> QED
    BY <1>9, <2>1
<1> HIDE DEF in, out, far, x, j, y, h, z, l, a, b, v, m, u, e
(* The words are where they should be. *)
<1>13. /\ Aside(k, o, v) /\ Aside(x, side, v) /\ Aside(z, "right", y)
       /\ \A s \in {v, k, x} : Aside(s, o, u)
       /\ \A s \in {y, z} : Aside(s, side, u)
  <2>1. \A s \in HeldWords(c) : Aside(s, side, v)
    BY <1>3, <1>4 DEF v
  <2>2. Aside(k, o, v) /\ Aside(x, side, v) /\ Aside(u, side, v)
    BY <1>3, <1>8, <1>9, <2>1
  <2>3. u \in Nat /\ k \in Nat
    BY <1>8, <1>10, WordTreeAssumption
  <2>4. Aside(v, o, u)
    BY <1>3, <2>2, <2>3, Asides
  <2>5. Aside(k, o, u)
    BY <1>3, <2>2, <2>3, <2>4, Asides
  <2> QED
    BY <1>10, <1>11, <1>12, <2>2, <2>4, <2>5
<1> DEFINE r == balance(t, w)
           p == r[o]
           d == Data(p)
           q == r[side]
<1>14. /\ r \in Nodes /\ r.word = u /\ r.counter = e /\ r.height = 2
       /\ p \in Nodes \cup Proxies /\ (p \in Proxies <=> b \in Proxies)
       /\ d \in Nodes /\ d.word = v /\ d.counter = m /\ d.height = 1
       /\ Leaf(d[o], k, i) /\ Leaf(d[side], x, j)
       /\ q \in Nodes /\ q.word = y /\ q.counter = h /\ q.height = 1
       /\ q.left = Nil /\ Leaf(q.right, z, l)
  <2>1. v \in Field /\ x \in Field /\ z \in Field
    BY <1>3, <1>9 DEF Field
  <2>2. t.word = v /\ t.counter = m /\ b = t[o] /\ c = t[side] /\ Leaf(c[o], x, j)
        /\ out = c[side] /\ Leaf(out.right, z, l) /\ y = out.word /\ h = out.counter
        /\ u = c.word /\ e = c.counter
    BY <1>2, <1>9 DEF in, out, far, y, h, u, e
  <2> QED
    BY <1>2, <1>3, <1>6, <1>7, <1>8, <1>9, <2>1, <2>2, BalanceCarry
<1> HIDE DEF r, p, d, q
<1>15. /\ At(r) /\ Arm(r.left) /\ Arm(r.right) /\ Depth(r) = 2
       /\ HeldWords(r) = {u, v, k, x, y, z}
       /\ \A ws \in SUBSET Field :
            CountIn(r, ws) = Times(u, e, ws) + (Times(v, m, ws) + Times(k, i, ws) + Times(x, j, ws))
                             + (Times(y, h, ws) + Times(z, l, ws))
  <2>1. r[o] = p /\ r[side] = q /\ d = Data(p)
    BY DEF p, q, d
  <2> QED
    BY <1>3, <1>8, <1>9, <1>10, <1>11, <1>13, <1>14, <2>1, CarryMade
<1>16. Single(n) => Single(r)
  <2>1. r \in Loose /\ q \notin Proxies /\ (b \notin Proxies => p \notin Proxies)
    BY <1>14, Sorts
  <2>2. \/ r.left = q /\ r.right = p /\ n.left = a /\ n.right = b
        \/ r.left = p /\ r.right = q /\ n.left = b /\ n.right = a
    BY DEF Sides, Other, p, q, a, b
  <2> QED
    BY <2>1, <2>2 DEF Single
<1>17. HeldWords(r) = HeldWords(n) \cup {w}
  <2>1. HeldWords(n) \cup {w} = HeldWords(c) \cup {k, v}
    BY <1>3, <1>4, <1>8 DEF a
  <2> QED
    BY <1>9, <1>15, <2>1
<1>18. ASSUME NEW s \in Words PROVE CountIn(r, {s}) = CountIn(n, {s}) + Times(w, 1, {s})
  <2> DEFINE ws == {s}
  <2>1. ws \in SUBSET Field
    BY DEF Field
  <2>2. CountIn(c, ws) = CountIn(n[side], ws) + Times(w, 1, ws)
    BY DEF Grown, Exact
  <2> HIDE DEF ws
  <2>3. /\ CountIn(n, ws) = CountIn(n[side], ws) + CountIn(n[o], ws) + Times(v, m, ws)
        /\ CountIn(n[side], ws) \in Nat
    BY <2>1, SideCount, OwnIs DEF v, m
  <2>4. /\ CountIn(c, ws) = Times(u, e, ws) + Times(x, j, ws) + (Times(y, h, ws) + Times(z, l, ws))
        /\ CountIn(n[o], ws) = Times(k, i, ws)
        /\ CountIn(r, ws) = Times(u, e, ws) + (Times(v, m, ws) + Times(k, i, ws) + Times(x, j, ws))
                            + (Times(y, h, ws) + Times(z, l, ws))
    BY <1>8, <1>9, <1>15, <2>1 DEF b
  <2>5. /\ Times(u, e, ws) \in Nat /\ Times(v, m, ws) \in Nat /\ Times(k, i, ws) \in Nat
        /\ Times(x, j, ws) \in Nat /\ Times(y, h, ws) \in Nat /\ Times(z, l, ws) \in Nat
        /\ Times(w, 1, ws) \in Nat
    BY <1>3, <1>8, <1>9, <1>10, <1>11, TimesIs
  <2>6. CountIn(r, ws) = CountIn(n, ws) + Times(w, 1, ws)
    BY <2>2, <2>3, <2>4, <2>5
  <2> QED
    BY <2>6 DEF ws
<1>19. Exact(n, r, w)
  BY <1>17, <1>18 DEF Exact
<1>20. Grew(n, r, w)
  BY <1>5, <1>14, <1>15, <1>16, <1>19 DEF Grew
<1> QED
  BY <1>20 DEF r

(* A light rotation is one or the other. *)
LEMMA GrowTurned ==
  ASSUME LateBinding,
         NEW n \in Nodes, At(n), Arm(n.left), Arm(n.right),
         NEW w \in Words, w # Empty, NEW side \in Sides, Aside(w, side, n.word),
         NEW c, Grown(n[side], c, w),
         ~(Depth(c) - Depth(n[Other(side)]) \in -1..1),
         LightTurn(updateHeight([n EXCEPT ![side] = c]), w)
  PROVE  Grew(n, balance(updateHeight([n EXCEPT ![side] = c]), w), w)
<1> DEFINE o == Other(side)
           b == n[o]
           t == updateHeight([n EXCEPT ![side] = c])
<1>1. /\ n \in Loose /\ o \in Sides /\ side = Other(o) /\ o # side /\ Arm(n[side]) /\ Arm(b)
      /\ Full(c) /\ Arm(c)
  BY Sorts, SidesOf DEF Grown, Arm
<1>2. t \in Nodes /\ t[side] = c /\ t[o] = b /\ t \in Loose
  BY <1>1, Updated, Sorts
<1> HIDE DEF t
<1>3. Depth(c) = Depth(b) + 2 /\ Depth(b) \in Nat \cup {-1}
  <2>1. /\ Depth(n[side]) - Depth(b) \in -1..1
        /\ Depth(n[side]) \in Nat \cup {-1} /\ Depth(b) \in Nat \cup {-1}
    BY AtSides
  <2>2. Depth(c) \in {Depth(n[side]), Depth(n[side]) + 1}
    BY DEF Grown
  <2> HIDE DEF b
  <2> QED
    BY <2>1, <2>2 DEF b
<1>4. Balance(t) = IF side = "right" THEN 2 ELSE -2
  <2>1. HeightOr(c) = Depth(c) /\ HeightOr(b) = Depth(b)
    BY <1>1, ArmIs
  <2>2. CASE side = "right"
    <3>1. t.right = c /\ t.left = b
      BY <1>2, <2>2 DEF Other
    <3> HIDE DEF b
    <3> QED
      BY <1>3, <2>1, <2>2, <3>1 DEF Balance
  <2>3. CASE side = "left"
    <3>1. t.left = c /\ t.right = b
      BY <1>2, <2>3 DEF Other
    <3> HIDE DEF b
    <3> QED
      BY <1>3, <2>1, <2>3, <3>1 DEF Balance
  <2> QED
    BY <2>2, <2>3 DEF Sides
<1>5. /\ (IF Balance(t) = 2 THEN "left" ELSE "right") = o /\ Balance(t) \in {-2, 2}
      /\ t[Other(o)] = c
  BY <1>1, <1>2, <1>4 DEF Sides, Other
<1>6. /\ ~IsProxy(c)
      /\ \/ Depth(t[o]) = -1
         \/ /\ Depth(t[o]) = 0 /\ ~ChildFirst(t, w)
            /\ Depth(c[o]) = 0 /\ Null(c[side].left)
  <2>1. LightTurn(t, w)
    BY DEF t
  <2> HIDE DEF o
  <2> QED
    BY <1>1, <1>5, <2>1 DEF LightTurn
<1>7. c \in Nodes
  BY <1>1, <1>6, Sorts DEF Full
<1>8. CASE Depth(b) = -1
  BY <1>7, <1>8, GrowStick
<1>9. CASE Depth(b) # -1
  <2>1. /\ Depth(n[o]) = 0 /\ ~ChildFirst(t, w) /\ Depth(c[o]) = 0 /\ Null(c[side].left)
        /\ t = updateHeight([n EXCEPT ![side] = c]) /\ ~(Depth(c) - Depth(n[o]) \in -1..1)
    BY <1>2, <1>6, <1>9 DEF t
  <2> HIDE DEF o, b
  <2>2. o = Other(side)
    BY DEF o
  <2>3. Grew(n, balance(t, w), w)
    BY <1>1, <1>7, <2>1, <2>2, GrowCarry
  <2> QED
    BY <2>3 DEF t
<1> QED
  BY <1>8, <1>9

-----------------------------------------------------------------------------
(* insert, from the leaves up. *)

(* setWord on a node that counts nothing. *)
LEMMA SetWordIs ==
  ASSUME NEW n \in Nodes, n.counter = 0, NEW w \in Words
  PROVE  /\ setWord(n, w) \in Nodes
         /\ setWord(n, w).word = w /\ setWord(n, w).counter = 1 /\ setWord(n, w).height = 0
         /\ setWord(n, w).left = n.left /\ setWord(n, w).right = n.right
<1> DEFINE m == [n EXCEPT !.word = w, !.counter = 1, !.height = 0]
<1>1. n \in Loose
  BY Sorts
<1>2. /\ m.word = w /\ m.counter = 1 /\ m.height = 0
      /\ m.left = n.left /\ m.right = n.right
  BY <1>1 DEF Loose
<1>3. m \in Loose
  <2> DEFINE Up(x, k, h) == [n EXCEPT !.word = x, !.counter = k, !.height = h]
  <2>1. \A x \in Field, k \in Int, h \in Nat \cup {-1} : Up(x, k, h) \in Loose
    BY <1>1 DEF Loose
  <2>2. m = Up(w, 1, 0) /\ w \in Field
    BY DEF Field
  <2> HIDE DEF Up, m
  <2> QED
    BY <2>1, <2>2
<1>4. setWord(n, w) = m
  BY DEF setWord
<1> HIDE DEF m
<1>5. m \in Nodes
  BY <1>2, <1>3, NodesAre
<1> QED
  BY <1>2, <1>4, <1>5

(* A child that insert makes, or the one it goes to. *)
LEMMA ArmInsert ==
  ASSUME LateBinding, NEW a, Arm(a), NEW w \in Words, w # Empty,
         Full(a) => Grown(Data(a), InsertInto(Data(a), w), w)
  PROVE  LET c == IF Null(a) THEN NewNode(w, 1, 0) ELSE insert(a, w)
         IN  c # Crash /\ Grown(a, c, w)
<1> DEFINE c == IF Null(a) THEN NewNode(w, 1, 0) ELSE insert(a, w)
<1>1. w \in Field /\ \A v \in Words : {v} \in SUBSET Field
  BY DEF Field
<1>2. ASSUME NEW e, LeafArm(e, w, 1), Bare(a), e \in Proxies <=> a \in Proxies
      PROVE  e # Crash /\ Grown(a, e, w)
  <2>1. /\ e \in Trees /\ Full(e) /\ Depth(e) = 0 /\ HeldWords(e) = {w}
        /\ \A ws \in SUBSET Field : CountIn(e, ws) = Times(w, 1, ws)
    <3> DEFINE one == 1
    <3>1. one \in Nat /\ one # 0 /\ LeafArm(e, w, one)
      BY <1>2
    <3> HIDE DEF one
    <3>2. /\ e \in Trees /\ Full(e) /\ Depth(e) = 0 /\ HeldWords(e) = {w}
          /\ \A ws \in SUBSET Field : CountIn(e, ws) = Times(w, one, ws)
      BY <1>1, <3>1, LeafArmIs
    <3> QED
      BY <3>2 DEF one
  <2>2. /\ Depth(a) = -1 /\ HeldWords(a) = {}
        /\ \A ws \in SUBSET Field : CountIn(a, ws) = 0
    BY <1>2, ArmIs
  <2>3. \A v \in Words : Times(w, 1, {v}) \in Nat
    BY TimesIs
  <2>4. Exact(a, e, w)
    BY <1>1, <2>1, <2>2, <2>3 DEF Exact
  <2>5. e # Crash
    BY <2>1, Kinds
  <2> QED
    BY <1>2, <2>1, <2>2, <2>4, <2>5 DEF Grown
<1>3. CASE a = Nil
  <2>1. c = NewNode(w, 1, 0)
    BY <1>3 DEF Null
  <2> DEFINE e == NewNode(w, 1, 0)
  <2>2. e \in Nodes
    BY <1>1, NodeMade, Sorts DEF NewNode
  <2>3. Leaf(e, w, 1)
    BY <2>2 DEF Leaf, NewNode
  <2> HIDE DEF e
  <2>4. LeafArm(e, w, 1) /\ e \notin Proxies /\ a \notin Proxies /\ Bare(a)
    BY <1>3, <2>2, <2>3, DataOfArm, Kinds, Sorts DEF LeafArm, Bare
  <2>5. e # Crash /\ Grown(a, e, w)
    BY <1>2, <2>4
  <2> QED
    BY <2>1, <2>5 DEF e
<1>4. CASE a \in Proxies
  <2> DEFINE b == a.root
             i == InsertInto(b, w)
  <2>1. IsProxy(a) /\ ~Null(a) /\ b \in Nodes /\ Data(a) = b /\ a \in Trees
    BY <1>4, Sorts, Kinds, DataOfArm
  <2>2. c = IF i = Crash THEN Crash ELSE [a EXCEPT !.root = i]
    BY <2>1 DEF insert, Call
  <2>3. i = insertHere(b, w)
    BY <2>1 DEF LateBinding
  <2> HIDE DEF i, c, b
  <2>4. i \in Nodes => c = Proxy(i) /\ c \in Proxies /\ Data(c) = i /\ c # Crash
    <3>1. i \in Nodes => i # Crash
      BY Kinds, Sorts
    <3>2. i \in Nodes => c = Proxy(i) /\ c \in Proxies
      BY <1>4, <2>2, <3>1, Reroot
    <3> QED
      BY <3>2, DataOfArm, Kinds
  <2>5. CASE Bare(a)
    <3>1. /\ b.counter = 0 /\ b.left = Nil /\ b.right = Nil /\ ~hasWord(b)
      <4>1. Blank(b)
        BY <1>4, <2>5, Kinds DEF Bare, b
      <4> QED
        BY <2>1, <4>1, HasWordIs, Sorts DEF Blank
    <3>2. i = setWord(b, w)
      BY <2>3, <3>1 DEF insertHere
    <3>3. Leaf(i, w, 1)
      BY <2>1, <3>1, <3>2, SetWordIs DEF Leaf
    <3>4. i \in Nodes
      BY <3>3 DEF Leaf
    <3>5. LeafArm(c, w, 1) /\ c \in Proxies
      BY <2>4, <3>3, <3>4 DEF LeafArm
    <3>6. c # Crash /\ Grown(a, c, w)
      BY <1>2, <1>4, <2>5, <3>5
    <3> QED
      BY <3>6 DEF c
  <2>6. CASE Full(a)
    <3>1. Grown(b, i, w)
      BY <2>1, <2>6 DEF i
    <3>2. Full(i) /\ i \notin Proxies
      BY <2>1, <3>1, Sorts DEF Grown
    <3>3. i \in Nodes /\ Data(i) = i /\ Data(b) = b
      BY <2>1, <3>2, DataOfArm DEF Full
    <3>4. c = Proxy(i) /\ c \in Proxies /\ Data(c) = i /\ c # Crash /\ c.root = i
      BY <2>4, <3>3, Kinds
    <3>5. Full(c)
      BY <3>2, <3>3, <3>4 DEF Full
    <3>6. /\ Depth(c) = Depth(i) /\ Depth(a) = Depth(b)
          /\ HeldWords(c) = HeldWords(i) /\ HeldWords(a) = HeldWords(b)
          /\ \A ws \in SUBSET Field : /\ CountIn(c, ws) = CountIn(i, ws)
                                      /\ CountIn(a, ws) = CountIn(b, ws)
      BY <1>4, <3>4, DepthsAre, HeldAre, Counting DEF b
    <3>7. Exact(a, c, w)
      BY <1>1, <3>1, <3>6 DEF Exact, Grown
    <3>8. Grown(a, c, w)
      BY <1>4, <2>1, <3>1, <3>3, <3>4, <3>5, <3>6, <3>7 DEF Grown
    <3> QED
      BY <3>4, <3>8 DEF c
  <2> QED
    BY <2>5, <2>6 DEF Arm
<1>5. CASE a \in Nodes
  <2>1. ~IsProxy(a) /\ ~Null(a) /\ Data(a) = a /\ a \notin Proxies /\ a # Nil
    BY <1>5, DataOfArm, Sorts
  <2>2. c = InsertInto(a, w)
    BY <2>1 DEF insert, Call
  <2>3. Full(a)
    BY <2>1 DEF Arm, Bare
  <2>4. Grown(a, c, w)
    BY <2>1, <2>2, <2>3
  <2>5. c # Crash
    BY <2>4, Kinds, Sorts DEF Grown, Full
  <2> QED
    BY <2>4, <2>5
<1> QED
  BY <1>3, <1>4, <1>5 DEF Arm, Bare, Full

(* The word of the node itself is counted there. *)
LEMMA Counted ==
  ASSUME LateBinding, NEW n \in Nodes, At(n), Arm(n.left), Arm(n.right)
  PROVE  Grew(n, [n EXCEPT !.counter = @ + 1], n.word)
<1> DEFINE k == n.counter + 1
           m == [n EXCEPT !.counter = k]
           w == n.word
<1>1. /\ n \in Loose /\ k \in Nat /\ k # 0 /\ n.word \in Words /\ n.word # Empty
      /\ n.counter \in Nat /\ n.counter # 0 /\ w \in HeldWords(n)
      /\ n.height = Depth(n)
      /\ HeldWords(n) = HeldWords(n["left"]) \cup HeldWords(n["right"]) \cup {w}
      /\ \A x \in HeldWords(n["left"]) : Aside(x, "left", w)
      /\ Depth(n) = 1 + Higher(Depth(n["left"]), Depth(n["right"]))
      /\ Depth(n["left"]) - Depth(n["right"]) \in -1..1
      /\ Depth(n) \in Nat
  <2>1. "left" \in Sides /\ Other("left") = "right"
    BY DEF Sides, Other
  <2> QED
    BY <2>1, AtSides, Sorts DEF At
<1>2. \A x \in HeldWords(n["right"]) : Aside(x, "right", w)
  BY AtSides DEF Sides
<1> HIDE DEF k
<1>3. /\ m.counter = k /\ m.word = w /\ m.height = n.height
      /\ m.left = n.left /\ m.right = n.right /\ m \in Loose
      /\ m["left"] = n["left"] /\ m["right"] = n["right"]
  BY <1>1 DEF Loose
<1> HIDE DEF m, w
<1>4. m \in Nodes
  BY <1>1, <1>3, NodesAre
<1>5. /\ At(m) /\ Depth(m) = Depth(n) /\ HeldWords(m) = HeldWords(n)
  <2>1. "left" \in Sides /\ Other("left") = "right"
    BY DEF Sides, Other
  <2> DEFINE i == Depth(m["left"])
             j == Depth(m["right"])
  <2>2. i - j \in -1..1 /\ m.height = 1 + Higher(i, j)
    BY <1>1, <1>3
  <2>3. m.word \in Words /\ m.word # Empty /\ m.counter # 0
    BY <1>1, <1>3 DEF w
  <2> HIDE DEF i, j
  <2>4. /\ At(m) /\ Depth(m) = 1 + Higher(i, j)
        /\ HeldWords(m) = HeldWords(m["left"]) \cup HeldWords(m["right"]) \cup {m.word}
    BY <1>1, <1>2, <1>3, <1>4, <2>1, <2>2, <2>3, AtMade DEF i, j
  <2> QED
    BY <1>1, <1>3, <2>2, <2>4
<1>6. ASSUME NEW v \in Words PROVE CountIn(m, {v}) = CountIn(n, {v}) + Times(w, 1, {v})
  <2>1. {v} \in SUBSET Field
    BY DEF Field
  <2>2. /\ CountIn(m, {v}) = CountIn(m.left, {v}) + CountIn(m.right, {v}) + Own(m, {v})
        /\ CountIn(n, {v}) = CountIn(n.left, {v}) + CountIn(n.right, {v}) + Own(n, {v})
        /\ CountIn(n.left, {v}) \in Nat /\ CountIn(n.right, {v}) \in Nat
    BY <1>1, <1>4, <2>1, Counting, Fields
  <2>3. Own(m, {v}) = Own(n, {v}) + Times(w, 1, {v})
    BY <1>1, <1>3 DEF Own, Times, k, w
  <2>4. Own(n, {v}) \in Nat /\ Times(w, 1, {v}) \in Nat
    BY <1>1 DEF Own, Times
  <2> QED
    BY <1>3, <2>2, <2>3, <2>4
<1>7. Exact(n, m, w)
  BY <1>1, <1>5, <1>6 DEF Exact
<1>8. Grew(n, m, w)
  BY <1>1, <1>3, <1>4, <1>5, <1>7 DEF Grew, Single, w
<1> QED
  BY <1>8 DEF m, k, w

(* insert at a node, if it is right for what is below it. *)
LEMMA NodeInsert ==
  ASSUME LateBinding,
         NEW n \in Nodes, At(n), Arm(n.left), Arm(n.right),
         NEW w \in Words, w # Empty, Light(n, w),
         \A side \in Sides :
           Full(n[side]) /\ Light(Data(n[side]), w)
             => Grown(Data(n[side]), InsertInto(Data(n[side]), w), w)
  PROVE  Grew(n, InsertInto(n, w), w)
<1>1. InsertInto(n, w) = insertHere(n, w) /\ hasWord(n) /\ n.word \in Nat /\ w \in Nat
  <2>1. n.word \in Nat
    BY AtSides DEF Sides
  <2> QED
    BY <2>1, WordTreeAssumption DEF LateBinding, At
<1>2. CASE w = n.word
  <2>1. insertHere(n, w) = [n EXCEPT !.counter = @ + 1]
    BY <1>1, <1>2 DEF insertHere
  <2> QED
    BY <1>1, <1>2, <2>1, Counted
<1>3. CASE w # n.word
  <2> DEFINE side == SideOf(n, w)
             c == IF Null(n[side]) THEN NewNode(w, 1, 0) ELSE insert(n[side], w)
  <2>1. side \in Sides /\ Aside(w, side, n.word)
    BY <1>1, <1>3 DEF SideOf, Sides, Aside
  <2> HIDE DEF side
  <2>2. Arm(n[side])
    BY <2>1, SidesOf, Sorts
  <2>3. /\ Null(n[side]) \/ Light(n[side], w)
        /\ LightTurn(updateHeight([n EXCEPT ![side] = c]), w)
    <3>1. Light(n, w) = lightHere(n, w) /\ Data(n) = n
      BY DataOfArm DEF LateBinding
    <3> QED
      BY <1>1, <1>3, <3>1 DEF lightHere, side
  <2>4. Full(n[side]) => Light(Data(n[side]), w)
    <3> SUFFICES ASSUME Full(n[side]) PROVE Light(Data(n[side]), w)
      OBVIOUS
    <3> DEFINE a == n[side]
               d == Data(a)
    <3>1. a \in Nodes \cup Proxies /\ ~Null(a) /\ d \in Nodes /\ Data(d) = d
      BY <2>2, ArmIs, DataOfArm, Sorts, Kinds DEF Full, Null
    <3>2. Light(a, w) = lightHere(a, w) /\ Light(d, w) = lightHere(d, w)
      BY <3>1 DEF LateBinding
    <3>3. lightHere(a, w) <=> lightHere(d, w)
      BY <3>1 DEF lightHere
    <3> QED
      BY <2>3, <3>1, <3>2, <3>3
  <2>5. c # Crash /\ Grown(n[side], c, w)
    BY <2>1, <2>2, <2>4, ArmInsert
  <2>6. insertHere(n, w) = IF c = Crash THEN Crash
                           ELSE balance(updateHeight([n EXCEPT ![side] = c]), w)
    BY <1>1, <1>3 DEF insertHere, side
  <2> HIDE DEF c
  <2>7. Grew(n, balance(updateHeight([n EXCEPT ![side] = c]), w), w)
    <3>1. CASE Depth(c) - Depth(n[Other(side)]) \in -1..1
      BY <2>1, <2>5, <3>1, GrowStill
    <3>2. CASE ~(Depth(c) - Depth(n[Other(side)]) \in -1..1)
      BY <2>1, <2>3, <2>5, <3>2, GrowTurned
    <3> QED
      BY <3>1, <3>2
  <2> QED
    BY <1>1, <2>5, <2>6, <2>7
<1> QED
  BY <1>2, <1>3

(* Within a process, insert keeps an AVL tree and adds its word. *)
LEMMA LocalInsert ==
  ASSUME LateBinding, NEW w \in Words, w # Empty
  PROVE  \A n \in Nodes : Well(n) /\ Light(n, w) => Grown(n, InsertInto(n, w), w)
<1> DEFINE S == {t \in Trees : t \in Nodes /\ Well(t) /\ Light(t, w) =>
                                 Grown(t, InsertInto(t, w), w)}
<1>1. Nil \in S
  BY Kinds, Sorts
<1>2. ASSUME NEW p \in Proxies PROVE p \in S
  BY Sorts
<1>3. ASSUME NEW n \in Nodes, n.left \in S, n.right \in S PROVE n \in S
  <2> SUFFICES ASSUME Well(n), Light(n, w) PROVE Grown(n, InsertInto(n, w), w)
    BY Sorts
  <2> DEFINE r == InsertInto(n, w)
  <2>1. /\ At(n) /\ Arm(n.left) /\ Arm(n.right) /\ Single(n)
        /\ Well(n.left) /\ Well(n.right)
    BY WellArms, WellIs DEF Single
  <2>2. ASSUME NEW t \in {n.left, n.right}, Full(t), Light(Data(t), w)
        PROVE  Grown(Data(t), InsertInto(Data(t), w), w)
    <3>1. t \in Nodes
      BY <2>1, <2>2 DEF Single, Full
    <3>2. Data(t) = t /\ Well(t)
      BY <2>1, <3>1, DataOfArm
    <3> QED
      BY <1>3, <2>2, <3>1, <3>2
  <2>3. \A side \in Sides :
          Full(n[side]) /\ Light(Data(n[side]), w)
            => Grown(Data(n[side]), InsertInto(Data(n[side]), w), w)
    BY <2>2 DEF Sides
  <2> HIDE DEF S
  <2>4. Grew(n, r, w)
    BY <2>1, <2>3, NodeInsert
  <2> HIDE DEF r
  <2>5. r \in Nodes /\ Well(r) /\ Data(r) = r /\ Data(n) = n
    BY <2>1, <2>4, WellArms, DataOfArm DEF Grew, Single
  <2>6. Full(r) /\ r \notin Proxies /\ n \notin Proxies
    BY <2>5, Sorts DEF Full
  <2>7. Grown(n, r, w)
    BY <2>1, <2>4, <2>5, <2>6 DEF Grew, Grown
  <2> QED
    BY <2>7 DEF r
<1> HIDE DEF S
<1>4. Trees \subseteq S
  BY <1>1, <1>2, <1>3, TreeInduction
<1> QED
  BY <1>4, Sorts DEF S

-----------------------------------------------------------------------------
(* The root of process 1, above the other processes.                       *)

(* As it is until the first word comes, *)
Start(n) == /\ n.word = Empty /\ n.counter = 0 /\ n.height = -1
            /\ Bare(n.left) /\ Bare(n.right)

(* and from then on. *)
Top(n) == n \in Nodes /\ Arm(n.left) /\ Arm(n.right) /\ (At(n) \/ Start(n))

(* The first word. *)
LEMMA FirstWord ==
  ASSUME LateBinding, NEW n \in Nodes, Start(n), NEW w \in Words, w # Empty
  PROVE  LET r == InsertInto(n, w)
         IN  r \in Nodes /\ At(r) /\ r.left = n.left /\ r.right = n.right /\ Exact(n, r, w)
<1> DEFINE r == setWord(n, w)
<1>1. /\ n \in Loose /\ n.word = Empty /\ n.counter = 0 /\ n.height = -1 /\ ~hasWord(n)
      /\ Arm(n.left) /\ Arm(n.right) /\ Bare(n.left) /\ Bare(n.right)
  BY HasWordIs, Sorts DEF Start, Arm
<1>2. InsertInto(n, w) = r
  BY <1>1 DEF LateBinding, insertHere
<1>3. /\ r \in Nodes /\ r.word = w /\ r.counter = 1 /\ r.height = 0
      /\ r.left = n.left /\ r.right = n.right
  BY <1>1, SetWordIs
<1> HIDE DEF r
<1>4. /\ Depth(n.left) = -1 /\ Depth(n.right) = -1
      /\ HeldWords(n.left) = {} /\ HeldWords(n.right) = {}
      /\ \A ws \in SUBSET Field : CountIn(n.left, ws) = 0 /\ CountIn(n.right, ws) = 0
  BY <1>1, ArmIs
<1>5. hasWord(r) /\ r \in Loose
  BY <1>1, <1>3, HasWordIs, Sorts
<1>6. Depth(r) = 0
  BY <1>3, <1>4, <1>5, DepthsAre DEF Higher
<1>7. At(r)
  <2>1. Depth(r.left) - Depth(r.right) \in -1..1
    BY <1>3, <1>4
  <2>2. \A side \in Sides : HeldWords(r[side]) = {}
    BY <1>3, <1>4 DEF Sides
  <2> QED
    BY <1>3, <1>5, <1>6, <2>1, <2>2 DEF At
<1>8. HeldWords(n) = {} /\ HeldWords(r) = {w}
  BY <1>1, <1>3, <1>4, <1>5, HeldAre DEF OwnWord
<1>9. ASSUME NEW v \in Words PROVE CountIn(r, {v}) = CountIn(n, {v}) + Times(w, 1, {v})
  <2>1. {v} \in SUBSET Field
    BY DEF Field
  <2>2. /\ CountIn(r, {v}) = CountIn(r.left, {v}) + CountIn(r.right, {v}) + Own(r, {v})
        /\ CountIn(n, {v}) = CountIn(n.left, {v}) + CountIn(n.right, {v}) + Own(n, {v})
    BY <1>3, <2>1, Counting
  <2>3. CountIn(n.left, {v}) = 0 /\ CountIn(n.right, {v}) = 0
    BY <1>4, <2>1
  <2>4. Own(r, {v}) = Times(w, 1, {v}) /\ Own(n, {v}) = 0 /\ Times(w, 1, {v}) \in Nat
    BY <1>1, <1>3 DEF Own, Times
  <2> QED
    BY <1>3, <2>2, <2>3, <2>4
<1> QED
  BY <1>2, <1>3, <1>7, <1>8, <1>9 DEF Exact

(* Any word, as long as that rotates lightly. *)
LEMMA TopInsert ==
  ASSUME LateBinding, NEW n, Top(n), NEW w \in Words, w # Empty, Light(n, w)
  PROVE  Top(insert(n, w)) /\ Exact(n, insert(n, w), w)
<1> DEFINE r == InsertInto(n, w)
<1>1. n \in Nodes /\ Arm(n.left) /\ Arm(n.right)
  BY DEF Top
<1>2. insert(n, w) = r
  BY <1>1, Sorts DEF insert, Call
<1>3. CASE At(n)
  <2>1. ASSUME NEW side \in Sides, Full(n[side]), Light(Data(n[side]), w)
        PROVE  Grown(Data(n[side]), InsertInto(Data(n[side]), w), w)
    <3>1. Arm(n[side])
      BY <1>1, SidesOf, Sorts
    <3> DEFINE d == Data(n[side])
    <3>2. d \in Nodes /\ Well(d) /\ Light(d, w)
      BY <2>1, <3>1, ArmIs DEF Full
    <3> HIDE DEF d
    <3>3. Grown(d, InsertInto(d, w), w)
      BY <3>2, LocalInsert
    <3> QED
      BY <3>3 DEF d
  <2>2. Grew(n, r, w)
    BY <1>1, <1>3, <2>1, NodeInsert
  <2> HIDE DEF r
  <2> QED
    BY <1>2, <2>2 DEF Grew, Top
<1>4. CASE Start(n)
  <2>1. r \in Nodes /\ At(r) /\ r.left = n.left /\ r.right = n.right /\ Exact(n, r, w)
    BY <1>1, <1>4, FirstWord
  <2> HIDE DEF r
  <2> QED
    BY <1>1, <1>2, <2>1 DEF Top
<1> QED
  BY <1>3, <1>4 DEF Top

(* The inductive invariant: as long as rotations are light, the local root *)
(* of process 1 stands on AVL trees within the processes, and what it      *)
(* holds itself fits on top of them.                                       *)
LightInv == Regular => Top(root)

(* It holds of the systems as they start, *)
LEMMA LightInit == LateBinding /\ Init => LightInv
<1> SUFFICES ASSUME LateBinding, Init PROVE Top(root)
  BY DEF LightInv
<1>1. nodes \in 1..3 /\ root = LocalRoot(1, nodes)
  BY WordTreeAssumption DEF Init
<1> DEFINE Child(j) == IF j > nodes THEN Nil ELSE Proxy(create)
           l == Child(2)
           r == Child(3)
<1>2. root \in Nodes /\ create \in Nodes /\ create \in Loose
  BY <1>1, StartOf, CreateOf, Sorts
<1>3. l \in {Nil, Proxy(create)} /\ r \in {Nil, Proxy(create)}
  BY <1>1
<1>4. root = [create EXCEPT !.left = l, !.right = r]
  BY <1>1 DEF LocalRoot
<1> HIDE DEF l, r
<1>5. /\ root.word = Empty /\ root.counter = 0 /\ root.height = -1
      /\ root.left = l /\ root.right = r
  BY <1>4 DEF create, NewNode
<1>6. Blank(create)
  BY DEF create, NewNode, Blank
<1>7. Bare(Nil) /\ Bare(Proxy(create))
  BY <1>2, <1>6, Kinds DEF Bare
<1>8. Bare(root.left) /\ Bare(root.right)
  BY <1>3, <1>5, <1>7
<1> QED
  BY <1>2, <1>5, <1>8 DEF Top, Start, Arm

(* every insertion keeps it, *)
LEMMA LightNext == LateBinding /\ LightInv /\ [InsertNext]_vars => LightInv'
<1> SUFFICES ASSUME LateBinding, LightInv, [InsertNext]_vars PROVE LightInv'
  OBVIOUS
<1>1. ASSUME NEW w \in Words, ADD(w), Regular' PROVE Top(root')
  <2>1. Regular /\ Light(root, w) /\ w # Empty /\ root' = insert(root, w)
    BY <1>1 DEF ADD, Regular
  <2>2. Top(root)
    BY <2>1 DEF LightInv
  <2> QED
    BY <2>1, <2>2, TopInsert
<1>2. CASE UNCHANGED vars
  BY <1>2 DEF LightInv, Regular, Top, Start, vars
<1>3. ASSUME NEW w \in Words, ADD(w) PROVE LightInv'
  <2>1. Regular' => Top(root')
    BY <1>1, <1>3
  <2> QED
    BY <2>1 DEF LightInv, Top, Start
<1> QED
  BY <1>2, <1>3 DEF InsertNext

(* and so it always holds. *)
LEMMA LightInvariance == ASSUME LateBinding PROVE InsertSpec => []LightInv
<1>1. Init => LightInv
  BY LightInit
<1>2. LightInv /\ [InsertNext]_vars => LightInv'
  BY LightNext
<1> QED
  BY <1>1, <1>2, PTL DEF InsertSpec

-----------------------------------------------------------------------------
(* What that means for each node, in every process: it is a node of an AVL *)
(* tree, or there is nothing at it and below it.                           *)
Hollow(n) == /\ ~hasWord(n) /\ n.height = -1 /\ HeldWords(n) = {}
             /\ Depth(n) = -1 /\ Depth(n.left) = -1 /\ Depth(n.right) = -1

(* Such is the root before the first word, and a blank node. *)
LEMMA HollowIs ==
  ASSUME LateBinding, NEW n \in Nodes, Start(n)
  PROVE  Hollow(n)
<1>1. /\ n \in Loose /\ n.word = Empty /\ n.height = -1 /\ ~hasWord(n)
      /\ Arm(n.left) /\ Arm(n.right) /\ Bare(n.left) /\ Bare(n.right)
  BY HasWordIs, Sorts DEF Start, Arm
<1>2. /\ Depth(n.left) = -1 /\ Depth(n.right) = -1
      /\ HeldWords(n.left) = {} /\ HeldWords(n.right) = {}
  BY <1>1, ArmIs
<1>3. Depth(n) = -1 /\ HeldWords(n) = {}
  BY <1>1, <1>2, DepthsAre, HeldAre DEF OwnWord
<1> QED
  BY <1>1, <1>2, <1>3 DEF Hollow

(* Every node of every process is one or the other. *)
LEMMA EachNode ==
  ASSUME LateBinding, NEW t, Top(t), NEW n \in AllNodes(t)
  PROVE  n \in Nodes /\ (At(n) \/ Hollow(n))
<1>1. t \in Nodes /\ t \in Trees /\ AllNodes(t) = {t} \cup AllNodes(t.left) \cup AllNodes(t.right)
  BY AllNodesAre, Sorts DEF Top
<1>2. n \in Nodes
  <2>1. {} \in SUBSET Field
    OBVIOUS
  <2> QED
    BY <1>1, <2>1, AllNodesOf
<1>3. CASE n = t
  BY <1>1, <1>3, HollowIs DEF Top
<1>4. ASSUME NEW a, Arm(a), n \in AllNodes(a) PROVE At(n) \/ Hollow(n)
  <2>1. CASE a = Nil
    BY <1>4, <2>1, AllNodesAre
  <2>2. CASE a \in Proxies /\ Blank(a.root)
    <3> DEFINE b == a.root
    <3>1. b \in Nodes /\ b.left = Nil /\ b.right = Nil /\ Start(b)
      BY <2>2, Kinds DEF Blank, Start, Bare
    <3>2. AllNodes(a) = AllNodes(b)
      BY <2>2, AllNodesAre
    <3> HIDE DEF b
    <3>3. AllNodes(b) = {b}
      BY <3>1, AllNodesAre
    <3>4. n = b
      BY <1>4, <3>2, <3>3
    <3> QED
      BY <3>1, <3>4, HollowIs
  <2>3. CASE Full(a)
    <3>1. AllNodes(a) = AllNodes(Data(a))
      BY <2>3, AllNodesAre, DataOfArm DEF Full
    <3> QED
      BY <1>4, <2>3, <3>1 DEF Full, Well
  <2> QED
    BY <1>4, <2>1, <2>2, <2>3 DEF Arm, Bare
<1>5. Arm(t.left) /\ Arm(t.right)
  BY DEF Top
<1> QED
  BY <1>1, <1>2, <1>3, <1>4, <1>5

-----------------------------------------------------------------------------
(* As long as rotations are light, none dereferences a null pointer, in    *)
(* any process (NullSafe).                                                 *)
THEOREM NullSafeLight ==
  ASSUME LateBinding PROVE InsertSpec => []NullSafe
<1>1. LightInv => NullSafe
  BY Kinds, Sorts DEF LightInv, Top, NullSafe
<1>2. InsertSpec => []LightInv
  BY LightInvariance
<1> QED
  BY <1>1, <1>2, PTL

(* As long as rotations are light, the words are in order from left to     *)
(* right, across the processes, so that no word is in two nodes (Ordered). *)
THEOREM OrderedLight ==
  ASSUME LateBinding PROVE InsertSpec => []Ordered
<1>1. ASSUME LightInv PROVE Ordered
  <2> SUFFICES ASSUME Regular, NEW n \in AllNodes(root)
               PROVE  LET here == IF hasWord(n) THEN {n.word} ELSE {} IN
                        /\ \A l \in HeldWords(n.left), r \in HeldWords(n.right) \cup here : l < r
                        /\ \A l \in here, r \in HeldWords(n.right) : l < r
    BY DEF Ordered, InOrder
  <2>1. n \in Nodes /\ (At(n) \/ Hollow(n))
    BY <1>1, EachNode DEF LightInv
  <2>2. CASE At(n)
    <3>1. \A l \in HeldWords(n.left) : l \in Nat /\ l < n.word
      BY <2>1, <2>2, AtSides DEF Sides, Aside
    <3>2. \A r \in HeldWords(n.right) : r \in Nat /\ n.word < r
      BY <2>1, <2>2, AtSides DEF Sides, Aside
    <3>3. n.word \in Nat
      BY <2>1, <2>2, AtSides DEF Sides
    <3> QED
      BY <2>2, <3>1, <3>2, <3>3 DEF At
  <2>3. CASE Hollow(n)
    <3>1. HeldWords(n.left) = {} /\ HeldWords(n.right) = {} /\ ~hasWord(n)
      BY <2>1, <2>3, HeldAre DEF Hollow
    <3> QED
      BY <3>1
  <2> QED
    BY <2>1, <2>2, <2>3
<1>2. InsertSpec => []LightInv
  BY LightInvariance
<1> QED
  BY <1>1, <1>2, PTL

(* As long as rotations are light, the height that is kept in each node is *)
(* the height of the tree below it (HeightsExact).                         *)
THEOREM HeightsExactLight ==
  ASSUME LateBinding PROVE InsertSpec => []HeightsExact
<1>1. ASSUME LightInv PROVE HeightsExact
  BY <1>1, EachNode DEF LightInv, HeightsExact, HeightsKept, At, Hollow
<1>2. InsertSpec => []LightInv
  BY LightInvariance
<1> QED
  BY <1>1, <1>2, PTL

(* As long as rotations are light, insertions keep an AVL tree: the        *)
(* subtrees of no node differ in height by more than one, within and       *)
(* across processes (Balanced).                                            *)
THEOREM BalancedLight ==
  ASSUME LateBinding PROVE InsertSpec => []Balanced
<1>1. ASSUME LightInv PROVE Balanced
  <2> SUFFICES ASSUME Regular, NEW n \in AllNodes(root)
               PROVE  Depth(n.left) - Depth(n.right) \in -1..1
    BY DEF Balanced, HeightBalanced
  <2>1. At(n) \/ Hollow(n)
    BY <1>1, EachNode DEF LightInv
  <2>2. CASE At(n)
    BY <2>2 DEF At
  <2>3. CASE Hollow(n)
    BY <2>3 DEF Hollow
  <2> QED
    BY <2>1, <2>2, <2>3
<1>2. InsertSpec => []LightInv
  BY LightInvariance
<1> QED
  BY <1>1, <1>2, PTL

(* Each insertion that rotates lightly, after others that did, adds one    *)
(* occurrence of its word and leaves the count of every other word alone   *)
(* (ImplementsBag).                                                        *)
THEOREM ImplementsBagLight ==
  ASSUME LateBinding PROVE InsertSpec => ImplementsBag
<1>1. ASSUME LightInv, [InsertNext]_vars
      PROVE  [Regular' => Bag!Next]_vars
  <2> SUFFICES ASSUME NEW w \in Words, ADD(w), Regular' PROVE Bag!Next
    BY <1>1 DEF InsertNext
  <2>1. /\ root' = insert(root, w) /\ added' = added + 1
        /\ Regular /\ Light(root, w) /\ w # Empty
    BY DEF ADD, Regular
  <2>2. Top(root)
    BY <1>1, <2>1 DEF LightInv
  <2>3. Exact(root, root', w)
    BY <2>1, <2>2, TopInsert
  <2>4. w \in Words \ {Empty}
    BY <2>1
  <2>5. \A v \in Words \ {Empty} :
          /\ {v} \in SUBSET Field
          /\ CountIn(root', {v}) = CountIn(root, {v}) + Times(w, 1, {v})
    BY <2>3 DEF Exact, Field
  <2>6. \A v \in Words \ {Empty} :
          CountIn(root', {v}) = IF v = w THEN CountIn(root, {v}) + 1 ELSE CountIn(root, {v})
    <3>1. \A v \in Words \ {Empty} : CountIn(root, {v}) \in Nat
      BY <2>2, <2>5, Counting, Sorts DEF Top
    <3>2. \A v \in Words \ {Empty} : Times(w, 1, {v}) = IF v = w THEN 1 ELSE 0
      BY DEF Times
    <3> SUFFICES ASSUME NEW v \in Words \ {Empty}
                 PROVE  CountIn(root', {v}) =
                          IF v = w THEN CountIn(root, {v}) + 1 ELSE CountIn(root, {v})
      OBVIOUS
    <3> DEFINE i == CountIn(root, {v})
               j == CountIn(root', {v})
               k == Times(w, 1, {v})
    <3>3. i \in Nat /\ j = i + k /\ k = IF v = w THEN 1 ELSE 0
      BY <2>5, <3>1, <3>2
    <3> HIDE DEF i, j, k
    <3>4. j = IF v = w THEN i + 1 ELSE i
      BY <3>3
    <3> QED
      BY <3>4 DEF i, j
  <2>7. Counts(root)' = [Counts(root) EXCEPT ![w] = @ + 1]
    BY <2>4, <2>6 DEF Counts
  <2> QED
    BY <2>1, <2>4, <2>7 DEF Bag!Next, Bag!Add
<1>2. InsertSpec => []LightInv
  BY LightInvariance
<1> QED
  BY <1>1, <1>2, PTL DEF InsertSpec, ImplementsBag
=============================================================================
