------------------------------ MODULE WordTree ------------------------------
(***************************************************************************)
(* The distributed word tree of up to three processes, as the one thread   *)
(* of the root process that runs AVLTree::invoke sees it: a sequence of    *)
(* insert and remove calls on the local root, each of which completes,     *)
(* remote calls included, before the next one starts.                      *)
(*                                                                         *)
(* Node i of the system is the parent of nodes 2i and 2i+1, to which its   *)
(* local root holds proxies.  With nodes = 1 there is no proxy: this is    *)
(* the tree of NodeData objects alone, the part of the system that every   *)
(* process keeps below its proxies.                                        *)
(***************************************************************************)
EXTENDS NodeData

CONSTANTS Words,    \* the words that may be asked for, as naturals
          Systems,  \* the numbers of processes to look at
          MaxOps,   \* bound on the number of insertions
          Light(_, _)  \* late binding of lightHere
ASSUME WordTreeAssumption == /\ Words \subseteq Nat
                             /\ Systems \subseteq 1..3
                             /\ MaxOps \in Nat

VARIABLES nodes,    \* how many processes there are
          root,     \* the local root of process 1, or Crash
          added,    \* history: how many words were inserted,
          empties,  \* whether an empty string was among them,
          light     \* and whether all their rotations were light
vars == <<nodes, root, added, empties, light>>

-----------------------------------------------------------------------------
(* createLocalRootConnection on every process: the children of node i are  *)
(* nodes 2i and 2i+1, where these exist.  Up to three processes, only      *)
(* node 1 has children.                                                    *)
LocalRoot(i, n) ==
  LET Child(j) == IF j > n THEN Nil ELSE Proxy(create)
  IN  [create EXCEPT !.left = Child(2 * i), !.right = Child(2 * i + 1)]

Init == /\ nodes \in Systems
        /\ root = LocalRoot(1, nodes)
        /\ added = 0
        /\ empties = FALSE
        /\ light = TRUE

(* One turn of AVLTree::invoke.  After a null dereference nothing runs.    *)
ADD(w) ==
  /\ root # Crash
  /\ added < MaxOps
  /\ root' = insert(root, w)
  /\ added' = added + 1
  /\ empties' = (empties \/ w = Empty)
  /\ light' = (light /\ Light(root, w))
  /\ UNCHANGED nodes

REMOVE(w) ==
  /\ root # Crash
  /\ root' = remove(root, w)
  /\ UNCHANGED <<nodes, added, empties, light>>

InsertNext == \E w \in Words : ADD(w)
Next       == InsertNext \/ \E w \in Words : REMOVE(w)

(* FileManager only ever inserts: its calls to remove are commented out.   *)
InsertSpec == Init /\ [][InsertNext]_vars
Spec       == Init /\ [][Next]_vars

-----------------------------------------------------------------------------
(* Measures of a tree, over all processes: what preorder() would visit.    *)
(* They are bound, as the methods of NodeData are, to these definitions.   *)

CONSTANTS CountIn(_, _),  \* bound to countIn
          AllNodes(_),    \* to allNodes
          Depth(_)        \* to depth

(* How often the words in ws are counted, together. *)
countIn(t, ws) ==
  LET own == IF t.word \in ws THEN t.counter ELSE 0
  IN  CASE t \in {Nil, Crash} -> 0
        [] t.kind = "proxy"   -> CountIn(t.root, ws)
        [] t.kind = "node"    -> CountIn(t.left, ws) + CountIn(t.right, ws) + own

Counts(t) == [w \in Words \ {Empty} |-> CountIn(t, {w})]

(* t and the nodes below it, in every process. *)
allNodes(t) ==
  LET below == AllNodes(t.left) \cup AllNodes(t.right)
  IN  CASE t \in {Nil, Crash} -> {}
        [] t.kind = "proxy"   -> AllNodes(t.root)
        [] t.kind = "node"    -> {t} \cup below

HeldWords(t) == {n.word : n \in {m \in AllNodes(t) : hasWord(m)}}

(* The height of the tree of word-holding nodes below t. *)
depth(t) ==
  LET l == Depth(t.left)
      r == Depth(t.right)
  IN  CASE Null(t)          -> -1
        [] t.kind = "proxy" -> Depth(t.root)
        [] t.kind = "node"  -> IF ~hasWord(t) THEN -1
                               ELSE 1 + (IF l > r THEN l ELSE r)

-----------------------------------------------------------------------------
(* The rotations that are right.  Those of NodeData lose or misplace words *)
(* when they lift a word out of another process, or graft a subtree where  *)
(* another one is: MCWordTree shows how.  A rotation is light if it does   *)
(* neither: the node that it lifts is in the same process, and             *)
(*   - there is nothing on the other side, so that the words move around   *)
(*     in a stick of three, with one rotation or two, or                   *)
(*   - there is one word on the other side, and the lifted node has one    *)
(*     word, a leaf, to leave behind; what moves up after it has nothing   *)
(*     on its left, since pulls graft both its sides on the right.         *)
(* The list of words that FileManager::test inserts causes light rotations *)
(* only, in one, two and three processes.                                  *)
LightTurn(t, w) ==
  LET to   == IF Balance(t) = 2 THEN "left" ELSE "right"
      up   == t[Other(to)]
      stick == Depth(t[to]) = -1
      carry == /\ Depth(t[to]) = 0 /\ ~ChildFirst(t, w)
               /\ Depth(up[to]) = 0 /\ Null(up[Other(to)].left)
  IN  Balance(t) \in {-2, 2} => ~IsProxy(up) /\ (stick \/ carry)

(* insertHere(t, w) rotates lightly, if at all, at t and below. *)
lightHere(t, w) ==
  LET n    == Data(t)
      side == SideOf(n, w)
      c    == IF Null(n[side]) THEN NewNode(w, 1, 0) ELSE insert(n[side], w)
  IN  hasWord(n) /\ w # n.word =>
        /\ Null(n[side]) \/ Light(n[side], w)
        /\ LightTurn(updateHeight([n EXCEPT ![side] = c]), w)

(* Nothing but words was inserted, and all rotations were light. *)
Regular == light /\ ~empties

-----------------------------------------------------------------------------
(* Type correctness: a node holds a word, with a positive counter and a    *)
(* height, or no word and, unless empty strings are inserted, nothing to   *)
(* count.  (An empty node may have any height: setData gives 0 to a node   *)
(* that receives the data of an empty one.)                                *)
NodeOK(n) ==
  IF hasWord(n) THEN n.word \in Words /\ n.counter > 0 /\ n.height >= 0
                ELSE n.height >= -1 /\ (~empties => n.counter = 0)

TypeOK == /\ added \in 0..MaxOps /\ empties \in BOOLEAN /\ light \in BOOLEAN
          /\ \A n \in AllNodes(root) : NodeOK(n)

(* No null pointer is dereferenced: rotate_left and rotate_right use       *)
(* children that they do not know to exist.  Nor do they in insertions     *)
(* whose rotations are light; others do (ChildToRotateExists).             *)
NullSafe == Regular => root # Crash

(* Within a process the rotations of small trees never dereference a null  *)
(* pointer, light or not, although from six words on they leave trees that *)
(* are no AVL trees.  With fourteen words they do.                         *)
LocallySafe == nodes = 1 => root # Crash

(* The words are in strict order from left to right, across processes, so  *)
(* that no word is in two nodes.                                           *)
InOrder ==
  \A n \in AllNodes(root) : LET here == IF hasWord(n) THEN {n.word} ELSE {} IN
    /\ \A l \in HeldWords(n.left), r \in HeldWords(n.right) \cup here : l < r
    /\ \A l \in here, r \in HeldWords(n.right) : l < r

(* The height kept in each node is the height of the tree below it. *)
HeightsKept == \A n \in AllNodes(root) : n.height = Depth(n)

(* The subtrees of a node differ in height by at most one. *)
HeightBalanced ==
  \A n \in AllNodes(root) : Depth(n.left) - Depth(n.right) \in -1..1

(* NodeData::insert keeps a search tree through all light rotations, those *)
(* that graft a leaf included.  (StaysInOrder: through others not.)        *)
Ordered == Regular => InOrder

(* The heights that updateHeight keeps, which balance relies on, are right *)
(* after all light rotations, although setData, pushes and the wire set    *)
(* them to constants that the code hopes to correct afterwards.            *)
HeightsExact == Regular => HeightsKept

(* The tree of NodeData stays an AVL tree as long as the rotations that    *)
(* this takes are light.  (StaysBalanced: otherwise it may not.)           *)
Balanced == Regular => HeightBalanced

(* insert puts a word into the first node without one that it meets, and   *)
(* pushes do the same: that is right only if nothing is held below it.  In *)
(* large trees a rotation can lift a node without a word over others.      *)
EmptyBelowEmpty ==
  \A n \in AllNodes(root) : hasWord(n) \/ HeldWords(n) = {}

(* The abstract tree that preorder() shows, as a WordBag. *)
Bag == INSTANCE WordBag
         WITH Words <- Words \ {Empty},
              added <- added,
              count <- Counts(root)

(* While words are only inserted, and all rotations are light, the tree    *)
(* keeps the promise of WordBag: each AVLTree::insert adds one occurrence  *)
(* of its word and leaves the count of every other word alone, whatever it *)
(* rotates.  (Others lose words: that is how ChildToRotateExists fails.)   *)
ImplementsBag == [][ Regular' => Bag!Next ]_vars

(* Occurrences of words can be lost, but none is ever made up: whatever    *)
(* subtrees push, pull and the rotations copy, within a process or to      *)
(* another one, no step leaves two copies of a word, and no step of remove *)
(* adds to the count of any word.  (A node that was given an empty string  *)
(* hands its count on to the next word it gets.)                           *)
NothingMadeUp == [][ ~empties' => Bag!LossyNext ]_vars

(* All words together are counted at most as often as they were inserted,  *)
(* even when empty strings are among them.                                 *)
TotalBounded == CountIn(root, Words \cup {Empty}) <= added
=============================================================================
