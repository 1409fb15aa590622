------------------------------ MODULE NodeData ------------------------------
(***************************************************************************)
(* The tree nodes of app/tree: NodeData and its subclass RemoteDataNode,   *)
(* as pure operators on tree values.  A node is owned by one pointer, so   *)
(* the heap below a root is a value: a method that mutates *this is an     *)
(* operator that returns the new node.                                     *)
(*                                                                         *)
(* A node is one of two kinds of record:                                   *)
(*   "node"  a NodeData, or the local root of a process (a RemoteDataNode  *)
(*           whose client_ is null): the methods of NodeData run on it;    *)
(*   "proxy" a RemoteDataNode with a client_.  Its field root is the local *)
(*           root of the process it talks to: each method is a synchronous *)
(*           call that runs the same method there.                         *)
(* Nil is the null pointer, Crash the outcome of dereferencing it in any   *)
(* process.  A method that comes in a left and a right version that mirror *)
(* each other is one operator with the side as a parameter.                *)
(*                                                                         *)
(* A virtual method that calls itself on a child does so by late binding:  *)
(* what the call runs is a CONSTANT here, which a configuration binds to   *)
(* the definition of the method below.                                     *)
(*                                                                         *)
(* A word is a natural number, in lexicographic order, 0 being "".         *)
(*                                                                         *)
(* An operator whose name begins with "faulty" is a wrong version of the   *)
(* definition after it, with which the properties must fail.               *)
(***************************************************************************)
EXTENDS Integers

CONSTANTS Wire(_),           \* late binding of wireHere
          ClearData(_),      \* of clearData
          Push(_, _, _, _),  \* of pushHere
          InsertInto(_, _),      \* of insertHere
          FindSuccessor(_),  \* of findSuccessorHere
          RemoveFrom(_, _)       \* of removeHere

Empty == 0

Nil   == [kind |-> "nil"]
Crash == [kind |-> "crash"]

NewNode(w, c, h) ==
  [kind |-> "node", word |-> w, counter |-> c, height |-> h,
   left |-> Nil, right |-> Nil]

create == NewNode(Empty, 0, -1)

Proxy(r) == [kind |-> "proxy", root |-> r]

Null(t)     == t = Nil
IsProxy(t)  == t.kind = "proxy"
Other(side) == IF side = "left" THEN "right" ELSE "left"

(* The virtual call t->Method(): a proxy sends it to the process of its    *)
(* remote root and waits for the answer.                                   *)
Call(t, Method(_)) ==
  IF ~IsProxy(t) THEN Method(t)
  ELSE LET r == Method(t.root)
       IN  IF r = Crash THEN Crash ELSE [t EXCEPT !.root = r]

-----------------------------------------------------------------------------
(* Accessors.  A proxy forwards getWord, getCounter and getHeight, but not *)
(* getLeft and getRight: these read its own fields, which are null.        *)

Data(t) == IF IsProxy(t) THEN t.root ELSE t

getWord(t)    == Data(t).word
getCounter(t) == Data(t).counter
getHeight(t)  == Data(t).height
getLeft(t)    == IF IsProxy(t) THEN Nil ELSE t.left
getRight(t)   == IF IsProxy(t) THEN Nil ELSE t.right

hasWord(t) == getHeight(t) > -1 /\ getCounter(t) # 0 /\ getWord(t) # Empty

smaller(t, w) == ~Null(t) /\ hasWord(t) /\ w < getWord(t)

setWord(t, w) == [t EXCEPT !.word = w, !.counter = @ + 1, !.height = 0]

(* The count starts again. *)
faultySetDataHere(t, w, c) ==
  [t EXCEPT !.word = w, !.counter = 1, !.height = 0]

setDataHere(t, w, c) ==
  [t EXCEPT !.word = w, !.counter = c, !.height = 0]

setData(t, w, c) == Call(t, LAMBDA n : setDataHere(n, w, c))

HeightOr(t) == IF Null(t) THEN -1 ELSE getHeight(t)

Balance(t) == HeightOr(t.right) - HeightOr(t.left)

(* The lower child counts. *)
faultyUpdateHeight(t) ==
  [t EXCEPT !.height =
     1 + HeightOr(IF Balance(t) < 0 THEN t.right ELSE t.left)]

updateHeight(t) ==
  [t EXCEPT !.height =
     1 + HeightOr(IF Balance(t) > 0 THEN t.right ELSE t.left)]

(* A tree on the wire and back, parseTree(parseProtoTree(t)): a node whose *)
(* counter is 0 parses to null and takes its subtrees with it, and every   *)
(* node is rebuilt by setData, so that all heights come back 0.            *)
wireHere(t) ==
  LET l == Wire(getLeft(t))
      r == Wire(getRight(t))
  IN  IF Null(t) \/ getCounter(t) = 0
      THEN Nil
      ELSE [NewNode(getWord(t), getCounter(t), 0) EXCEPT !.left = l, !.right = r]

-----------------------------------------------------------------------------
(* Emptying.  clear() on a NodeData only returns null: the caller drops    *)
(* the subtree.  On a proxy it empties the remote root and returns itself. *)

(* The remote root keeps its words. *)
faultyClear(t) == IF IsProxy(t) THEN t ELSE Nil

clear(t) == IF IsProxy(t) THEN Call(t, ClearData) ELSE Nil

Cleared(c) == IF Null(c) THEN Nil ELSE clear(c)

(* The count and the children stay. *)
faultyClearData(t) == [t EXCEPT !.word = Empty, !.height = -1]

clearData(t) ==
  LET l == Cleared(t.left)
      r == Cleared(t.right)
  IN  [t EXCEPT !.word = Empty, !.counter = 0, !.height = -1,
                !.left = l, !.right = r]

-----------------------------------------------------------------------------
(* Copying and grafting subtrees.                                          *)

getSubtreeHere(t) ==
  updateHeight([setDataHere(create, t.word, t.counter) EXCEPT
                  !.left = t.left, !.right = t.right])

get_subtree(t) == IF IsProxy(t) THEN Wire(t.root) ELSE getSubtreeHere(t)

(* get_left_subtree and get_right_subtree *)
getSideHere(t, side) == IF Null(t[side]) THEN Nil ELSE get_subtree(t[side])

get_side_subtree(t, side) ==
  IF IsProxy(t) THEN Wire(t.root[side]) ELSE getSideHere(t, side)

setSubtreeHere(t, s) ==
  IF Null(s) THEN t
  ELSE [setDataHere(t, s.word, s.counter) EXCEPT
          !.left = s.left, !.right = s.right]

set_subtree(t, s) ==
  IF IsProxy(t) THEN Call(t, LAMBDA n : setSubtreeHere(n, Wire(s)))
                ELSE setSubtreeHere(t, s)

(* set_left_subtree and set_right_subtree: a child that is a NodeData is   *)
(* replaced by s, a proxy is emptied and filled again.                     *)
setSideHere(t, side, s) ==
  LET c == Cleared(t[side])
      d == IF Null(c) THEN s ELSE setData(c, s.word, s.counter)
  IN  IF Null(s) THEN t
      ELSE updateHeight([t EXCEPT ![side] = set_subtree(d, s)])

set_side_subtree(t, side, s) ==
  IF IsProxy(t) THEN Call(t, LAMBDA n : setSideHere(n, side, Wire(s)))
                ELSE setSideHere(t, side, s)

(* The subtree goes to the other side. *)
faultyGraft(t, side, s) ==
  IF Null(s) THEN t ELSE set_side_subtree(t, Other(side), s)

(* A rotation or a pull moves a subtree, if there is one. *)
Graft(t, side, s) == IF Null(s) THEN t ELSE set_side_subtree(t, side, s)

-----------------------------------------------------------------------------
(* Moving words down one side (push) and up one side (pull).               *)

push_subtree(t, side, w, c) == Call(t, LAMBDA n : Push(n, side, w, c))

(* push_left_subtree and push_right_subtree *)
pushHere(t, side, w, c) ==
  LET pushed == IF Null(t[side]) THEN setDataHere(create, t.word, t.counter)
                ELSE push_subtree(t[side], side, t.word, t.counter)
      moved  == getSideHere(t, Other(side))
  IN  IF ~hasWord(t) THEN setDataHere(t, w, c)
      ELSE [t EXCEPT
              !.word = w, !.counter = c, !.height = 1,
              ![side] = IF Null(moved) THEN pushed
                        ELSE set_subtree(pushed, moved),
              ![Other(side)] = Cleared(@)]

(* pull_left_subtree and pull_right_subtree: both graft the two subtrees   *)
(* of the child they pull up on the right, the left one last.              *)
pullHere(t, side) ==
  LET c == t[side]
      bare    == [t EXCEPT !.left = Cleared(@), !.right = Cleared(@)]
      grafted == Graft(Graft(bare, "right", get_side_subtree(c, "right")),
                       "right", get_side_subtree(c, "left"))
  IN  IF Null(c) THEN clearData(bare)
      ELSE updateHeight(setDataHere(grafted, getWord(c), getCounter(c)))

-----------------------------------------------------------------------------
(* Rotations and rebalancing.                                              *)

(* rotate_left and rotate_right: rotating to one side lifts the child of   *)
(* the other side.                                                         *)
rotateHere(t, to) ==
  LET from == Other(to)
      up   == t[from]
      down == IF Null(t[to]) THEN setDataHere(create, t.word, t.counter)
              ELSE push_subtree(t[to], to, t.word, t.counter)
      rest == IF Null(getLeft(up)) /\ Null(getRight(up))
              THEN clear(up) ELSE pullHere(up, from)
  IN  IF Null(up) THEN Crash
      ELSE updateHeight(
             [setDataHere(t, getWord(up), getCounter(up)) EXCEPT
                ![to]   = Graft(down, from, get_side_subtree(up, to)),
                ![from] = rest])

rotate(t, to) == Call(t, LAMBDA n : rotateHere(n, to))

(* The tests of balance_remove, which nothing calls, or no test at all. *)
faultyTests(t, w)  == IF Balance(t) = 2 THEN ~smaller(t.right, w)
                                        ELSE smaller(t.left, w)
faultyNoTest(t, w) == FALSE

(* Does the new word call for a double rotation? *)
ChildFirst(t, w) == IF Balance(t) = 2 THEN smaller(t.right, w)
                                      ELSE ~smaller(t.left, w)

(* balance(updateHeight(), new_word) *)
balance(t, w) ==
  LET to   == IF Balance(t) = 2 THEN "left" ELSE "right"
      from == Other(to)
      c    == IF ChildFirst(t, w) THEN rotate(t[from], from) ELSE t[from]
  IN  IF Balance(t) \notin {-2, 2} THEN t
      ELSE IF c = Crash THEN Crash
      ELSE rotateHere([t EXCEPT ![from] = c], to)

-----------------------------------------------------------------------------
(* The two operations of the tree.                                         *)

(* The two sides are swapped. *)
faultySideOf(t, w) == IF w > t.word THEN "left" ELSE "right"

SideOf(t, w) == IF w > t.word THEN "right" ELSE "left"

insert(t, w) == Call(t, LAMBDA n : InsertInto(n, w))

insertHere(t, w) ==
  LET side == SideOf(t, w)
      c == IF Null(t[side]) THEN NewNode(w, 1, 0) ELSE insert(t[side], w)
  IN  CASE ~hasWord(t) -> setWord(t, w)
        [] hasWord(t) /\ w = t.word -> [t EXCEPT !.counter = @ + 1]
        [] OTHER -> IF c = Crash THEN Crash
                    ELSE balance(updateHeight([t EXCEPT ![side] = c]), w)

(* The base case of find_successor dereferences the left child it has just *)
(* found to be null, so that the recursion never returns a node.           *)
find_successor(t) == FindSuccessor(Data(t))

findSuccessorHere(t) ==
  LET next == t.left
  IN  IF Null(next) THEN Crash ELSE find_successor(next)

Holds(c) == ~Null(c) /\ hasWord(c)

remove_local_word(t) ==
  LET s == find_successor(t.right)
  IN  CASE Holds(t.left) /\ Holds(t.right) ->
             IF s = Crash THEN Crash ELSE setDataHere(t, s.word, s.counter)
        [] Holds(t.left)  /\ ~Holds(t.right) -> pullHere(t, "left")
        [] ~Holds(t.left) /\ Holds(t.right)  -> pullHere(t, "right")
        [] OTHER -> clearData(t)

remove(t, w) == Call(t, LAMBDA n : RemoveFrom(n, w))

(* Whatever the recursive call left there, the side is cleared.            *)
remove_remote_word(t, w) ==
  LET side == SideOf(t, w)
      c == remove(t[side], w)
  IN  IF Null(t[side]) THEN t
      ELSE IF c = Crash THEN Crash ELSE [t EXCEPT ![side] = clear(c)]

(* The last occurrence of a word: the test for two empty children looks    *)
(* into both as soon as one of them exists.                                *)
removeLast(t) ==
  CASE Null(t.left) /\ Null(t.right)  -> clearData(t)
    [] Holds(t.left)                  -> remove_local_word(t)
    [] ~Null(t.left) /\ ~hasWord(t.left) /\ ~Null(t.right) ->
         IF hasWord(t.right) THEN remove_local_word(t) ELSE clearData(t)
    [] OTHER                          -> Crash

removeHere(t, w) ==
  LET t1 == [t EXCEPT !.counter = @ - 1]
  IN  IF w # t.word THEN remove_remote_word(t, w)
      ELSE IF t1.counter > 0 THEN t1 ELSE removeLast(t1)
=============================================================================
