----------------------------- MODULE MCWordTree -----------------------------
(***************************************************************************)
(* Instances of WordTree for TLC, and the statements about it that the     *)
(* program's own messages make and that the program does not keep.         *)
(***************************************************************************)
EXTENDS WordTree

FiveWords  == 1..5
SixWords   == 1..6
SevenWords == 1..7

(* readFile splits lines at single spaces: two spaces make an empty word.  *)
FiveWordsAndEmpty == 0..5

(* rotate_left and rotate_right log "There isn't right child", "There      *)
(* isn't left child" as warnings, of a condition the program survives:     *)
(* inserting words never leads to a rotation without the child it lifts.   *)
(* It does once a rotation has cleared a whole remote child, of which it   *)
(* lifted one word: the tree is then out of balance before any insertion.  *)
ChildToRotateExists == root # Crash

(* The class is called AVLTree, and its comment on balance has no limits:  *)
(* insertions keep the words in order, which every insert and remove       *)
(* relies on to find its way.                                              *)
StaysInOrder == InOrder

(* And they keep an AVL tree: the heights of the subtrees of a node differ *)
(* by at most one.                                                         *)
StaysBalanced == HeightBalanced

(* remove_remote_word warns "Word not found child" and returns: a remove   *)
(* that does not find its word leaves the words of the tree as they are.   *)
NotFoundKeepsWords ==
  [][ \A w \in Words :
        REMOVE(w) /\ w \notin HeldWords(root) => HeldWords(root') = HeldWords(root)
    ]_vars
=============================================================================
