------------------------------ MODULE MCAVLTree ------------------------------
(***************************************************************************)
(* Instances of AVLTree for TLC.                                           *)
(***************************************************************************)
EXTENDS AVLTree

(* FileManager::test() calls insert for every word of words2: each word is *)
(* applied to the tree as often as it was inserted, once all is quiet, at  *)
(* least when no two threads write words_ at the same time.                *)
EveryWordInserted ==
  Quiet /\ ~raced => \A w \in Words : Times(w, applied) = Times(w, submitted)
=============================================================================
