------------------------------- MODULE WordBag -------------------------------
(***************************************************************************)
(* What the word tree promises, without the tree: how many times each word *)
(* is held.  A counter in NodeData is the number of times its word was     *)
(* added and not removed.  The steps come in two strengths:                *)
(*   Next       an operation changes the count of its own word, by one;    *)
(*   LossyNext  an operation may also lose occurrences, of any word, but   *)
(*              never gains one that it did not add.                       *)
(***************************************************************************)
EXTENDS Naturals

CONSTANTS Words,
          Empty    \* the empty string, which stands for no word

VARIABLES count,   \* how many occurrences of each word are held
          added    \* how many add operations were served

Add(w) == /\ count' = [count EXCEPT ![w] = @ + 1]
          /\ added' = added + 1

(* Removing a word that is not held changes nothing. *)
Remove(w) == /\ count' = [count EXCEPT ![w] = IF @ = 0 THEN 0 ELSE @ - 1]
             /\ UNCHANGED added

Next == \E w \in Words : Add(w) \/ Remove(w)

AtMost(bound) == LET held == count' IN \A v \in Words : held[v] <= bound[v]

LossyAdd(w) == /\ AtMost([count EXCEPT ![w] = @ + 1])
               /\ added' = added + 1

LossyRemove == AtMost(count) /\ UNCHANGED added

LossyNext == LossyRemove \/ \E w \in Words : LossyAdd(w)
=============================================================================
