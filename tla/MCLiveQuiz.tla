----------------------------- MODULE MCLiveQuiz -----------------------------
(* Two students with a page each and a quiz of two questions. *)
EXTENDS LiveQuiz, TLC

CONSTANTS ann, ben, a1, b1, k1, k2, k3

MCOwner == (a1 :> ann) @@ (b1 :> ben)
MCAdvances == {12}

\* The students are interchangeable together with their pages, and so are the keys.
SwapStudents == (ann :> ben) @@ (ben :> ann) @@ (a1 :> b1) @@ (b1 :> a1)
Identity == [v \in Student \union Connection |-> v]
MCSymmetry == {s @@ k : s \in {Identity, SwapStudents}, k \in Permutations(Key)}
=============================================================================
