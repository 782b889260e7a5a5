-------------------------- MODULE MCLiveQuizPages --------------------------
(* One student with two pages, the true lease and reveal, and a clock whose one jump
   ends a reveal and whose two outlast a lease. *)
EXTENDS LiveQuiz, TLC

CONSTANTS ann, p1, p2, k1, k2, k3

PagesOwner == [c \in Connection |-> ann]
PagesAdvances == {12}
PagesSymmetry == Permutations(Connection) \union Permutations(Key)
=============================================================================
