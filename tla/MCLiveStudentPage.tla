------------------------- MODULE MCLiveStudentPage -------------------------
(* A quiz of two questions, and a clock whose one jump ends a reveal or a lease. *)
EXTENDS LiveStudentPage, TLC

CONSTANTS ann, ben, a1, a2, b1, k1, k2, k3

StudentOwner == [c \in Connection |-> IF c = b1 THEN ben ELSE ann]
StudentAdvances == {24}
=============================================================================
