-------------------------- MODULE MCLiveHostPage --------------------------
(* A quiz of two questions, a student with one page, and a clock whose one jump ends
   a reveal or a lease. *)
EXTENDS LiveHostPage, TLC

CONSTANTS ann, p1, k1, k2, k3

HostOwner == [c \in Connection |-> ann]
HostAdvances == {24}
=============================================================================
