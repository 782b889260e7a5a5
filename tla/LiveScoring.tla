---------------------------- MODULE LiveScoring ----------------------------
(***************************************************************************)
(* The points a correct answer earns in a timed live quiz                  *)
(* (scholars/live_scoring.py), in whole seconds.  The code computes        *)
(*     floor(max(25, 100 - 10 s + s^2 / 3) + 1/2)                          *)
(* for s seconds past the reading grace, clamped to 0..15; six times the   *)
(* argument is an integer when s is, and the floor becomes \div.           *)
(***************************************************************************)
EXTENDS Integers

FastestPoints == 100
SlowestPoints == 25

\* live_scoring.py:13 -- how far past the grace the answer came, at most 15 seconds.
ScoredSeconds(elapsed, grace) ==
    IF elapsed <= grace THEN 0
    ELSE IF elapsed - grace >= 15 THEN 15
    ELSE elapsed - grace

\* live_scoring.py:14 -- the parabola from 100 down to 25, rounded half up.
PointsAfter(s) ==
    LET sixfold == 600 - 60 * s + 2 * s * s
    IN  ((IF sixfold < 150 THEN 150 ELSE sixfold) + 3) \div 6

points_available(elapsed, grace) == PointsAfter(ScoredSeconds(elapsed, grace))
=============================================================================
