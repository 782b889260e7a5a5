------------------------------- MODULE LiveQuizProofs -------------------------------
(***************************************************************************)
(* Theorems about the live quiz: the scoring curve for every elapsed time  *)
(* and reading grace, one quiz on the server for every set of students,    *)
(* pages and request keys, every number of questions and every lease,      *)
(* reveal and clock, and the answer board that the server implements.      *)
(***************************************************************************)
EXTENDS LiveQuiz, TLAPS, FiniteSetTheorems

(***************************************************************************)
(* The scoring curve (scholars/live_scoring.py).                           *)
(***************************************************************************)

LEMMA ScoredSecondsRange ==
    ASSUME NEW e \in Int, NEW g \in Int
    PROVE  ScoredSeconds(e, g) \in 0..15
BY DEF ScoredSeconds

LEMMA ScoredSecondsMonotone ==
    ASSUME NEW e \in Int, NEW f \in Int, NEW g \in Int, e <= f
    PROVE  ScoredSeconds(e, g) <= ScoredSeconds(f, g)
BY DEF ScoredSeconds

\* The sixteen values of the curve; the parabola has its vertex at 15 seconds.
LEMMA PointsTable ==
    /\ PointsAfter(0) = 100 /\ PointsAfter(1) = 90 /\ PointsAfter(2) = 81
    /\ PointsAfter(3) = 73 /\ PointsAfter(4) = 65 /\ PointsAfter(5) = 58
    /\ PointsAfter(6) = 52 /\ PointsAfter(7) = 46 /\ PointsAfter(8) = 41
    /\ PointsAfter(9) = 37 /\ PointsAfter(10) = 33 /\ PointsAfter(11) = 30
    /\ PointsAfter(12) = 28 /\ PointsAfter(13) = 26 /\ PointsAfter(14) = 25
    /\ PointsAfter(15) = 25
BY DEF PointsAfter

LEMMA SixteenSeconds ==
    ASSUME NEW s \in 0..15
    PROVE  \/ s = 0 \/ s = 1 \/ s = 2 \/ s = 3 \/ s = 4 \/ s = 5 \/ s = 6 \/ s = 7
           \/ s = 8 \/ s = 9 \/ s = 10 \/ s = 11 \/ s = 12 \/ s = 13 \/ s = 14 \/ s = 15
OBVIOUS

\* Every correct answer earns between 25 and 100 points, however late it comes.
THEOREM PointsRange ==
    ASSUME NEW e \in Int, NEW g \in Int
    PROVE  points_available(e, g) \in SlowestPoints..FastestPoints
<1>1. ScoredSeconds(e, g) \in 0..15
    BY ScoredSecondsRange
<1>2. \A s \in 0..15 : PointsAfter(s) \in 25..100
    BY PointsTable, SixteenSeconds
<1>3. QED BY <1>1, <1>2 DEF points_available, SlowestPoints, FastestPoints

\* A later answer never earns more than an earlier one.
THEOREM PointsMonotone ==
    ASSUME NEW e \in Int, NEW f \in Int, NEW g \in Int, e <= f
    PROVE  points_available(f, g) <= points_available(e, g)
<1>1. ScoredSeconds(e, g) \in 0..15 /\ ScoredSeconds(f, g) \in 0..15
    BY ScoredSecondsRange
<1>2. ScoredSeconds(e, g) <= ScoredSeconds(f, g)
    BY ScoredSecondsMonotone
<1>3. \A s, t \in 0..15 : s <= t => PointsAfter(t) <= PointsAfter(s)
    BY PointsTable, SixteenSeconds
<1>4. QED BY <1>1, <1>2, <1>3 DEF points_available

(***************************************************************************)
(* Type correctness.  Each action is examined part by part.                *)
(***************************************************************************)

LEMMA InitTypeOK == Init => TypeOK
<1> SUFFICES ASSUME Init PROVE TypeOK
    OBVIOUS
<1>1. GameTypes
    <2>1. now \in Instant /\ version \in Nat /\ position \in 0..QuestionCount /\ late_joiners \in Nat
        BY LiveQuizAssumption DEF Init, Instant
    <2>2. QED BY <2>1 DEF Init, GameTypes
<1>2. QuestionTypes
    BY DEF Init, QuestionTypes, None
<1>3. PlayerTypes
    BY LiveQuizAssumption DEF Init, PlayerTypes, None
<1>4. ConnectionTypes
    BY DEF Init, ConnectionTypes, None
<1>5. ResponseTypes
    BY DEF Init, ResponseTypes, Score, NoResponse, FastestPoints
<1>6. QED BY <1>1, <1>2, <1>3, <1>4, <1>5 DEF TypeOK

LEMMA FiniteStudents == \A S \in SUBSET Student : IsFiniteSet(S) /\ Cardinality(S) \in Nat
BY LiveQuizAssumption, FS_Subset, FS_CardinalityType

LEMMA PageTypeOK ==
    ASSUME TypeOK, NEW c \in Connection, Join(c) \/ Heartbeat(c) \/ Leave(c)
    PROVE  TypeOK'
<1> USE DEF TypeOK
<1>1. Owner[c] \in Student
    BY LiveQuizAssumption
<1>2. GameTypes'
    BY DEF Join, Heartbeat, Leave, GameTypes, gameVars, Instant, Request
<1>3. QuestionTypes'
    BY DEF Join, Heartbeat, Leave, QuestionTypes, questionVars, Question, Instant
<1>4. PlayerTypes'
    BY <1>1 DEF Join, Heartbeat, Leave, PlayerTypes, GameTypes, timerVars, Instant
<1>5. ConnectionTypes'
    BY DEF Join, Heartbeat, Leave, ConnectionTypes, GameTypes, Instant
<1>6. ResponseTypes'
    BY DEF Join, Heartbeat, Leave, ResponseTypes, Question, Score, Instant
<1>7. QED BY <1>2, <1>3, <1>4, <1>5, <1>6

LEMMA ReadyTypeOK ==
    ASSUME TypeOK, NEW u \in Student, NEW q \in Question, Ready(u, q)
    PROVE  TypeOK'
<1> USE DEF TypeOK, Ready
<1>1. GameTypes'
    BY DEF GameTypes, gameVars, Instant, Request
<1>2. QuestionTypes'
    BY DEF QuestionTypes, questionVars, Question, Instant
<1>3. PlayerTypes'
    BY LiveQuizAssumption DEF PlayerTypes, GameTypes, Question, Instant
<1>4. ConnectionTypes'
    BY DEF ConnectionTypes, connectionVars, Instant
<1>5. ResponseTypes'
    BY DEF ResponseTypes, Question, Score, Instant
<1>6. QED BY <1>1, <1>2, <1>3, <1>4, <1>5

LEMMA StartedAtType ==
    ASSUME TypeOK, NEW u \in Student, NEW q \in Question
    PROVE  StartedAt(u, q) \in Int
BY LiveQuizAssumption DEF TypeOK, QuestionTypes, PlayerTypes, StartedAt, Latest, Instant, None

LEMMA AnswerTypeOK ==
    ASSUME TypeOK, NEW u \in Student, NEW q \in Question, NEW how \in Outcomes,
           Answer(u, q, how)
    PROVE  TypeOK'
<1> DEFINE points == IF how = "correct"
                     THEN points_available(now - StartedAt(u, q), Grace) ELSE 0
           row == [status |-> how, finalized_at |-> now, points |-> points]
<1> USE DEF TypeOK, Answer
<1>1. points_available(now - StartedAt(u, q), Grace) \in SlowestPoints..FastestPoints
    BY StartedAtType, PointsRange, LiveQuizAssumption DEF GameTypes, Instant
<1>2. points \in 0..FastestPoints
    BY <1>1 DEF SlowestPoints, FastestPoints
<1>3. response' = [response EXCEPT ![u][q] = row]
    OBVIOUS
<1> HIDE DEF points
<1>4. row \in Score
    BY <1>2, LiveQuizAssumption DEF Score, GameTypes
<1> HIDE DEF row
<1>5. ResponseTypes'
    <2>1. response' \in [Student -> [Question -> Score]]
        BY <1>3, <1>4 DEF ResponseTypes
    <2>2. QED BY <2>1 DEF ResponseTypes, Question, Score, Instant
<1>6. GameTypes'
    BY DEF GameTypes, gameVars, Instant, Request
<1>7. QuestionTypes'
    BY DEF QuestionTypes, questionVars, Question, Instant
<1>8. PlayerTypes'
    BY DEF PlayerTypes, timerVars, Instant
<1>9. ConnectionTypes'
    BY DEF ConnectionTypes, connectionVars, Instant
<1>10. QED BY <1>5, <1>6, <1>7, <1>8, <1>9

LEMMA CloseQuestionType ==
    ASSUME TypeOK, CloseQuestion
    PROVE  /\ closed_at' \in [Question -> Instant \union {None}]
           /\ response' \in [Student -> [Question -> Score]]
<1> DEFINE row == [status |-> "unanswered", finalized_at |-> now, points |-> 0]
<1>1. row \in Score
    BY DEF Score, TypeOK, GameTypes, FastestPoints
<1> HIDE DEF row
<1>2. response' \in [Student -> [Question -> Score]]
    BY <1>1 DEF CloseQuestion, TypeOK, ResponseTypes, row
<1>3. closed_at' \in [Question -> Instant \union {None}]
    BY DEF CloseQuestion, TypeOK, QuestionTypes, GameTypes
<1>4. QED BY <1>2, <1>3

LEMMA TransitionTypeOK ==
    ASSUME TypeOK, NEW r \in Request, Transition(r)
    PROVE  TypeOK'
<1> USE DEF TypeOK
<1>1. /\ UNCHANGED <<now, account, late_joiners, joined, timerVars, connectionVars, removed>>
      /\ version' \in Nat /\ transitions' \subseteq Request
    BY DEF Transition, GameTypes
<1>2. ConnectionTypes'
    BY <1>1 DEF ConnectionTypes, connectionVars, Instant
<1>3. CASE Start
    <2>1. Cardinality(Players) \in Nat
        BY FiniteStudents DEF Players, PlayerTypes
    <2>2. GameTypes'
        BY <1>1, <1>3, <2>1, LiveQuizAssumption DEF Start, GameTypes, Instant, Request
    <2>3. QuestionTypes'
        BY <1>1, <1>3, LiveQuizAssumption DEF Start, QuestionTypes, GameTypes, Question, Instant
    <2>4. PlayerTypes'
        BY <1>1, <1>3 DEF Start, PlayerTypes, GameTypes, timerVars, Instant
    <2>5. ResponseTypes'
        BY <1>3 DEF Start, ResponseTypes, Question, Score, Instant
    <2>6. QED BY <1>2, <2>2, <2>3, <2>4, <2>5
<1>4. CASE Cancel
    <2>1. GameTypes'
        BY <1>1, <1>4 DEF Cancel, GameTypes, Instant, Request
    <2>2. QuestionTypes' /\ ResponseTypes'
        BY <1>4 DEF Cancel, QuestionTypes, questionVars, ResponseTypes, Question, Score, Instant
    <2>3. PlayerTypes'
        BY <1>1, <1>4 DEF Cancel, PlayerTypes, timerVars, Instant
    <2>4. QED BY <1>2, <2>1, <2>2, <2>3
<1>5. CASE Advance(r.action)
    <2>1. /\ closed_at' \in [Question -> Instant \union {None}]
          /\ response' \in [Student -> [Question -> Score]]
        BY <1>5, CloseQuestionType DEF Advance
    <2>2. GameTypes'
        <3>1. ended_early' \in BOOLEAN
            <4>1. ended_early' = (position < QuestionCount) \/ UNCHANGED ended_early
                BY <1>5, Zenon DEF Advance
            <4>2. (position < QuestionCount) \in BOOLEAN
                OBVIOUS
            <4>3. QED BY <4>1, <4>2, Zenon DEF GameTypes
        <3>2. position' \in 0..QuestionCount
            BY <1>5, LiveQuizAssumption DEF Advance, LastQuestion, GameTypes
        <3>3. phase' \in {"waiting", "running", "finished", "cancelled"}
            BY <1>5 DEF Advance, GameTypes
        <3>4. QED
            BY <1>1, <1>5, <3>1, <3>2, <3>3 DEF Advance, GameTypes, Instant, Request
    <2>3. opened_at' \in [Question -> 0..MaxTime + REVEAL_SECONDS \union {None}]
        <3>1. now + REVEAL_SECONDS \in 0..MaxTime + REVEAL_SECONDS
            BY LiveQuizAssumption DEF GameTypes, Instant
        <3>2. QED BY <1>5, <3>1 DEF Advance, QuestionTypes
    <2>4. QuestionTypes' /\ ResponseTypes'
        BY <2>1, <2>3 DEF QuestionTypes, ResponseTypes, Question, Score, Instant
    <2>5. PlayerTypes'
        BY <1>1, <1>5 DEF Advance, PlayerTypes, timerVars, Instant
    <2>6. QED BY <1>2, <2>2, <2>4, <2>5
<1>6. QED BY <1>3, <1>4, <1>5 DEF Transition

LEMMA AccountTypeOK ==
    ASSUME TypeOK, NEW u \in Student, Bar(u) \/ Unbar(u) \/ Delete(u)
    PROVE  TypeOK'
<1> USE DEF TypeOK
<1>1. GameTypes'
    BY DEF Bar, Unbar, Delete, GameTypes, gameVars, Instant, Request
<1>2. QuestionTypes'
    BY DEF Bar, Unbar, Delete, QuestionTypes, questionVars, Question, Instant
<1>3. PlayerTypes'
    BY LiveQuizAssumption DEF Bar, Unbar, Delete, PlayerTypes, timerVars, Instant
<1>4. ConnectionTypes'
    BY DEF Bar, Unbar, Delete, ConnectionTypes, connectionVars, Instant
<1>5. ResponseTypes'
    <2>1. NoResponse \in Score
        BY DEF NoResponse, Score, FastestPoints
    <2>2. response' \in [Student -> [Question -> Score]]
        BY <2>1 DEF Bar, Unbar, Delete, ResponseTypes
    <2>3. QED BY <2>2 DEF ResponseTypes, Question, Score, Instant
<1>6. QED BY <1>1, <1>2, <1>3, <1>4, <1>5

LEMMA IdleTypeOK ==
    ASSUME TypeOK, Tick \/ UNCHANGED vars
    PROVE  TypeOK'
<1> USE DEF TypeOK
<1>1. GameTypes'
    BY LiveQuizAssumption DEF Tick, vars, GameTypes, gameVars, Instant, Request
<1>2. QuestionTypes'
    BY DEF Tick, vars, QuestionTypes, questionVars, Question, Instant
<1>3. PlayerTypes'
    BY DEF Tick, vars, PlayerTypes, timerVars, Instant
<1>4. ConnectionTypes'
    BY DEF Tick, vars, ConnectionTypes, connectionVars, Instant
<1>5. ResponseTypes'
    BY DEF Tick, vars, ResponseTypes, Question, Score, Instant
<1>6. QED BY <1>1, <1>2, <1>3, <1>4, <1>5

LEMMA NextTypeOK == TypeOK /\ [Next]_vars => TypeOK'
BY PageTypeOK, ReadyTypeOK, AnswerTypeOK, TransitionTypeOK, AccountTypeOK, IdleTypeOK DEF Next

\* The rows of a live quiz keep their types, whatever its pages send.
THEOREM TypeCorrect == Spec => []TypeOK
BY InitTypeOK, NextTypeOK, PTL DEF Spec

(***************************************************************************)
(* The inductive invariant.  Shape ties the stage of the game to the       *)
(* questions' timestamps; Rows says when a response row may exist; Covered *)
(* is the half of ClosedComplete that closing a question establishes;      *)
(* Clocks bounds the players' clocks.                                       *)
(***************************************************************************)

Shape ==
    /\ phase \in {"waiting", "cancelled"} => position = 0 /\ \A u \in Student : roster_at[u] = None
    /\ phase \in {"running", "finished"} => position \in Question
    /\ \A q \in Question : opened_at[q] # None <=> q <= position
    /\ \A q \in Question : closed_at[q] # None <=>
          (q < position \/ (q = position /\ phase = "finished"))
    /\ \A q \in Question : closed_at[q] <= now
    /\ \A u \in Student : roster_at[u] <= now

Rows ==
    \A u \in Student, q \in Question : Answered(u, q) =>
        /\ roster_at[u] # None /\ roster_at[u] <= response[u][q].finalized_at
        /\ opened_at[q] # None /\ opened_at[q] <= response[u][q].finalized_at
        /\ response[u][q].finalized_at <= now
        /\ closed_at[q] # None => response[u][q].finalized_at <= closed_at[q]

Covered ==
    \A u \in Student, q \in Question :
        /\ closed_at[q] # None
        /\ roster_at[u] # None /\ roster_at[u] < closed_at[q]
        => Answered(u, q)

Clocks ==
    \A u \in Student : timer_position[u] # 0 =>
        /\ roster_at[u] # None /\ roster_at[u] <= question_started_at[u]
        /\ timer_position[u] <= position
        /\ opened_at[timer_position[u]] <= question_started_at[u]
        /\ question_started_at[u] <= now

IInv == Shape /\ Rows /\ Covered /\ Clocks

Cohort ==
    /\ phase = "waiting" => late_joiners = 0 /\ removed = {}
    /\ \A u \in Student : roster_at[u] # None => account[u] # "deleted"
    /\ \A u \in removed : account[u] = "deleted"
    /\ CohortAddsUp

Log ==
    /\ IsFiniteSet(transitions)
    /\ \A t \in transitions : t.version < version
    /\ OneTransitionPerState

\* Every timestamp is an integer, NULL among them.
LEMMA Numbers ==
    ASSUME TypeOK
    PROVE  /\ now \in Nat /\ position \in Nat /\ QuestionCount \in Nat /\ Question \subseteq Nat
           /\ \A u \in Student : /\ roster_at[u] \in Int /\ question_started_at[u] \in Int
                                 /\ timer_position[u] \in 0..QuestionCount
           /\ \A q \in Question : opened_at[q] \in Int /\ closed_at[q] \in Int
           /\ \A u \in Student, q \in Question : response[u][q] \in Score
           /\ \A row \in Score : row.finalized_at \in Int
<1> USE LiveQuizAssumption DEF TypeOK
<1>1. now \in Nat /\ position \in Nat /\ QuestionCount \in Nat /\ Question \subseteq Nat
    BY DEF GameTypes, Instant, Question
<1>2. \A u \in Student : /\ roster_at[u] \in Int /\ question_started_at[u] \in Int
                          /\ timer_position[u] \in 0..QuestionCount
    BY DEF PlayerTypes, Instant, None
<1>3. \A q \in Question : opened_at[q] \in Int /\ closed_at[q] \in Int
    BY DEF QuestionTypes, Instant, None
<1>4. \A u \in Student, q \in Question : response[u][q] \in Score
    BY DEF ResponseTypes
<1>5. \A row \in Score : row.finalized_at \in Int
    BY DEF Score, Instant, None
<1>6. QED BY <1>1, <1>2, <1>3, <1>4, <1>5

LEMMA InitIInv == Init => IInv
<1> SUFFICES ASSUME Init PROVE IInv
    OBVIOUS
<1>1. Shape
    BY LiveQuizAssumption DEF Init, Shape, Question, None
<1>2. Rows /\ Covered
    BY DEF Init, Rows, Covered, Answered, NoResponse
<1>3. Clocks
    BY DEF Init, Clocks
<1>4. QED BY <1>1, <1>2, <1>3 DEF IInv

\* What the invariant speaks of, besides the clock.
stageVars == <<phase, position, opened_at, closed_at, roster_at, timer_position,
               question_started_at, response>>

\* Heartbeats, departures, account changes and the passing of time disturb nothing.
LEMMA QuietStep ==
    ASSUME TypeOK, IInv, UNCHANGED stageVars, now' \in Nat, now' >= now
    PROVE  IInv'
<1> USE Numbers DEF IInv, stageVars
<1>1. Shape'
    BY DEF Shape
<1>2. Rows'
    BY DEF Rows, Answered, Score, NoResponse
<1>3. Covered'
    BY DEF Covered, Answered
<1>4. Clocks'
    BY DEF Clocks, Question
<1>5. QED BY <1>1, <1>2, <1>3, <1>4

LEMMA JoinStep ==
    ASSUME TypeOK, IInv, NEW c \in Connection, Join(c)
    PROVE  IInv'
<1>1. CASE ~Admits(Owner[c])
    BY <1>1, QuietStep, Numbers DEF Join, gameVars, questionVars, timerVars, stageVars
<1>2. CASE Admits(Owner[c])
    <2> USE Numbers DEF IInv
    <2>1. /\ Owner[c] \in Student /\ roster_at[Owner[c]] = None /\ phase = "running"
          /\ \A u \in Student : roster_at'[u] = IF u = Owner[c] THEN now ELSE roster_at[u]
          /\ UNCHANGED <<now, phase, position, opened_at, closed_at, timer_position,
                         question_started_at, response>>
        BY <1>2, LiveQuizAssumption DEF Join, Admits, gameVars, questionVars, timerVars,
              TypeOK, PlayerTypes
    <2>2. Shape'
        BY <2>1 DEF Shape, None
    <2>3. Rows'
        BY <2>1 DEF Rows, Answered
    <2>4. Covered'
        BY <2>1 DEF Covered, Answered, Shape
    <2>5. Clocks'
        BY <2>1 DEF Clocks
    <2>6. QED BY <2>2, <2>3, <2>4, <2>5
<1>3. QED BY <1>1, <1>2

LEMMA ReadyStep ==
    ASSUME TypeOK, IInv, NEW u \in Student, NEW q \in Question, Ready(u, q)
    PROVE  IInv'
<1> USE Numbers DEF IInv
<1>1. /\ UNCHANGED <<now, phase, position, opened_at, closed_at, roster_at, response>>
      /\ roster_at[u] # None /\ q = position /\ opened_at[q] <= now
      /\ \A v \in Student : timer_position'[v] = IF v = u THEN q ELSE timer_position[v]
      /\ \A v \in Student :
            question_started_at'[v] = IF v = u THEN now ELSE question_started_at[v]
    BY DEF Ready, Roster, Accepting, gameVars, questionVars, TypeOK, PlayerTypes
<1>2. Shape' /\ Rows' /\ Covered'
    BY <1>1 DEF Shape, Rows, Covered, Answered
<1>3. Clocks'
    BY <1>1 DEF Clocks, Shape
<1>4. QED BY <1>2, <1>3

LEMMA AnswerStep ==
    ASSUME TypeOK, IInv, NEW u \in Student, NEW q \in Question, NEW how \in Outcomes,
           Answer(u, q, how)
    PROVE  IInv'
<1> USE Numbers DEF IInv
<1>1. /\ UNCHANGED <<now, phase, position, opened_at, closed_at, roster_at, timer_position,
                     question_started_at>>
      /\ roster_at[u] # None /\ opened_at[q] # None /\ opened_at[q] <= now
      /\ closed_at[q] = None
      /\ response'[u][q].finalized_at = now
      /\ \A v \in Student, p \in Question :
            v # u \/ p # q => response'[v][p] = response[v][p]
    BY DEF Answer, Roster, Accepting, gameVars, questionVars, timerVars, TypeOK, ResponseTypes
<1>2. Shape' /\ Clocks'
    BY <1>1 DEF Shape, Clocks
<1>3. Rows'
    BY <1>1 DEF Rows, Shape, Answered
<1>4. Covered'
    BY <1>1 DEF Covered, Answered
<1>5. QED BY <1>2, <1>3, <1>4

LEMMA StartStep ==
    ASSUME TypeOK, IInv, Start, UNCHANGED <<now, timerVars>>
    PROVE  IInv'
<1> USE Numbers, LiveQuizAssumption DEF IInv
<1>1. /\ phase = "waiting" /\ phase' = "running" /\ position' = 1 /\ position = 0
      /\ UNCHANGED <<now, closed_at, response, timer_position, question_started_at>>
      /\ \A u \in Student : roster_at[u] = None /\ roster_at'[u] \in {now, None}
      /\ \A q \in Question : opened_at'[q] = IF q = 1 THEN now ELSE opened_at[q]
    BY DEF Start, Shape, timerVars, TypeOK, QuestionTypes
<1>2. \A u \in Student, q \in Question : ~Answered(u, q)
    BY <1>1 DEF Rows
<1>3. Shape'
    BY <1>1 DEF Shape, Question, None
<1>4. Rows' /\ Covered'
    BY <1>1, <1>2 DEF Rows, Covered, Shape, Answered
<1>5. Clocks'
    BY <1>1 DEF Clocks
<1>6. QED BY <1>3, <1>4, <1>5

LEMMA CancelStep ==
    ASSUME TypeOK, IInv, Cancel, UNCHANGED <<now, timerVars>>
    PROVE  IInv'
<1> USE Numbers DEF IInv, Cancel, questionVars, timerVars
<1>1. Shape'
    BY DEF Shape
<1>2. Rows' /\ Covered'
    BY DEF Rows, Covered, Answered
<1>3. Clocks'
    BY DEF Clocks
<1>4. QED BY <1>1, <1>2, <1>3

\* What closing a question does to the cells, in the code's order of tests.
LEMMA ClosedCells ==
    ASSUME TypeOK, CloseQuestion, position \in Question
    PROVE  /\ \A q \in Question : closed_at'[q] = IF q = position THEN now ELSE closed_at[q]
           /\ \A u \in Student, q \in Question :
                q # position \/ Answered(u, q) \/ roster_at[u] = None =>
                    response'[u][q] = response[u][q]
           /\ \A u \in Student : roster_at[u] # None /\ ~Answered(u, position) =>
                response'[u][position] =
                    [status |-> "unanswered", finalized_at |-> now, points |-> 0]
BY DEF CloseQuestion, Roster, TypeOK, QuestionTypes, ResponseTypes

LEMMA AdvanceStep ==
    ASSUME TypeOK, IInv, NEW action \in {"next", "end"}, Advance(action),
           UNCHANGED <<now, timerVars>>
    PROVE  IInv'
<1> USE Numbers, LiveQuizAssumption DEF IInv
<1>1. /\ UNCHANGED <<now, roster_at, timer_position, question_started_at>>
      /\ phase = "running" /\ position \in Question /\ opened_at[position] <= now
      /\ CloseQuestion
    BY DEF Advance, MayAdvance, Shape, timerVars
<1>2. /\ \A q \in Question : closed_at'[q] = IF q = position THEN now ELSE closed_at[q]
      /\ \A u \in Student, q \in Question :
           q # position \/ Answered(u, q) \/ roster_at[u] = None =>
               response'[u][q] = response[u][q]
      /\ \A u \in Student : roster_at[u] # None /\ ~Answered(u, position) =>
           response'[u][position] =
               [status |-> "unanswered", finalized_at |-> now, points |-> 0]
    BY <1>1, ClosedCells
<1>3. \/ /\ phase' = "finished" /\ UNCHANGED <<position, opened_at>>
      \/ /\ phase' = "running" /\ position' = position + 1 /\ position' \in Question
         /\ \A q \in Question : opened_at'[q] =
                IF q = position + 1 THEN now + REVEAL_SECONDS ELSE opened_at[q]
    BY <1>1 DEF Advance, LastQuestion, TypeOK, QuestionTypes, GameTypes, Question
<1>4. Shape'
    <2>1. closed_at[position] = None
        BY <1>1 DEF Shape
    <2>2. now # None /\ now + REVEAL_SECONDS # None
        BY DEF None
    <2>3. QED BY <1>1, <1>2, <1>3, <2>1, <2>2 DEF Shape
<1>5. Rows'
    <2> SUFFICES ASSUME NEW u \in Student, NEW q \in Question, Answered(u, q)'
                 PROVE  /\ roster_at[u] # None
                        /\ roster_at[u] <= response'[u][q].finalized_at
                        /\ opened_at'[q] # None
                        /\ opened_at'[q] <= response'[u][q].finalized_at
                        /\ response'[u][q].finalized_at <= now
                        /\ closed_at'[q] # None => response'[u][q].finalized_at <= closed_at'[q]
        BY <1>1 DEF Rows
    <2>1. CASE Answered(u, q)
        <3>1. /\ response'[u][q] = response[u][q]
              /\ opened_at[q] # None
              /\ opened_at'[q] = opened_at[q]
            BY <1>2, <1>3, <2>1 DEF Rows, Shape
        <3>2. QED BY <1>1, <1>2, <2>1, <3>1 DEF Rows
    <2>2. CASE ~Answered(u, q)
        <3>1. q = position /\ roster_at[u] # None
            BY <1>2, <2>2 DEF Answered
        <3>2. response'[u][q].finalized_at = now
            BY <1>2, <2>2, <3>1
        <3>3. opened_at'[q] = opened_at[q] /\ opened_at[q] # None
            BY <1>1, <1>3, <3>1 DEF Shape
        <3>4. QED BY <1>1, <1>2, <3>1, <3>2, <3>3 DEF Shape
    <2>3. QED BY <2>1, <2>2
<1>6. Covered'
    BY <1>1, <1>2 DEF Covered, Answered
<1>7. Clocks'
    BY <1>1, <1>3 DEF Clocks, Shape, Question
<1>8. QED BY <1>4, <1>5, <1>6, <1>7

LEMMA DeleteStep ==
    ASSUME TypeOK, IInv, NEW u \in Student, Delete(u)
    PROVE  IInv'
<1> USE Numbers DEF IInv
<1>1. /\ UNCHANGED <<now, phase, position, opened_at, closed_at>>
      /\ \A v \in Student :
            /\ roster_at'[v] = IF v = u THEN None ELSE roster_at[v]
            /\ timer_position'[v] = IF v = u THEN 0 ELSE timer_position[v]
            /\ v # u => question_started_at'[v] = question_started_at[v]
            /\ v # u => response'[v] = response[v]
      /\ \A q \in Question : response'[u][q] = NoResponse
    BY DEF Delete, gameVars, questionVars, TypeOK, PlayerTypes, ResponseTypes
<1>2. Shape'
    BY <1>1 DEF Shape, None
<1>3. Rows' /\ Covered'
    BY <1>1 DEF Rows, Covered, Answered, NoResponse
<1>4. Clocks'
    BY <1>1 DEF Clocks
<1>5. QED BY <1>2, <1>3, <1>4

LEMMA NextIInv == TypeOK /\ IInv /\ [Next]_vars => IInv'
<1> SUFFICES ASSUME TypeOK, IInv, [Next]_vars PROVE IInv'
    OBVIOUS
<1>1. ASSUME NEW c \in Connection, Heartbeat(c) \/ Leave(c) PROVE IInv'
    BY <1>1, QuietStep, Numbers DEF Heartbeat, Leave, stageVars, gameVars, questionVars, timerVars
<1>2. ASSUME NEW u \in Student, Bar(u) \/ Unbar(u) PROVE IInv'
    BY <1>2, QuietStep, Numbers DEF Bar, Unbar, stageVars, gameVars, questionVars, timerVars
<1>3. CASE Tick
    BY <1>3, QuietStep, Numbers, LiveQuizAssumption
       DEF Tick, stageVars, gameVars, questionVars, timerVars
<1>4. CASE UNCHANGED vars
    BY <1>4, QuietStep, Numbers DEF vars, stageVars, gameVars, questionVars, timerVars
<1>5. ASSUME NEW r \in Request, Transition(r) PROVE IInv'
    BY <1>5, StartStep, CancelStep, AdvanceStep DEF Transition, Advance
<1>6. QED
    BY <1>1, <1>2, <1>3, <1>4, <1>5, JoinStep, ReadyStep, AnswerStep, DeleteStep DEF Next

THEOREM Invariance == Spec => [](TypeOK /\ IInv)
BY InitTypeOK, NextTypeOK, InitIInv, NextIInv, PTL DEF Spec

\* Closing a question leaves exactly one final row per player admitted before it.
THEOREM ClosedQuestionsComplete == Spec => []ClosedComplete
<1>1. TypeOK /\ IInv => ClosedComplete
    BY Numbers DEF IInv, Rows, Covered, ClosedComplete, Roster
<1>2. QED BY <1>1, Invariance, PTL

\* No answer was recorded in a reveal or after the host moved on.
THEOREM AnswersWhileOpen == Spec => []AnsweredWhileOpen
<1>1. IInv => AnsweredWhileOpen
    BY DEF IInv, Rows, AnsweredWhileOpen
<1>2. QED BY <1>1, Invariance, PTL

(***************************************************************************)
(* Points.  A step leaves a cell of the answer table alone, clears it with *)
(* its player, or fills an empty one; then FairPoints is inductive, since  *)
(* the clock of the current question never started before its opening.     *)
(***************************************************************************)

SameCell(u, q) ==
    /\ response'[u][q] = response[u][q]
    /\ Answered(u, q) => roster_at'[u] = roster_at[u] /\ opened_at'[q] = opened_at[q]

FilledCell(u, q) ==
    /\ ~Answered(u, q)
    /\ roster_at[u] # None /\ roster_at'[u] = roster_at[u] /\ opened_at'[q] = opened_at[q]
    /\ response'[u][q].finalized_at = now
    /\ \/ /\ response'[u][q].status = "correct"
          /\ response'[u][q].points = points_available(now - StartedAt(u, q), Grace)
       \/ response'[u][q].status # "correct" /\ response'[u][q].points = 0

LEMMA CellStep ==
    ASSUME TypeOK, IInv, [Next]_vars, NEW u \in Student, NEW q \in Question
    PROVE  roster_at'[u] = None \/ SameCell(u, q) \/ FilledCell(u, q)
<1> USE Numbers, LiveQuizAssumption
<1>1. ASSUME UNCHANGED <<response, opened_at, roster_at>> PROVE SameCell(u, q)
    BY <1>1 DEF SameCell
<1>2. CASE (\E c \in Connection : Heartbeat(c) \/ Leave(c)) \/ Tick \/ UNCHANGED vars
    BY <1>1, <1>2 DEF Heartbeat, Leave, Tick, vars, questionVars
<1>3. ASSUME NEW c \in Connection, Join(c) PROVE SameCell(u, q)
    <2>1. response' = response /\ opened_at' = opened_at
        BY <1>3 DEF Join, questionVars
    <2>2. Answered(u, q) => roster_at'[u] = roster_at[u]
        BY <1>3 DEF Join, Admits, IInv, Rows, TypeOK, PlayerTypes
    <2>3. QED BY <2>1, <2>2 DEF SameCell
<1>4. ASSUME NEW v \in Student, NEW p \in Question, Ready(v, p) PROVE SameCell(u, q)
    BY <1>1, <1>4 DEF Ready, questionVars
<1>5. ASSUME NEW v \in Student, NEW p \in Question, NEW how \in Outcomes, Answer(v, p, how)
      PROVE  SameCell(u, q) \/ FilledCell(u, q)
    <2>1. UNCHANGED <<opened_at, roster_at>> /\ roster_at[v] # None /\ ~Answered(v, p)
        BY <1>5 DEF Answer, questionVars, Roster
    <2>2. CASE u = v /\ q = p
        <3>1. response'[u][q] =
                [status |-> how, finalized_at |-> now,
                 points |-> IF how = "correct"
                            THEN points_available(now - StartedAt(u, q), Grace) ELSE 0]
            BY <1>5, <2>2 DEF Answer, TypeOK, ResponseTypes
        <3>2. QED BY <2>1, <2>2, <3>1 DEF FilledCell
    <2>3. CASE u # v \/ q # p
        BY <1>5, <2>1, <2>3 DEF Answer, SameCell, TypeOK, ResponseTypes
    <2>4. QED BY <2>2, <2>3
<1>6. ASSUME NEW r \in Request, Transition(r)
      PROVE  SameCell(u, q) \/ FilledCell(u, q)
    <2>1. CASE Start
        BY <2>1 DEF Start, SameCell, IInv, Rows, Shape, Answered
    <2>2. CASE Cancel
        BY <1>1, <2>2 DEF Cancel, questionVars
    <2>3. CASE Advance(r.action)
        <3>1. /\ CloseQuestion /\ roster_at' = roster_at /\ position \in Question
              /\ q <= position => opened_at'[q] = opened_at[q]
            BY <2>3 DEF Advance, MayAdvance, IInv, Shape, TypeOK, QuestionTypes
        <3>2. Answered(u, q) => q <= position
            BY DEF IInv, Rows, Shape
        <3>3. QED BY <3>1, <3>2, ClosedCells DEF SameCell, FilledCell
    <2>4. QED BY <1>6, <2>1, <2>2, <2>3 DEF Transition
<1>7. ASSUME NEW v \in Student, Bar(v) \/ Unbar(v) PROVE SameCell(u, q)
    BY <1>1, <1>7 DEF Bar, Unbar, questionVars
<1>8. ASSUME NEW v \in Student, Delete(v)
      PROVE  roster_at'[u] = None \/ SameCell(u, q)
    BY <1>8 DEF Delete, questionVars, SameCell, TypeOK, PlayerTypes, ResponseTypes
<1>9. QED BY <1>2, <1>3, <1>4, <1>5, <1>6, <1>7, <1>8 DEF Next

LEMMA ClockBound ==
    ASSUME TypeOK, IInv, NEW u \in Student, NEW q \in Question, roster_at[u] # None
    PROVE  StartedAt(u, q) >= Latest(opened_at[q], roster_at[u])
BY Numbers DEF IInv, Clocks, StartedAt, Latest, Question

LEMMA NextFairPoints == TypeOK /\ IInv /\ FairPoints /\ [Next]_vars => FairPoints'
<1> SUFFICES ASSUME TypeOK, IInv, FairPoints, [Next]_vars,
                    NEW u \in Student, NEW q \in Question,
                    roster_at'[u] # None, Answered(u, q)'
             PROVE  IF response'[u][q].status = "correct"
                    THEN response'[u][q].points >=
                           points_available(response'[u][q].finalized_at
                                              - Latest(opened_at'[q], roster_at'[u]), Grace)
                    ELSE response'[u][q].points = 0
    BY DEF FairPoints, Roster, Latest
<1>1. CASE SameCell(u, q)
    BY <1>1 DEF SameCell, FairPoints, Roster, Answered
<1>2. CASE FilledCell(u, q)
    <2>1. /\ StartedAt(u, q) \in Int /\ now \in Int
          /\ Latest(opened_at[q], roster_at[u]) \in Int
          /\ StartedAt(u, q) >= Latest(opened_at[q], roster_at[u])
        BY <1>2, ClockBound, StartedAtType, Numbers DEF FilledCell, Latest
    <2> DEFINE late == now - StartedAt(u, q)
               early == now - Latest(opened_at[q], roster_at[u])
    <2>2. late \in Int /\ early \in Int /\ late <= early
        BY <2>1
    <2>3. points_available(early, Grace) <= points_available(late, Grace)
        BY <2>2, PointsMonotone, LiveQuizAssumption
    <2>4. QED BY <1>2, <2>3 DEF FilledCell
<1>3. QED BY <1>1, <1>2, CellStep

\* A correct answer is never charged for time before its question opened.
THEOREM PointsAreFair == Spec => []FairPoints
<1>1. Init => FairPoints
    BY DEF Init, FairPoints, Roster
<1>2. QED BY <1>1, NextFairPoints, Invariance, PTL DEF Spec

(***************************************************************************)
(* The cohort: the players counted at the start and as late joiners are    *)
(* those still on the roster and those deleted with their accounts.        *)
(***************************************************************************)

\* Steps that neither admit, nor delete, nor start leave the count as it is.
LEMMA SameCohort ==
    ASSUME TypeOK, Cohort,
           UNCHANGED <<roster_at, removed, late_joiners, roster_size_at_start>>,
           phase' = phase \/ (phase' # "waiting" /\ phase = "running") \/ phase' = "cancelled",
           \A u \in Student : account[u] = "deleted" <=> account'[u] = "deleted"
    PROVE  Cohort'
BY DEF Cohort, CohortAddsUp, Roster, TypeOK, PlayerTypes

LEMMA NextCohort == TypeOK /\ IInv /\ Cohort /\ [Next]_vars => Cohort'
<1> SUFFICES ASSUME TypeOK, IInv, Cohort, [Next]_vars PROVE Cohort'
    OBVIOUS
<1> USE DEF Cohort
<1>1. Roster \subseteq Student /\ Cardinality(Roster) \in Nat /\ IsFiniteSet(Roster)
      /\ Cardinality(removed) \in Nat /\ IsFiniteSet(removed)
    BY FiniteStudents DEF Roster, TypeOK, PlayerTypes
<1>2. ASSUME NEW c \in Connection, Join(c) PROVE Cohort'
    <2>1. CASE ~Admits(Owner[c])
        BY <1>2, <2>1, SameCohort DEF Join, gameVars
    <2>2. CASE Admits(Owner[c])
        <3>1. /\ Owner[c] \in Student \ Roster
              /\ account' = account /\ account[Owner[c]] = "ready" /\ removed' = removed
              /\ phase = "running" /\ phase' = phase
              /\ late_joiners' = late_joiners + 1 /\ roster_size_at_start' = roster_size_at_start
            BY <1>2, <2>2, LiveQuizAssumption DEF Join, Admits, Roster, gameVars
        <3>2. \A u \in Student : roster_at'[u] = IF u = Owner[c] THEN now ELSE roster_at[u]
            BY <1>2, <2>2 DEF Join, TypeOK, PlayerTypes
        <3>3. Roster' = Roster \union {Owner[c]}
            BY <3>1, <3>2, Numbers DEF Roster, None
        <3>4. Cardinality(Roster') = Cardinality(Roster) + 1
            BY <1>1, <3>1, <3>3, FS_AddElement
        <3>5. CohortAddsUp'
            BY <1>1, <3>1, <3>4 DEF CohortAddsUp, TypeOK, GameTypes, None
        <3>6. QED BY <3>1, <3>2, <3>5
    <2>3. QED BY <2>1, <2>2
<1>3. ASSUME NEW r \in Request, Transition(r) PROVE Cohort'
    <2>1. UNCHANGED <<account, late_joiners, removed>>
        BY <1>3 DEF Transition
    <2>2. CASE Start
        <3>1. /\ phase = "waiting" /\ phase' = "running" /\ removed = {} /\ late_joiners = 0
              /\ roster_size_at_start' = Cardinality(Players)
              /\ \A u \in Student : roster_at'[u] = IF u \in Players THEN now ELSE roster_at[u]
              /\ \A u \in Student : roster_at[u] = None
            BY <2>2 DEF Start, IInv, Shape
        <3>2. Players \subseteq Student /\ \A u \in Players : account[u] = "ready"
            BY DEF Players, Connected, LiveConnection, TypeOK, PlayerTypes
        <3>3. Roster' = Players
            BY <3>1, <3>2, Numbers DEF Roster, None
        <3>4. Cardinality(Players) \in Nat /\ Cardinality(removed) = 0
            BY <3>1, <3>2, FiniteStudents, FS_EmptySet
        <3>5. CohortAddsUp'
            BY <2>1, <3>1, <3>3, <3>4 DEF CohortAddsUp
        <3>6. QED BY <2>1, <3>1, <3>2, <3>5
    <2>3. CASE Cancel
        BY <2>1, <2>3, SameCohort DEF Cancel
    <2>4. CASE Advance(r.action)
        BY <2>1, <2>4, SameCohort DEF Advance, MayAdvance
    <2>5. QED BY <1>3, <2>2, <2>3, <2>4 DEF Transition
<1>4. ASSUME NEW u \in Student, Delete(u) PROVE Cohort'
    <2>1. /\ phase' = phase /\ late_joiners' = late_joiners
          /\ roster_size_at_start' = roster_size_at_start
          /\ \A v \in Student : account'[v] = IF v = u THEN "deleted" ELSE account[v]
          /\ \A v \in Student : roster_at'[v] = IF v = u THEN None ELSE roster_at[v]
          /\ removed' = IF u \in Roster THEN removed \union {u} ELSE removed
        BY <1>4 DEF Delete, gameVars, TypeOK, PlayerTypes
    <2>2. Roster' = Roster \ {u}
        BY <2>1 DEF Roster
    <2>3. CASE u \in Roster
        <3>1. Cardinality(Roster') = Cardinality(Roster) - 1
            BY <1>1, <2>2, <2>3, FS_RemoveElement
        <3>2. u \notin removed
            BY <2>3 DEF Roster
        <3>3. Cardinality(removed') = Cardinality(removed) + 1
            BY <1>1, <2>1, <2>3, <3>2, FS_AddElement
        <3>4. phase # "waiting"
            BY <2>3 DEF IInv, Shape, Roster
        <3>5. CohortAddsUp'
            BY <1>1, <2>1, <3>1, <3>3 DEF CohortAddsUp
        <3>6. QED BY <2>1, <2>3, <3>4, <3>5 DEF TypeOK, PlayerTypes
    <2>4. CASE u \notin Roster
        <3>1. Roster' = Roster /\ removed' = removed
            BY <2>1, <2>2, <2>4
        <3>2. CohortAddsUp'
            BY <2>1, <3>1 DEF CohortAddsUp
        <3>3. QED BY <2>1, <3>1, <3>2 DEF TypeOK, PlayerTypes
    <2>5. QED BY <2>3, <2>4
<1>5. ASSUME NEW u \in Student, Bar(u) \/ Unbar(u) PROVE Cohort'
    BY <1>5, SameCohort DEF Bar, Unbar, gameVars, TypeOK, PlayerTypes
<1>6. ASSUME \/ \E c \in Connection : Heartbeat(c) \/ Leave(c)
             \/ \E u \in Student, q \in Question :
                   Ready(u, q) \/ \E how \in Outcomes : Answer(u, q, how)
             \/ Tick \/ UNCHANGED vars
      PROVE  Cohort'
    BY <1>6, SameCohort DEF Heartbeat, Leave, Ready, Answer, Tick, vars, gameVars
<1>7. QED BY <1>2, <1>3, <1>4, <1>5, <1>6 DEF Next

\* The report's "removed players" is the number of accounts really deleted.
THEOREM CohortIsAccounted == Spec => []CohortAddsUp
<1>1. Init => Cohort
    BY DEF Init, Cohort, CohortAddsUp
<1>2. Cohort => CohortAddsUp
    BY DEF Cohort
<1>3. QED BY <1>1, <1>2, NextCohort, Invariance, PTL DEF Spec

(***************************************************************************)
(* The host's requests.                                                    *)
(***************************************************************************)

LEMMA NextLog == TypeOK /\ Log /\ [Next]_vars => Log'
<1> SUFFICES ASSUME TypeOK, Log, [Next]_vars PROVE Log'
    OBVIOUS
<1> USE DEF Log, OneTransitionPerState
<1>1. ASSUME UNCHANGED <<version, transitions>> PROVE Log'
    BY <1>1
<1>2. ASSUME NEW r \in Request, Transition(r) PROVE Log'
    <2>1. /\ r.version = version /\ version' = version + 1 /\ version \in Nat
          /\ transitions' = transitions \union {r} /\ transitions \subseteq Request
        BY <1>2 DEF Transition, UpToDate, TypeOK, GameTypes
    <2>2. r \notin transitions
        BY <2>1
    <2>3. IsFiniteSet(transitions') /\ Cardinality(transitions') = version'
        BY <2>1, <2>2, FS_AddElement
    <2>4. \A t \in transitions' : t.version < version'
        BY <2>1 DEF Request
    <2>5. \A s, t \in transitions' : s.version = t.version => s = t
        BY <2>1
    <2>6. QED BY <2>3, <2>4, <2>5
<1>3. QED
    BY <1>1, <1>2 DEF Next, Join, Heartbeat, Leave, Ready, Answer, Bar, Unbar, Delete, Tick,
       vars, gameVars

\* Whatever the host page sends and resends, no state of the quiz is left twice.
THEOREM RetriesSkipNothing == Spec => []OneTransitionPerState
<1>1. Init => Log
    BY FS_EmptySet DEF Init, Log, OneTransitionPerState
<1>2. Log => OneTransitionPerState
    BY DEF Log
<1>3. QED BY <1>1, <1>2, NextLog, TypeCorrect, PTL DEF Spec

(***************************************************************************)
(* Action properties.                                                      *)
(***************************************************************************)

\* Only a deletion takes a student's clock back.
LEMMA ClockStep ==
    ASSUME TypeOK, IInv, [Next]_vars, NEW u \in Student, account'[u] # "deleted"
    PROVE  /\ timer_position'[u] >= timer_position[u]
           /\ timer_position'[u] = timer_position[u] =>
                 question_started_at'[u] = question_started_at[u]
<1> DEFINE Kept == /\ timer_position'[u] >= timer_position[u]
                   /\ timer_position'[u] = timer_position[u] =>
                         question_started_at'[u] = question_started_at[u]
<1> USE Numbers
<1>1. ASSUME UNCHANGED timerVars PROVE Kept
    BY <1>1 DEF timerVars
<1>2. ASSUME NEW v \in Student, NEW q \in Question, Ready(v, q) PROVE Kept
    BY <1>2 DEF Ready, NeedsClock, Accepting, IInv, Clocks, TypeOK, PlayerTypes
<1>3. ASSUME NEW v \in Student, Delete(v) PROVE Kept
    BY <1>3 DEF Delete, TypeOK, PlayerTypes
<1>4. QED
    BY <1>1, <1>2, <1>3
       DEF Next, vars, Join, Heartbeat, Leave, Answer, Transition, Bar, Unbar, Tick

\* Pages that reload, other tabs and repeated calls reuse the clock once started.
THEOREM OneClockPerQuestion == Spec => ClockStartsOnce
<1>1. TypeOK /\ IInv /\ [Next]_vars =>
        [\A u \in Student : account'[u] # "deleted" =>
            /\ timer_position'[u] >= timer_position[u]
            /\ timer_position'[u] = timer_position[u] =>
                  question_started_at'[u] = question_started_at[u]]_vars
    BY ClockStep
<1>2. QED BY <1>1, Invariance, PTL DEF Spec, ClockStartsOnce

\* Once the quiz is over its stage and the retained players' results are fixed.
THEOREM ResultsAreFinal == Spec => EndIsFinal
<1> DEFINE Kept == /\ phase' = phase /\ version' = version
                   /\ \A u \in Student : account'[u] # "deleted" =>
                         roster_at'[u] = roster_at[u] /\ response'[u] = response[u]
<1>1. TypeOK /\ [Next]_vars => [~Open => Kept]_vars
    <2> SUFFICES ASSUME TypeOK, Next, ~Open PROVE Kept
        BY DEF vars
    <2>1. ASSUME UNCHANGED <<phase, version, roster_at, response>> PROVE Kept
        BY <2>1
    <2>2. ASSUME NEW v \in Student, Delete(v) PROVE Kept
        BY <2>2 DEF Delete, gameVars, TypeOK, PlayerTypes, ResponseTypes
    <2>3. ASSUME NEW r \in Request, Transition(r) PROVE Kept
        BY <2>3 DEF Transition, Start, Cancel, Advance, MayAdvance, Open
    <2>4. QED
        BY <2>1, <2>2, <2>3 DEF Next, Join, Heartbeat, Leave, Ready, Answer, Accepting, Open,
           Bar, Unbar, Tick, gameVars
<1>2. QED BY <1>1, TypeCorrect, PTL DEF Spec, EndIsFinal

(***************************************************************************)
(* The server implements the answer board of LiveBoard: its initial state  *)
(* maps to an initial board and each of its steps to a board step or a     *)
(* stutter.                                                                *)
(***************************************************************************)

Stage == IF phase = "waiting" THEN "lobby" ELSE IF phase = "running" THEN "play" ELSE "over"
Cells == [u \in Student |-> [q \in Question |-> response[u][q].status]]

LEMMA BoardInit == Init => Board!Init
<1> SUFFICES ASSUME Init PROVE Board!Init
    OBVIOUS
<1>1. Roster = {}
    BY DEF Init, Roster
<1>2. Cells = Board!Empty
    BY DEF Init, Cells, NoResponse, Board!Empty, Board!Column, Question
<1>3. QED BY <1>1, <1>2 DEF Init, Board!Init, Cells

\* Steps that touch neither stage, roster nor responses are stutters of the board.
LEMMA BoardStutter ==
    ASSUME UNCHANGED <<phase, position, roster_at, response>>
    PROVE  UNCHANGED Board!boardVars
BY DEF Board!boardVars, Roster

LEMMA BoardAdmit ==
    ASSUME TypeOK, NEW c \in Connection, Join(c)
    PROVE  [Board!Next]_(Board!boardVars)
<1>1. CASE ~Admits(Owner[c])
    BY <1>1, BoardStutter DEF Join, gameVars
<1>2. CASE Admits(Owner[c])
    <2>1. /\ Owner[c] \in Student \ Roster /\ phase = "running"
          /\ UNCHANGED <<phase, position, response>>
          /\ \A u \in Student : roster_at'[u] = IF u = Owner[c] THEN now ELSE roster_at[u]
        BY <1>2, LiveQuizAssumption DEF Join, Admits, Roster, gameVars, TypeOK, PlayerTypes
    <2>2. Roster' = Roster \union {Owner[c]}
        BY <2>1, Numbers DEF Roster, None
    <2>3. Board!Admit(Owner[c])
        BY <2>1, <2>2 DEF Board!Admit
    <2>4. QED BY <2>1, <2>3 DEF Board!Next
<1>3. QED BY <1>1, <1>2

LEMMA BoardRecord ==
    ASSUME TypeOK, NEW u \in Student, NEW q \in Question, NEW how \in Outcomes,
           Answer(u, q, how)
    PROVE  Board!Next
<1>1. /\ UNCHANGED <<phase, position, roster_at>> /\ phase = "running" /\ u \in Roster
      /\ q = position /\ response[u][q].status = "none"
    BY DEF Answer, Accepting, Answered, gameVars
<1>2. \A v \in Student, p \in Question :
        response'[v][p].status = IF v = u /\ p = q THEN how ELSE response[v][p].status
    BY DEF Answer, TypeOK, ResponseTypes
<1>3. Cells' = [Cells EXCEPT ![u][q] = how]
    BY <1>2 DEF Cells
<1>4. Cells[u][q] = "none" /\ Roster' = Roster
    BY <1>1 DEF Cells, Roster
<1>5. Board!Record(u, how)
    BY <1>1, <1>3, <1>4 DEF Board!Record, Cells
<1>6. QED BY <1>5, LiveQuizAssumption DEF Board!Next

LEMMA BoardTransition ==
    ASSUME TypeOK, IInv, NEW r \in Request, Transition(r)
    PROVE  Board!Next
<1>1. CASE Start
    <2>1. /\ phase = "waiting" /\ phase' = "running" /\ position' = 1 /\ response' = response
          /\ Players # {}
          /\ \A u \in Student : roster_at[u] = None
          /\ \A u \in Student : roster_at'[u] = IF u \in Players THEN now ELSE roster_at[u]
        BY <1>1 DEF Start, IInv, Shape
    <2>2. Roster' = Players /\ Players \subseteq Student
        BY <2>1, Numbers DEF Roster, Players, None, TypeOK, PlayerTypes
    <2>3. Board!Begin
        BY <2>1, <2>2 DEF Board!Begin
    <2>4. QED BY <2>3 DEF Board!Next
<1>2. CASE Cancel
    <2>1. Board!Abandon
        BY <1>2 DEF Cancel, Board!Abandon, Roster
    <2>2. QED BY <2>1 DEF Board!Next
<1>3. CASE Advance(r.action)
    <2>1. /\ phase = "running" /\ roster_at' = roster_at /\ position \in Question
          /\ CloseQuestion
          /\ \/ phase' = "finished" /\ position' = position
             \/ phase' = "running" /\ position < QuestionCount /\ position' = position + 1
        BY <1>3, LiveQuizAssumption
           DEF Advance, MayAdvance, LastQuestion, IInv, Shape, TypeOK, GameTypes, Question
    <2>2. \A u \in Student, q \in Question :
            response'[u][q].status = IF u \in Roster /\ q = position /\ response[u][q].status = "none"
                                     THEN "unanswered" ELSE response[u][q].status
        BY <2>1, ClosedCells DEF Answered, Roster
    <2>3. Cells' = [u \in Student |-> IF u \in Roster /\ Cells[u][position] = "none"
                                      THEN [Cells[u] EXCEPT ![position] = "unanswered"]
                                      ELSE Cells[u]]
        BY <2>1, <2>2 DEF Cells
    <2>4. Roster' = Roster
        BY <2>1 DEF Roster
    <2>5. Board!Close
        BY <2>1, <2>3, <2>4 DEF Board!Close, Cells
    <2>6. QED BY <2>5 DEF Board!Next
<1>4. QED BY <1>1, <1>2, <1>3 DEF Transition

LEMMA BoardRemove ==
    ASSUME TypeOK, NEW u \in Student, Delete(u)
    PROVE  Board!Next
<1>1. /\ UNCHANGED <<phase, position>>
      /\ \A v \in Student : roster_at'[v] = IF v = u THEN None ELSE roster_at[v]
    BY DEF Delete, gameVars, TypeOK, PlayerTypes
<1>2. Roster' = Roster \ {u}
    BY <1>1 DEF Roster
<1>3. \A v \in Student, q \in Question :
        response'[v][q].status = IF v = u THEN "none" ELSE response[v][q].status
    BY DEF Delete, NoResponse, TypeOK, ResponseTypes
<1>4. Cells' = [Cells EXCEPT ![u] = Board!Empty[u]]
    BY <1>3 DEF Cells, Board!Empty, Board!Column, Question
<1>5. Board!Remove(u)
    BY <1>1, <1>2, <1>4 DEF Board!Remove, Cells
<1>6. QED BY <1>5 DEF Board!Next

LEMMA BoardStep == TypeOK /\ IInv /\ [Next]_vars => [Board!Next]_(Board!boardVars)
<1> SUFFICES ASSUME TypeOK, IInv, [Next]_vars PROVE [Board!Next]_(Board!boardVars)
    OBVIOUS
<1>1. ASSUME \/ \E c \in Connection : Heartbeat(c) \/ Leave(c)
             \/ \E u \in Student, q \in Question : Ready(u, q)
             \/ \E u \in Student : Bar(u) \/ Unbar(u)
             \/ Tick \/ UNCHANGED vars
      PROVE  UNCHANGED Board!boardVars
    BY <1>1, BoardStutter DEF Heartbeat, Leave, Ready, Bar, Unbar, Tick, vars, gameVars
<1>2. QED
    BY <1>1, BoardAdmit, BoardRecord, BoardTransition, BoardRemove DEF Next

\* Every cell of the answer table is filled once, by an answer to the question then
\* asked or by that question's closing, and every closing fills its whole column.
THEOREM ServerImplementsBoard == Spec => BoardSpec
BY BoardInit, BoardStep, Invariance, PTL DEF Spec, BoardSpec, Board!Spec

(***************************************************************************)
(* What the pages' proofs take from the server.                            *)
(***************************************************************************)

\* A transition either opens the next question or ends the game.
Numbered == version = position + (IF Open THEN 0 ELSE 1)

LEMMA InitNumbered == Init => Numbered
BY DEF Init, Numbered, Open

LEMMA NextNumbered == TypeOK /\ IInv /\ Numbered /\ [Next]_vars => Numbered'
<1> SUFFICES ASSUME TypeOK, IInv, Numbered, [Next]_vars PROVE Numbered'
    OBVIOUS
<1>1. ASSUME UNCHANGED gameVars PROVE Numbered'
    BY <1>1 DEF gameVars, Numbered, Open
<1>2. ASSUME NEW r \in Request, Transition(r) PROVE Numbered'
    <2>1. CASE Start
        BY <1>2, <2>1, Numbers DEF Transition, Start, Numbered, Open, IInv, Shape
    <2>2. CASE Cancel
        BY <1>2, <2>2, Numbers DEF Transition, Cancel, Numbered, Open
    <2>3. CASE Advance(r.action)
        BY <1>2, <2>3, Numbers DEF Transition, Advance, MayAdvance, Numbered, Open
    <2>4. QED BY <1>2, <2>1, <2>2, <2>3 DEF Transition
<1>3. QED
    BY <1>1, <1>2 DEF Next, vars, Join, Heartbeat, Leave, Ready, Answer, Bar, Unbar, Delete, Tick

\* An outcome on record stands for as long as the student's account does.
LEMMA OutcomesStand ==
    ASSUME TypeOK, IInv, [Next]_vars, NEW u \in Student, account'[u] # "deleted"
    PROVE  /\ account[u] # "deleted"
           /\ \A q \in Question : Answered(u, q) =>
                 response'[u][q].status = response[u][q].status
<1> DEFINE Stands == \A q \in Question : Answered(u, q) =>
                        response'[u][q].status = response[u][q].status
<1>1. account[u] # "deleted"
    BY DEF Next, vars, gameVars, Join, Heartbeat, Leave, Ready, Answer, Transition, Bar, Unbar,
       Delete, Tick, TypeOK, PlayerTypes
<1>2. ASSUME UNCHANGED response PROVE Stands
    BY <1>2
<1>3. ASSUME NEW v \in Student, NEW p \in Question, NEW how \in Outcomes, Answer(v, p, how)
      PROVE  Stands
    BY <1>3 DEF Answer, Answered, TypeOK, ResponseTypes
<1>4. ASSUME NEW r \in Request, Transition(r) PROVE Stands
    <2>1. CASE Advance(r.action)
        BY <2>1 DEF Advance, CloseQuestion, Answered, TypeOK, ResponseTypes
    <2>2. QED BY <1>2, <1>4, <2>1 DEF Transition, Start, Cancel
<1>5. ASSUME NEW v \in Student, Delete(v) PROVE Stands
    BY <1>5 DEF Delete, TypeOK, PlayerTypes, ResponseTypes
<1>6. QED
    BY <1>1, <1>2, <1>3, <1>4, <1>5
       DEF Next, vars, Join, Heartbeat, Leave, Ready, Bar, Unbar, Tick
=============================================================================
