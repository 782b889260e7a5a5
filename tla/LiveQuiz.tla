------------------------------ MODULE LiveQuiz ------------------------------
(***************************************************************************)
(* One teacher-paced live quiz on the server: scholars/live.py over the    *)
(* rows of LiveQuiz, LiveQuizQuestion, LiveParticipant, LiveConnection,    *)
(* LiveResponse and LiveTransition, with the account operations of         *)
(* accounts/ that reach into it.                                           *)
(*                                                                         *)
(* Every server operation is one database transaction that locks the       *)
(* caller's account row and then the game row, so each is one atomic       *)
(* action; a request that raises rolls back and is no step.  A page may    *)
(* send any request at any time, so the actions leave their arguments      *)
(* free.  Heartbeats do not lock the game, but write only last_seen of the *)
(* caller's own connection.                                                *)
(***************************************************************************)
EXTENDS LiveScoring, FiniteSets

CONSTANTS
    Student,            \* accounts that may play; the host is not one of them
    Connection,         \* connection keys, one per page load
    Owner,              \* the student whose page made the connection key
    Key,                \* request keys of the host page's controls
    QuestionCount,      \* LiveQuiz.question_count, fixed when the game is hosted
    LEASE_SECONDS, REVEAL_SECONDS,
    Grace,              \* reading grace of the prompts, in seconds
    Outcomes,           \* how an answer may be finalized: graded or skipped
    Advances,           \* by how many seconds the clock may move at once
    MaxTime             \* bound: the last instant modelled

ASSUME LiveQuizAssumption ==
    /\ IsFiniteSet(Student)
    /\ Owner \in [Connection -> Student]
    /\ QuestionCount \in Nat \ {0}
    /\ LEASE_SECONDS \in Nat /\ REVEAL_SECONDS \in Nat /\ Grace \in Nat
    /\ Outcomes \subseteq {"correct", "incorrect", "skipped"}
    /\ Advances \subseteq Nat /\ MaxTime \in Nat

VARIABLES
    now,                \* timezone.now(), in seconds
    account,            \* User.is_active and not must_change_password, or deleted
    phase, version, position, ended_early, roster_size_at_start, late_joiners,
    opened_at, closed_at,                               \* LiveQuizQuestion
    joined, roster_at, timer_position, question_started_at, \* LiveParticipant
    last_seen, ended,                                   \* LiveConnection
    response,                                           \* LiveResponse
    transitions,                                        \* LiveTransition
    removed             \* history: rostered players whose account was deleted

gameVars == <<phase, version, position, ended_early, roster_size_at_start, transitions>>
questionVars == <<opened_at, closed_at>>
timerVars == <<timer_position, question_started_at>>
connectionVars == <<last_seen, ended>>
vars == <<now, account, gameVars, late_joiners, questionVars, joined, roster_at, timerVars,
          connectionVars, response, removed>>

Question == 1..QuestionCount
None == -1                              \* a NULL timestamp or count
Instant == 0..MaxTime
NoResponse == [status |-> "none", finalized_at |-> None, points |-> 0]
Request == [key : Key, action : {"start", "cancel", "next", "end"},
            version : 0..QuestionCount + 1, position : 0..QuestionCount]

Init ==
    /\ now = 0
    /\ account = [u \in Student |-> "ready"]
    /\ phase = "waiting" /\ version = 0 /\ position = 0 /\ ended_early = FALSE
    /\ roster_size_at_start = None /\ late_joiners = 0
    /\ opened_at = [q \in Question |-> None]
    /\ closed_at = [q \in Question |-> None]
    /\ joined = {}
    /\ roster_at = [u \in Student |-> None]
    /\ timer_position = [u \in Student |-> 0]
    /\ question_started_at = [u \in Student |-> None]
    /\ last_seen = [c \in Connection |-> None]
    /\ ended = {}
    /\ response = [u \in Student |-> [q \in Question |-> NoResponse]]
    /\ transitions = {}
    /\ removed = {}

-----------------------------------------------------------------------------
(* What the operations read.                                               *)

Open == phase \in {"waiting", "running"}
Roster == {u \in Student : roster_at[u] # None}

\* live_connections: the lease has not run out and the account may still sign in.
LiveConnection(c) ==
    /\ last_seen[c] # None
    /\ c \notin ended
    /\ last_seen[c] >= now - LEASE_SECONDS
    /\ account[Owner[c]] = "ready"

Connected(u) == \E c \in Connection : Owner[c] = u /\ LiveConnection(c)

-----------------------------------------------------------------------------
(* Mistakes that would be easy to make here.  Each replaces the definition *)
(* of its name's stem in a mutation run, which must then break a property. *)

Accepting_DuringReveal(q) ==
    phase = "running" /\ q = position /\ opened_at[q] # None /\ closed_at[q] = None
Accepting_AnyOpened(q) ==
    phase = "running" /\ opened_at[q] # None /\ opened_at[q] <= now
StartedAt_OldClock(u, q) ==
    IF question_started_at[u] # None THEN question_started_at[u] ELSE opened_at[q]
Admits_EveryJoin(u) == phase = "running"
NeedsClock_Always(u, q) == TRUE
MayAdvance_AnyPhase == position > 0 /\ opened_at[position] <= now
LastQuestion_OffByOne == position > QuestionCount
UpToDate_Unchecked(r) == TRUE
CloseQuestion_ConnectedOnly ==
    /\ closed_at' = [closed_at EXCEPT ![position] = now]
    /\ response' = [u \in Student |->
          IF roster_at[u] # None /\ Connected(u) /\ response[u][position].status = "none"
          THEN [response[u] EXCEPT ![position] =
                  [status |-> "unanswered", finalized_at |-> now, points |-> 0]]
          ELSE response[u]]

-----------------------------------------------------------------------------
(* Questions and clocks.                                                   *)

\* The current question takes answers: opened (the reveal is over), not closed.
Accepting(q) ==
    /\ phase = "running"
    /\ q = position
    /\ opened_at[q] # None
    /\ opened_at[q] <= now
    /\ closed_at[q] = None

Answered(u, q) == response[u][q].status # "none"

Latest(a, b) == IF a >= b THEN a ELSE b

\* Where the player's clock for question q starts.
StartedAt(u, q) ==
    IF timer_position[u] = q THEN question_started_at[u]
    ELSE Latest(opened_at[q], roster_at[u])

-----------------------------------------------------------------------------
(* Students: join, heartbeat, leave, ready, answer.                        *)

\* During play a first join admits the student as a late joiner.
Admits(u) == phase = "running" /\ roster_at[u] = None

Join(c) ==
    LET u == Owner[c] IN
    /\ account[u] = "ready"
    /\ Open
    /\ c \notin ended
    /\ joined' = joined \union {u}
    /\ IF Admits(u)
       THEN /\ roster_at' = [roster_at EXCEPT ![u] = now]
            /\ late_joiners' = late_joiners + 1
       ELSE UNCHANGED <<roster_at, late_joiners>>
    /\ last_seen' = [last_seen EXCEPT ![c] = now]
    /\ UNCHANGED <<now, account, gameVars, questionVars, timerVars, ended, response, removed>>

\* Renews a connection that was not ended, also one whose lease ran out.
Heartbeat(c) ==
    /\ account[Owner[c]] = "ready"
    /\ Open
    /\ last_seen[c] # None /\ c \notin ended
    /\ last_seen' = [last_seen EXCEPT ![c] = now]
    /\ UNCHANGED <<now, account, gameVars, late_joiners, questionVars, joined, roster_at,
                   timerVars, ended, response, removed>>

Leave(c) ==
    /\ account[Owner[c]] = "ready"
    /\ last_seen[c] # None
    /\ ended' = ended \union {c}
    /\ UNCHANGED <<now, account, gameVars, late_joiners, questionVars, joined, roster_at,
                   timerVars, last_seen, response, removed>>

\* The clock starts once per question; refreshes and other tabs reuse it.
NeedsClock(u, q) == timer_position[u] # q

Ready(u, q) ==
    /\ account[u] = "ready"
    /\ u \in Roster
    /\ Accepting(q)
    /\ Connected(u)
    /\ NeedsClock(u, q)
    /\ timer_position' = [timer_position EXCEPT ![u] = q]
    /\ question_started_at' = [question_started_at EXCEPT ![u] = now]
    /\ UNCHANGED <<now, account, gameVars, late_joiners, questionVars, joined, roster_at,
                   connectionVars, response, removed>>

\* The first graded answer or skip is final; a 'prompt' verdict writes nothing.
Answer(u, q, status) ==
    /\ account[u] = "ready"
    /\ u \in Roster
    /\ Accepting(q)
    /\ ~Answered(u, q)
    /\ Connected(u)
    /\ response' = [response EXCEPT ![u][q] =
          [status |-> status, finalized_at |-> now,
           points |-> IF status = "correct"
                      THEN points_available(now - StartedAt(u, q), Grace) ELSE 0]]
    /\ UNCHANGED <<now, account, gameVars, late_joiners, questionVars, joined, roster_at,
                   timerVars, connectionVars, removed>>

-----------------------------------------------------------------------------
(* The host's transition requests.                                         *)

Players == {u \in joined : Connected(u)}

Start ==
    /\ phase = "waiting"
    /\ Players # {}
    /\ roster_at' = [u \in Student |-> IF u \in Players THEN now ELSE roster_at[u]]
    /\ roster_size_at_start' = Cardinality(Players)
    /\ phase' = "running" /\ position' = 1
    /\ opened_at' = [opened_at EXCEPT ![1] = now]
    /\ UNCHANGED <<ended_early, closed_at, response>>

Cancel ==
    /\ phase = "waiting"
    /\ phase' = "cancelled"
    /\ UNCHANGED <<position, ended_early, roster_size_at_start, questionVars, roster_at, response>>

\* close_question: every rostered player without a response gets an 'unanswered' one.
CloseQuestion ==
    /\ closed_at' = [closed_at EXCEPT ![position] = now]
    /\ response' = [u \in Student |->
          IF u \in Roster /\ ~Answered(u, position)
          THEN [response[u] EXCEPT ![position] =
                  [status |-> "unanswered", finalized_at |-> now, points |-> 0]]
          ELSE response[u]]

\* Not while the answer to the previous question is still being revealed.
MayAdvance == phase = "running" /\ opened_at[position] <= now
LastQuestion == position = QuestionCount

Advance(action) ==
    /\ action \in {"next", "end"}
    /\ MayAdvance
    /\ CloseQuestion
    /\ IF action = "end" \/ LastQuestion
       THEN /\ phase' = "finished"
            /\ ended_early' = (position < QuestionCount)
            /\ UNCHANGED <<position, opened_at>>
       ELSE /\ position' = position + 1
            /\ opened_at' = [opened_at EXCEPT ![position + 1] = now + REVEAL_SECONDS]
            /\ UNCHANGED <<phase, ended_early>>
    /\ UNCHANGED <<roster_size_at_start, roster_at>>

\* A key already used returns the game unchanged or conflicts: no step either way.
KeyUsed(k) == \E t \in transitions : t.key = k
UpToDate(r) == r.version = version /\ r.position = position

Transition(r) ==
    /\ ~KeyUsed(r.key)
    /\ UpToDate(r)
    /\ \/ r.action = "start" /\ Start
       \/ r.action = "cancel" /\ Cancel
       \/ Advance(r.action)
    /\ version' = version + 1
    /\ transitions' = transitions \union {r}
    /\ UNCHANGED <<now, account, late_joiners, joined, timerVars, connectionVars, removed>>

\* What the request is answered (live_views.py:26): 200, 409 or 400.
Verdict(r) ==
    IF KeyUsed(r.key) THEN IF r \in transitions THEN "ok" ELSE "conflict"
    ELSE IF ~UpToDate(r) THEN "conflict"
    ELSE IF phase = "waiting" /\ r.action = "start" THEN IF Players = {} THEN "invalid" ELSE "ok"
    ELSE IF phase = "waiting" /\ r.action = "cancel" THEN "ok"
    ELSE IF MayAdvance /\ r.action \in {"next", "end"} THEN "ok"
    ELSE "conflict"

-----------------------------------------------------------------------------
(* Accounts and the clock.                                                 *)

\* Disabling an account or resetting its password bars it from every operation.
Bar(u) ==
    /\ account[u] = "ready"
    /\ account' = [account EXCEPT ![u] = "barred"]
    /\ UNCHANGED <<now, gameVars, late_joiners, questionVars, joined, roster_at, timerVars,
                   connectionVars, response, removed>>

\* Enabled again, or the temporary password changed by its student.
Unbar(u) ==
    /\ account[u] = "barred"
    /\ account' = [account EXCEPT ![u] = "ready"]
    /\ UNCHANGED <<now, gameVars, late_joiners, questionVars, joined, roster_at, timerVars,
                   connectionVars, response, removed>>

\* Deletion cascades to the student's participant, connections and responses.
Delete(u) ==
    /\ account[u] # "deleted"
    /\ account' = [account EXCEPT ![u] = "deleted"]
    /\ removed' = IF u \in Roster THEN removed \union {u} ELSE removed
    /\ joined' = joined \ {u}
    /\ roster_at' = [roster_at EXCEPT ![u] = None]
    /\ timer_position' = [timer_position EXCEPT ![u] = 0]
    /\ question_started_at' = [question_started_at EXCEPT ![u] = None]
    /\ last_seen' = [c \in Connection |-> IF Owner[c] = u THEN None ELSE last_seen[c]]
    /\ ended' = {c \in ended : Owner[c] # u}
    /\ response' = [response EXCEPT ![u] = [q \in Question |-> NoResponse]]
    /\ UNCHANGED <<now, gameVars, late_joiners, questionVars>>

Tick ==
    \E d \in Advances :
        /\ now + d <= MaxTime
        /\ now' = now + d
        /\ UNCHANGED <<account, gameVars, late_joiners, questionVars, joined, roster_at,
                       timerVars, connectionVars, response, removed>>

Next ==
    \/ \E c \in Connection : Join(c) \/ Heartbeat(c) \/ Leave(c)
    \/ \E u \in Student, q \in Question :
          \/ Ready(u, q)
          \/ \E status \in Outcomes : Answer(u, q, status)
    \/ \E r \in Request : Transition(r)
    \/ \E u \in Student : Bar(u) \/ Unbar(u) \/ Delete(u)
    \/ Tick

Spec == Init /\ [][Next]_vars

-----------------------------------------------------------------------------
(* Properties.                                                             *)

Score == [status : {"none", "correct", "incorrect", "skipped", "unanswered"},
          finalized_at : Instant \union {None}, points : 0..FastestPoints]

GameTypes ==
    /\ now \in Instant
    /\ phase \in {"waiting", "running", "finished", "cancelled"}
    /\ version \in Nat /\ position \in 0..QuestionCount
    /\ ended_early \in BOOLEAN
    /\ roster_size_at_start \in Nat \union {None} /\ late_joiners \in Nat
    /\ transitions \subseteq Request

QuestionTypes ==
    /\ opened_at \in [Question -> 0..MaxTime + REVEAL_SECONDS \union {None}]
    /\ closed_at \in [Question -> Instant \union {None}]

PlayerTypes ==
    /\ account \in [Student -> {"ready", "barred", "deleted"}]
    /\ joined \subseteq Student /\ removed \subseteq Student
    /\ roster_at \in [Student -> Instant \union {None}]
    /\ timer_position \in [Student -> 0..QuestionCount]
    /\ question_started_at \in [Student -> Instant \union {None}]

ConnectionTypes ==
    /\ last_seen \in [Connection -> Instant \union {None}]
    /\ ended \subseteq Connection

ResponseTypes == response \in [Student -> [Question -> Score]]

\* The rows keep their types: a position within the quiz, NULL only where allowed,
\* no points beyond the scale.
TypeOK == GameTypes /\ QuestionTypes /\ PlayerTypes /\ ConnectionTypes /\ ResponseTypes

\* Closing a question finalizes every player admitted before the closure, whatever
\* joins, leaves, bars and answers came before, and nobody admitted after it.
\* (live_reports.py:59: "Normal games finalize all roster responses at closure".)
ClosedComplete ==
    \A q \in Question, u \in Roster : closed_at[q] # None =>
        /\ roster_at[u] < closed_at[q] => Answered(u, q)
        /\ Answered(u, q) => roster_at[u] <= closed_at[q]

\* The cohort adds up: the original roster and the late joiners are the players
\* retained and the players whose accounts were deleted, so live_reports.py:76
\* reports the true number of removed players.
CohortAddsUp ==
    phase \in {"running", "finished"} =>
        roster_size_at_start + late_joiners = Cardinality(Roster) + Cardinality(removed)

\* A correct answer never scores less than a clock started at the question's opening
\* (or at the player's late admission) would give; anything else scores nothing.
\* In particular the clock of an earlier question is never charged.
FairPoints ==
    \A u \in Roster, q \in Question : Answered(u, q) =>
        IF response[u][q].status = "correct"
        THEN response[u][q].points >=
               points_available(response[u][q].finalized_at - Latest(opened_at[q], roster_at[u]), Grace)
        ELSE response[u][q].points = 0

\* Every answer was given while its question was open: not in the reveal before it,
\* not after the host moved on.
AnsweredWhileOpen ==
    \A u \in Student, q \in Question : Answered(u, q) =>
        /\ opened_at[q] # None
        /\ opened_at[q] <= response[u][q].finalized_at
        /\ closed_at[q] # None => response[u][q].finalized_at <= closed_at[q]

\* Whatever the host page sends, each state it saw leads to at most one transition:
\* double clicks and retries cannot skip a question.
OneTransitionPerState ==
    /\ \A s, t \in transitions : s.version = t.version => s = t
    /\ version = Cardinality(transitions)

\* A player's clock starts once per question: refreshes and other tabs reuse it.
ClockStartsOnce ==
    [][\A u \in Student : account'[u] # "deleted" =>
          /\ timer_position'[u] >= timer_position[u]
          /\ timer_position'[u] = timer_position[u] =>
                question_started_at'[u] = question_started_at[u] ]_vars

\* After the end nobody is admitted and no retained player's results change.
EndIsFinal ==
    [][~Open =>
          /\ phase' = phase /\ version' = version
          /\ \A u \in Student : account'[u] # "deleted" =>
                roster_at'[u] = roster_at[u] /\ response'[u] = response[u] ]_vars

\* What the answer board promises (LiveBoard), read off the tables.
Board == INSTANCE LiveBoard WITH
    Player <- Student, Last <- QuestionCount,
    stage <- IF phase = "waiting" THEN "lobby" ELSE IF phase = "running" THEN "play" ELSE "over",
    asked <- position,
    players <- Roster,
    board <- [u \in Student |-> [q \in Question |-> response[u][q].status]]

BoardSpec == Board!Spec
=============================================================================
