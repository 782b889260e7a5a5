------------------------- MODULE StudySessionProofs -------------------------
(***************************************************************************)
(* Theorems about StudySession, for every catalogue of content, number of  *)
(* topics per session and bound.  Which questions an attempt is made of is *)
(* used only through "some questions of the pool": the groups stay opaque. *)
(*                                                                         *)
(* The argument is about the rows.  Every operation but the start takes    *)
(* the row s of one session to a row t that follows it (Follows), and the  *)
(* topics are credited exactly when t has passed (StepOfASession).  A      *)
(* second invariant adds what was asked, read and answered correctly.      *)
(***************************************************************************)
EXTENDS StudySession, TLAPS, FiniteSetTheorems

-----------------------------------------------------------------------------
(* The inductive invariant, row by row.                                    *)

\* What TypeOK says of one row.
Sound(s) ==
    /\ s \in Session
    /\ s.review \subseteq Values(s.topics)
    /\ \A q \in s.pool : TopicOf[q] \in Values(s.topics)
    /\ \A n \in DOMAIN s.attempts :
          Asked(s.attempts[n]) \subseteq s.pool /\ Asked(s.attempts[n]) # {}

\* Only the last attempt can be unfinished, and only in a quiz or an abandoned session:
\* why a late answer cannot reach an attempt that was scored.
Settled(s) ==
    \A n \in DOMAIN s.attempts :
        Finished(s.attempts[n]) \/ (n = Len(s.attempts) /\ s.phase \in {"quiz", "abandoned"})

StudyInv == TypeOK /\ \A k \in Key : Settled(session[k])

\* A verdict given stays, and so do the questions asked.
Keeps(a, b) ==
    /\ Asked(b) = Asked(a)
    /\ \A q \in Asked(a) \ With(a, "open") : b.answers[q] = a.answers[q]

\* Row t is what an operation may make of row s.
Follows(s, t) ==
    /\ Active(s) /\ t.phase # "none"
    /\ t.topics = s.topics /\ t.pool = s.pool /\ t.version = s.version + 1
    /\ Len(t.attempts) > Len(s.attempts) /\ s.attempts # <<>> => Finished(Last(s))
    /\ \A n \in DOMAIN s.attempts : Keeps(s.attempts[n], t.attempts[n])

\* The row of a student who reads: the same attempts, another place or an end.
Rests(s, t) ==
    /\ t.attempts = s.attempts
    /\ \/ t.phase = "abandoned"
       \/ /\ s.phase \in {"reading", "review"} /\ t.phase = s.phase /\ t.review = s.review
          /\ t.reading_position < s.reading_position \/ t.reading_position < Remaining(s)

\* A new attempt, or nothing left to ask.
Begins(s, t) ==
    /\ s.phase \in {"reading", "review"}
    /\ \E S \in Selections(s) :
          IF S = {} THEN t.phase = "passed" /\ t.attempts = s.attempts
          ELSE /\ t.phase = "quiz"
               /\ \E first \in S : t.attempts = Append(s.attempts, Attempt(S, first))

\* A verdict on an open answer of attempt n, which becomes b.
Scores(s, t, n, b) ==
    /\ s.phase = "quiz" /\ ~Finished(s.attempts[n])
    /\ b \in AttemptRow /\ t.attempts = [s.attempts EXCEPT ![n] = b]
    /\ \E q \in Asked(s.attempts[n]), verdict \in {"correct", "missed"} :
          /\ s.attempts[n].answers[q] = "open"
          /\ b.answers = [s.attempts[n].answers EXCEPT ![q] = verdict]
    /\ \/ ~Finished(b) /\ t.phase = "quiz" /\ b.answers[b.current] = "open"
       \/ Finished(b) /\ Passes(b) /\ t.phase = "passed"
       \/ /\ Finished(b) /\ ~Passes(b) /\ t.phase = "review"
          /\ t.reading_position = 0 /\ t.review = ToReview(s, b)

Progress(s, t) ==
    Rests(s, t) \/ Begins(s, t) \/ \E n \in DOMAIN s.attempts : Scores(s, t, n, t.attempts[n])

Only(k) == session' = [session EXCEPT ![k] = session'[k]]

StepOf(k) ==
    /\ Only(k)
    /\ Sound(session'[k]) /\ Settled(session'[k]) /\ Follows(session[k], session'[k])
    /\ Progress(session[k], session'[k])
    /\ IF session'[k].phase = "passed" THEN Credit(k) ELSE UNCHANGED completed
    /\ UNCHANGED <<catalog, interests>>

StartOf(k) ==
    /\ Only(k) /\ MayStart(k)
    /\ Sound(session'[k]) /\ Settled(session'[k]) /\ session'[k].phase = "reading"
    /\ session'[k].attempts = <<>> /\ session'[k].reading_position = 0
    /\ Len(session'[k].topics) > 0 /\ session'[k].pool # {}
    /\ Values(session'[k].topics) \intersect CompletedTopics = {}
    /\ UNCHANGED <<catalog, interests, completed>>

LEMMA TypeOfRows ==
    TypeOK <=> /\ catalog \in Catalogs /\ interests \subseteq Category
               /\ completed \subseteq [topic : Topic, key : Key]
               /\ session \in [Key -> Session]
               /\ \A k \in Key : Sound(session[k])
BY DEF TypeOK, Sound

-----------------------------------------------------------------------------
(* What a quiz is made of.                                                 *)

\* Questions chosen for a quiz are questions of the session's pool.
LEMMA SelectionsAreOfThePool ==
    ASSUME NEW s \in Session, \A n \in DOMAIN s.attempts : Asked(s.attempts[n]) \subseteq s.pool,
           NEW S \in Selections(s)
    PROVE  S \subseteq s.pool
<1>1. CASE s.attempts = <<>>
    BY <1>1 DEF Selections, Initial
<1>2. CASE s.attempts # <<>>
    <2>1. PICK misses \in Misses(s), unseen \in Unseen(s) : S \in Chosen(misses, unseen, QuizSize(s))
        BY <1>2 DEF Selections
    <2>2. S \subseteq misses \union unseen
        BY <2>1 DEF Chosen
    <2>3. unseen \subseteq s.pool
        BY DEF Unseen, Representatives
    <2>4. Len(s.attempts) \in DOMAIN s.attempts
        BY <1>2 DEF Session
    <2>5. misses \subseteq Asked(Last(s))
        BY DEF Misses, Representatives, With
    <2>6. QED BY <2>2, <2>3, <2>4, <2>5 DEF Last
<1>3. QED BY <1>1, <1>2

LEMMA NewAttemptRow ==
    ASSUME NEW S \in SUBSET Question, NEW first \in S
    PROVE  /\ Attempt(S, first) \in AttemptRow
           /\ Asked(Attempt(S, first)) = S
<1>1. [q \in S |-> "open"] \in [S -> Verdict]
    BY DEF Verdict
<1>2. QED BY <1>1 DEF Attempt, AttemptRow, Asked

-----------------------------------------------------------------------------
(* What each operation makes of its row.                                   *)

\* A row with another position, phase or review and the same attempts.
LEMMA RowMoves ==
    ASSUME NEW s, Sound(s), Settled(s), Active(s), NEW t, t \in Session,
           t.topics = s.topics, t.pool = s.pool, t.version = s.version + 1,
           t.attempts = s.attempts, t.review \subseteq s.review,
           t.phase = s.phase \/ t.phase = "abandoned"
             \/ (t.phase = "passed" /\ s.phase \in {"reading", "review"})
    PROVE  Sound(t) /\ Settled(t) /\ Follows(s, t)
<1>1. Sound(t)
    BY DEF Sound
<1>2. Settled(t)
    BY DEF Settled
<1>3. s \in Session /\ Len(s.attempts) \in Nat
    BY DEF Sound, Session
<1>4. t.phase # "none"
    BY DEF Active
<1>5. QED BY <1>1, <1>2, <1>3, <1>4 DEF Follows, Keeps

LEMMA RowOfTheStep ==
    ASSUME TypeOK, NEW k \in Key, NEW t, session' = [session EXCEPT ![k] = t]
    PROVE  Only(k) /\ session'[k] = t
BY DEF TypeOK, Only

LEMMA NewVersion ==
    ASSUME NEW r \in Session
    PROVE  LET t == [r EXCEPT !.version = @ + 1] IN
           /\ t \in Session /\ t.topics = r.topics /\ t.pool = r.pool
           /\ t.version = r.version + 1 /\ t.attempts = r.attempts
           /\ t.review = r.review /\ t.phase = r.phase /\ t.reading_position = r.reading_position
<1>1. r.version + 1 \in Nat
    BY DEF Session
<1>2. QED BY <1>1 DEF Session

LEMMA StepOfBack ==
    ASSUME StudyInv, NEW k \in Key, NEW v, Back(k, v) \/ ReadOn(k, v)
    PROVE  StepOf(k)
<1> DEFINE s == session[k]
           t(p) == [[s EXCEPT !.reading_position = p] EXCEPT !.version = @ + 1]
<1>1. Sound(s) /\ Settled(s) /\ s \in Session /\ s.phase \in {"reading", "review"}
    BY TypeOfRows DEF StudyInv, Sound, Back, ReadOn, Reading
<1>2. PICK p \in Nat : /\ session' = [session EXCEPT ![k] = t(p)]
                       /\ p < s.reading_position \/ p < Remaining(s)
    <2>1. s.reading_position \in Nat
        BY <1>1 DEF Session
    <2>2. CASE Back(k, v)
        <3>1. s.reading_position - 1 \in Nat
            BY <2>1, <2>2 DEF Back, MayGoBack
        <3>2. session' = [session EXCEPT ![k] = t(s.reading_position - 1)]
            BY <2>2 DEF Back, Change
        <3>3. s.reading_position - 1 < s.reading_position
            BY <2>1
        <3> HIDE DEF t
        <3>4. QED BY <3>1, <3>2, <3>3
    <2>3. CASE ReadOn(k, v)
        <3>1. session' = [session EXCEPT ![k] = t(s.reading_position + 1)]
            BY <2>3 DEF ReadOn, Change
        <3>2. s.reading_position + 1 \in Nat
            BY <2>1
        <3>3. s.reading_position + 1 < Remaining(s)
            BY <2>3 DEF ReadOn
        <3> HIDE DEF t
        <3>4. QED BY <3>1, <3>2, <3>3
    <2>4. QED BY <2>2, <2>3
<1>3. /\ t(p) \in Session /\ t(p).topics = s.topics /\ t(p).pool = s.pool
      /\ t(p).version = s.version + 1 /\ t(p).attempts = s.attempts
      /\ t(p).review = s.review /\ t(p).phase = s.phase /\ t(p).reading_position = p
    <2>1. [s EXCEPT !.reading_position = p] \in Session
        BY <1>1 DEF Session
    <2>2. QED BY <1>1, <2>1, NewVersion DEF Session
<1>4. /\ Sound(t(p)) /\ Settled(t(p)) /\ Follows(s, t(p))
      /\ Progress(s, t(p))
    <2>1. Sound(t(p)) /\ Settled(t(p)) /\ Follows(s, t(p))
        BY <1>1, <1>3, RowMoves DEF Active
    <2> HIDE DEF t
    <2>2. Rests(s, t(p))
        BY <1>1, <1>2, <1>3 DEF Rests
    <2>3. QED BY <2>1, <2>2 DEF Progress
<1>5. t(p).phase # "passed"
    BY <1>1, <1>3
<1>6. Only(k) /\ session'[k] = t(p)
    BY <1>2, RowOfTheStep DEF StudyInv
<1>7. UNCHANGED <<catalog, interests, completed>>
    BY DEF Back, ReadOn
<1> HIDE DEF t
<1>8. QED BY <1>4, <1>5, <1>6, <1>7 DEF StepOf

LEMMA StepOfAbandon ==
    ASSUME StudyInv, NEW k \in Key, abandon_study(k)
    PROVE  StepOf(k)
<1> DEFINE s == session[k]
           t == [[s EXCEPT !.phase = "abandoned"] EXCEPT !.version = @ + 1]
<1>1. Sound(s) /\ Settled(s) /\ s \in Session /\ Active(s)
    BY TypeOfRows DEF StudyInv, Sound, abandon_study
<1>2. session' = [session EXCEPT ![k] = t] /\ UNCHANGED <<catalog, interests, completed>>
    BY DEF abandon_study, Change
<1>3. /\ t \in Session /\ t.topics = s.topics /\ t.pool = s.pool
      /\ t.version = s.version + 1 /\ t.attempts = s.attempts
      /\ t.review = s.review /\ t.phase = "abandoned"
    <2>1. [s EXCEPT !.phase = "abandoned"] \in Session
        BY <1>1 DEF Session
    <2>2. QED BY <1>1, <2>1, NewVersion DEF Session
<1>4. Sound(t) /\ Settled(t) /\ Follows(s, t) /\ Progress(s, t)
    BY <1>1, <1>3, RowMoves DEF Progress, Rests
<1>5. Only(k) /\ session'[k] = t
    BY <1>2, RowOfTheStep DEF StudyInv
<1> HIDE DEF t
<1>6. QED BY <1>2, <1>3, <1>4, <1>5 DEF StepOf

\* A row with one attempt more.
LEMMA RowGrows ==
    ASSUME NEW s, Sound(s), Settled(s), s.phase \in {"reading", "review"},
           NEW S, S \subseteq s.pool, S # {}, NEW first \in S, NEW t, t \in Session,
           t.topics = s.topics, t.pool = s.pool, t.version = s.version + 1,
           t.attempts = Append(s.attempts, Attempt(S, first)), t.review = {}, t.phase = "quiz"
    PROVE  Sound(t) /\ Settled(t) /\ Follows(s, t)
<1> DEFINE a == Attempt(S, first)
<1>1. /\ s \in Session /\ s.attempts \in Seq(AttemptRow) /\ Len(s.attempts) \in Nat
      /\ S \subseteq Question
    BY DEF Sound, Session
<1>2. a \in AttemptRow /\ Asked(a) = S
    BY <1>1, NewAttemptRow
<1> HIDE DEF a
<1>3. /\ Len(t.attempts) = Len(s.attempts) + 1 /\ t.attempts[Len(s.attempts) + 1] = a
      /\ \A n \in DOMAIN s.attempts : t.attempts[n] = s.attempts[n]
      /\ \A n \in DOMAIN t.attempts : n \in DOMAIN s.attempts \/ n = Len(s.attempts) + 1
    BY <1>1, <1>2 DEF a
<1>4. \A n \in DOMAIN s.attempts : Finished(s.attempts[n])
    BY DEF Settled
<1>5. Sound(t)
    BY <1>2, <1>3 DEF Sound
<1>6. Settled(t)
    BY <1>3, <1>4 DEF Settled
<1>7. s.attempts # <<>> => Finished(Last(s))
    BY <1>1, <1>4 DEF Last
<1>8. Active(s) /\ t.phase # "none"
    BY DEF Active
<1>9. QED BY <1>3, <1>5, <1>6, <1>7, <1>8 DEF Follows, Keeps

LEMMA StepOfBeginQuiz ==
    ASSUME StudyInv, NEW k \in Key, NEW v, BeginQuiz(k, v)
    PROVE  StepOf(k)
<1> DEFINE s == session[k]
<1>1. /\ Sound(s) /\ Settled(s) /\ s \in Session /\ Active(s)
      /\ s.phase \in {"reading", "review"}
    BY TypeOfRows DEF StudyInv, Sound, BeginQuiz, Reading, Active
<1>2. UNCHANGED <<catalog, interests>>
    BY DEF BeginQuiz
<1>3. PICK S \in Selections(s) :
        IF S = {}
        THEN Change(k, [s EXCEPT !.phase = "passed", !.review = {}]) /\ Credit(k)
        ELSE /\ \E first \in S :
                   Change(k, [s EXCEPT !.phase = "quiz", !.reading_position = 0, !.review = {},
                                       !.attempts = Append(@, Attempt(S, first))])
             /\ UNCHANGED completed
    BY DEF BeginQuiz, new_attempt
<1>4. S \subseteq s.pool
    BY <1>1, SelectionsAreOfThePool DEF Sound
<1>5. CASE S = {}
    <2> DEFINE r == [s EXCEPT !.phase = "passed", !.review = {}]
               t == [r EXCEPT !.version = @ + 1]
    <2>1. session' = [session EXCEPT ![k] = t] /\ Credit(k)
        BY <1>3, <1>5 DEF Change
    <2>2. r \in Session
        BY <1>1 DEF Session
    <2>3. /\ t \in Session /\ t.topics = s.topics /\ t.pool = s.pool
          /\ t.version = s.version + 1 /\ t.attempts = s.attempts
          /\ t.review = {} /\ t.phase = "passed"
        BY <1>1, <2>2, NewVersion DEF Session
    <2>4. Only(k) /\ session'[k] = t
        BY <2>1, RowOfTheStep DEF StudyInv
    <2> HIDE DEF t
    <2>5. Sound(t) /\ Settled(t) /\ Follows(s, t) /\ Progress(s, t)
        BY <1>1, <1>5, <2>3, RowMoves DEF Progress, Begins
    <2>6. QED BY <1>2, <2>1, <2>3, <2>4, <2>5 DEF StepOf
<1>6. CASE S # {}
    <2>1. PICK first \in S :
            Change(k, [s EXCEPT !.phase = "quiz", !.reading_position = 0, !.review = {},
                                !.attempts = Append(@, Attempt(S, first))])
        BY <1>3, <1>6
    <2> DEFINE longer == Append(s.attempts, Attempt(S, first))
               r == [s EXCEPT !.phase = "quiz", !.reading_position = 0, !.review = {},
                              !.attempts = longer]
               t == [r EXCEPT !.version = @ + 1]
    <2>2. session' = [session EXCEPT ![k] = t] /\ UNCHANGED completed
        BY <1>3, <1>6, <2>1 DEF Change
    <2>3. longer \in Seq(AttemptRow)
        BY <1>1, <1>4, NewAttemptRow DEF Session
    <2> HIDE DEF longer
    <2>4. r \in Session
        BY <1>1, <2>3 DEF Session
    <2>5. /\ t \in Session /\ t.topics = s.topics /\ t.pool = s.pool
          /\ t.version = s.version + 1 /\ t.attempts = longer
          /\ t.review = {} /\ t.phase = "quiz"
        BY <1>1, <2>4, NewVersion DEF Session
    <2>6. Only(k) /\ session'[k] = t
        BY <2>2, RowOfTheStep DEF StudyInv
    <2> HIDE DEF t
    <2>7. /\ Sound(t) /\ Settled(t) /\ Follows(s, t)
          /\ Progress(s, t)
        <3>1. Sound(t) /\ Settled(t) /\ Follows(s, t)
            BY <1>1, <1>4, <1>6, <2>5, RowGrows DEF longer
        <3>2. Begins(s, t)
            BY <1>1, <1>6, <2>1, <2>5 DEF longer, Begins
        <3>3. QED BY <3>1, <3>2 DEF Progress
    <2>8. QED BY <1>2, <2>2, <2>5, <2>6, <2>7 DEF StepOf
<1>7. QED BY <1>5, <1>6

\* A row whose last attempt has one verdict more.
LEMMA RowAnswers ==
    ASSUME NEW s, Sound(s), Settled(s), s.phase = "quiz",
           NEW n \in DOMAIN s.attempts, ~Finished(s.attempts[n]),
           NEW b \in AttemptRow, Keeps(s.attempts[n], b), NEW t, t \in Session,
           t.topics = s.topics, t.pool = s.pool, t.version = s.version + 1,
           t.attempts = [s.attempts EXCEPT ![n] = b], t.review \subseteq Values(s.topics),
           t.phase = "quiz" \/ (Finished(b) /\ t.phase \in {"passed", "review"})
    PROVE  Sound(t) /\ Settled(t) /\ Follows(s, t)
<1>1. s \in Session /\ s.attempts \in Seq(AttemptRow) /\ Len(s.attempts) \in Nat
    BY DEF Sound, Session
<1>2. n = Len(s.attempts)
    BY DEF Settled
<1>3. /\ DOMAIN t.attempts = DOMAIN s.attempts /\ Len(t.attempts) = Len(s.attempts)
      /\ t.attempts[n] = b
      /\ \A m \in DOMAIN s.attempts \ {n} : t.attempts[m] = s.attempts[m]
    BY <1>1
<1>4. Sound(t)
    BY <1>3 DEF Sound, Keeps
<1>5. Settled(t)
    <2>1. \A m \in DOMAIN s.attempts \ {n} : Finished(s.attempts[m])
        BY <1>2 DEF Settled
    <2>2. QED BY <1>2, <1>3, <2>1 DEF Settled
<1>6. \A m \in DOMAIN s.attempts : Keeps(s.attempts[m], t.attempts[m])
    BY <1>3 DEF Keeps
<1>7. Active(s) /\ t.phase # "none"
    BY DEF Active
<1>8. QED BY <1>1, <1>3, <1>4, <1>5, <1>6, <1>7 DEF Follows

\* A verdict on an open answer disturbs no other.
LEMMA VerdictKeeps ==
    ASSUME NEW a \in AttemptRow, NEW q \in Asked(a), a.answers[q] = "open",
           NEW verdict \in {"correct", "missed"}
    PROVE  LET b == [a EXCEPT !.answers[q] = verdict] IN
           /\ b \in AttemptRow /\ Keeps(a, b) /\ Asked(b) = Asked(a) /\ Asked(a) \subseteq Question
           /\ \A next \in Question : /\ [b EXCEPT !.current = next] \in AttemptRow
                                     /\ Keeps(a, [b EXCEPT !.current = next])
<1> DEFINE f == [a.answers EXCEPT ![q] = verdict]
           b == [a EXCEPT !.answers = f]
<1>1. PICK S \in SUBSET Question : a.answers \in [S -> Verdict]
    BY DEF AttemptRow
<1>2. /\ f \in [S -> Verdict] /\ Asked(a) = S
      /\ \A r \in S \ {q} : f[r] = a.answers[r]
    BY <1>1 DEF Asked, Verdict
<1> HIDE DEF f
<1>3. b \in AttemptRow /\ b.answers = f /\ Asked(b) = S
    BY <1>2 DEF AttemptRow, Asked
<1>4. \A next \in Question : /\ [b EXCEPT !.current = next] \in AttemptRow
                             /\ [b EXCEPT !.current = next].answers = f
    BY <1>2 DEF AttemptRow
<1>5. Keeps(a, b)
    BY <1>2, <1>3 DEF Keeps, With
<1>6. \A next \in Question : Keeps(a, [b EXCEPT !.current = next])
    BY <1>2, <1>4 DEF Keeps, With, Asked
<1>7. b = [a EXCEPT !.answers[q] = verdict]
    BY DEF f
<1>8. QED BY <1>2, <1>3, <1>4, <1>5, <1>6, <1>7

LEMMA StepOfSubmitAnswer ==
    ASSUME StudyInv, StudyAssumption, NEW k \in Key, NEW n \in DOMAIN session[k].attempts,
           NEW q \in Asked(session[k].attempts[n]), NEW verdict \in {"correct", "missed"},
           submit_answer(k, n, q, verdict)
    PROVE  StepOf(k)
<1> DEFINE s == session[k]
           old == s.attempts[n]
           a == [old EXCEPT !.answers[q] = verdict]
           answered == [s EXCEPT !.attempts[n] = a]
           updated(b) == [s.attempts EXCEPT ![n] = b]
<1>1. /\ Sound(s) /\ Settled(s) /\ s \in Session /\ s.phase = "quiz"
      /\ old \in AttemptRow /\ old.answers[q] = "open" /\ ~Finished(old)
    <2>1. Sound(s) /\ Settled(s) /\ s \in Session
        BY TypeOfRows DEF StudyInv, Sound
    <2>2. s.phase = "quiz" /\ old.answers[q] = "open"
        BY DEF submit_answer, Answerable
    <2>3. old \in AttemptRow
        BY <2>1 DEF Session
    <2>4. q \in With(old, "open")
        BY <2>2 DEF With
    <2>5. QED BY <2>1, <2>2, <2>3, <2>4 DEF Finished
<1>2. /\ a \in AttemptRow /\ Keeps(old, a) /\ Asked(a) = Asked(old) /\ Asked(old) \subseteq Question
      /\ \A next \in Question : /\ [a EXCEPT !.current = next] \in AttemptRow
                                /\ Keeps(old, [a EXCEPT !.current = next])
    BY <1>1, VerdictKeeps
<1>3. UNCHANGED <<catalog, interests>>
    BY DEF submit_answer
<1>4. \A b \in AttemptRow : updated(b) \in Seq(AttemptRow)
    BY <1>1 DEF Session
<1>5. CASE ~Finished(a)
    <2>1. PICK next \in With(a, "open") : Change(k, [answered EXCEPT !.attempts[n].current = next])
        BY <1>5 DEF submit_answer
    <2> DEFINE b == [a EXCEPT !.current = next]
               r == [s EXCEPT !.attempts = updated(b)]
               t == [r EXCEPT !.version = @ + 1]
    <2>2. b \in AttemptRow /\ Keeps(old, b)
        BY <1>2 DEF With
    <2>3. [answered EXCEPT !.attempts[n].current = next] = r
        BY <1>1 DEF Session
    <2>4. session' = [session EXCEPT ![k] = t] /\ UNCHANGED completed
        BY <1>5, <2>1, <2>3 DEF Change, submit_answer
    <2> HIDE DEF b
    <2>5. updated(b) \in Seq(AttemptRow)
        BY <1>4, <2>2
    <2> HIDE DEF updated
    <2>6. r \in Session
        BY <1>1, <2>5 DEF Session
    <2>7. /\ t \in Session /\ t.topics = s.topics /\ t.pool = s.pool
          /\ t.version = s.version + 1 /\ t.attempts = updated(b)
          /\ t.review = s.review /\ t.phase = "quiz"
        BY <1>1, <2>6, NewVersion DEF Session
    <2>8. Only(k) /\ session'[k] = t
        BY <2>4, RowOfTheStep DEF StudyInv
    <2> HIDE DEF t
    <2>9. t.review \subseteq Values(s.topics)
        BY <1>1, <2>7 DEF Sound
    <2>10. /\ Sound(t) /\ Settled(t) /\ Follows(s, t)
           /\ Progress(s, t)
        <3>1. Sound(t) /\ Settled(t) /\ Follows(s, t)
            BY <1>1, <2>2, <2>7, <2>9, RowAnswers DEF updated
        <3>2. t.attempts = [s.attempts EXCEPT ![n] = b] /\ t.attempts[n] = b
            BY <1>1, <2>7 DEF updated, Session
        <3>3. /\ b.answers = [old.answers EXCEPT ![q] = verdict] /\ b.current = next
              /\ b.answers[next] = "open" /\ ~Finished(b)
            BY <1>1, <1>2, <1>5 DEF b, AttemptRow, With, Finished, Asked
        <3>4. Scores(s, t, n, b)
            BY <1>1, <2>2, <2>7, <3>2, <3>3 DEF Scores
        <3>5. QED BY <3>1, <3>2, <3>4 DEF Progress
    <2>11. QED BY <1>3, <2>4, <2>7, <2>8, <2>10 DEF StepOf
<1>6. CASE Finished(a)
    <2> DEFINE passes == Passes(a)
               r == IF passes
                    THEN [s EXCEPT !.attempts = updated(a), !.phase = "passed"]
                    ELSE [s EXCEPT !.attempts = updated(a), !.phase = "review",
                                   !.reading_position = 0, !.review = ToReview(s, a)]
               t == [r EXCEPT !.version = @ + 1]
    <2>1. /\ session' = [session EXCEPT ![k] = t]
          /\ IF passes THEN Credit(k) ELSE UNCHANGED completed
        <3>1. CASE passes
            <4>1. Change(k, [answered EXCEPT !.phase = "passed"]) /\ Credit(k)
                BY <1>6, <3>1 DEF submit_answer
            <4>2. [answered EXCEPT !.phase = "passed"] = r
                BY <1>1, <3>1 DEF Session
            <4>3. QED BY <3>1, <4>1, <4>2 DEF Change
        <3>2. CASE ~passes
            <4>1. /\ Change(k, [answered EXCEPT !.phase = "review", !.reading_position = 0,
                                                !.review = ToReview(s, a)])
                  /\ UNCHANGED completed
                BY <1>6, <3>2 DEF submit_answer
            <4>2. [answered EXCEPT !.phase = "review", !.reading_position = 0,
                                   !.review = ToReview(s, a)] = r
                BY <1>1, <3>2 DEF Session
            <4>3. QED BY <3>2, <4>1, <4>2 DEF Change
        <3>3. QED BY <3>1, <3>2
    <2>2. updated(a) \in Seq(AttemptRow)
        BY <1>2, <1>4
    <2>3. Values(s.topics) \subseteq Topic
        BY <1>1 DEF Session, Values
    <2>4. ToReview(s, a) \subseteq Values(s.topics)
        BY DEF ToReview
    <2> HIDE DEF a, updated, passes
    <2>5. /\ r \in Session /\ r.topics = s.topics /\ r.pool = s.pool /\ r.version = s.version
          /\ r.attempts = updated(a) /\ r.review \subseteq Values(s.topics)
          /\ r.phase = IF passes THEN "passed" ELSE "review"
          /\ ~passes => r.reading_position = 0 /\ r.review = ToReview(s, a)
        <3>1. CASE passes
            BY <1>1, <2>2, <3>1 DEF Session, Sound
        <3>2. CASE ~passes
            BY <1>1, <2>2, <2>3, <2>4, <3>2 DEF Session
        <3>3. QED BY <3>1, <3>2
    <2> HIDE DEF r
    <2>6. /\ t \in Session /\ t.topics = s.topics /\ t.pool = s.pool
          /\ t.version = s.version + 1 /\ t.attempts = updated(a)
          /\ t.review \subseteq Values(s.topics)
          /\ t.phase = IF passes THEN "passed" ELSE "review"
          /\ ~passes => t.reading_position = 0 /\ t.review = ToReview(s, a)
        BY <2>5, NewVersion
    <2>7. Only(k) /\ session'[k] = t
        BY <2>1, RowOfTheStep DEF StudyInv
    <2> HIDE DEF t
    <2>8. /\ Sound(t) /\ Settled(t) /\ Follows(s, t)
          /\ Progress(s, t)
        <3>1. Sound(t) /\ Settled(t) /\ Follows(s, t)
            BY <1>1, <1>2, <1>6, <2>6, RowAnswers DEF updated
        <3>2. t.attempts = [s.attempts EXCEPT ![n] = a] /\ t.attempts[n] = a
            BY <1>1, <2>6 DEF updated, Session
        <3>3. a.answers = [old.answers EXCEPT ![q] = verdict]
            BY <1>1 DEF a, AttemptRow
        <3>4. Scores(s, t, n, a)
            BY <1>1, <1>2, <1>6, <2>6, <3>2, <3>3 DEF Scores, passes
        <3>5. QED BY <3>1, <3>2, <3>4 DEF Progress
    <2>9. QED BY <1>3, <2>1, <2>6, <2>7, <2>8 DEF StepOf
<1>7. QED BY <1>5, <1>6

LEMMA StartOfStartStudy ==
    ASSUME StudyInv, StudyAssumption, NEW k \in Key, NEW sub \in Subcategory, start_study(k, sub)
    PROVE  StartOf(k)
<1> DEFINE size == Least(SESSION_TOPICS, Cardinality(Unfinished(sub)))
           pool(topics) == {q \in Question : q \in catalog /\ TopicOf[q] \in Values(topics)}
           t(topics) == [NoSession EXCEPT !.phase = "reading", !.topics = topics,
                                          !.pool = pool(topics)]
<1>1. PICK topics \in [1..size -> Unfinished(sub)] :
        /\ session' = [session EXCEPT ![k] = t(topics)]
        /\ \A x \in Values(topics) :
              Cardinality({q \in pool(topics) : TopicOf[q] = x}) >= 2
    BY DEF start_study
<1>2. MayStart(k) /\ UNCHANGED <<catalog, interests, completed>>
    BY DEF start_study
<1>3. Unfinished(sub) \subseteq Topic /\ Unfinished(sub) \intersect CompletedTopics = {}
    BY DEF Unfinished, StudyAssumption
<1>4. size \in Nat /\ size > 0
    <2>1. Cardinality(Unfinished(sub)) \in Nat
        BY <1>3, FS_Subset, FS_CardinalityType DEF StudyAssumption
    <2>2. size > 0
        BY DEF start_study
    <2>3. QED BY <2>1, <2>2 DEF Least, StudyAssumption
<1> HIDE DEF size
<1>5. /\ topics \in Seq(Topic) /\ Values(topics) \intersect CompletedTopics = {}
      /\ Len(topics) > 0 /\ topics[1] \in Values(topics)
    BY <1>1, <1>3, <1>4 DEF Values
<1>6. pool(topics) # {}
    <2>1. CASE pool(topics) = {}
        <3>1. {q \in pool(topics) : TopicOf[q] = topics[1]} = {}
            BY <2>1
        <3>2. Cardinality({}) >= 2
            BY <1>1, <1>5, <3>1
        <3>3. QED BY <3>2, FS_EmptySet
    <2>2. QED BY <2>1
<1> DEFINE row == t(topics)
<1>7. /\ row.phase = "reading" /\ row.version = 0 /\ row.topics = topics
      /\ row.pool = pool(topics) /\ row.reading_position = 0 /\ row.review = {}
      /\ row.attempts = <<>>
    BY DEF NoSession
<1>8. row \in Session
    <2>1. pool(topics) \in SUBSET Question /\ <<>> \in Seq(AttemptRow)
        OBVIOUS
    <2> HIDE DEF pool
    <2>2. NoSession \in Session
        BY DEF NoSession, Session
    <2>3. QED BY <2>1, <2>2, <1>5 DEF Session
<1>9. Only(k) /\ session'[k] = row
    BY <1>1, RowOfTheStep DEF StudyInv
<1> HIDE DEF row
<1>10. Sound(row)
    BY <1>7, <1>8 DEF Sound
<1>11. Settled(row)
    BY <1>7 DEF Settled
<1>12. QED BY <1>2, <1>5, <1>7, <1>9, <1>10, <1>11, <1>6 DEF StartOf

-----------------------------------------------------------------------------
(* Every step, and the theorems.                                           *)

LEMMA StepOfASession ==
    ASSUME StudyInv, StudyAssumption, Next
    PROVE  \/ \E k \in Key : StepOf(k) \/ StartOf(k)
           \/ /\ UNCHANGED <<session, completed>>
              /\ catalog' \in Catalogs /\ interests' \subseteq Category
<1>1. CASE save_interests \/ ContentChange
    BY <1>1 DEF save_interests, ContentChange, StudyInv, TypeOK
<1>2. ASSUME NEW k \in Key, NEW sub \in Subcategory, start_study(k, sub)
      PROVE  StartOf(k)
    BY <1>2, StartOfStartStudy
<1>3. ASSUME NEW k \in Key, NEW v \in 0..session[k].version,
             Back(k, v) \/ ReadOn(k, v) \/ BeginQuiz(k, v)
      PROVE  StepOf(k)
    BY <1>3, StepOfBack, StepOfBeginQuiz
<1>4. ASSUME NEW k \in Key, abandon_study(k)
      PROVE  StepOf(k)
    BY <1>4, StepOfAbandon
<1>5. ASSUME NEW k \in Key, NEW n \in DOMAIN session[k].attempts,
             NEW q \in Asked(session[k].attempts[n]), NEW verdict \in {"correct", "missed"},
             submit_answer(k, n, q, verdict)
      PROVE  StepOf(k)
    BY <1>5, StepOfSubmitAnswer
<1>6. QED BY <1>1, <1>2, <1>3, <1>4, <1>5 DEF Next

\* A step writes one row and credits topics that exist.
LEMMA CreditsAreTopics ==
    ASSUME StudyInv, NEW k \in Key, StepOf(k)
    PROVE  completed' \subseteq [topic : Topic, key : Key]
<1>1. Values(session[k].topics) \subseteq Topic
    BY TypeOfRows DEF StudyInv, Sound, Session, Values
<1>2. completed \subseteq [topic : Topic, key : Key]
    BY DEF StudyInv, TypeOK
<1>3. CASE session'[k].phase = "passed"
    BY <1>1, <1>2, <1>3 DEF StepOf, Credit
<1>4. CASE session'[k].phase # "passed"
    BY <1>2, <1>4 DEF StepOf
<1>5. QED BY <1>3, <1>4

\* StudyInv holds at the start and after every step.
THEOREM StudyInvariant == Spec => []StudyInv
<1>1. StudyAssumption /\ Init => StudyInv
    <2> SUFFICES ASSUME StudyAssumption, Init PROVE StudyInv
        OBVIOUS
    <2>1. NoSession \in Session
        BY DEF NoSession, Session
    <2>2. Sound(NoSession) /\ Settled(NoSession)
        BY <2>1 DEF NoSession, Sound, Settled
    <2>3. \A k \in Key : session[k] = NoSession
        BY DEF Init
    <2>4. session \in [Key -> Session]
        BY <2>1 DEF Init
    <2>5. TypeOK
        BY <2>2, <2>3, <2>4, TypeOfRows DEF Init
    <2>6. QED BY <2>2, <2>3, <2>5 DEF StudyInv
<1>2. StudyAssumption /\ StudyInv /\ [Next]_vars => StudyInv'
    <2> SUFFICES ASSUME StudyAssumption, StudyInv, [Next]_vars PROVE StudyInv'
        OBVIOUS
    <2>1. CASE UNCHANGED vars
        BY <2>1 DEF vars, StudyInv, TypeOK, Settled, Finished, With, Asked, Values
    <2>2. CASE UNCHANGED <<session, completed>> /\ catalog' \in Catalogs
               /\ interests' \subseteq Category
        BY <2>2 DEF StudyInv, TypeOK, Settled, Finished, With, Asked, Values
    <2>3. ASSUME NEW k \in Key, StepOf(k) \/ StartOf(k)
          PROVE  StudyInv'
        <3>1. Only(k) /\ Sound(session'[k]) /\ Settled(session'[k])
            BY <2>3 DEF StepOf, StartOf
        <3>2. session'[k] \in Session
            BY <3>1 DEF Sound
        <3>3. session' \in [Key -> Session]
            BY <3>1, <3>2 DEF Only, StudyInv, TypeOK
        <3>4. \A j \in Key : Sound(session'[j]) /\ Settled(session'[j])
            <4>1. \A j \in Key \ {k} : session'[j] = session[j]
                BY <3>1 DEF Only, StudyInv, TypeOK
            <4>2. \A j \in Key : Sound(session[j]) /\ Settled(session[j])
                BY TypeOfRows DEF StudyInv
            <4>3. QED BY <3>1, <4>1, <4>2
        <3>5. /\ catalog' \in Catalogs /\ interests' \subseteq Category
              /\ completed' \subseteq [topic : Topic, key : Key]
            BY <2>3, CreditsAreTopics DEF StepOf, StartOf, StudyInv, TypeOK
        <3>6. TypeOK'
            BY <3>3, <3>4, <3>5 DEF TypeOK, Sound
        <3>7. QED BY <3>4, <3>6 DEF StudyInv
    <2>4. QED BY <2>1, <2>2, <2>3, StepOfASession
<1>3. QED BY <1>1, <1>2, StudyAssumption, PTL DEF Spec

\* The rows keep their types; positions stay natural numbers whatever versions the pages
\* send, and attempts ask pinned questions only, at least one.
THEOREM StudyTypeCorrect == Spec => []TypeOK
BY StudyInvariant, PTL DEF StudyInv

\* The credited topics are those of the passed sessions (of any C and rows: both states).
LEMMA CreditedTopics ==
    ASSUME NEW C, NEW rows,
           C = UNION {{[topic |-> t, key |-> k] : t \in Values(rows[k].topics)} :
                        k \in {j \in Key : rows[j].phase = "passed"}}
    PROVE  \A u : u \in {c.topic : c \in C} <=>
                    \E k \in Key : rows[k].phase = "passed" /\ u \in Values(rows[k].topics)
<1> TAKE u
<1>1. ASSUME NEW c \in C, u = c.topic
      PROVE  \E k \in Key : rows[k].phase = "passed" /\ u \in Values(rows[k].topics)
    BY <1>1
<1>2. ASSUME NEW k \in Key, rows[k].phase = "passed", u \in Values(rows[k].topics)
      PROVE  u \in {c.topic : c \in C}
    <2>1. [topic |-> u, key |-> k] \in C
        BY <1>2
    <2>2. [topic |-> u, key |-> k].topic = u
        OBVIOUS
    <2>3. QED BY <2>1, <2>2
<1>3. QED BY <1>1, <1>2

\* Topics are credited by passed sessions alone, to exactly one, and are not studied
\* again; one session is active at most (Credit, MayStart and Unfinished together: each
\* of the three guards is what makes the others enough).
THEOREM StudyCreditIsEarned == Spec => []CreditIsEarned
<1>1. Init => CreditIsEarned
    BY DEF Init, CreditIsEarned, NoSession, Active, CompletedTopics
<1>2. StudyAssumption /\ StudyInv /\ CreditIsEarned /\ [Next]_vars => CreditIsEarned'
    <2> SUFFICES ASSUME StudyAssumption, StudyInv, CreditIsEarned, [Next]_vars
                 PROVE  CreditIsEarned'
        OBVIOUS
    <2> DEFINE T(k) == Values(session[k].topics)
               P(k) == session[k].phase = "passed"
               A(k) == Active(session[k])
    <2>1. CASE UNCHANGED <<session, completed>>
        <3>1. session' = session /\ completed' = completed
            BY <2>1
        <3>2. CompletedTopics' = CompletedTopics
            BY <3>1 DEF CompletedTopics
        <3>3. \A k \in Key : T(k)' = T(k) /\ P(k)' = P(k) /\ A(k)' = A(k)
            BY <3>1 DEF Values, Active
        <3>4. QED BY <3>1, <3>2, <3>3 DEF CreditIsEarned
    <2>2. /\ \A c : c \in completed <=> \E k \in Key : P(k) /\ \E u \in T(k) : c = [topic |-> u, key |-> k]
          /\ \A j, k \in Key : P(j) /\ P(k) /\ j # k => T(j) \intersect T(k) = {}
          /\ \A j, k \in Key : A(j) /\ A(k) => j = k
          /\ \A k \in Key : A(k) => T(k) \intersect CompletedTopics = {}
        BY DEF CreditIsEarned
    <2>3. \A u : u \in CompletedTopics <=> \E k \in Key : P(k) /\ u \in T(k)
        BY CreditedTopics DEF CompletedTopics, CreditIsEarned
    <2>4. ASSUME NEW k \in Key, StepOf(k) \/ StartOf(k)
          PROVE  CreditIsEarned'
        <3>1. \A j \in Key \ {k} : T(j)' = T(j) /\ P(j)' = P(j) /\ A(j)' = A(j)
            BY <2>4 DEF StepOf, StartOf, Only, StudyInv, TypeOK, Active, Values
        <3>2. \/ /\ StepOf(k) /\ A(k) /\ ~P(k) /\ T(k)' = T(k)
              \/ /\ StartOf(k) /\ ~P(k) /\ \A j \in Key : ~A(j)
            BY <2>4 DEF StepOf, StartOf, Follows, MayStart, NoSession, Active, Values
        <3>3. \/ /\ P(k)' /\ ~A(k)' /\ A(k) /\ T(k)' = T(k)
                 /\ completed' = completed \union {[topic |-> u, key |-> k] : u \in T(k)}
              \/ /\ ~P(k)' /\ completed' = completed
                 /\ A(k)' => T(k)' \intersect CompletedTopics = {}
            <4>1. P(k)' => ~A(k)'
                BY DEF Active
            <4>2. CASE StepOf(k) /\ A(k) /\ T(k)' = T(k)
                <5>1. CASE P(k)'
                    BY <2>2, <4>1, <4>2, <5>1 DEF StepOf, Credit
                <5>2. CASE ~P(k)'
                    BY <2>2, <4>2, <5>2 DEF StepOf
                <5>3. QED BY <5>1, <5>2
            <4>3. CASE StartOf(k)
                <5>1. ~P(k)'
                    BY <4>3 DEF StartOf
                <5>2. T(k)' \intersect CompletedTopics = {} /\ completed' = completed
                    BY <4>3 DEF StartOf, Values
                <5>3. QED BY <5>1, <5>2
            <4>4. QED BY <3>2, <4>2, <4>3
        <3>4. \A c : c \in completed' <=>
                 \E j \in Key : P(j)' /\ \E u \in T(j)' : c = [topic |-> u, key |-> j]
            <4>1. CASE P(k)'
                BY <2>2, <3>1, <3>2, <3>3, <4>1
            <4>2. CASE ~P(k)'
                BY <2>2, <3>1, <3>2, <3>3, <4>2
            <4>3. QED BY <4>1, <4>2
        <3>5. \A i, j \in Key : P(i)' /\ P(j)' /\ i # j => T(i)' \intersect T(j)' = {}
            BY <2>2, <2>3, <3>1, <3>3
        <3>6. \A i, j \in Key : A(i)' /\ A(j)' => i = j
            BY <2>2, <3>1, <3>2
        <3>7. completed' = UNION {{[topic |-> u, key |-> j] : u \in T(j)'} : j \in {i \in Key : P(i)'}}
            BY <3>4
        <3>8. \A j \in Key : A(j)' => T(j)' \intersect CompletedTopics' = {}
            <4>1. CASE P(k)'
                BY <2>2, <3>1, <3>3, <4>1
            <4>2. CASE ~P(k)'
                <5>1. completed' = completed
                    BY <3>3, <4>2
                <5>2. CompletedTopics' = CompletedTopics
                    BY <5>1 DEF CompletedTopics
                <5>3. QED BY <2>2, <3>1, <3>3, <4>2, <5>2
            <4>3. QED BY <4>1, <4>2
        <3>9. QED BY <3>5, <3>6, <3>7, <3>8 DEF CreditIsEarned
    <2>5. QED BY <2>1, <2>4, StepOfASession DEF vars
<1>3. QED BY <1>1, <1>2, StudyInvariant, StudyAssumption, PTL DEF Spec

\* Verdicts and the composition of attempts are final, an attempt follows a finished
\* one, pinned content survives imports, ended sessions do not change and every change
\* is a new version: by Follows, which every operation satisfies.
THEOREM StudyEvidenceIsFinal == Spec => EvidenceIsFinal
<1> DEFINE Final(s, t) ==
        /\ t.topics = s.topics /\ t.pool = s.pool
        /\ ~Active(s) => t = s
        /\ t # s => t.version > s.version
        /\ Len(t.attempts) > Len(s.attempts) /\ s.attempts # <<>> => Finished(Last(s))
        /\ \A n \in DOMAIN s.attempts : Keeps(s.attempts[n], t.attempts[n])
<1>1. StudyAssumption /\ StudyInv /\ [Next]_vars =>
        \A k \in Key : session[k].phase # "none" => Final(session[k], session'[k])
    <2> SUFFICES ASSUME StudyAssumption, StudyInv, [Next]_vars, NEW k \in Key,
                        session[k].phase # "none"
                 PROVE  Final(session[k], session'[k])
        OBVIOUS
    <2>1. session[k].version \in Nat /\ Len(session[k].attempts) \in Nat
        BY DEF StudyInv, TypeOK, Session
    <2>2. CASE session'[k] = session[k]
        BY <2>1, <2>2 DEF Keeps
    <2>3. CASE Follows(session[k], session'[k])
        BY <2>1, <2>3 DEF Follows
    <2>4. ASSUME NEW j \in Key, StepOf(j) \/ StartOf(j)
          PROVE  session'[k] = session[k] \/ Follows(session[k], session'[k])
        <3>1. CASE j = k
            BY <2>4, <3>1 DEF StepOf, StartOf, MayStart, NoSession
        <3>2. CASE j # k
            BY <2>4, <3>2 DEF StepOf, StartOf, Only, StudyInv, TypeOK
        <3>3. QED BY <3>1, <3>2
    <2>5. QED BY <2>2, <2>3, <2>4, StepOfASession DEF vars
<1>2. StudyAssumption /\ StudyInv /\ [Next]_vars =>
        [\A k \in Key : session[k].phase # "none" => Final(session[k], session'[k])]_vars
    BY <1>1
<1>3. QED BY <1>2, StudyInvariant, StudyAssumption, PTL DEF Spec, EvidenceIsFinal, Keeps

-----------------------------------------------------------------------------
(* What has been asked, as a part of the invariant.  Which questions count *)
(* as one stays opaque: only Group(pool, q) as a function of q is used.    *)

Apart(pool, S) == \A q, r \in S : Group(pool, q) = Group(pool, r) => q = r

\* No attempt asks two variants, or a variant of what an earlier one saw answered
\* correctly; none is longer than the session's quizzes.
Variants(s) ==
    \A n \in DOMAIN s.attempts :
        /\ Apart(s.pool, Asked(s.attempts[n]))
        /\ Cardinality(Asked(s.attempts[n])) <= QuizSize(s)
        /\ \A m \in 1..n - 1 : \A q \in With(s.attempts[m], "correct"), r \in Asked(s.attempts[n]) :
              Group(s.pool, q) # Group(s.pool, r)

\* What was missed has been answered correctly, or is asked in the last attempt.
Carried(s) ==
    \A q \in History(s, "missed") :
        \E r \in History(s, "correct") \union Asked(Last(s)) : Group(s.pool, r) = Group(s.pool, q)

\* What the phase says of the attempts and of the reading.
Phased(s) ==
    /\ s.phase # "none" => Len(s.topics) > 0 /\ s.pool # {}
    /\ s.phase = "reading" => s.attempts = <<>>
    /\ s.phase \in {"review", "quiz", "passed"} => s.attempts # <<>>
    /\ s.phase = "review" => Finished(Last(s)) /\ ~Passes(Last(s))
    /\ s.phase = "passed" => Finished(Last(s)) /\ Passes(Last(s))
    /\ s.phase = "quiz" => Last(s).answers[Last(s).current] = "open"
    /\ s.phase \in {"reading", "review"} => s.reading_position < Cardinality(reading_topics(s))

Studied(s) == Variants(s) /\ Carried(s) /\ Phased(s)

LEMMA DistinctIsApart ==
    ASSUME NEW pool, NEW S \in SUBSET Question
    PROVE  /\ IsFiniteSet(Groups(pool, S)) /\ Cardinality(Groups(pool, S)) \in Nat
           /\ Distinct(pool, S) <=> Apart(pool, S)
<1> DEFINE f == [q \in S |-> Group(pool, q)]
<1>1. IsFiniteSet(S)
    BY FS_Subset, StudyAssumption
<1>2. f \in Surjection(S, Groups(pool, S))
    BY DEF Surjection, Groups
<1>3. f \in Injection(S, Groups(pool, S)) <=> Apart(pool, S)
    BY DEF Injection, IsInjective, Groups, Apart
<1>4. IsFiniteSet(Groups(pool, S)) /\
      (Cardinality(Groups(pool, S)) = Cardinality(S) <=> f \in Injection(S, Groups(pool, S)))
    BY <1>1, <1>2, FS_Surjection
<1>5. QED BY <1>3, <1>4, FS_CardinalityType DEF Distinct

LEMMA SomeGroup ==
    ASSUME NEW pool, NEW S, NEW g
    PROVE  g \in Groups(pool, S) <=> \E q \in S : Group(pool, q) = g
BY DEF Groups

\* A first quiz asks no variants, and asks something.
LEMMA FirstQuiz ==
    ASSUME NEW s, Sound(s), Phased(s), s.phase = "reading", NEW S \in Selections(s)
    PROVE  S \subseteq s.pool /\ S # {} /\ Apart(s.pool, S) /\ Cardinality(S) <= QuizSize(s)
<1>1. /\ s.attempts = <<>> /\ s.pool # {} /\ s.pool \subseteq Question
      /\ Len(s.topics) \in Nat \ {0}
    BY DEF Phased, Sound, Session
<1> DEFINE all == Cardinality(Groups(s.pool, s.pool))
<1>2. S \subseteq s.pool /\ Cardinality(S) = Least(QuizSize(s), all) /\ Distinct(s.pool, S)
    BY <1>1 DEF Selections, Initial
<1>3. all \in Nat \ {0}
    <2>1. IsFiniteSet(Groups(s.pool, s.pool)) /\ all \in Nat
        BY <1>1, DistinctIsApart
    <2>2. Groups(s.pool, s.pool) # {}
        BY <1>1 DEF Groups
    <2>3. QED BY <2>1, <2>2, FS_EmptySet
<1>4. QuizSize(s) \in Nat \ {0}
    BY <1>1 DEF QuizSize
<1>5. Cardinality(S) > 0 /\ Cardinality(S) <= QuizSize(s)
    BY <1>2, <1>3, <1>4 DEF Least
<1>6. S # {}
    BY <1>5, FS_EmptySet
<1>7. QED BY <1>1, <1>2, <1>5, <1>6, DistinctIsApart

\* An attempt that failed has misses, none of a question answered correctly before.
LEMMA SomethingMissed ==
    ASSUME NEW s, Sound(s), Variants(s), s.attempts # <<>>
    PROVE  /\ \A q \in With(Last(s), "missed") : Group(s.pool, q) \notin CorrectGroups(s)
           /\ Finished(Last(s)) /\ ~Passes(Last(s)) => With(Last(s), "missed") # {}
<1> DEFINE last == Len(s.attempts)
<1>1. last \in DOMAIN s.attempts /\ Last(s) = s.attempts[last] /\ Last(s) \in AttemptRow
    BY DEF Sound, Session, Last
<1>2. ASSUME NEW q \in With(Last(s), "missed"), Group(s.pool, q) \in CorrectGroups(s)
      PROVE  FALSE
    <2>1. PICK r \in History(s, "correct") : Group(s.pool, r) = Group(s.pool, q)
        BY <1>2, SomeGroup DEF CorrectGroups
    <2>2. PICK m \in DOMAIN s.attempts : r \in With(s.attempts[m], "correct")
        BY <2>1 DEF History
    <2>3. q \in Asked(Last(s))
        BY DEF With
    <2>4. CASE m = last
        <3>1. r \in Asked(Last(s))
            BY <1>1, <2>2, <2>4 DEF With
        <3>2. q = r
            BY <1>1, <2>1, <2>3, <3>1 DEF Variants, Apart
        <3>3. QED BY <1>1, <2>2, <2>4, <3>2 DEF With
    <2>5. CASE m # last
        <3>1. m \in 1..last - 1
            BY <2>5 DEF Sound, Session
        <3>2. QED BY <1>1, <2>1, <2>2, <2>3, <3>1 DEF Variants
    <2>6. QED BY <2>4, <2>5
<1>3. ASSUME Finished(Last(s)), With(Last(s), "missed") = {} PROVE Passes(Last(s))
    <2>1. PICK S \in SUBSET Question : Last(s).answers \in [S -> Verdict]
        BY <1>1 DEF AttemptRow
    <2>2. With(Last(s), "correct") = S /\ Asked(Last(s)) = S
        BY <1>3, <2>1 DEF Finished, With, Asked, Verdict
    <2>3. Cardinality(S) \in Nat
        BY FS_Subset, FS_CardinalityType, StudyAssumption
    <2>4. 10 * Cardinality(S) >= 9 * Cardinality(S)
        BY <2>3
    <2>5. QED BY <2>2, <2>4 DEF Passes
<1>4. QED BY <1>2, <1>3

\* A retry asks every group that was missed and not answered correctly, no variants and
\* nothing answered correctly before; there is always something left to ask.
LEMMA Retry ==
    ASSUME NEW s, Sound(s), Variants(s), Phased(s), s.phase = "review", NEW S \in Selections(s)
    PROVE  /\ S # {} /\ S \subseteq s.pool
           /\ Apart(s.pool, S) /\ Cardinality(S) <= QuizSize(s)
           /\ \A r \in S : Group(s.pool, r) \notin CorrectGroups(s)
           /\ \A q \in With(Last(s), "missed") : \E r \in S : Group(s.pool, r) = Group(s.pool, q)
<1>1. /\ s.attempts # <<>> /\ Finished(Last(s)) /\ ~Passes(Last(s)) /\ s.pool \subseteq Question
      /\ Len(s.topics) \in Nat \ {0} /\ Len(s.attempts) \in DOMAIN s.attempts
      /\ Last(s) = s.attempts[Len(s.attempts)]
    BY DEF Phased, Sound, Session, Last
<1>2. PICK misses \in Misses(s), unseen \in Unseen(s) : S \in Chosen(misses, unseen, QuizSize(s))
    BY <1>1 DEF Selections
<1> DEFINE n == QuizSize(s)
           missed == {q \in With(Last(s), "missed") : Group(s.pool, q) \notin CorrectGroups(s)}
           fresh == {q \in s.pool : Group(s.pool, q) \notin SeenGroups(s)}
<1>3. /\ misses \subseteq missed /\ Distinct(s.pool, misses)
      /\ Groups(s.pool, misses) = Groups(s.pool, missed)
    BY <1>2 DEF Misses, Representatives
<1>4. unseen \subseteq fresh /\ Distinct(s.pool, unseen)
    BY <1>2 DEF Unseen, Representatives
<1>5. With(Last(s), "missed") \subseteq Asked(Last(s)) /\ Asked(Last(s)) \subseteq s.pool
    BY <1>1 DEF With, Sound
<1>6. /\ misses \subseteq Asked(Last(s)) /\ misses \subseteq Question /\ unseen \subseteq Question
      /\ misses \union unseen \subseteq s.pool
    BY <1>1, <1>3, <1>4, <1>5
<1>7. \A T \in SUBSET Question : IsFiniteSet(T) /\ Cardinality(T) \in Nat
    BY FS_Subset, FS_CardinalityType, StudyAssumption
<1>8. n \in Nat \ {0}
    BY <1>1 DEF QuizSize
<1>9. /\ S \subseteq misses \union unseen
      /\ Cardinality(S) = Least(n, Cardinality(misses \union unseen))
      /\ misses \subseteq S \/ S \subseteq misses
    BY <1>2 DEF Chosen
<1>10. Cardinality(misses) <= n
    <2>1. Asked(Last(s)) \in SUBSET Question /\ Cardinality(Asked(Last(s))) <= n
        BY <1>1, <1>5 DEF Variants
    <2>2. Cardinality(misses) <= Cardinality(Asked(Last(s)))
        BY <1>6, <1>7, <2>1, FS_Subset
    <2>3. QED BY <1>6, <1>7, <1>8, <2>1, <2>2
<1>11. Cardinality(misses) <= Cardinality(misses \union unseen)
    <2>1. misses \union unseen \in SUBSET Question /\ misses \in SUBSET (misses \union unseen)
        BY <1>6
    <2>2. QED BY <1>7, <2>1, FS_Subset
<1>12. Cardinality(misses) <= Cardinality(S) /\ Cardinality(S) <= n
    <2>1. Cardinality(misses) \in Nat /\ Cardinality(misses \union unseen) \in Nat
        BY <1>6, <1>7
    <2>2. QED BY <1>8, <1>9, <1>10, <1>11, <2>1 DEF Least
<1>13. misses \subseteq S
    <2>1. CASE S \subseteq misses
        <3>1. S \in SUBSET misses /\ S \in SUBSET Question /\ misses \in SUBSET Question
            BY <1>6, <2>1
        <3>2. /\ Cardinality(S) <= Cardinality(misses)
              /\ Cardinality(misses) = Cardinality(S) => misses = S
            BY <1>7, <3>1, FS_Subset
        <3>3. Cardinality(misses) = Cardinality(S)
            BY <1>7, <1>12, <3>1, <3>2
        <3>4. QED BY <3>2, <3>3
    <2>2. QED BY <1>9, <2>1
<1>14. /\ \A q \in With(Last(s), "missed") : Group(s.pool, q) \notin CorrectGroups(s)
       /\ With(Last(s), "missed") # {}
    BY <1>1, SomethingMissed
<1> HIDE DEF n
<1>15. \A q \in With(Last(s), "missed") : \E r \in misses : Group(s.pool, r) = Group(s.pool, q)
    <2>1. TAKE q \in With(Last(s), "missed")
    <2>2. q \in missed
        BY <1>14
    <2>3. Group(s.pool, q) \in Groups(s.pool, misses)
        BY <1>3, <2>2, SomeGroup
    <2>4. QED BY <2>3, SomeGroup
<1>16. \A q \in misses, r \in unseen : Group(s.pool, q) # Group(s.pool, r)
    <2>1. TAKE q \in misses, r \in unseen
    <2>2. q \in History(s, "missed")
        BY <1>1, <1>3 DEF History
    <2>3. Group(s.pool, q) \in SeenGroups(s)
        BY <2>2, SomeGroup DEF SeenGroups
    <2>4. QED BY <1>4, <2>3
<1>17. Apart(s.pool, misses) /\ Apart(s.pool, unseen)
    BY <1>3, <1>4, <1>6, DistinctIsApart
<1>18. Apart(s.pool, misses \union unseen)
    BY <1>16, <1>17 DEF Apart
<1>19. CorrectGroups(s) \subseteq SeenGroups(s)
    BY DEF CorrectGroups, SeenGroups, Groups
<1>20. \A r \in S : Group(s.pool, r) \notin CorrectGroups(s)
    BY <1>3, <1>4, <1>9, <1>19
<1>21. Apart(s.pool, S)
    BY <1>9, <1>18 DEF Apart
<1>22. QED BY <1>6, <1>9, <1>12, <1>13, <1>14, <1>15, <1>20, <1>21 DEF n

LEMMA PlacesToRead ==
    ASSUME NEW s \in Session
    PROVE  /\ Cardinality(reading_topics(s)) \in Nat
           /\ reading_topics(s) # {} => Cardinality(reading_topics(s)) > 0
<1>1. DOMAIN s.topics = 1..Len(s.topics) /\ Len(s.topics) \in Nat
    BY DEF Session
<1>2. IsFiniteSet(DOMAIN s.topics)
    BY <1>1, FS_Interval
<1>3. reading_topics(s) \in SUBSET DOMAIN s.topics
    BY DEF reading_topics
<1>4. IsFiniteSet(reading_topics(s))
    BY <1>2, <1>3, FS_Subset
<1>5. QED BY <1>4, FS_CardinalityType, FS_EmptySet

\* Reading on or back stays on the cards; ending a session asks nothing.
LEMMA StudiedRests ==
    ASSUME NEW s, NEW t, Sound(s), Sound(t), Studied(s), Follows(s, t), Rests(s, t)
    PROVE  Studied(t)
<1>1. s \in Session /\ t \in Session
    BY DEF Sound
<1>2. t.attempts = s.attempts /\ t.pool = s.pool /\ t.topics = s.topics /\ s.phase # "none"
    BY DEF Rests, Follows, Active
<1>3. Variants(t) /\ Carried(t)
    BY <1>2 DEF Studied, Variants, Carried, QuizSize, History, Last
<1>4. Phased(t)
    <2>1. CASE t.phase = "abandoned"
        BY <1>2, <2>1 DEF Studied, Phased
    <2>2. CASE t.phase # "abandoned"
        <3>1. /\ s.phase \in {"reading", "review"} /\ t.phase = s.phase /\ t.review = s.review
              /\ t.reading_position < s.reading_position \/ t.reading_position < Remaining(s)
            BY <2>2 DEF Rests
        <3>2. reading_topics(t) = reading_topics(s) /\ Last(t) = Last(s)
            BY <1>2, <3>1 DEF reading_topics, Last
        <3>3. /\ s.reading_position < Cardinality(reading_topics(s))
              /\ s.reading_position \in Nat /\ t.reading_position \in Nat
              /\ Cardinality(reading_topics(s)) \in Nat
            BY <1>1, <3>1, PlacesToRead DEF Studied, Phased, Session
        <3>4. t.reading_position < Cardinality(reading_topics(t))
            BY <3>1, <3>2, <3>3 DEF Remaining
        <3>5. QED BY <1>2, <3>1, <3>2, <3>4 DEF Studied, Phased
    <2>3. QED BY <2>1, <2>2
<1>5. QED BY <1>3, <1>4 DEF Studied

\* A new attempt is not empty, and brings back what is still missed.
LEMMA StudiedBegins ==
    ASSUME NEW s, NEW t, Sound(s), Sound(t), Studied(s), Follows(s, t), Begins(s, t)
    PROVE  Studied(t)
<1>1. PICK S \in Selections(s) :
        IF S = {} THEN t.phase = "passed" /\ t.attempts = s.attempts
        ELSE /\ t.phase = "quiz"
             /\ \E first \in S : t.attempts = Append(s.attempts, Attempt(S, first))
    BY DEF Begins
<1>2. /\ t.pool = s.pool /\ t.topics = s.topics /\ s.phase \in {"reading", "review"}
      /\ s \in Session /\ t \in Session /\ s.attempts \in Seq(AttemptRow)
      /\ s.pool \subseteq Question
    BY DEF Follows, Begins, Sound, Session
<1>3. /\ S # {} /\ S \subseteq s.pool /\ Apart(s.pool, S) /\ Cardinality(S) <= QuizSize(s)
      /\ \A r \in S : Group(s.pool, r) \notin CorrectGroups(s)
      /\ s.attempts # <<>> =>
            \A q \in With(Last(s), "missed") : \E r \in S : Group(s.pool, r) = Group(s.pool, q)
    <2>1. CASE s.phase = "reading"
        <3>1. s.attempts = <<>>
            BY <2>1 DEF Studied, Phased
        <3>2. CorrectGroups(s) = {}
            BY <3>1 DEF CorrectGroups, Groups, History
        <3>3. QED BY <2>1, <3>1, <3>2, FirstQuiz DEF Studied
    <2>2. CASE s.phase = "review"
        BY <2>2, Retry DEF Studied
    <2>3. QED BY <1>2, <2>1, <2>2
<1>4. PICK first \in S : t.attempts = Append(s.attempts, Attempt(S, first))
    BY <1>1, <1>3
<1> DEFINE a == Attempt(S, first)
           last == Len(s.attempts)
<1>5. /\ a \in AttemptRow /\ Asked(a) = S /\ a.answers = [q \in S |-> "open"] /\ a.current = first
      /\ last \in Nat
    BY <1>2, <1>3, NewAttemptRow DEF Attempt
<1> HIDE DEF a
<1>6. /\ DOMAIN t.attempts = 1..last + 1 /\ DOMAIN s.attempts = 1..last
      /\ t.attempts[last + 1] = a /\ Last(t) = a
      /\ \A n \in 1..last : t.attempts[n] = s.attempts[n]
    BY <1>2, <1>4, <1>5 DEF a, Last
<1> HIDE DEF last
<1>7. With(a, "correct") = {} /\ With(a, "missed") = {}
    BY <1>5 DEF With
<1>8. /\ History(t, "correct") = History(s, "correct")
      /\ History(t, "missed") = History(s, "missed")
    BY <1>5, <1>6, <1>7 DEF History
<1>9. Variants(t)
    <2> SUFFICES ASSUME NEW n \in DOMAIN t.attempts
                 PROVE  /\ Apart(t.pool, Asked(t.attempts[n]))
                        /\ Cardinality(Asked(t.attempts[n])) <= QuizSize(t)
                        /\ \A m \in 1..n - 1 : \A q \in With(t.attempts[m], "correct"),
                                                 r \in Asked(t.attempts[n]) :
                              Group(t.pool, q) # Group(t.pool, r)
        BY DEF Variants
    <2>1. QuizSize(t) = QuizSize(s)
        BY <1>2 DEF QuizSize
    <2>2. CASE n \in 1..last
        <3>1. /\ n \in DOMAIN s.attempts /\ t.attempts[n] = s.attempts[n]
              /\ \A m \in 1..n - 1 : t.attempts[m] = s.attempts[m]
            BY <1>5, <1>6, <2>2
        <3>2. QED BY <1>2, <2>1, <3>1 DEF Studied, Variants
    <2>3. CASE n = last + 1
        <3>1. \A m \in 1..n - 1 : m \in DOMAIN s.attempts /\ t.attempts[m] = s.attempts[m]
            BY <1>5, <1>6, <2>3
        <3>2. \A m \in 1..n - 1 : \A q \in With(t.attempts[m], "correct") :
                 Group(s.pool, q) \in CorrectGroups(s)
            BY <3>1, SomeGroup DEF CorrectGroups, History
        <3>3. QED BY <1>2, <1>3, <1>5, <1>6, <2>1, <2>3, <3>2
    <2>4. QED BY <1>5, <1>6, <2>2, <2>3
<1>10. Carried(t)
    <2> SUFFICES ASSUME NEW q \in History(t, "missed")
                 PROVE  \E r \in History(t, "correct") \union Asked(Last(t)) :
                            Group(t.pool, r) = Group(t.pool, q)
        BY DEF Carried
    <2>1. PICK r \in History(s, "correct") \union Asked(Last(s)) :
            Group(s.pool, r) = Group(s.pool, q)
        BY <1>8 DEF Studied, Carried
    <2>2. CASE r \in History(s, "correct")
        BY <1>2, <1>8, <2>1, <2>2
    <2>3. CASE r \in Asked(Last(s))
        <3>1. last \in 1..last /\ s.attempts # <<>>
            <4>1. PICK m \in DOMAIN s.attempts : q \in With(s.attempts[m], "missed")
                BY <1>8 DEF History
            <4>2. QED BY <1>2, <1>5, <1>6, <4>1 DEF last
        <3>2. s.phase = "review" /\ Finished(Last(s)) /\ Last(s) = s.attempts[last]
              /\ Last(s) \in AttemptRow
            BY <1>2, <1>6, <3>1 DEF Studied, Phased, Last, last
        <3>3. r \in With(Last(s), "correct") \/ r \in With(Last(s), "missed")
            BY <2>3, <3>2 DEF Finished, With, AttemptRow, Asked, Verdict
        <3>4. CASE r \in With(Last(s), "correct")
            BY <1>2, <1>6, <1>8, <2>1, <3>1, <3>2, <3>4 DEF History
        <3>5. CASE r \in With(Last(s), "missed")
            BY <1>2, <1>3, <1>5, <1>6, <2>1, <3>1, <3>5
        <3>6. QED BY <3>3, <3>4, <3>5
    <2>4. QED BY <2>1, <2>2, <2>3
<1>11. Phased(t)
    <2>1. t.phase = "quiz" /\ t.attempts # <<>> /\ Len(t.topics) > 0 /\ t.pool # {}
        BY <1>1, <1>2, <1>3, <1>4 DEF Studied, Phased
    <2>2. Last(t).answers[Last(t).current] = "open"
        BY <1>5, <1>6
    <2>3. QED BY <2>1, <2>2 DEF Phased
<1>12. QED BY <1>9, <1>10, <1>11 DEF Studied

\* A verdict falls on an open answer of the last attempt: what was asked and answered
\* stays, and a failed attempt has something to read.
LEMMA StudiedScores ==
    ASSUME NEW s, NEW t, Sound(s), Settled(s), Sound(t), Studied(s), Follows(s, t),
           NEW n \in DOMAIN s.attempts, Scores(s, t, n, t.attempts[n])
    PROVE  Studied(t)
<1> DEFINE a == s.attempts[n]
           b == t.attempts[n]
<1>1. /\ s \in Session /\ t \in Session /\ s.phase = "quiz" /\ t.pool = s.pool /\ t.topics = s.topics
      /\ n = Len(s.attempts) /\ ~Finished(a) /\ a \in AttemptRow /\ b \in AttemptRow
    BY DEF Sound, Settled, Scores, Follows, Session
<1>2. /\ DOMAIN t.attempts = DOMAIN s.attempts /\ DOMAIN s.attempts = 1..n /\ n \in Nat \ {0}
      /\ \A m \in DOMAIN s.attempts : m # n => t.attempts[m] = s.attempts[m]
      /\ Last(s) = a /\ Last(t) = b /\ t.attempts # <<>>
    <2>1. t.attempts = [s.attempts EXCEPT ![n] = b]
        BY DEF Scores
    <2>2. /\ s.attempts \in Seq(AttemptRow) /\ t.attempts \in Seq(AttemptRow)
          /\ DOMAIN t.attempts = DOMAIN s.attempts
        BY <1>1, <2>1 DEF Session
    <2>3. Len(t.attempts) = Len(s.attempts)
        BY <2>2
    <2>4. QED BY <1>1, <2>1, <2>2, <2>3 DEF Last
<1>3. PICK q \in Asked(a), verdict \in {"correct", "missed"} :
        a.answers[q] = "open" /\ b.answers = [a.answers EXCEPT ![q] = verdict]
    BY DEF Scores
<1>4. /\ \/ ~Finished(b) /\ t.phase = "quiz" /\ b.answers[b.current] = "open"
         \/ Finished(b) /\ Passes(b) /\ t.phase = "passed"
         \/ /\ Finished(b) /\ ~Passes(b) /\ t.phase = "review"
            /\ t.reading_position = 0 /\ t.review = ToReview(s, b)
    BY DEF Scores
<1>5. /\ Asked(b) = Asked(a)
      /\ With(a, "correct") \subseteq With(b, "correct")
      /\ With(b, "correct") \subseteq Asked(a)
      /\ With(b, "missed") \subseteq With(a, "missed") \union Asked(a)
    BY <1>3 DEF Asked, With
<1> HIDE DEF a, b
<1>6. Variants(t)
    <2> SUFFICES ASSUME NEW m \in DOMAIN t.attempts
                 PROVE  /\ Apart(t.pool, Asked(t.attempts[m]))
                        /\ Cardinality(Asked(t.attempts[m])) <= QuizSize(t)
                        /\ \A l \in 1..m - 1 : \A c \in With(t.attempts[l], "correct"),
                                                 r \in Asked(t.attempts[m]) :
                              Group(t.pool, c) # Group(t.pool, r)
        BY DEF Variants
    <2>1. QuizSize(t) = QuizSize(s)
        BY <1>1 DEF QuizSize
    <2>2. Asked(t.attempts[m]) = Asked(s.attempts[m])
        BY <1>2, <1>5 DEF a, b
    <2>3. \A l \in 1..m - 1 : l \in DOMAIN s.attempts /\ l # n
        BY <1>2
    <2>4. \A l \in 1..m - 1 : t.attempts[l] = s.attempts[l]
        BY <1>2, <2>3
    <2>5. QED BY <1>1, <1>2, <2>1, <2>2, <2>4 DEF Studied, Variants
<1>7. History(s, "correct") \subseteq History(t, "correct")
    BY <1>2, <1>5 DEF History, a, b
<1>8. Carried(t)
    <2> SUFFICES ASSUME NEW c \in History(t, "missed")
                 PROVE  \E r \in History(t, "correct") \union Asked(Last(t)) :
                            Group(t.pool, r) = Group(t.pool, c)
        BY DEF Carried
    <2>1. PICK m \in DOMAIN t.attempts : c \in With(t.attempts[m], "missed")
        BY DEF History
    <2>2. c \in History(s, "missed") \/ c \in Asked(a)
        BY <1>2, <1>5, <2>1 DEF History, a, b
    <2>3. CASE c \in History(s, "missed")
        <3>1. \E r \in History(s, "correct") \union Asked(Last(s)) :
                 Group(s.pool, r) = Group(s.pool, c)
            BY <2>3 DEF Studied, Carried
        <3>2. QED BY <1>1, <1>2, <1>5, <1>7, <3>1
    <2>4. CASE c \in Asked(a)
        BY <1>2, <1>5, <2>4
    <2>5. QED BY <2>2, <2>3, <2>4
<1>9. Phased(t)
    <2>1. Len(t.topics) > 0 /\ t.pool # {}
        BY <1>1 DEF Studied, Phased
    <2>2. CASE t.phase = "quiz"
        BY <1>2, <1>4, <2>1, <2>2 DEF Phased
    <2>3. CASE t.phase = "passed"
        BY <1>2, <1>4, <2>1, <2>3 DEF Phased
    <2>4. CASE t.phase = "review"
        <3>1. Finished(b) /\ ~Passes(b) /\ t.reading_position = 0 /\ t.review = ToReview(s, b)
            BY <1>4, <2>4
        <3>2. PICK c \in With(b, "missed") : TRUE
            BY <1>2, <1>6, <3>1, SomethingMissed
        <3>3. c \in t.pool
            BY <1>2, <1>5 DEF With, Sound, b, Asked
        <3>4. PICK m \in DOMAIN t.topics : t.topics[m] = TopicOf[c]
            BY <3>3 DEF Sound, Values
        <3>5. m \in reading_topics(t)
            BY <1>1, <3>1, <3>4 DEF reading_topics, ToReview, Values
        <3>6. t.reading_position < Cardinality(reading_topics(t))
            BY <1>1, <3>1, <3>5, PlacesToRead
        <3>7. QED BY <1>2, <2>1, <2>4, <3>1, <3>6 DEF Phased
    <2>5. QED BY <1>4, <2>2, <2>3, <2>4
<1>10. QED BY <1>6, <1>8, <1>9 DEF Studied

\* A row that was never started, and one that just was.
LEMMA StudiedStart ==
    ASSUME NEW t, t \in Session, t.attempts = <<>>,
           \/ t.phase = "none"
           \/ t.phase = "reading" /\ t.reading_position = 0 /\ Len(t.topics) > 0 /\ t.pool # {}
    PROVE  Studied(t)
<1>1. Variants(t) /\ Carried(t)
    BY DEF Variants, Carried, History
<1>2. t.phase = "reading" => t.reading_position < Cardinality(reading_topics(t))
    <2> HAVE t.phase = "reading"
    <2>1. 1 \in DOMAIN t.topics
        BY DEF Session
    <2>2. 1 \in reading_topics(t)
        BY <2>1 DEF reading_topics
    <2>3. QED BY <2>2, PlacesToRead
<1>3. Phased(t)
    BY <1>2 DEF Phased
<1>4. QED BY <1>1, <1>3 DEF Studied

LEMMA StudiedStep ==
    ASSUME StudyInv, NEW k \in Key, Studied(session[k]), StepOf(k) \/ StartOf(k)
    PROVE  Studied(session'[k])
<1> DEFINE s == session[k]
           t == session'[k]
<1>1. Sound(s) /\ Settled(s)
    BY TypeOfRows DEF StudyInv
<1>2. CASE StartOf(k)
    BY <1>2, StudiedStart DEF StartOf, Sound
<1>3. CASE StepOf(k)
    <2>1. Sound(t) /\ Follows(s, t) /\ Progress(s, t)
        BY <1>3 DEF StepOf
    <2> HIDE DEF s, t
    <2>2. QED BY <1>1, <2>1, StudiedRests, StudiedBegins, StudiedScores DEF Progress, s, t
<1>4. QED BY <1>2, <1>3

StudiedInv == \A k \in Key : Studied(session[k])

\* What has been asked and read, in every session, at all times.
THEOREM StudiedInvariance == Spec => [](StudyInv /\ StudiedInv)
<1>1. Init => StudiedInv
    <2> SUFFICES ASSUME Init, NEW k \in Key
                 PROVE  Studied(session[k])
        BY DEF StudiedInv
    <2>1. session[k] = NoSession /\ NoSession \in Session
        BY DEF Init, NoSession, Session
    <2>2. QED BY <2>1, StudiedStart DEF NoSession
<1>2. StudyAssumption /\ StudyInv /\ StudiedInv /\ [Next]_vars => StudiedInv'
    <2> SUFFICES ASSUME StudyAssumption, StudyInv, StudiedInv, [Next]_vars
                 PROVE  StudiedInv'
        OBVIOUS
    <2>1. CASE UNCHANGED session
        BY <2>1 DEF StudiedInv
    <2>2. ASSUME NEW k \in Key, StepOf(k) \/ StartOf(k)
          PROVE  StudiedInv'
        <3>1. Studied(session'[k])
            BY <2>2, StudiedStep DEF StudiedInv
        <3>2. \A j \in Key \ {k} : session'[j] = session[j]
            BY <2>2 DEF StepOf, StartOf, Only, StudyInv, TypeOK
        <3>3. QED BY <3>1, <3>2 DEF StudiedInv
    <2>3. QED BY <2>1, <2>2, StepOfASession DEF vars
<1>3. QED BY <1>1, <1>2, StudyInvariant, StudyAssumption, PTL DEF Spec

\* No question is asked again, in its own or in another wording, once it was answered
\* correctly in the session, and no attempt asks two variants.
THEOREM NothingIsAskedAgain == Spec => []NeverAskedAgain
<1>1. StudyAssumption /\ StudyInv /\ StudiedInv => NeverAskedAgain
    <2> SUFFICES ASSUME StudyInv, StudiedInv, NEW k \in Key,
                        NEW n \in DOMAIN session[k].attempts
                 PROVE  LET s == session[k] IN
                        /\ Distinct(s.pool, Asked(s.attempts[n]))
                        /\ \A m \in 1..n - 1 :
                              Groups(s.pool, With(s.attempts[m], "correct"))
                                  \intersect Groups(s.pool, Asked(s.attempts[n])) = {}
        BY DEF NeverAskedAgain
    <2> DEFINE s == session[k]
    <2>1. Sound(s) /\ Variants(s)
        BY TypeOfRows DEF StudyInv, StudiedInv, Studied
    <2> HIDE DEF s
    <2>2. Asked(s.attempts[n]) \in SUBSET Question
        BY <2>1 DEF Sound, Session, s
    <2>3. Distinct(s.pool, Asked(s.attempts[n]))
        BY <2>1, <2>2, DistinctIsApart DEF Variants, s
    <2>4. \A m \in 1..n - 1 : Groups(s.pool, With(s.attempts[m], "correct"))
                                  \intersect Groups(s.pool, Asked(s.attempts[n])) = {}
        BY <2>1 DEF Variants, Groups, s
    <2>5. QED BY <2>3, <2>4 DEF s
<1>2. QED BY <1>1, StudiedInvariance, StudyAssumption, PTL

\* The page can always show the session: a card at the reading position, or an open
\* question of the running quiz.
THEOREM SessionsRender == Spec => []PageRenders
<1>1. StudiedInv => PageRenders
    BY DEF StudiedInv, Studied, Phased, PageRenders
<1>2. QED BY <1>1, StudiedInvariance, PTL

\* A session passes by an attempt of 90%, and all it asked before was answered correctly
\* in the end: what was missed is carried into the next attempt.
THEOREM PassingIsMastery == Spec => []PassedByMastery
<1>1. StudyAssumption /\ StudyInv /\ StudiedInv => PassedByMastery
    <2> SUFFICES ASSUME StudyInv, StudiedInv, NEW k \in Key, session[k].phase = "passed"
                 PROVE  LET s == session[k] IN
                        /\ Finished(Last(s)) /\ Passes(Last(s))
                        /\ SeenGroups(s) \ CorrectGroups(s) = Groups(s.pool, With(Last(s), "missed"))
        BY DEF PassedByMastery
    <2> DEFINE s == session[k]
    <2>1. Sound(s) /\ Studied(s) /\ s.phase = "passed"
        BY TypeOfRows DEF StudyInv, StudiedInv
    <2> HIDE DEF s
    <2>2. /\ Finished(Last(s)) /\ Passes(Last(s)) /\ s.attempts # <<>>
          /\ Variants(s) /\ Carried(s)
        BY <2>1 DEF Studied, Phased
    <2>3. /\ Last(s) \in AttemptRow /\ Len(s.attempts) \in DOMAIN s.attempts
          /\ Last(s) = s.attempts[Len(s.attempts)]
        BY <2>1, <2>2 DEF Sound, Session, Last
    <2>4. \A q \in With(Last(s), "missed") : Group(s.pool, q) \notin CorrectGroups(s)
        BY <2>1, <2>2, SomethingMissed
    <2>5. With(Last(s), "missed") \subseteq History(s, "missed")
          /\ With(Last(s), "correct") \subseteq History(s, "correct")
        BY <2>3 DEF History
    <2>6. \A r \in Asked(Last(s)) : r \in With(Last(s), "correct") \/ r \in With(Last(s), "missed")
        BY <2>2, <2>3 DEF Finished, With, AttemptRow, Asked, Verdict
    <2>7. ASSUME NEW g, g \in SeenGroups(s) \ CorrectGroups(s)
          PROVE  g \in Groups(s.pool, With(Last(s), "missed"))
        <3>1. PICK q \in History(s, "missed") : Group(s.pool, q) = g
            BY <2>7, SomeGroup DEF SeenGroups, CorrectGroups
        <3>2. PICK r \in History(s, "correct") \union Asked(Last(s)) :
                Group(s.pool, r) = g
            BY <2>2, <3>1 DEF Carried
        <3>3. r \notin History(s, "correct")
            BY <2>7, <3>2, SomeGroup DEF CorrectGroups
        <3>4. r \in With(Last(s), "missed")
            BY <2>5, <2>6, <3>2, <3>3
        <3>5. QED BY <3>2, <3>4, SomeGroup
    <2>8. ASSUME NEW g, g \in Groups(s.pool, With(Last(s), "missed"))
          PROVE  g \in SeenGroups(s) \ CorrectGroups(s)
        <3>1. PICK q \in With(Last(s), "missed") : Group(s.pool, q) = g
            BY <2>8, SomeGroup
        <3>2. g \in SeenGroups(s)
            BY <2>5, <3>1, SomeGroup DEF SeenGroups
        <3>3. QED BY <2>4, <3>1, <3>2
    <2>9. QED BY <2>2, <2>7, <2>8 DEF s
<1>2. QED BY <1>1, StudiedInvariance, StudyAssumption, PTL
=============================================================================
