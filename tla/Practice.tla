------------------------------ MODULE Practice ------------------------------
(***************************************************************************)
(* One student's practice (scholars/services.py) and the spaced reviews it *)
(* feeds (scholars/reviews.py): sessions of at most ten pinned questions,  *)
(* answered in order, each answer recorded once, rewarded once per         *)
(* question and day, and counted as evidence for the review schedule of    *)
(* the revision that was answered.                                         *)
(*                                                                         *)
(* Every operation is one transaction that locks the account first, and    *)
(* then holds the content lock shared while it reads the bank, so each is  *)
(* one action and a request that raises is no step.  Several tabs send any *)
(* request at any time, also for sessions that are over.                   *)
(***************************************************************************)
EXTENDS Integers, Sequences, FiniteSets

CONSTANTS
    Key,                    \* request keys of the start form, one per session
    Revision,               \* question revisions
    QuestionOf, TopicOf,    \* of a revision
    CategoryOf,             \* of a topic: each category has an answer bank of its own
    FormatOf,               \* "typed" or "multiple_choice"
    AnswerOf,               \* its answer in the typed answer bank
    Mode, Selection,        \* of a session
    Offer,                  \* bound: the <<mode, selection>> pairs a start may ask for
    Scope,                  \* [topics, status]: what practice may be restricted to
    Banks,                  \* the contents there may be: sets of current, active revisions
    SIZE, DUE_SHARE, WEAK_SHARE, NEW_SHARE,   \* the size of a session and its personalized shares
    INTERVALS,              \* days to the next review after the n-th success
    MaxDay                  \* bound: days

Topic == {TopicOf[r] : r \in Revision}

ASSUME PracticeAssumption ==
    /\ IsFiniteSet(Revision) /\ IsFiniteSet(Key)
    /\ TopicOf \in [Revision -> Topic]
    /\ Mode \subseteq {"typed", "recognition", "recall"}
    /\ Selection \subseteq {"random", "personalized", "review"}
    /\ Offer \subseteq Mode \X Selection
    /\ Scope \subseteq [topics : SUBSET Topic, status : {"", "studied", "unstudied", "practiced"}]
    /\ Banks \subseteq SUBSET Revision
    /\ \A B \in Banks : \A q, r \in B : QuestionOf[q] = QuestionOf[r] => q = r
    /\ SIZE \in Nat \ {0} /\ {DUE_SHARE, WEAK_SHARE, NEW_SHARE} \subseteq Nat /\ DUE_SHARE + WEAK_SHARE + NEW_SHARE = SIZE
    /\ INTERVALS \in Seq(Nat \ {0}) /\ INTERVALS # <<>> /\ INTERVALS[1] = 1
    /\ MaxDay \in Nat

VARIABLES
    bank,       \* the revisions that are current, of active questions and topics
    studied,    \* StudyState: the topics marked as studied
    day,        \* the calendar day, from 1
    clock,      \* answers so far: answered_at orders them
    session,    \* PracticeSession and its SessionQuestions, by request key
    reward,     \* RewardEvent
    review      \* ReviewState by revision and mode

practiceVars == <<bank, studied, day, clock, session, reward, review>>

NoSession == [mode |-> "none", selection |-> "none", key |-> {}, items |-> <<>>,
              completed |-> 0, abandoned |-> FALSE, best |-> FALSE]
NoReview == [successes |-> 0, evidence |-> 0, due |-> 0, last |-> 0]
Unanswered(r) == [revision |-> r, revealed |-> FALSE, verdict |-> "open", at |-> 0, day |-> 0,
                  kind |-> "", corrected |-> FALSE]

PracticeInit ==
    /\ bank \in Banks
    /\ studied = {}
    /\ day = 1
    /\ clock = 0
    /\ session = [k \in Key |-> NoSession]
    /\ reward = {}
    /\ review = [r \in Revision |-> [m \in Mode |-> NoReview]]

Smaller(a, b) == IF a <= b THEN a ELSE b

-----------------------------------------------------------------------------
(* What has been answered.                                                 *)

Slots(s) == DOMAIN s.items
Done(s) == \A n \in Slots(s) : s.items[n].at # 0
Score(s) == Cardinality({n \in Slots(s) : s.items[n].verdict = "right"})

\* Every recorded answer, with the mode it was given in.
Answers ==
    UNION {{[mode |-> session[k].mode, item |-> session[k].items[n]] :
               n \in {i \in Slots(session[k]) : session[k].items[i].at # 0}} : k \in Key}

AnswersTo(q) == {a \in Answers : QuestionOf[a.item.revision] = q}

-----------------------------------------------------------------------------
(* Mistakes for the mutation runs: each replaces its stem's definition.    *)

RewardedToday_SameRevision(r) == \E a \in Answers : a.item.revision = r /\ a.item.day = day
Answerable_AnyOrder(s, n) == n \in Slots(s) /\ s.items[n].at = 0 /\ ~s.abandoned
Earlier_Any(s) == {t \in {session[k] : k \in Key} : t.completed # 0 /\ t.mode = s.mode}

-----------------------------------------------------------------------------
(* The pool of a mode and a scope, and what start_session draws from it.   *)

\* Typed questions wherever there are any; multiple choice is the fallback.
question_format(mode) ==
    IF mode # "recognition" /\ \E r \in bank : FormatOf[r] = "typed" THEN "typed" ELSE "multiple_choice"

current_questions(mode) == {r \in bank : FormatOf[r] = question_format(mode)}

Practiced == {TopicOf[a.item.revision] : a \in Answers}

topic_pool(scope) ==
    CASE scope.status = "studied"   -> scope.topics \intersect studied
      [] scope.status = "unstudied" -> scope.topics \ studied
      [] scope.status = "practiced" -> scope.topics \intersect Practiced
      [] OTHER                      -> scope.topics

Pool(mode, scope) == {r \in current_questions(mode) : TopicOf[r] \in topic_pool(scope)}

Due(r, mode) == review[r][mode].last # 0 /\ review[r][mode].due <= day

\* The n of S that have been due the longest; review[r][mode].due orders them.
Oldest(S, n, mode) ==
    {T \in SUBSET S :
        /\ Cardinality(T) = Smaller(n, Cardinality(S))
        /\ \A r \in T, q \in S \ T : review[r][mode].due <= review[q][mode].due}

\* due[:4] + weak[:3] + new[:3], filled up from due, weak, new and other in this order.
Personalized(pool, mode) ==
    LET due == {r \in pool : Due(r, mode)}
        new == {r \in pool : review[r][mode].last = 0}
        weak == {r \in pool \ due : review[r][mode].last # 0 /\ review[r][mode].successes = 0}
        Holds(S, group, share) == Cardinality(S \intersect group) >= Smaller(share, Cardinality(group))
        Over(S, group, share) == Cardinality(S \intersect group) > share
    IN  {S \in SUBSET pool :
            /\ Cardinality(S) = Smaller(SIZE, Cardinality(pool))
            /\ S \intersect due \in Oldest(due, Cardinality(S \intersect due), mode)
            /\ Holds(S, due, DUE_SHARE) /\ Holds(S, weak, WEAK_SHARE) /\ Holds(S, new, NEW_SHARE)
            /\ Over(S, weak, WEAK_SHARE) => due \subseteq S
            /\ Over(S, new, NEW_SHARE) => due \union weak \subseteq S
            /\ S \ (due \union weak \union new) # {} => due \union weak \union new \subseteq S}

Orders(S) == {p \in [1..Cardinality(S) -> S] : \A i, j \in DOMAIN p : p[i] = p[j] => i = j}

Drawn(pool, mode, selection) ==
    IF selection = "random" THEN {S \in SUBSET pool : Cardinality(S) = Smaller(SIZE, Cardinality(pool))}
    ELSE IF selection = "personalized" THEN Personalized(pool, mode)
    ELSE Oldest({r \in pool : Due(r, mode)}, SIZE, mode)

\* A review goes through what is due in the order it fell due, the others in any order.
select_questions(pool, mode, selection) ==
    {p \in UNION {Orders(S) : S \in Drawn(pool, mode, selection)} :
        selection = "review" =>
            \A i, j \in DOMAIN p : i < j => review[p[i]][mode].due <= review[p[j]][mode].due}

\* The versions of the typed answer banks of the pool's categories.
TypedBanks(pool) ==
    {AnswerOf[r] : r \in {q \in current_questions("typed") :
                             \E p \in pool : CategoryOf[TopicOf[p]] = CategoryOf[TopicOf[q]]}}

\* What makes two sessions comparable: mode, scope, size and bank, and for typed answers
\* the answer banks.  {} is the empty key, of sessions that are never compared.
comparison_key(mode, scope, selection) ==
    IF mode = "recall" \/ selection # "random" THEN {}
    ELSE {[mode |-> mode, scope |-> scope, pool |-> Pool(mode, scope),
           answers |-> IF mode = "typed" THEN TypedBanks(Pool(mode, scope)) ELSE {}]}

-----------------------------------------------------------------------------
(* The review schedule.                                                    *)

Kind(row) ==
    IF row.last = 0 THEN "first"
    ELSE IF day <= row.last THEN "same_day"
    ELSE IF day >= row.due THEN "review" ELSE "early"

Restarted(right) ==
    [successes |-> IF right THEN 1 ELSE 0, evidence |-> day, due |-> day + 1, last |-> day]

Stepped(row) ==
    LET n == Smaller(row.successes + 1, Len(INTERVALS))
    IN  [successes |-> n, evidence |-> day, due |-> day + INTERVALS[n], last |-> day]

record_review_EverySuccess(row, right) ==
    IF row.last = 0 \/ ~right THEN Restarted(right) ELSE Stepped(row)

record_review(row, right) ==
    IF row.last = 0 \/ ~right THEN Restarted(right)
    ELSE IF Kind(row) = "review" /\ day > row.evidence THEN Stepped(row)
    ELSE [row EXCEPT !.last = day]

\* Whether an answer to r is evidence: the revision is still the one being practised.
IsCurrent(r, mode) == r \in bank /\ FormatOf[r] = question_format(mode)

-----------------------------------------------------------------------------
(* Operations.                                                             *)

\* A key already used returns its session, whatever else the request says.
start_session(k, scope, mode, selection) ==
    /\ session[k] = NoSession
    /\ \E p \in select_questions(Pool(mode, scope), mode, selection) :
          /\ p # <<>>
          /\ session' = [session EXCEPT ![k] =
                [mode |-> mode, selection |-> selection, key |-> comparison_key(mode, scope, selection),
                 items |-> [n \in DOMAIN p |-> Unanswered(p[n])],
                 completed |-> 0, abandoned |-> FALSE, best |-> FALSE]]
    /\ UNCHANGED <<bank, studied, day, clock, reward, review>>

\* ensure_current: the session goes on, and everything before n is answered.
Answerable(s, n) ==
    /\ n \in Slots(s) /\ s.items[n].at = 0
    /\ ~s.abandoned
    /\ \A i \in 1..n - 1 : s.items[i].at # 0

\* The answer before this one, to the same revision in the same mode, was wrong.
MissedBefore(r, mode) ==
    \E a \in Answers :
        /\ a.mode = mode /\ a.item.revision = r /\ a.item.verdict = "wrong"
        /\ \A b \in Answers : b.mode = mode /\ b.item.revision = r => b.item.at <= a.item.at

RewardedToday(r) == \E a \in AnswersTo(QuestionOf[r]) : a.item.day = day

Reward(r) ==
    [question |-> QuestionOf[r], day |-> day, points |-> IF AnswersTo(QuestionOf[r]) = {} THEN 2 ELSE 1]

Earlier(s) ==
    {t \in {session[k] : k \in Key} :
        t.completed # 0 /\ t.mode = s.mode /\ t.key = s.key /\ Len(t.items) = Len(s.items)}

IsBest(s) ==
    /\ s.key # {} /\ Earlier(s) # {}
    /\ \A t \in Earlier(s) : Score(s) > Score(t)

\* The last answer completes the session.
Completed(s) ==
    IF Done(s) THEN [s EXCEPT !.completed = clock + 1, !.best = IsBest(s)] ELSE s

\* is_correct, or self_assessment for recall, which is not scored.
Verdict(mode, right) ==
    IF mode = "recall" THEN IF right THEN "recalled" ELSE "forgotten"
    ELSE IF right THEN "right" ELSE "wrong"

answer_question(k, n, right) ==
    LET s == session[k]
        item == s.items[n]
        r == item.revision
        row == review[r][s.mode]
        verdict == Verdict(s.mode, right)
        recorded == [revision |-> r, revealed |-> item.revealed, verdict |-> verdict,
                     at |-> clock + 1, day |-> day,
                     kind |-> IF IsCurrent(r, s.mode) THEN Kind(row) ELSE "historical",
                     corrected |-> verdict = "right" /\ MissedBefore(r, s.mode)]
    IN
    /\ Answerable(s, n)
    /\ s.mode = "recall" => item.revealed
    /\ clock' = clock + 1
    /\ session' = [session EXCEPT ![k] = Completed([s EXCEPT !.items[n] = recorded])]
    /\ review' = IF IsCurrent(r, s.mode)
                 THEN [review EXCEPT ![r][s.mode] = record_review(row, right)] ELSE review
    /\ reward' = IF RewardedToday(r) THEN reward ELSE reward \union {Reward(r)}
    /\ UNCHANGED <<bank, studied, day>>

reveal_question(k, n) ==
    LET s == session[k] IN
    /\ Answerable(s, n) /\ s.mode = "recall"
    /\ ~s.items[n].revealed
    /\ session' = [session EXCEPT ![k].items[n].revealed = TRUE]
    /\ UNCHANGED <<bank, studied, day, clock, reward, review>>

abandon_session(k) ==
    /\ session[k] # NoSession
    /\ session[k].completed = 0 /\ ~session[k].abandoned
    /\ session' = [session EXCEPT ![k].abandoned = TRUE]
    /\ UNCHANGED <<bank, studied, day, clock, reward, review>>

mark_studied(t, mark) ==
    /\ studied' = IF mark THEN studied \union {t} ELSE studied \ {t}
    /\ UNCHANGED <<bank, day, clock, session, reward, review>>

\* An import, a bank update or a teacher's edit, under the content lock.
NewContent ==
    /\ bank' \in Banks \ {bank}
    /\ UNCHANGED <<studied, day, clock, session, reward, review>>

NextDay ==
    /\ day < MaxDay
    /\ day' = day + 1
    /\ UNCHANGED <<bank, studied, clock, session, reward, review>>

PracticeNext ==
    \/ NewContent \/ NextDay
    \/ \E t \in Topic, mark \in BOOLEAN : mark_studied(t, mark)
    \/ \E k \in Key :
          \/ \E scope \in Scope, offer \in Offer :
                start_session(k, scope, offer[1], offer[2])
          \/ \E n \in Slots(session[k]) :
                reveal_question(k, n) \/ \E right \in BOOLEAN : answer_question(k, n, right)
          \/ abandon_session(k)

PracticeSpec == PracticeInit /\ [][PracticeNext]_practiceVars

-----------------------------------------------------------------------------
(* The pages.                                                              *)

Open(s) == s # NoSession /\ s.completed = 0 /\ ~s.abandoned

\* session_view shows the first question that is not answered.
Shown(s) == {n \in Slots(s) : s.items[n].at = 0 /\ \A i \in 1..n - 1 : s.items[i].at # 0}

\* personal_bests: the best of its kind, the earliest of equals.
Ranked(s) ==
    /\ s.completed # 0 /\ s.key # {}
    /\ \A t \in {session[k] : k \in Key} :
          t.completed # 0 /\ t.key = s.key /\ Len(t.items) = Len(s.items) =>
              Score(t) < Score(s) \/ (Score(t) = Score(s) /\ s.completed <= t.completed)

-----------------------------------------------------------------------------
(* Properties.                                                             *)

\* An open session has exactly one question to show, the first one not answered (views.py:117-123
\* renders None otherwise); a session is completed exactly when its last question is answered, and
\* one that was abandoned never is.
PageShowsNext ==
    \A k \in Key : LET s == session[k] IN
        /\ Open(s) => Cardinality(Shown(s)) = 1
        /\ s # NoSession => (s.completed # 0 <=> Done(s))
        /\ s.completed # 0 => ~s.abandoned

\* Practice is rewarded once per question and day whatever sessions it is answered in,
\* abandoned ones and repeats included: two points on the first day, one on every later
\* one, and none on days without an answer.
RewardedOncePerDay ==
    /\ \A e, f \in reward : e.question = f.question /\ e.day = f.day => e = f
    /\ {<<e.question, e.day>> : e \in reward}
          = {<<QuestionOf[a.item.revision], a.item.day>> : a \in Answers}
    /\ \A e \in reward :
          e.points = 2 <=> \A a \in AnswersTo(e.question) : e.day <= a.item.day

Span[n \in Nat] == IF n <= 1 THEN 0 ELSE Span[n - 1] + INTERVALS[n - 1]

Evidence(r, mode) == {a \in Answers : a.mode = mode /\ a.item.revision = r /\ a.item.kind # "historical"}
Failures(r, mode) == {a \in Evidence(r, mode) : a.item.verdict \in {"wrong", "forgotten"}}
SinceFailure(r, mode) == {a \in Evidence(r, mode) : \A f \in Failures(r, mode) : f.item.at < a.item.at}

\* The schedule is earned: n successes in a row are spread over at least the first n - 1
\* intervals, all of them after the last failure; repeating a question on one day, or
\* before it is due, or in a session that still shows an old revision, moves nothing; and
\* after a failure a question is due the next day until it is reviewed.
ScheduleIsEarned ==
    \A r \in Revision, mode \in Mode : LET row == review[r][mode] IN
        /\ row.last # 0 <=> Evidence(r, mode) # {}
        /\ row.last # 0 => /\ row.evidence <= row.last /\ row.last <= day
                           /\ row.due = row.evidence + INTERVALS[IF row.successes = 0 THEN 1 ELSE row.successes]
        /\ row.successes > 0 =>
              /\ \E a \in SinceFailure(r, mode) : a.item.day + Span[row.successes] <= row.evidence
              /\ \A f \in Failures(r, mode) : f.item.day <= row.evidence
        /\ \A f \in Failures(r, mode) : f.item.day <= row.evidence

\* The flag that a session was a personal best when it was completed, and the bests that
\* the progress page ranks afterwards, agree: only sessions of one kind are compared, a
\* best beats all that were completed before it, and what is ranked first is flagged
\* unless nothing was there to be beaten.
BestsAgree ==
    \A k \in Key : LET s == session[k]
                        before == {t \in Earlier(s) : t.completed < s.completed} IN
        s.completed # 0 =>
            /\ s.best => before # {} /\ s.key # {} /\ \A t \in before : Score(t) < Score(s)
            /\ Ranked(s) => (s.best <=> before # {})

\* The first answer is the one recorded: no request, from whatever tab and in whatever
\* order, changes an answer, its reward, or a session that is over; and what a session
\* asks stays what it pinned when it started.
PracticeIsFinal ==
    [][/\ reward \subseteq reward'
       /\ \A k \in Key : LET s == session[k] IN
             s # NoSession =>
                 /\ ~Open(s) => session'[k] = s
                 /\ session'[k].key = s.key /\ Slots(session'[k]) = Slots(s)
                 /\ \A n \in Slots(s) :
                       /\ session'[k].items[n].revision = s.items[n].revision
                       /\ s.items[n].at # 0 => session'[k].items[n] = s.items[n]
                       /\ session'[k].items[n].at # 0 =>
                             \A i \in 1..n - 1 : session'[k].items[i].at # 0 ]_practiceVars
=============================================================================
