---------------------------- MODULE StudySession ----------------------------
(***************************************************************************)
(* One student's read -> quiz -> review sessions (scholars/study.py): they *)
(* pin their reading and their pool of questions when they start, quiz two *)
(* questions per topic, and repeat reviews and shorter retries until an    *)
(* attempt scores 90%.                                                     *)
(*                                                                         *)
(* Every operation is one transaction that locks the account and then the  *)
(* session, so each is one atomic action; a request that raises rolls back *)
(* and is no step.  Several tabs may send any request at any time, so the  *)
(* actions leave their arguments free.  The account stays active.  New     *)
(* content is serialized against the start of a session and nothing else.  *)
(***************************************************************************)
EXTENDS Integers, Sequences, FiniteSets

CONSTANTS
    Key,                    \* request keys of the start form, one per session
    Category, Subcategory, Topic,
    Question,               \* question revisions: an edited question is another one
    CategoryOf,             \* of a subcategory or a topic
    TopicsOf,               \* the topics of a subcategory
    TopicOf,                \* the topic of a question
    PromptOf, AnswerOf,     \* its normalized prompt and answer
    SESSION_TOPICS,         \* topics in a session, at most
    Catalogs,               \* the contents there may be: sets of active rows
    MaxAttempts,            \* bound: attempts of a session
    MaxBack                 \* bound: the last version from which Back is modelled

Row == Category \union Subcategory \union Topic \union Question

ASSUME StudyAssumption ==
    /\ IsFiniteSet(Question) /\ IsFiniteSet(Topic)
    /\ CategoryOf \in [Subcategory \union Topic -> Category]
    /\ TopicsOf \in [Subcategory -> SUBSET Topic]
    /\ TopicOf \in [Question -> Topic]
    /\ SESSION_TOPICS \in Nat \ {0}
    /\ Catalogs \subseteq SUBSET Row
    /\ MaxAttempts \in Nat /\ MaxBack \in Nat

VARIABLES
    catalog,        \* the active rows; an active category has its answer bank
    interests,      \* StudyPreferences.categories, {} before onboarding
    session,        \* StudySession by request key
    completed       \* TopicCompletion: topic and session

vars == <<catalog, interests, session, completed>>

NoSession == [phase |-> "none", version |-> 0, topics |-> <<>>, pool |-> {},
              reading_position |-> 0, review |-> {}, attempts |-> <<>>]

Init ==
    /\ catalog \in Catalogs
    /\ interests = {}
    /\ session = [k \in Key |-> NoSession]
    /\ completed = {}

Active(s) == s.phase \in {"reading", "quiz", "review"}
CompletedTopics == {c.topic : c \in completed}

Least(a, b) == IF a <= b THEN a ELSE b
Values(f) == {f[x] : x \in DOMAIN f}
Change(k, s) == session' = [session EXCEPT ![k] = [s EXCEPT !.version = @ + 1]]

-----------------------------------------------------------------------------
(* Questions that count as one: connected by equal prompts or answers.     *)

Alike(q, r) == PromptOf[q] = PromptOf[r] \/ AnswerOf[q] = AnswerOf[r]

Group(pool, q) ==
    LET within[n \in Nat] ==
          IF n = 0 THEN {q}
          ELSE LET nearer == within[n - 1] IN {r \in pool : \E p \in nearer : Alike(p, r)}
    IN  within[Cardinality(pool)]

Groups(pool, S) == {Group(pool, q) : q \in S}
Distinct(pool, S) == Cardinality(Groups(pool, S)) = Cardinality(S)

\* One question of each group that S meets.
Representatives(pool, S) ==
    {R \in SUBSET S : Distinct(pool, R) /\ Groups(pool, R) = Groups(pool, S)}

-----------------------------------------------------------------------------
(* Attempts.                                                               *)

\* rng.shuffle fixes the order of the answers; which open answer comes first is left
\* open until it does.
Attempt(S, first) == [answers |-> [q \in S |-> "open"], current |-> first]

Asked(a) == DOMAIN a.answers
With(a, verdict) == {q \in Asked(a) : a.answers[q] = verdict}
Finished(a) == With(a, "open") = {}
Passes(a) == 10 * Cardinality(With(a, "correct")) >= 9 * Cardinality(Asked(a))
Last(s) == s.attempts[Len(s.attempts)]

\* Everything the student has been told a verdict about, in the whole session.
History(s, verdict) == UNION {With(s.attempts[n], verdict) : n \in DOMAIN s.attempts}

QuizSize(s) == 2 * Len(s.topics)

-----------------------------------------------------------------------------
(* Mistakes for the mutation runs: each replaces its stem's definition.    *)

SeenGroups_SameQuestion(s) == {{q} : q \in History(s, "correct") \union History(s, "missed")}
Chosen_UnseenFirst(misses, unseen, n) ==
    {S \in SUBSET (misses \union unseen) :
        Cardinality(S) = Least(n, Cardinality(misses \union unseen))
        /\ (unseen \subseteq S \/ S \subseteq unseen)}
Remaining_All(s) == Len(s.topics)
MayGoBack_Always(s) == TRUE
MayStart_SecondSession(k) == session[k] = NoSession
Answerable_AnyTime(s, a, q) == s.phase = "quiz" /\ q \in Asked(a)

-----------------------------------------------------------------------------
(* The composition of a quiz.                                              *)

\* initial_question_ids: a largest assignment of two questions per topic to distinct
\* groups, filled up from other groups.
TwoPerTopic(s) ==
    {S \in SUBSET s.pool :
        /\ Distinct(s.pool, S)
        /\ \A t \in Values(s.topics) : Cardinality({q \in S : TopicOf[q] = t}) <= 2}

Matched(s) ==
    LET candidates == TwoPerTopic(s)
    IN  {S \in candidates : \A R \in candidates : Cardinality(R) <= Cardinality(S)}

Initial(s) ==
    LET size == Least(QuizSize(s), Cardinality(Groups(s.pool, s.pool)))
        matched == Matched(s)
    IN  {S \in SUBSET s.pool :
            Cardinality(S) = size /\ Distinct(s.pool, S) /\ \E M \in matched : M \subseteq S}

CorrectGroups(s) == Groups(s.pool, History(s, "correct"))
SeenGroups(s) == Groups(s.pool, History(s, "correct") \union History(s, "missed"))

\* retry_pool: the last attempt's misses and the groups never seen, one question each.
Misses(s) ==
    LET correct == CorrectGroups(s)
    IN  Representatives(s.pool, {q \in With(Last(s), "missed") : Group(s.pool, q) \notin correct})

Unseen(s) ==
    LET seen == SeenGroups(s)
    IN  Representatives(s.pool, {q \in s.pool : Group(s.pool, q) \notin seen})

\* (misses + unused)[:total]
Chosen(misses, unseen, n) ==
    {S \in SUBSET (misses \union unseen) :
        /\ Cardinality(S) = Least(n, Cardinality(misses \union unseen))
        /\ misses \subseteq S \/ S \subseteq misses}

Selections(s) ==
    IF s.attempts = <<>> THEN Initial(s)
    ELSE UNION {Chosen(misses, unseen, QuizSize(s)) : misses \in Misses(s), unseen \in Unseen(s)}

-----------------------------------------------------------------------------
(* Completion, once per topic.                                             *)

Credit(k) ==
    completed' = completed \union
        {[topic |-> t, key |-> k] : t \in Values(session[k].topics) \ CompletedTopics}

-----------------------------------------------------------------------------
(* Operations.                                                             *)

save_interests ==
    /\ interests' \in (SUBSET (Category \intersect catalog)) \ {{}}
    /\ UNCHANGED <<catalog, session, completed>>

\* A key already used returns its session.
MayStart(k) == session[k] = NoSession /\ \A j \in Key : ~Active(session[j])

Unfinished(sub) ==
    {t \in TopicsOf[sub] : t \in catalog /\ CategoryOf[t] \in catalog} \ CompletedTopics

\* The pool is every active question of the topics sampled, at least two each.
start_study(k, sub) ==
    LET size == Least(SESSION_TOPICS, Cardinality(Unfinished(sub))) IN
    /\ MayStart(k)
    /\ sub \in catalog /\ CategoryOf[sub] \in interests \intersect catalog
    /\ size > 0
    /\ \E topics \in [1..size -> Unfinished(sub)] :
          LET pool == {q \in Question : q \in catalog /\ TopicOf[q] \in Values(topics)} IN
          /\ Cardinality(Values(topics)) = size
          /\ \A t \in Values(topics) : Cardinality({q \in pool : TopicOf[q] = t}) >= 2
          /\ session' = [session EXCEPT ![k] =
                [NoSession EXCEPT !.phase = "reading", !.topics = topics, !.pool = pool]]
    /\ UNCHANGED <<catalog, interests, completed>>

\* The places of the topics to read, among those pinned.
reading_topics(s) == {n \in DOMAIN s.topics : s.phase = "review" => s.topics[n] \in s.review}

Remaining(s) == Cardinality(reading_topics(s))
MayGoBack(s) == s.reading_position > 0

\* A new attempt; nothing left to ask completes the session.
new_attempt(k) ==
    LET s == session[k] IN
    \E S \in Selections(s) :
        IF S = {}
        THEN Change(k, [s EXCEPT !.phase = "passed", !.review = {}]) /\ Credit(k)
        ELSE /\ \E first \in S :
                   Change(k, [s EXCEPT !.phase = "quiz", !.reading_position = 0, !.review = {},
                                       !.attempts = Append(@, Attempt(S, first))])
             /\ UNCHANGED completed

\* A page sends the version it shows: anything but the present one is refused.
Reading(k, version) ==
    session[k].phase \in {"reading", "review"} /\ session[k].version = version

Back(k, version) ==
    LET s == session[k] IN
    /\ Reading(k, version) /\ version <= MaxBack
    /\ MayGoBack(s)
    /\ Change(k, [s EXCEPT !.reading_position = @ - 1])
    /\ UNCHANGED <<catalog, interests, completed>>

ReadOn(k, version) ==
    LET s == session[k] IN
    /\ Reading(k, version)
    /\ s.reading_position + 1 < Remaining(s)
    /\ Change(k, [s EXCEPT !.reading_position = @ + 1])
    /\ UNCHANGED <<catalog, interests, completed>>

BeginQuiz(k, version) ==
    LET s == session[k] IN
    /\ Reading(k, version) /\ Len(s.attempts) < MaxAttempts
    /\ s.reading_position + 1 >= Remaining(s)
    /\ new_attempt(k)
    /\ UNCHANGED <<catalog, interests>>

abandon_study(k) ==
    LET s == session[k] IN
    /\ Active(s)
    /\ Change(k, [s EXCEPT !.phase = "abandoned"])
    /\ UNCHANGED <<catalog, interests, completed>>

\* The topics behind the misses, to be read again.
ToReview(s, a) == {t \in Values(s.topics) : \E q \in With(a, "missed") : TopicOf[q] = t}

\* In order and once; a 'prompt' verdict writes nothing.
Answerable(s, a, q) == s.phase = "quiz" /\ q = a.current /\ a.answers[q] = "open"

submit_answer(k, n, q, verdict) ==
    LET s == session[k]
        a == [s.attempts[n] EXCEPT !.answers[q] = verdict]
        answered == [s EXCEPT !.attempts[n] = a]
    IN
    /\ Answerable(s, s.attempts[n], q)
    /\ IF ~Finished(a)
       THEN /\ \E next \in With(a, "open") : Change(k, [answered EXCEPT !.attempts[n].current = next])
            /\ UNCHANGED completed
       ELSE IF Passes(a)
       THEN Change(k, [answered EXCEPT !.phase = "passed"]) /\ Credit(k)
       ELSE /\ Change(k, [answered EXCEPT !.phase = "review", !.reading_position = 0,
                                          !.review = ToReview(s, a)])
            /\ UNCHANGED completed
    /\ UNCHANGED <<catalog, interests>>

\* An import, a bank update or a teacher's edit: other rows become the active ones.
ContentChange ==
    /\ catalog' \in Catalogs \ {catalog}
    /\ UNCHANGED <<interests, session, completed>>

Next ==
    \/ save_interests
    \/ ContentChange
    \/ \E k \in Key :
          \/ \E sub \in Subcategory : start_study(k, sub)
          \/ \E v \in 0..session[k].version : Back(k, v) \/ ReadOn(k, v) \/ BeginQuiz(k, v)
          \/ abandon_study(k)
          \/ \E n \in DOMAIN session[k].attempts : \E q \in Asked(session[k].attempts[n]) :
                \E verdict \in {"correct", "missed"} : submit_answer(k, n, q, verdict)

Spec == Init /\ [][Next]_vars

-----------------------------------------------------------------------------
(* Properties.                                                             *)

Verdict == {"open", "correct", "missed"}
AttemptRow == [answers : UNION {[S -> Verdict] : S \in SUBSET Question}, current : Question]
Session ==
    [phase : {"none", "reading", "quiz", "review", "passed", "abandoned"}, version : Nat,
     topics : Seq(Topic), pool : SUBSET Question, reading_position : Nat, review : SUBSET Topic,
     attempts : Seq(AttemptRow)]

\* The rows keep their types; in particular positions are not negative.  Pinned
\* questions belong to pinned topics, a review is of pinned topics, and an attempt asks
\* pinned questions, at least one.
TypeOK ==
    /\ catalog \in Catalogs /\ interests \subseteq Category
    /\ completed \subseteq [topic : Topic, key : Key]
    /\ session \in [Key -> Session]
    /\ \A k \in Key : LET s == session[k] IN
          /\ s.review \subseteq Values(s.topics)
          /\ \A q \in s.pool : TopicOf[q] \in Values(s.topics)
          /\ \A n \in DOMAIN s.attempts :
                Asked(s.attempts[n]) \subseteq s.pool /\ Asked(s.attempts[n]) # {}

\* session_view can always render the session: there is a card at the reading position,
\* and a running quiz has a question to answer (study_views.py:113-119).
PageRenders ==
    \A k \in Key : LET s == session[k] IN
        /\ s.phase \in {"reading", "review"} => s.reading_position < Cardinality(reading_topics(s))
        /\ s.phase = "quiz" => s.attempts # <<>> /\ Last(s).answers[Last(s).current] = "open"

\* "Never repeat a question or duplicate variant answered correctly earlier in this
\* study session" (docs/SCHOLARS_BOWL_REDESIGN.md:69), nor two variants in one attempt.
NeverAskedAgain ==
    \A k \in Key : LET s == session[k] IN
        \A n \in DOMAIN s.attempts :
            /\ Distinct(s.pool, Asked(s.attempts[n]))
            /\ \A m \in 1..n - 1 :
                  Groups(s.pool, With(s.attempts[m], "correct"))
                      \intersect Groups(s.pool, Asked(s.attempts[n])) = {}

\* A session passes by an attempt of 90%, never by the empty retry of study.py:214, and
\* every question it ever asked was answered correctly but the tenth of that attempt:
\* what was missed in an attempt comes back in the next.
PassedByMastery ==
    \A k \in Key : LET s == session[k] IN
        s.phase = "passed" =>
            /\ Finished(Last(s)) /\ Passes(Last(s))
            /\ SeenGroups(s) \ CorrectGroups(s) = Groups(s.pool, With(Last(s), "missed"))

\* Topics are credited by passed sessions alone and to exactly one, and nobody studies
\* a topic again that is credited; at most one session is active.
CreditIsEarned ==
    /\ completed = UNION {{[topic |-> t, key |-> k] : t \in Values(session[k].topics)} :
                            k \in {j \in Key : session[j].phase = "passed"}}
    /\ \A j, k \in Key : session[j].phase = "passed" /\ session[k].phase = "passed" /\ j # k =>
          Values(session[j].topics) \intersect Values(session[k].topics) = {}
    /\ \A k \in Key : Active(session[k]) =>
          /\ Values(session[k].topics) \intersect CompletedTopics = {}
          /\ \A j \in Key \ {k} : ~Active(session[j])

\* Evidence is final: a verdict once given and the composition of an attempt never
\* change, an attempt follows only a finished one, what a session pinned survives
\* imports, an ended session stays as it is, and every change is a new version, so that
\* a page's version stands for exactly what it showed.
EvidenceIsFinal ==
    [][\A k \in Key : LET s == session[k] IN
          s.phase # "none" =>
              /\ session'[k].topics = s.topics /\ session'[k].pool = s.pool
              /\ ~Active(s) => session'[k] = s
              /\ session'[k] # s => session'[k].version > s.version
              /\ Len(session'[k].attempts) > Len(s.attempts) /\ s.attempts # <<>> => Finished(Last(s))
              /\ \A n \in DOMAIN s.attempts :
                    /\ Asked(session'[k].attempts[n]) = Asked(s.attempts[n])
                    /\ \A q \in Asked(s.attempts[n]) \ With(s.attempts[n], "open") :
                          session'[k].attempts[n].answers[q] = s.attempts[n].answers[q] ]_vars
=============================================================================
