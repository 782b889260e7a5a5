---------------------------- MODULE QuestionBank ----------------------------
(***************************************************************************)
(* The question bank: teachers' forms (scholars/question_authoring.py and  *)
(* teacher_views.py), the operators' commands that export, rate and update *)
(* it in bulk (scholars/question_bank.py), the import of study material    *)
(* (scholars/importer.py), and the typed answer bank of each category      *)
(* (typed_answers.rebuild_banks).                                          *)
(*                                                                         *)
(* Every writer holds the content lock for its whole transaction, so each  *)
(* is one action and one that raises is no step.  What a writer saw comes  *)
(* from earlier: a form shows the question as it was when it was opened,   *)
(* and an update file is written from an export.  Those are state here.    *)
(***************************************************************************)
EXTENDS Integers, FiniteSets

CONSTANTS
    Question,           \* question ids: seeded ones, and teacher-<request key>
    Topic, Category,
    Payload,            \* stem, answer and choices of a question
    FormatOf,           \* "typed" or "multiple_choice": the form it passes
    FactOf, AnswersOf,  \* its fingerprint (stem and answer), and the answers it adds to a bank
    Content,            \* study material: functions from topics to [category, context]
    Seed,               \* seed questions: a function from questions to [topic, format, payload]
    Analysis,           \* difficulty files: functions from questions to [difficulty, fact]
    Update,             \* update files: functions from questions to patches
    Fixed,              \* the one payload correction of the cutover, as a function
    Tab,                \* forms open in teachers' browsers
    Given,              \* bound: difficulties that forms send
    MaxVersion          \* bound: edits of each question

Level == {"easy", "medium", "hard"}
Difficulty == Level \union {""}
Keep == "keep"

\* Difficulty files rate every question they name, update files may clear a rating, and
\* "none" and Keep are this module's own marks.
ASSUME BankAssumption ==
    /\ IsFiniteSet(Question) /\ IsFiniteSet(Topic) /\ IsFiniteSet(Category)
    /\ {Keep, "none"} \intersect Payload = {}
    /\ DOMAIN Seed \subseteq Question
    /\ \A q \in DOMAIN Seed : Seed[q].payload \in Payload
    /\ \A C \in Content : DOMAIN C \subseteq Topic
    /\ \A A \in Analysis : DOMAIN A \subseteq Question /\ \A q \in DOMAIN A : A[q].difficulty \in Level
    /\ \A U \in Update : DOMAIN U \subseteq Question /\ \A q \in DOMAIN U :
          U[q].payload \in Payload \union {Keep} /\ U[q].difficulty \in Difficulty \union {Keep}
    /\ \A p \in DOMAIN Fixed : Fixed[p] \in Payload /\ AnswersOf[Fixed[p]] = AnswersOf[p]
    /\ MaxVersion \in [Question -> Nat]
    /\ Given \subseteq Difficulty \union {Keep}

VARIABLES
    question,   \* Question rows with their current revision
    trail,      \* QuestionChange: the last row of each question
    topic,      \* Topic rows
    bank,       \* AnswerBank of each category
    tab,        \* open forms
    export      \* the last export of the bank

bankVars == <<question, trail, topic, bank, tab, export>>

NoTopic == [active |-> FALSE, category |-> "none", context |-> "none"]
NoRevision == [payload |-> "none", context |-> "none"]
Unrated == [kind |-> "none", fact |-> "none"]
NoQuestion == [topic |-> "none", format |-> "none", active |-> FALSE, revision |-> NoRevision,
               difficulty |-> "", metadata |-> Unrated, version |-> 0]
NoChange == [kind |-> "none", before |-> NoQuestion, after |-> NoQuestion]
Closed == [question |-> "none", seen |-> NoQuestion]

BankInit ==
    /\ question = [q \in Question |-> NoQuestion]
    /\ trail = [q \in Question |-> NoChange]
    /\ topic = [t \in Topic |-> NoTopic]
    /\ bank = [c \in Category |-> {}]
    /\ tab = [x \in Tab |-> Closed]
    /\ export = question

Exists(q) == question[q] # NoQuestion
Rows == {q \in Question : Exists(q)}

\* The stem and answer of a question as it stands: source_sha256.
fingerprint(row) == FactOf[row.revision.payload]

-----------------------------------------------------------------------------
(* Mistakes for the mutation runs: each replaces its stem's definition.    *)

UpToDate_RevisionOnly(row, seen) == row # NoQuestion /\ row.revision = seen.revision
Rerated_KeepsRating(row, payload, difficulty) ==
    IF difficulty \in {row.difficulty, Keep} THEN row
    ELSE [row EXCEPT !.difficulty = difficulty,
                     !.metadata = IF difficulty = "" THEN Unrated
                                  ELSE [kind |-> "manual", fact |-> FactOf[payload]]]
Touched_ByContent(S, before, after) ==
    {q \in S : before[q].revision.payload # after[q].revision.payload}

-----------------------------------------------------------------------------
(* The typed answer banks.                                                 *)

Available(rows, topics, q) ==
    rows[q] # NoQuestion /\ rows[q].active /\ topics[rows[q].topic].active

\* current_questions('typed'): multiple choice where no typed question is available at all.
CurrentTyped(rows, topics) ==
    LET available == {q \in Question : Available(rows, topics, q)}
        typed == {q \in available : rows[q].format = "typed"}
    IN  IF typed # {} THEN typed ELSE available

AnswersIn(c, rows, topics) ==
    UNION {AnswersOf[rows[q].revision.payload] :
              q \in {r \in CurrentTyped(rows, topics) : topics[rows[r].topic].category = c}}

rebuild_banks(categories, rows, topics) ==
    [c \in Category |-> IF c \in categories THEN AnswersIn(c, rows, topics) ELSE bank[c]]

-----------------------------------------------------------------------------
(* Teachers' forms.                                                        *)

\* checked_question: a row is changed only at the version the form was made for.
UpToDate(row, seen) == row # NoQuestion /\ row.version = seen.version

EditableTopic(t) == t \in Topic /\ topic[t].active

\* A change of stem or answer clears the rating; otherwise the form may set one by hand.
Rerated(row, payload, difficulty) ==
    IF row.revision # NoRevision /\ FactOf[payload] # fingerprint(row)
    THEN [row EXCEPT !.difficulty = "", !.metadata = Unrated]
    ELSE IF difficulty \in {row.difficulty, Keep} THEN row
    ELSE [row EXCEPT !.difficulty = difficulty,
                     !.metadata = IF difficulty = "" THEN Unrated
                                  ELSE [kind |-> "manual", fact |-> FactOf[payload]]]

\* The revision with this text in the topic's present context, shared when it exists.
Revised(row, payload, difficulty) ==
    [Rerated(row, payload, difficulty) EXCEPT
        !.revision = [payload |-> payload, context |-> topic[row.topic].context],
        !.version = @ + 1]

\* The row of q becomes new, with a change on record and its category's bank rebuilt.
Save(q, new, kind) ==
    /\ new.version <= MaxVersion[q]
    /\ question' = [question EXCEPT ![q] = new]
    /\ trail' = [trail EXCEPT ![q] = [kind |-> kind, before |-> question[q], after |-> new]]
    /\ bank' = rebuild_banks({topic[new.topic].category}, question', topic)
    /\ UNCHANGED <<topic, export>>

\* The edit form needs an active question, the archive form only an active topic.
OpenForm(x, q) ==
    /\ Exists(q) /\ EditableTopic(question[q].topic)
    /\ tab[x] = Closed
    /\ tab' = [tab EXCEPT ![x] = [question |-> q, seen |-> question[q]]]
    /\ UNCHANGED <<question, trail, topic, bank, export>>

CloseForm(x) ==
    /\ tab[x] # Closed
    /\ tab' = [tab EXCEPT ![x] = Closed]
    /\ UNCHANGED <<question, trail, topic, bank, export>>

\* A request key that made a question returns it.
create_question(q, t, payload, difficulty) ==
    LET row == [NoQuestion EXCEPT !.topic = t, !.format = "typed", !.active = TRUE] IN
    /\ q \notin DOMAIN Seed /\ ~Exists(q)
    /\ EditableTopic(t)
    /\ FormatOf[payload] = "typed"
    /\ Save(q, Revised(row, payload, difficulty), "edit")
    /\ UNCHANGED tab

edit_question(x, payload, difficulty) ==
    LET q == tab[x].question IN
    /\ tab[x] # Closed
    /\ tab[x].seen.active
    /\ UpToDate(question[q], tab[x].seen)
    /\ EditableTopic(question[q].topic)
    /\ question[q].active
    /\ FormatOf[payload] = question[q].format
    /\ Save(q, Revised(question[q], payload, difficulty), "edit")
    /\ tab' = [tab EXCEPT ![x] = Closed]

\* The page offers to archive what it saw active, and to restore what it saw archived.
change_question_status(x) ==
    LET q == tab[x].question IN
    /\ tab[x] # Closed
    /\ UpToDate(question[q], tab[x].seen)
    /\ EditableTopic(question[q].topic)
    /\ Save(q, [question[q] EXCEPT !.active = ~tab[x].seen.active, !.version = @ + 1],
            IF tab[x].seen.active THEN "archive" ELSE "reactivate")
    /\ tab' = [tab EXCEPT ![x] = Closed]

-----------------------------------------------------------------------------
(* Commands on the whole bank.                                             *)

\* Many rows change in one transaction, or none: new gives those that do.
SaveAll(new, kind) ==
    /\ \A q \in DOMAIN new : new[q].version <= MaxVersion[q]
    /\ question' = [q \in Question |-> IF q \in DOMAIN new THEN new[q] ELSE question[q]]
    /\ trail' = [q \in Question |->
                    IF q \in DOMAIN new THEN [kind |-> kind, before |-> question[q], after |-> new[q]] ELSE trail[q]]

\* The correction that the cutover makes on its way.
Corrected(p) == IF p \in DOMAIN Fixed THEN Fixed[p] ELSE p

Adopts(row, result) ==
    [row EXCEPT !.difficulty = result.difficulty,
                !.metadata = [kind |-> "batch_analysis", fact |-> result.fact],
                !.revision.payload = Corrected(@),
                !.version = @ + 1]

Conflicts(row, result) ==
    \/ row = NoQuestion
    \/ FactOf[Corrected(row.revision.payload)] # result.fact
    \/ row.difficulty # ""
          /\ <<row.difficulty, row.metadata>> # <<result.difficulty, [kind |-> "batch_analysis", fact |-> result.fact]>>

\* Ratings from a difficulty file; a single conflict refuses all of it, and running it
\* again changes nothing.
adopt_difficulty(analysis) ==
    LET S == {q \in DOMAIN analysis : LET row == question[q] IN
                 \/ row.difficulty # analysis[q].difficulty
                 \/ row.metadata # [kind |-> "batch_analysis", fact |-> analysis[q].fact]
                 \/ row.revision.payload \in DOMAIN Fixed}
    IN
    /\ \A q \in DOMAIN analysis : ~Conflicts(question[q], analysis[q])
    /\ SaveAll([q \in S |-> Adopts(question[q], analysis[q])], "database_cutover")
    /\ UNCHANGED <<topic, bank, tab, export>>

export_question_bank ==
    /\ export' = question
    /\ UNCHANGED <<question, trail, topic, bank, tab>>

\* What a patch makes of a row, but for its version: a rating that comes with it assesses
\* the new text, and a changed stem or answer without one loses it.
Patched(row, patch) ==
    LET payload == IF patch.payload = Keep THEN row.revision.payload ELSE patch.payload
        changed == FactOf[payload] # fingerprint(row)
        difficulty == IF patch.difficulty # Keep THEN patch.difficulty ELSE IF changed THEN "" ELSE row.difficulty
    IN  [row EXCEPT
            !.revision = IF payload = row.revision.payload THEN @
                         ELSE [payload |-> payload, context |-> topic[row.topic].context],
            !.difficulty = difficulty,
            !.metadata = IF patch.difficulty = Keep /\ ~changed THEN @
                         ELSE IF difficulty = "" THEN Unrated
                         ELSE [kind |-> "bulk_review", fact |-> FactOf[payload]],
            !.active = IF patch.active = Keep THEN @ ELSE patch.active = "active"]

\* A patch that raises refuses the whole file.
Refused(row, patch) ==
    \/ (patch.payload # Keep \/ patch.active = "active") /\ ~topic[row.topic].active
    \/ patch.payload \notin {Keep, row.revision.payload} /\ ~row.active /\ patch.active # "active"

\* The questions whose category needs a new answer bank.
Touched(S, before, after) ==
    {q \in S : before[q].revision.payload # after[q].revision.payload \/ before[q].active # after[q].active}

\* The patches of a file written from the last export; stale ones refuse all of it.
apply_updates(update) ==
    LET S == {q \in DOMAIN update : Patched(question[q], update[q]) # question[q]} IN
    /\ \A q \in DOMAIN update :
          /\ export[q] # NoQuestion
          /\ UpToDate(question[q], export[q])
          /\ fingerprint(question[q]) = fingerprint(export[q])
          /\ ~Refused(question[q], update[q])
    /\ SaveAll([q \in S |-> [Patched(question[q], update[q]) EXCEPT !.version = @ + 1]], "bulk_update")
    /\ bank' = rebuild_banks({topic[question[q].topic].category : q \in Touched(S, question, question')},
                             question', topic)
    /\ UNCHANGED <<topic, tab, export>>

-----------------------------------------------------------------------------
(* The import of study material.                                           *)

Seeded(content) ==
    [q \in Question |->
        IF q \notin DOMAIN Seed THEN NoQuestion
        ELSE LET s == Seed[q] IN
             [NoQuestion EXCEPT !.topic = s.topic, !.format = s.format, !.active = TRUE,
                 !.revision = [payload |-> s.payload, context |-> content[s.topic].context]]]

\* Topics that hold active questions cannot be retired, and others only on request;
\* questions are seeded into an empty bank alone.
import_content(content, allow_retire, seed_questions) ==
    /\ seed_questions => Rows = {} /\ \A q \in DOMAIN Seed : Seed[q].topic \in DOMAIN content
    /\ \A q \in Rows : question[q].active => question[q].topic \in DOMAIN content
    /\ allow_retire \/ \A t \in Topic : topic[t].active => t \in DOMAIN content
    /\ topic' = [t \in Topic |->
                    IF t \in DOMAIN content
                    THEN [active |-> TRUE, category |-> content[t].category, context |-> content[t].context]
                    ELSE [topic[t] EXCEPT !.active = FALSE]]
    /\ question' = IF seed_questions THEN Seeded(content) ELSE question
    /\ bank' = rebuild_banks(Category, question', topic')
    /\ UNCHANGED <<trail, tab, export>>

BankNext ==
    \/ export_question_bank
    \/ \E analysis \in Analysis : adopt_difficulty(analysis)
    \/ \E update \in Update : apply_updates(update)
    \/ \E content \in Content, retire, seed \in BOOLEAN : import_content(content, retire, seed)
    \/ \E q \in Question, t \in Topic, p \in Payload, d \in Given : create_question(q, t, p, d)
    \/ \E x \in Tab :
          \/ \E q \in Question : OpenForm(x, q)
          \/ CloseForm(x)
          \/ \E p \in Payload, d \in Given : edit_question(x, p, d)
          \/ change_question_status(x)

BankSpec == BankInit /\ [][BankNext]_bankVars

-----------------------------------------------------------------------------
(* Properties.                                                             *)

\* A rating is about the text it stands beside: whatever edits, restores, bulk reviews and
\* adoptions came between, the recorded fingerprint is that of the current stem and answer.
RatingDescribesContent ==
    \A q \in Rows :
        IF question[q].difficulty = "" THEN question[q].metadata = Unrated
        ELSE question[q].metadata.fact = fingerprint(question[q])

\* The answer bank of a category with an available typed question holds exactly the answers
\* of those that are available, so that every answer that can be asked for can be completed.
BanksAreCurrent ==
    \A c \in Category :
        LET typed == {q \in Rows : /\ question[q].active /\ question[q].format = "typed"
                                   /\ topic[question[q].topic].active
                                   /\ topic[question[q].topic].category = c}
        IN  typed # {} => bank[c] = UNION {AnswersOf[question[q].revision.payload] : q \in typed}

\* No lost update: what is saved replaces exactly what was on the form or in the export, and
\* a change by anybody in between, also one changed back, refuses it.  Whoever changes a row
\* puts the row as it was and as it becomes on record, under a new version.
SavesReplaceWhatWasSeen ==
    [][\A q \in Question : question'[q] # question[q] =>
          \/ question[q] = NoQuestion /\ question'[q].version = 0
          \/ /\ trail'[q].before = question[q] /\ trail'[q].after = question'[q]
             /\ question'[q].version = question[q].version + 1
             /\ trail[q] = NoChange \/ trail[q].after = question[q]
             /\ \A x \in Tab : tab'[x] # tab[x] => tab[x] = [question |-> q, seen |-> question[q]]
             /\ trail'[q].kind = "bulk_update" => export[q] = question[q] ]_bankVars
=============================================================================
