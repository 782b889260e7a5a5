# huddleston-science: specifications and proofs

TLA+ specifications of the classroom site in this repository, their TLC configurations and
their TLAPS proofs. `PROJECT.json` is the machine-readable companion: which definition
models which lines (`map`), what each run checks (`runs`), the mutation that shows each
property can fail (`mutants`), the hazards the properties are aimed at (`hazards`), the
theorems (`theorems`) and the disagreements found (`findings`).

    tlasany M.tla                         # parse
    tlc -workers 2 -config X.cfg M        # model-check
    tlapm M.tla                           # check the proofs

## 1. The system

A Django site on PostgreSQL for one school. Teachers run *live quizzes* that students answer
from their browsers, keep a *question bank* and *saved quizzes*; students work through *study
sessions* and *practice*. Almost every mutation is one transaction that first locks the caller's
account row and then the row it is about, so server operations are atomic and the difficulty
lies in their order, in what pages still believe, and in requests that are lost, late, repeated.

| Component | State | Operations | What makes it correct | Here |
|---|---|---|---|---|
| Live quiz server (`scholars/live.py`, `live_scoring.py`) | game (phase, version, position), opened/closed questions, participants (admission, clock), connections (lease), responses, applied requests | connect, heartbeat, leave, ready, answer; start, cancel, next, end | a closed question is complete; one clock per question; retries skip nothing; results are final | `LiveQuiz`, `LiveScoring`, `LiveBoard` |
| Live views (`live_views.py`) | none | state, suggestions, endpoints | what a page is shown is true | in the page modules, partly |
| Live client (`static/live-quiz.js`, `live-sync.js`) | last state, busy flags, pending request, dialog, answer box | poll loop, heartbeat, controls, answer form, leave, reload | catches up; asks before ending; text stays with its question | `LiveHostPage`, `LiveStudentPage` |
| Live reports (`live_reports.py`) | none (reads) | report, leaderboard | the cohort adds up | the facts it relies on, in `LiveQuiz` |
| Study (`study.py`, `question_selection.py`) | preferences, sessions with pinned topics and questions, attempts, completions | start, back/next, answer, restart, interests | nothing mastered is asked again; a pass is earned; credit is given once | `StudySession` |
| Practice and reviews (`services.py`, `reviews.py`, `progress.py`) | sessions, responses, rewards, review schedule, studied topics | start (random, personalized, review), answer, reveal, abandon, mark | first answer counts, reward once a day, schedule moves by evidence, bests compare like with like | `Practice` |
| Question bank (`question_authoring.py`, `question_bank.py`, `importer.py`, `typed_answers.py`) | questions, immutable revisions, edit versions, change log, answer banks | create, edit, archive, restore, adopt, export, apply updates, import | no lost update, ratings and answer banks follow the text | `QuestionBank` |
| Saved quizzes, hosting (`quiz_lists.py`, `quiz_views.py`, `live.host`) | quizzes, ordered items with the reviewed revision, edit versions, games | create, save preview, edit, copy, add, host | positions stay 1..n, only reviewed wording is played | `SavedQuiz` |
| Quiz generation (`quiz_generation.py`) | none | max-flow over quotas, difficulty exchange | finds a quiz whenever there is one, quotas met when possible, termination | `QuizGeneration` |
| Difficulty batches (`question_difficulty_batch.py`) | parts, markers, remote batches, annotations | prepare, split, submit, collect, publish | never pays twice, publishes what is complete and current | `DifficultyBatch` |
| Typed question pilot (`typed_question_pilot.py`) | its answers, in-flight markers | run | never repeats a request, stays in budget | `TypedPilot` |
| Typed question runs (`typed_question_full.py`) | records of attempts, in-flight markers, outcomes | initialize (copies the pilot's valid answers), generate and correct each topic | never repeats a request of its own, stays in budget | `TypedRun` |
| Topic research (`luna_topic_batch.py`, `luna_topic_pilot.run_one`) | responses, in-flight markers | run | never asks twice, stays within the guardrail | `TopicBatch` |
| Enrichment queue (`enrich_topics.py`, `integrate_luna_topics.py`) | queue, assignments, results, content | claim, release, accept, import | one owner per topic, pages are final | `ResearchQueue` |
| Topic normalizer (`normalize_luna_topics.py`) | none (a response becomes a page) | normalize, correct, clear, ship | what ships is consistent | `Normalize` |
| Accounts (`accounts/`) | users, login buckets, temporary passwords | login throttle, create, reset, disable, delete | | live-quiz side effects only |
| Backups (`backups.py`) | dump files and manifests | back up, verify | | not modelled |
| Progress, discovery, catalogue, static site, templates, deployment, build and audit scripts | none of their own | read | | not modelled |

**Interactions.** The browser polls `state/` every second, and reaches the server by JSON posts
(`connect/`, `ready/`, `answer/`, `control/`, `heartbeat/`, `leave/`, a beacon on closing).
A game freezes question revisions when it is hosted; a study session pins its questions when it
starts, a practice session its revisions; all ignore later edits. The content import and the
teachers' forms replace revisions under practice sessions, saved quizzes and answer banks. The
research scripts run on a maintainer's machine, talk to paid services, and reach the site only
through the data files that the import reads. Disabling, resetting or deleting an account reaches into
running quizzes: through the sign-in test of every operation, and through cascading deletes.

**What is hard here.** Answers racing Next; the four-second reveal in which the next question
exists but is not open; leases that run out without an event; several tabs of one student;
clocks left over from an earlier question; retries of requests that did arrive; dialogs that
outlive what they ask about; three-step loads of which any step may fail; retries of study
quizzes over questions that duplicate one another; forms and lists that are older than the bank;
processes that die between paying for an answer and recording it. `PROJECT.json` lists each with its line.

## 2. The modules

    LiveScoring                 points for an elapsed time
      LiveQuiz                  the server's tables and operations   -- implements --> LiveBoard
        LiveHostPage            + host's page and network
        LiveStudentPage         + a student's page and network
    StudySession                one student's study sessions
    Practice                    one student's practice sessions and spaced reviews
    QuestionBank, SavedQuiz, QuizGeneration       the teachers' tools, side by side in MCTeaching
    TypedPilot                  the pilot of the typed questions
      TypedRun                  + the full run, next to it
    DifficultyBatch, TypedRun, TopicBatch,
      ResearchQueue, Normalize                    the research scripts, side by side in Research
    MC*                         instances for TLC
    *Proofs                     theorems: LiveQuiz (with LiveScoring, LiveBoard), LiveHostPage,
                                LiveStudentPage, StudySession, Practice, QuestionBank, Research,
                                and QuizProofs for SavedQuiz and QuizGeneration

**LiveQuiz.** The variables are the columns of the six live tables (`None` = NULL), one game,
plus `account` (ready, barred = disabled or with a temporary password, deleted), the clock `now`
and the history variable `removed` (players whose accounts were deleted; the report computes
their number from counters). Each function of `live.py` is one action with its early returns as
guards: a request that raises rolls back and is no step, so the arguments of actions stay
free, which is every request any page could send. `Transition(r)` is `transition()`: known key,
version and position check, then start / cancel / next / end with `close_question`, then the
version and the log row. Lapsing leases are no action: `LiveConnection` compares with `now`.
`Verdict(r)` gives what the same request is answered, for the page modules.

**LiveBoard** is what the tables promise with clocks, leases and requests taken away: a cell per
player and question, filled once, by an answer to the question being asked or by its closing,
which leaves no empty cell in the column. `BoardSpec` reads it off the tables.

**LiveHostPage** composes `LiveQuiz` with `control()`, the poll loop, `render()` and the
confirmation dialog. A request travels in `wire`; it may be lost, executed long after the page
gave it up, or executed with its reply lost. The state view reads the game row first and the
rest in later statements, so a poll has two reads. `pending` is `pendingControl`.

**LiveStudentPage** composes `LiveQuiz` with `poll()` (state, connect, state, suggestions,
ready), the heartbeat and the answer form. `pollBusy` admits one poll at a time, so its progress
is one program counter; each request has an executing step and a later step in which the page
hears of it; `Fail` stands for a request or a reply lost at any point. A poll request that
executes late has the effect of one whose reply was lost, so it needs no step of its own;
answers can execute late and have a wire of their own.

**StudySession** is `study.py`: interests, start, reading moves, quiz composition, answers,
reviews, retries, completion, restart, beside content changes. `Group` is the connected component of
questions with equal prompts or answers (`question_selection.py`); `Initial` is what
`initial_question_ids` can return, a largest matching of two distinct groups per topic filled up
with other groups. The shuffle that orders an attempt is drawn lazily: only the current question
can be answered, so `current` is chosen when it becomes current. Past and present versions
are sent by pages (`v \in 0..version`).

**Practice** is `services.py` with `reviews.py`. A session is a row with its items, each pinned to
a revision; a request that raises is no step and an answer to an answered item is a stutter, so
tabs send any request at any time. `select_questions` gives every list the three selections may
draw (`Drawn`, in any order): a personalized draw is at most `DUE_SHARE` due reviews, oldest
first, then weak questions, new ones, and the rest. `answer_question` makes its four effects in one step as
the transaction does: the review schedule (`record_review`), the item, the reward, and on the last item the
completion with the personal-best flag. The instants of answers are a counter, `clock`; `NextDay` changes
the date, `NewContent` the bank. `reveal_question` is a service operation that no view
offers any more (`views.py` answers 400); it stays in the model because the service still has it.

**QuestionBank** has the rows of `Question` with their current revision, the change log as the last
`QuestionChange` of each question (`trail`), the typed answer bank of each category, open forms
(`tab`: the row as it was when the form was opened) and the last export. `save_revision` is
`Save`, with `Rerated` for what becomes of the rating; `apply_updates` and `adopt_difficulty` plan
every patch first and apply all or none. `rebuild_banks` runs for the categories an
operation touches. `CurrentTyped` is `question_format()`: the typed questions, or multiple choice
while no typed question is available anywhere; only then may the bank of an untouched
category be out of date, which is why `BanksAreCurrent` speaks of categories with a typed question.

**SavedQuiz** has the lists, the games frozen from them and the pages teachers have open; of the
bank it sees which revision of a question is current and whether it is available. Items name
questions and the revision that was reviewed; `host` requires the version the page showed and every
item ready (reviewed = current, available). Pages that add to a quiz or host one offer
those not archived, and every page may be of any age when it is used. The four ways in which a wording
can come to stand as reviewed are told apart (`Approves`): a copy takes over what the list had, also when the page
that asks for it shows newer wording.

**QuizGeneration** takes one augmenting path a step. The flow source - group - topic -
category - sink is kept as `via`, the topic each group flows through; `Forward` and `Reversed` are its
residual edges; `Search` is the breadth-first search by rounds, in which `Further` takes paths on to nodes
that none has come near, and `Augmenting` the shortest paths it may find (which of them depends on the
shuffle). `Relax`
opens the quotas by one when no path is left, `Shortage` gives up, `Exchange` is one exchange of `fit_difficulty`.

**DifficultyBatch** has a process with threads, the files of each part, and the service, whose
`posts` hold every batch requested of it: a post may arrive after the process died. Each file
written is a step and `Die` may come between any two. `submit` either finds its marker and looks for a
matching batch (`Reconcile`), or uploads, marks, posts, and records.

**TypedPilot** is the pilot's run: it starts only if no request of it is in doubt and its budget
covers all it is going to ask (up to some topic, which is what `--limit` cuts off). For each topic the
marker is written and the request sent (`ask_pilot`), the answer kept, validated, the marker removed; `PilotCrash`
comes between any two, and `InspectPilot` is the operator removing the marker of a request whose answer is on record.

**TypedRun** adds the full run, with a lock, markers and records of its own; the scripts exclude each
other nowhere. `initialize`, `CopyDraft` and `Freeze` prepare the manifest topic by topic, and read the
pilot's answers as they are at that moment. Later the full run looks at its own directory only. So a pilot that
died with a request under way, or that was refused or answered badly, is followed by a full run
that sends the identical request again and may pay for it again. The code does that, no document
says that it does not, and the model has these behaviours; `AskedOnce` speaks of the requests each script has sent.
A stage is tried again only after a transient failure. `Collect` takes in all the topics that have finished before another is started.

**TopicBatch** is the dispatch loop with its reservation, one request per topic, and what a killed
process leaves behind. `Wait` returns the requests that are done by then, and `Settle` takes in
each of them before anything is dispatched again.

**ResearchQueue** has the queue file with the commands that hold its lock; what a command has still
to write is `command`, and `Interrupted` drops it. Researchers write results without the lock. `MayImport` is every
check `integrate` makes before it writes; `accept` checks no status, as in the code.

**Normalize** takes one response through `normalize_record`, corrections one by one, and the
final clearing of problems that corrections repaired. Of the evidence list the URLs count, so `evidence` is a set.
The normalizer wants an overview of 80 to 130 words (`Fits`), the import takes up to 150 (`FitsImport`).

Definitions with a suffix (`Accepting_DuringReveal`, ...) are plausible mistakes; nothing uses
them but the mutation runs.

### Left out of these modules, and why

* Grading, suggestions, names, texts, page layout: data the properties do not look into. A
  `prompt` verdict writes nothing and is no step.
* The host's own account and connection: the host stays signed in; `host_present` is display.
* `grading_version` is constant during a game; `timed_scoring` is always true for games hosted by
  this code (`live.py:80`).
* Fractions of a second: the clock moves in whole seconds and `LiveScoring` computes the
  parabola exactly for whole seconds past the grace.
* `live-sync.js` (clock offset for the countdown display) and `live-discovery.js`.
* In `StudySession`: reading snapshots, the activity log, barred accounts, and changes of a
  topic's subjects. An active category has its answer bank. A pass is nine tenths computed exactly;
  `ceil(n * .9)` agrees with it for every n a session can have.
* In `Practice`: barred accounts, the distractors of a recognition question, texts. In
  `QuestionBank`: normalization of typed text (a payload has the answers it adds) and validation of
  forms. In `SavedQuiz`: the one-hour signature of a preview, the refusal to host while
  a category has no answer bank, names. In `QuizGeneration`: subcategories, form validation;
  weights are whole numbers.
* In `DifficultyBatch`: validation of frozen inputs, summaries of parts; `run_id` is the part; a manifest
  is there when its last file is; `expired` stands for every final status but *completed*.
  In `TypedPilot` and `TypedRun`: an answer costs 1; frozen hashes, the `--limit` of the full run, the
  export and the repair script, and `status`, which prepares the full run's manifest without its lock. In `TopicBatch`: `--limit`, validation of answers, the exclusion of the pilot's topics. The pilot's
  own main loop keeps no in-flight marker, so a pilot that was interrupted repeats its
  request when it is run again; nothing is claimed of it. In `ResearchQueue`: edits of the baseline from outside,
  dry runs, provenance hashes, status output. In `Normalize`: one topic at a time, which is how the script
  treats them; a correction's `old_source_urls`.

`docs/TEACHER_TOOLS_PHASE4.md` still says that starting locks admission; `live.py:96-100` admits
late joiners, tests expect it, and so does the model.

## 3. The runs

| Run | Instance and bounds | Shows |
|---|---|---|
| `live_server` | 2 students with a page each, 2 questions, 3 keys, instants 0, 12, 24 | `TypeOK`, `ClosedComplete`, `CohortAddsUp`, `OneTransitionPerState`, `EndIsFinal`, `BoardSpec` |
| `live_pages` | 1 student, 2 pages, every outcome, instants 0, 12, 24 | `FairPoints`, `AnsweredWhileOpen`, `ClockStartsOnce` |
| `host_page` | host page, 1 student page, 2 questions, 3 keys, 2 requests in flight, instants 0, 24 | `ConflictMeansNotApplied`, `ConfirmedBeforeEnding`, `PageCatchesUp` |
| `host_page_cancel` | the same | finding: `CancelNeverStarts` is violated |
| `student_page` | student page with a reload, 2 questions, 2 answers in flight, account changes | `FeedbackIsTrue`, `AnswersAsMeant`, `PromptNeedsClock` |
| `student_page_progress` | 1 question, a reload | `PlayerIsAsked` (liveness) |
| `student_page_stranded` | another student keeps the room open | finding: `PagesRecover` is violated |
| `study_retries` | 1 session, up to 3 attempts, Back in the first reading; two topics sharing a question (5 groups, quiz of 4), or one topic of 3 groups with a chain of duplicates (quiz of 2) | `PageRenders`, `NeverAskedAgain`, `PassedByMastery` |
| `study_sessions` | 2 keys, 2 subjects sharing a topic, 3 contents, 2 attempts | `TypeOK`, `CreditIsEarned`, `EvidenceIsFinal` |
| `practice` | 2 sessions of 2 questions over 3 days; a question with two revisions and another; random, review and personalized selection; typed and recall | `RewardedOncePerDay`, `ScheduleIsEarned`, `BestsAgree`, `PracticeIsFinal` |
| `teaching` | bank: 3 questions, 2 topics of 2 categories, 2 forms; lists: 3 questions, 2 lists of at most 2, 2 tabs, 1 game key; generator: 24 pools of 4 questions in up to 3 groups, 3 topics, 2 categories, each with 4 settings | `RatingDescribesContent`, `BanksAreCurrent`, `SavesReplaceWhatWasSeen`, `ListsAreInOrder`, `HostedAsReviewed`, `ReviewedWasShown`, `GeneratedAsAsked`, `GenerationEnds` (liveness) |
| `research` | 3 questions in parts of 2, 2 threads; 3 typed topics, 2 in the pilot, 3 attempts, budgets 1 and 3; 3 research topics, 2 threads, guardrail 4; 4 pages, 2 batches, 2 researchers; responses with 2 blocks and 3 URLs, 2 corrections | `BatchedOnce`, `PublishedAsJudged`, `SpentAsPlanned`, `OneOwner`, `PagesAreFinal`, `ShippedIsClean` |

**Why these bounds are enough to be interesting.** The lease is 20 s and the reveal 4 s, as in the
code. A step of 12 s ends a reveal and keeps a lease; two steps end a lease as well; the page
runs use one step of 24 s that ends both. Two questions have a first, a last, and a reveal between
them. Two students, of whom one may be absent at the start, admit late joiners, lapses and
deletions independently. Three keys are start, next and one more, or a retry. A quiz of two
questions accepts at most three transitions, so `Key` bounds no more than the quiz does. In the
page runs a second connection key is one reload (`conn` is drawn at each page load).
`live_server` keeps the single outcome *correct*: outcomes differ in points, which `live_pages`
checks with all three. `MaxWire` and `MaxAnswers` = 2 let an abandoned request overtake its
retry. In the study runs four questions are asked of five groups, so a retry mixes misses and
unseen questions and cannot hold them all after four misses; `MaxAttempts`, `MaxBack` bound
attempts and the versions from which Back is modelled (1 in both): a first reading of two topics
(`study_retries`) is read on, back and on again. Back in a review would need unbounded
versions, since reading on and back may alternate for ever; that part rests on the proofs.

In `practice` (2.2 million states) two sessions overlap in every way and the import replaces the
typed question's revision between any two requests. Three days (`MaxDay`) reach a review on the
day it is due, an attempt before it, and a failure after a success. The intervals are 1, 2, 3
days; of two questions the personalized shares are one due, one weak and none new, so that each
share can be exceeded and filled up.

In `teaching` (1.4 million states) `MaxVersion` lets a seeded and a teacher's question reach version
2, from two forms, an export and a rating file of which any may be out of date; the other seeded
question belongs to the topic that the study material may drop. Of the four payloads three are typed, and
one of these has an answer of its own, so that a bank changes with an edit as well as with an archived question.
Lists are kept on two tabs. One of them adds, saves previews and edits, the other hosts or edits
(`KindsOn`), so a list changes while the page that will host it is open, and is edited from pages of two ages. The preview is
one choice of two questions (`Previewed`), one question is revised (`RevisionsOf`) and another leaves
and returns (`Retires`); with three questions a list of `MAX_QUESTIONS` = 2 is full. Each list is edited once (`MaxEdits`)
before or after a colleague's change, hosted, or copied to the other list; there is one key for
games, so a second request with it is a retry. Among the pools are those in which the topic
first found for a group must be given back.

In `research` (3.7 million states) three questions make a full part and a short one, and the full
one can be split; question 1 is reworded once, at any time (`MaxRevision`). The typed pilot, with two topics and a
budget of one answer, runs before, after and beside a full run of three topics, whose budget of three answers is enough for
the reservation of two that one topic needs: the full run has one topic under way at a time, in whichever state an invocation
that died has left the others. Two at once would need a budget of four and multiply the states beyond
what can be searched in minutes; that the reservation is by topics under way is what the mutation
of `WithinReach` shows and the theorem `BudgetsHold` proves for any number of threads. three research topics on two threads leave one to be dispatched when two answers
have cost most of the guardrail; a batch that was assigned by hand and one that was not are claimed,
released, accepted and imported by two researchers; two corrections (`MaxPatches`) can add a
reference and remove another.

`teaching` and `research` put components side by side that share no state while they run: a
behaviour picks one in its first state (`tool`) and leaves the others as they were, so a run has the
sum of their states and not the product.

**Symmetry** is used for safety properties only: students with their pages, pages of one student,
keys (live); questions alike to nothing and the two topics with their questions (study); request
keys (practice); the bank's tabs and the keys of lists and games (teaching). `teaching` also checks a liveness
property, but of the generator's state alone, in which none of the permuted values occurs.

**Deadlock** checking is off in every run: an ended quiz with the clock at its bound, and a
student whose sessions are all over, have nothing left to do. So have practice on its last day,
lists and questions at their bounds, a generated quiz, and a page that was shipped or withheld.

**Fairness.** `PageCatchesUp` and `PlayerIsAsked` assume what the browser's timers do: polling goes
on (`WF` on starting a poll; `setTimeout` in `finally`) and the heartbeat repeats (`setInterval`).
Network steps have `SF`: a request repeated for ever is not lost for ever, though any
one may be. `GenerationEnds` assumes that the generator, one function call, takes its next
step while it has one (`WF` of its next-state relation); that the steps come to an end is what is
checked. Nothing is assumed of the host, the student, other requests or the clock.

## 4. Findings

* `host_page_cancel`: `control()` resends the request in `pendingControl` whatever was clicked. A
  Start that timed out, or that was refused because the last student had just left, stays pending;
  confirming *Cancel this waiting room?* then sends **start**, and starts the quiz if a
  student has come back (`static/live-quiz.js:178-187`).
* `student_page_stranded`: a waiting page that sleeps through its lease and the Start is not on the
  roster. `connected` is never reset, so it does not connect again; the suggestions request
  answers 404 and the page stops with an error although late joining would admit it
  (`static/live-quiz.js:163`, `live_views.py:169`), against
  `docs/TEACHER_TOOLS_PHASE4.md:81`.

## 5. The proofs

Every safety property that a passing run checks is also proved, for all values of the constants that
the modules' assumptions admit (`LiveQuizAssumption`, `StudyAssumption`, `PracticeAssumption`,
`BankAssumption`, ...). Each proof has an inductive invariant, the
lemmas that every action keeps it (one step an action), and short theorems that read the
properties off it.

**The live quiz**, for every finite set of students, any connections, keys, number of questions,
lease, reveal, grace and clock bound.

* `LiveQuizProofs` begins with the scale: points stay within 25..100 and never grow with time
  (`PointsRange`, `PointsMonotone`), by its sixteen values. Then come `TypeCorrect` and
  `Invariance` for `TypeOK /\ IInv`. `TypeOK` alone is not
  enough: that a closed question is complete depends on which questions are open at all.
  `IInv` has four named parts: `Shape` (which questions are opened and closed in each phase: those
  before the position are closed, the position is opened, later ones untouched), `Rows` (players exist only
  after the start, responses only for players and opened questions, each finalized between the opening and
  the closing of its question), `Covered` (closed questions have a response of every player admitted before the
  closure) and `Clocks` (a clock belongs to a player and began after its question opened).
  From it follow `ClosedQuestionsComplete`, `AnswersWhileOpen`, and with induction of their own
  `PointsAreFair` (by monotonicity of the scale), `CohortIsAccounted` (cardinalities of the
  roster), `RetriesSkipNothing` (every logged request was made of an earlier version),
  `OneClockPerQuestion`, `ResultsAreFinal`. `ServerImplementsBoard` is the refinement, Spec =>
  BoardSpec: each action of the tables maps to an action of the board or to a stutter; the closing
  of a question is where the guard "opened" of `IInv` is needed.
* `LiveStudentPageProofs`: `StudentInv` compares what the page holds with the student's row
  on the server (`TruePage`: an outcome shown, polled, remembered or on its way back is the one
  recorded or none yet; a prompt, or a clock just asked for, is of a question whose clock runs), and follows the
  text of the answer box (`FormOK`: it belongs to the question on the screen, an answer under way
  to its own). It gives `ShowsTheRecord`, `RecordsWhatWasMeant`,
  `PromptAfterClock`. `PageIsAClient` shows StudentSpec => Spec: whatever the page and its network do is a
  behaviour of the server alone, so the server's theorems hold under it.
* `LiveHostPageProofs`: `HostInv` rests on one idea, that the same version means the same game.
  What was read (`Seen`, `Revealed`) and what was sent (`Applicable`) is true of the game if
  its version is still the game's; a request answered as a conflict is spent or overtaken
  (`Refused`); what can end the quiz was confirmed at its position (`Confirming`). It gives
  `AppliedIsNotRefused`, `EndsAsConfirmed` and `HostIsAClient` (HostSpec => Spec).

**Study sessions**, for every catalogue of questions, session size and bound.

* `StudySessionProofs`: `StudyInvariant` for `TypeOK` and `Settled` (only the last attempt can be
  unfinished, and only in a quiz or an abandoned session). Every operation is shown to take one row to a row that
  `Follows` it, or to start a session; from that step lemma follow `StudyTypeCorrect`,
  `StudyCreditIsEarned` (its own induction: what is credited, what is active and who studies
  what support each other) and `StudyEvidenceIsFinal` (where `Settled` gives that an
  attempt follows only a finished one). `StudiedInv` then says what has been asked and read:
  an attempt asks one question of a group and none of a group answered correctly before
  (`Variants`), what was missed was answered correctly since or is asked now (`Carried`), and the
  phase agrees with the last attempt and the length of the reading (`Phased`). It gives
  `NothingIsAskedAgain`, `SessionsRender` and `PassingIsMastery`. How questions group
  stays opaque: what is used is that every question has its group.

**Practice**, for every bank, scope, set of request keys, session size, table of intervals and
number of days.

* `PracticeProofs`: `SessionInv` (each row is a session or none, answers come in its order, and the
  last one completes it) gives `PageAlwaysShowsNext`, and with the step lemma that a session only
  `GoesOn` also `AnswersAreFinal`. `RewardedOnce` adds that answers are dated today or earlier: a
  new answer is then among the latest, so the first day's reward, and no other, is
  worth two points. `BestInv` keeps the meaning of a flag that was set at completion: no session
  completes in the past, so the sessions it had to beat never change; `BestsAlwaysAgree`.
  `ScheduleInv` follows each review row with its evidence (`Earned`): n successes are later than the last
  failure and spread over the first n - 1 intervals, whose sum `Span` is shown to
  be what its recursion says; `SchedulesAreEarned`. What is drawn for a session enters only
  as a finite sequence of questions (`DrawnIsSequence`).

**The teachers' tools**, for any questions, topics, study material, forms, update files, lists, pages
and games.

* `QuestionBankProofs`: `BankInv` adds to the two invariants that the last logged change is the row as
  it stands (`TrailEndsHere`) and that a row seen by a form or an export is the present one or
  has an earlier version (`WhatWasSeen`). Single edits, bulk updates and imports are all
  shown to be `Moves`, for which the invariant is proved once. `RatingsDescribeContent`,
  `BanksStayCurrent`, and from `WhatWasSeen` the action property `NoUpdateIsLost`.
* `QuizProofs`, saved quizzes: `QuizInv` says what a page of any age still knows: while the version it
  shows is the quiz's, its contents are the quiz's (`QuizPageOK`, `HostPageOK`). With lists
  of n distinct questions at positions 1..n (`IsList`), `ListsStayInOrder` and the action
  properties `GamesAreAsReviewed` and `ReviewsAreShown` follow.
* `QuizProofs`, the generator, for any finite pools with a category for each topic, any numbers of questions,
  topic limits, quotas and whole weights that are not all zero: `GeneratorIsExact` is that the flow is a
  maximum one, in four parts.
  1. `SearchFinds`: the search finds simple paths of residual edges to the sink, or what it came near is a
     set that no residual edge leaves. `Known` says what a round knows; each round either comes near another node
     or ends the search.
  2. `AugmentKeeps`: on a path, one group at most comes to a topic, and one that flowed through it leaves unless
     the topic has room (`ThroughIsKept`). Several may come to topics of a category. Each is matched with
     the group it displaces two nodes later, or four where the path passes the category
     itself, and the only one that displaces none needs room (`IntoIsKept`).
  3. `NoPathBounds`: where there is no path, no choice of questions within the capacities is larger than the
     flow. Each question, and each group that flows, is labelled with the node or edge at
     which it crosses the set the search came near; the flow is saturated there, so it has as many
     of each label (`ByLabels`).
  4. `GenInv`: the flow fits; once the quotas were relaxed no selection meets them; at a
     shortage there is no selection at all; what is selected is one, with the flow's shares of the categories.
     Exchanges keep it (`ExchangeIsAllowed`). If a selection meets the quotas, the flow fits within them and
     is as large, so it meets them too (`QuotasAreMet`).

  `GeneratorDescends`: every step lowers the number `StepsLeft`. A path takes the flow of one more group
  (`AugmentAddsOne`) and an exchange lowers the lack of rated questions (`ExchangeMeetsDemand`).
  `GeneratorGoesOn`: until it returns, the guard of one of its actions holds; every flow can be read
  as a selection (`FlowHasSelection`). With the fairness of section 3 the two make `GenerationEnds`.

**The research scripts**, for every bank, part size, set of labels, list of topics, budget, charge,
number of threads and attempts, every queue, response and correction. All are in `ResearchProofs`.

* Difficulty batches: `SendInv` has `PartsOK` (parts share no question), `PostsOK` (a batch is
  requested for a whole part that bears the marker, once) and `ThreadsOK` (a thread about to send a
  part is the first to do so); that a marked part is never split is what carries it. From it
  follows `QuestionsAreBatchedOnce`. `PublishInv` adds what is on record of each batch (`RecordsOK`),
  of each collecting thread (`CollectOK`) and of each annotation (`AnnotationsOK`), so
  that a published label is what an ended batch said: `PublishesOnlyJudgements`.
* Topic batches: `TopicsAreRequestedOnce` by `TopicInv`: a topic that was requested has its record
  or still its marker (`Accounted`), and what is yet to be requested never was (`Fresh`).
  `GuardrailHolds` by `SpendingInv`: what is counted as spent is the cost of the topics that are
  not under way, and with the reservation for those under way it is within the guardrail.
* Typed runs: `TypedRequestsOnce` by `TypedInv` (a request was made iff its attempt has a record or a
  marker, and every thread stands at an attempt that its topic's records call for) and `PilotInv` (the same of
  the pilot, and that its budget covers what it has yet to ask). The two scripts share nothing but the answers that
  are copied, which are final by then. `BudgetsHold` by `BudgetInv`. The full run's budget test counts finished topics only, and a crash loses the
  threads, so the invariant has to bound what topics without an outcome may have been charged. Topics are
  started in order: those charged and not finished are among the first ones open, and the
  reservation for all the open topics up to the last one begun (`Reached`) covers them.
* `SpendingStaysPlanned` joins these four, and says no more than they do: a topic that both the pilot and the full run
  ask about counts once for each. The composition `Research` implements each script
  (`RunsApart`), so `SpentAsPlanned` holds in it.
* Queue: `TopicsHaveOneOwner` and `PagesStay` by `QueueInv`: a topic is in one batch
  until it is on record as imported, and then in none (`Owned`); an imported page never differs
  from the site's (`Imported`); an import under way writes pages it has put on record, over nothing
  else (`Underway`).
* Normalizer: `CleanIsShipped` by `NormalizeInv`: while a page is being corrected, whatever is wrong
  with it is among its blocks (`Drafted`), and every correction keeps that so.

**Sums and recursion.** The charges are sums over sets of topics (`SumFunctionOnSet` of the community modules,
a recursion that picks elements), and the library's induction theorems take an operator the
provers cannot instantiate. `ResearchProofs` therefore begins with sums from the definition:
a number is the sum of a set when some function on its subsets obeys the recursion; smallest
counterexamples (a least number, a least subset) show that there is one and only one, that it does not depend
on the order of picking (`SumStep`), and that sums are monotone, split over disjoint sets and change
with one element (`SumMonotone`, `SumSplits`, `SumChanges`). `PracticeProofs` treats `Span` in the same way,
and `QuizProofs` the rounds of the generator's search (`SearchIs`).

**Only model-checked.** Liveness is out of the prover's reach: `PageCatchesUp`, `PlayerIsAsked`,
`GenerationEnds`. Of the last, all but the step from fairness is proved (`GeneratorDescends`,
`GeneratorGoesOn`). Every safety property of section 3 has its theorem.

## 6. Not modelled

* **Accounts**, beyond what reaches into a live quiz: the login throttle, temporary passwords, the
  forced password change. Each is a counter or a unique row changed under one lock. The purge of
  buckets can race a login (`accounts/services.py:20`), which then fails with an error.
* **Backups**: one command around an external `pg_dump`, which publishes by a rename under a name of
  its own; the manifest is written first, so a crash leaves no archive without one.
* **Reports, progress, discovery and catalogue pages**: read-only queries. `LiveQuiz` and
  `Practice` state the facts that the report and the ranking of bests rely on.
* **The union-find and the matching search** of `question_selection.py` and `study.py` as algorithms:
  `StudySession` has their results.
* **Build, audit and rendering scripts, the static site, settings and deployment**: one-shot
  transformations, presentation and configuration, without state that outlives a run.
