----------------------------- MODULE SavedQuiz ------------------------------
(***************************************************************************)
(* Teachers' saved quizzes (scholars/quiz_lists.py, quiz_views.py) and the *)
(* hosting of a live game from one (scholars/live.py, host).               *)
(*                                                                         *)
(* Every operation holds the content lock and is one action; one that      *)
(* raises is no step.  A list follows the question bank: it names          *)
(* questions, with the revision of each that a teacher reviewed.  Meanwhile *)
(* the bank changes (QuestionBank), and pages show what was there when     *)
(* they were opened.  An item is identified by its question, of which a    *)
(* list holds one.                                                         *)
(***************************************************************************)
EXTENDS Integers, Sequences, FiniteSets

CONSTANTS
    Listed,         \* questions that lists may hold
    RevisionsOf,    \* the revisions each may come to have
    QuizKey,        \* request keys of new quizzes, their ids
    GameKey,        \* request keys of games
    Page,           \* teachers' tabs
    MAX_QUESTIONS,
    KindsOn,        \* bound: the kinds of pages opened on each tab
    Previewed,      \* bound: the choices of questions that previews show
    Retires,        \* bound: the questions that leave the bank and return
    MaxEdits        \* bound: edits of one quiz

ASSUME SavedQuizAssumption ==
    /\ IsFiniteSet(Listed) /\ IsFiniteSet(QuizKey)
    /\ RevisionsOf \in [Listed -> SUBSET UNION {RevisionsOf[q] : q \in Listed}]
    /\ \A q \in Listed : RevisionsOf[q] # {}
    /\ MAX_QUESTIONS \in Nat \ {0} /\ MaxEdits \in Nat

VARIABLES
    current,    \* the bank: current revision of each question
    available,  \* the bank: those that are active, typed and of active topics
    quiz,       \* SavedQuiz rows with their items
    game,       \* LiveQuiz rows: their pinned questions, and whether they are open
    page        \* what each tab shows

quizVars == <<current, available, quiz, game, page>>

NoQuiz == [exists |-> FALSE, archived |-> FALSE, version |-> 0, items |-> {}]
NoGame == [open |-> FALSE, questions |-> <<>>]
Blank == [kind |-> "none"]

QuizInit ==
    /\ current \in [Listed -> UNION {RevisionsOf[q] : q \in Listed}]
    /\ \A q \in Listed : current[q] \in RevisionsOf[q]
    /\ available = Listed
    /\ quiz = [k \in QuizKey |-> NoQuiz]
    /\ game = [g \in GameKey |-> NoGame]
    /\ page = [x \in Page |-> Blank]

Entry(q, r, n) == [question |-> q, reviewed |-> r, position |-> n]
Questions(items) == {i.question : i \in items}
At(items, n) == CHOOSE i \in items : i.position = n
Item(items, q) == CHOOSE i \in items : i.question = q

-----------------------------------------------------------------------------
(* Mistakes for the mutation runs: each replaces its stem's definition.    *)

Removed_LeavingGap(items, q) == {i \in items : i.question # q}
HostedAt_AnyVersion(x, k) == TRUE
Duplicated_AsCurrent(items) == {[i EXCEPT !.reviewed = current[i.question]] : i \in items}

-----------------------------------------------------------------------------
(* The lists.                                                              *)

\* Positions are renumbered from 1 in the order that is left.
Removed(items, q) ==
    LET p == Item(items, q).position
    IN  {[i EXCEPT !.position = IF @ > p THEN @ - 1 ELSE @] : i \in {j \in items : j.question # q}}

\* The items at positions m and n change places.
Swapped(items, m, n) ==
    {[i EXCEPT !.position = IF @ = m THEN n ELSE IF @ = n THEN m ELSE @] : i \in items}

\* Copying a stale list does not approve its contents.
Duplicated(items) == items

Changed(i) == current[i.question] # i.reviewed

\* ready_items: nothing is dropped or hosted that has not been reviewed as it stands.
Ready(k) ==
    /\ ~quiz[k].archived /\ quiz[k].items # {}
    /\ \A i \in quiz[k].items : i.question \in available /\ ~Changed(i)

\* What has been approved, in order: each question in the revision that was reviewed.
Approved(k) ==
    [n \in 1..Cardinality(quiz[k].items) |->
        LET i == At(quiz[k].items, n) IN [question |-> i.question, revision |-> i.reviewed]]

\* What a quiz page shows, in order: each question in its current revision.
Shown(k) ==
    [n \in 1..Cardinality(quiz[k].items) |->
        LET i == At(quiz[k].items, n) IN [question |-> i.question, revision |-> current[i.question]]]

Fresh(items) == [exists |-> TRUE, archived |-> FALSE, version |-> 0, items |-> items]

-----------------------------------------------------------------------------
(* Pages.                                                                  *)

OpenPage(x, p) ==
    /\ page[x] = Blank /\ p.kind \in KindsOn[x]
    /\ page' = [page EXCEPT ![x] = p]
    /\ UNCHANGED <<current, available, quiz, game>>

OpenQuiz(x, k) ==
    /\ quiz[k].exists
    /\ OpenPage(x, [kind |-> "quiz", quiz |-> k, version |-> quiz[k].version, shown |-> Shown(k)])

\* What pages offer: the quizzes that there are, but for the archived ones.
Offered == {k \in QuizKey : quiz[k].exists /\ ~quiz[k].archived}

\* Explore shows a question, and the quizzes it may be added to.
OpenAdd(x, q) ==
    /\ q \in available
    /\ OpenPage(x, [kind |-> "add", shown |-> <<[question |-> q, revision |-> current[q]]>>,
                    versions |-> [k \in Offered |-> quiz[k].version]])

\* The hosting page offers quizzes as they are, and has a request key of its own.
OpenHost(x, g) ==
    OpenPage(x, [kind |-> "host", game |-> g, versions |-> [k \in Offered |-> quiz[k].version],
                 lists |-> [k \in Offered |-> Approved(k)]])

\* random_quiz: a signed preview of available questions, with the key it will be saved under.
OpenPreview(x, k) ==
    \E n \in 1..MAX_QUESTIONS :
        \E f \in [1..n -> available] :
            /\ f \in Previewed /\ \A i, j \in 1..n : f[i] = f[j] => i = j
            /\ OpenPage(x, [kind |-> "preview", quiz |-> k,
                            shown |-> [i \in 1..n |-> [question |-> f[i], revision |-> current[f[i]]]]])

ClosePage(x) ==
    /\ page[x] # Blank
    /\ page' = [page EXCEPT ![x] = Blank]
    /\ UNCHANGED <<current, available, quiz, game>>

-----------------------------------------------------------------------------
(* Operations.                                                             *)

\* A key that made a quiz returns it.
Create(k, items) ==
    /\ ~quiz[k].exists
    /\ quiz' = [quiz EXCEPT ![k] = Fresh(items)]
    /\ UNCHANGED <<current, available, game>>

create_quiz(k) == Create(k, {}) /\ UNCHANGED page

\* create_quiz with a preview: refused when the bank has changed since.
save_preview(x) ==
    LET shown == page[x].shown IN
    /\ page[x].kind = "preview"
    /\ \A n \in DOMAIN shown : shown[n].question \in available /\ shown[n].revision = current[shown[n].question]
    /\ Create(page[x].quiz, {Entry(shown[n].question, shown[n].revision, n) : n \in DOMAIN shown})
    /\ page' = [page EXCEPT ![x] = Blank]

\* checked_quiz: what a page asks for is done at the version it shows, or refused.
Checked(k, version, archived) == quiz[k].exists /\ quiz[k].version = version /\ (quiz[k].archived => archived)

\* touch: the quiz changes and so does its version.
Touch(k, new) ==
    /\ quiz[k].version < MaxEdits
    /\ quiz' = [quiz EXCEPT ![k] = [new EXCEPT !.version = @ + 1]]
    /\ UNCHANGED <<current, available, game>>

\* The quiz on a page.
Its(x) == quiz[page[x].quiz]

update_quiz(x, new, archived) ==
    /\ page[x].kind = "quiz"
    /\ Checked(page[x].quiz, page[x].version, archived)
    /\ Touch(page[x].quiz, new)
    /\ page' = [page EXCEPT ![x] = Blank]

rename(x) == update_quiz(x, Its(x), FALSE)
archive(x) == update_quiz(x, [Its(x) EXCEPT !.archived = TRUE], FALSE)
restore(x) == update_quiz(x, [Its(x) EXCEPT !.archived = FALSE], TRUE)

remove(x, n) ==
    /\ page[x].kind = "quiz" /\ n \in DOMAIN page[x].shown
    /\ update_quiz(x, [Its(x) EXCEPT !.items = Removed(@, page[x].shown[n].question)], FALSE)

\* up and down: n and n + 1 change places.
move(x, n) ==
    /\ page[x].kind = "quiz" /\ {n, n + 1} \subseteq DOMAIN page[x].shown
    /\ update_quiz(x, [Its(x) EXCEPT !.items = Swapped(@, n, n + 1)], FALSE)

\* The revision that the page shows becomes the reviewed one, if it is still current.
review(x, n) ==
    /\ page[x].kind = "quiz" /\ n \in DOMAIN page[x].shown
    /\ LET s == page[x].shown[n] IN
          /\ s.question \in available /\ current[s.question] = s.revision
          /\ update_quiz(x, [Its(x) EXCEPT !.items =
                {IF i.question = s.question THEN [i EXCEPT !.reviewed = s.revision] ELSE i : i \in @}], FALSE)

duplicate(x, k) ==
    /\ page[x].kind = "quiz"
    /\ Checked(page[x].quiz, page[x].version, TRUE)
    /\ Create(k, Duplicated(quiz[page[x].quiz].items))
    /\ page' = [page EXCEPT ![x] = Blank]

\* A question that the list already holds is left alone.
add_question(x, k) ==
    LET s == page[x].shown[1] IN
    /\ page[x].kind = "add" /\ k \in DOMAIN page[x].versions
    /\ Checked(k, page[x].versions[k], FALSE)
    /\ s.question \notin Questions(quiz[k].items)
    /\ s.question \in available /\ current[s.question] = s.revision
    /\ Cardinality(quiz[k].items) < MAX_QUESTIONS
    /\ Touch(k, [quiz[k] EXCEPT !.items = @ \union {Entry(s.question, s.revision, Cardinality(@) + 1)}])
    /\ page' = [page EXCEPT ![x] = Blank]

\* The list is the one that the hosting page shows.
HostedAt(x, k) == quiz[k].version = page[x].versions[k]

\* A game pins the current revisions, which are the reviewed ones.  Its key returns it later,
\* and there is one open game on the site.
host(x, k) ==
    LET g == page[x].game IN
    /\ page[x].kind = "host" /\ k \in DOMAIN page[x].versions
    /\ game[g] = NoGame
    /\ \A h \in GameKey : ~game[h].open
    /\ HostedAt(x, k) /\ Ready(k)
    /\ game' = [game EXCEPT ![g] = [open |-> TRUE, questions |-> Shown(k)]]
    /\ page' = [page EXCEPT ![x] = Blank]
    /\ UNCHANGED <<current, available, quiz>>

\* live.transition: the game ends or is cancelled (LiveQuiz).
Finish(g) ==
    /\ game[g].open
    /\ game' = [game EXCEPT ![g].open = FALSE]
    /\ UNCHANGED <<current, available, quiz, page>>

\* QuestionBank: a question is revised, archived, restored; a topic is retired.
BankChange(q) ==
    /\ \/ \E r \in RevisionsOf[q] \ {current[q]} : current' = [current EXCEPT ![q] = r] /\ available' = available
       \/ q \in Retires /\ current' = current /\ available' = IF q \in available THEN available \ {q} ELSE available \union {q}
    /\ UNCHANGED <<quiz, game, page>>

QuizNext ==
    \/ \E q \in Listed : BankChange(q)
    \/ \E g \in GameKey : Finish(g)
    \/ \E k \in QuizKey : create_quiz(k)
    \/ \E x \in Page :
          \/ \E k \in QuizKey : OpenQuiz(x, k) \/ OpenPreview(x, k) \/ duplicate(x, k) \/ add_question(x, k) \/ host(x, k)
          \/ \E q \in Listed : OpenAdd(x, q)
          \/ ClosePage(x) \/ save_preview(x) \/ rename(x) \/ archive(x) \/ restore(x)
          \/ \E n \in 1..MAX_QUESTIONS : remove(x, n) \/ move(x, n) \/ review(x, n)
          \/ \E g \in GameKey : OpenHost(x, g)

QuizSpec == QuizInit /\ [][QuizNext]_quizVars

-----------------------------------------------------------------------------
(* Properties.                                                             *)

\* Every list is one: distinct questions at the positions 1..n, at most MAX_QUESTIONS,
\* whatever was added, removed, moved and copied, from pages of any age.
ListsAreInOrder ==
    \A k \in QuizKey : LET items == quiz[k].items IN
          /\ items \subseteq {Entry(q, r, n) : q \in Listed, r \in UNION {RevisionsOf[q] : q \in Listed}, n \in 1..MAX_QUESTIONS}
          /\ {i.position : i \in items} = 1..Cardinality(items)
          /\ Cardinality(Questions(items)) = Cardinality(items)
          /\ ~quiz[k].exists => quiz[k] = NoQuiz

\* What is played is what was approved: a game asks the questions of a list as it was when
\* the hosting page was opened, in its order and each in the wording that was reviewed; any
\* change to the list since then, or to a question since its review, refuses the game.
HostedAsReviewed ==
    [][\A g \in GameKey : game'[g].questions # game[g].questions =>
          \E x \in Page : page[x].kind = "host" /\ page'[x] = Blank
             /\ \E k \in DOMAIN page[x].lists : page[x].lists[k] = game'[g].questions ]_quizVars

\* The wording was already reviewed in the list; the page shows it and the bank still has it.
Stood(k, i) == \E j \in quiz[k].items : j.question = i.question /\ j.reviewed = i.reviewed
Shows(x, i) ==
    /\ \E n \in DOMAIN page[x].shown : page[x].shown[n] = [question |-> i.question, revision |-> i.reviewed]
    /\ current[i.question] = i.reviewed

Others(items, i) == {j \in items : j.question # i.question}

\* The four ways for page x to bring a reviewed wording into list k, which becomes new.
Approves(x, k, i, new) ==
    \/ page[x].kind = "add" /\ Shows(x, i) /\ i.question \notin Questions(quiz[k].items)
    \/ page[x].kind = "preview" /\ page[x].quiz = k /\ ~quiz[k].exists /\ Shows(x, i)
    \/ page[x].kind = "quiz" /\ page[x].quiz = k /\ Shows(x, i) /\ Others(new, i) = Others(quiz[k].items, i)
    \/ page[x].kind = "quiz" /\ page[x].quiz # k /\ ~quiz[k].exists /\ Stood(page[x].quiz, i)

\* Approval is somebody's: a revision comes to stand as reviewed in a list only with a question
\* added from a page that shows it, with a preview of it saved as a new list, by a review of that
\* one item from its list's page, all while it is current; or with a copy of a list in which it
\* was already reviewed, whatever wording the page that asks for the copy shows.
ReviewedWasShown ==
    [][\A k \in QuizKey : \A i \in quiz'[k].items :
          \/ Stood(k, i)
          \/ \E x \in Page : page[x] # Blank /\ page'[x] = Blank /\ Approves(x, k, i, quiz'[k].items)
      ]_quizVars
=============================================================================
