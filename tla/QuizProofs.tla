----------------------------- MODULE QuizProofs -----------------------------
(***************************************************************************)
(* Proofs about the quizzes that teachers make.                            *)
(*                                                                         *)
(* Saved quizzes (SavedQuiz): lists stay lists, what is hosted is what was *)
(* approved, and approval comes from a page.  The pages are what makes     *)
(* this hard.  An edit names an item by what its page shows, and a page    *)
(* may be of any age; so the invariant says what an old page still knows:  *)
(* as long as the version it shows is that of the quiz, its contents are   *)
(* those of the quiz.                                                      *)
(*                                                                         *)
(* The generator (QuizGeneration): what it selects is what was asked for,  *)
(* and it finds one wherever there is one.  A path of the search moves     *)
(* flow and keeps every capacity; where there is no path, what the search  *)
(* has come near is a cut, and no choice of questions is larger than the   *)
(* flow across it.                                                         *)
(***************************************************************************)
EXTENDS SavedQuiz, QuizGeneration, FiniteSetTheorems, WellFoundedInduction, TLAPS

(***************************************************************************)
(* Saved quizzes.                                                          *)
(***************************************************************************)

Revisions == UNION {RevisionsOf[q] : q \in Listed}
Ref == [question : Listed, revision : Revisions]
ItemType == [question : Listed, reviewed : Revisions, position : 1..MAX_QUESTIONS]
Row == [exists : BOOLEAN, archived : BOOLEAN, version : Nat, items : SUBSET ItemType]

\* A list of n questions.
ListOf(items, n) ==
    /\ items \subseteq ItemType
    /\ {i.position : i \in items} = 1..n
    /\ \A i, j \in items : i.position = j.position \/ i.question = j.question => i = j

IsList(items) == \E n \in 0..MAX_QUESTIONS : ListOf(items, n)

RowOK(row) == row \in Row /\ IsList(row.items) /\ (~row.exists => row = NoQuiz)

\* The list asks, in its order, the n questions of shown.
InOrder(shown, items, n) ==
    /\ ListOf(items, n)
    /\ \A m \in 1..n : \E i \in items : i.position = m /\ i.question = shown[m].question

ApprovedList(items) ==
    [n \in 1..Cardinality(items) |->
        LET i == At(items, n) IN [question |-> i.question, revision |-> i.reviewed]]

QuizPageOK(p, rows) ==
    /\ p.quiz \in QuizKey /\ p.version \in Nat
    /\ rows[p.quiz].exists /\ p.version <= rows[p.quiz].version
    /\ \E n \in 0..MAX_QUESTIONS :
          /\ p.shown \in [1..n -> Ref]
          /\ p.version = rows[p.quiz].version => InOrder(p.shown, rows[p.quiz].items, n)

HostPageOK(p, rows) ==
    /\ p.game \in GameKey
    /\ DOMAIN p.versions \subseteq QuizKey /\ DOMAIN p.lists = DOMAIN p.versions
    /\ \A k \in DOMAIN p.versions :
          /\ rows[k].exists /\ p.versions[k] \in Nat /\ p.versions[k] <= rows[k].version
          /\ p.versions[k] = rows[k].version => p.lists[k] = ApprovedList(rows[k].items)

AddPageOK(p) == DOMAIN p.shown = {1} /\ p.shown[1] \in Ref /\ DOMAIN p.versions \subseteq QuizKey

PreviewOK(p) ==
    /\ p.quiz \in QuizKey
    /\ \E n \in 1..MAX_QUESTIONS :
          /\ p.shown \in [1..n -> Ref]
          /\ \A i, j \in 1..n : p.shown[i].question = p.shown[j].question => i = j

PageOK(p, rows) ==
    /\ p.kind = "quiz" => QuizPageOK(p, rows)
    /\ p.kind = "host" => HostPageOK(p, rows)
    /\ p.kind = "add" => AddPageOK(p)
    /\ p.kind = "preview" => PreviewOK(p)

BankOK == current \in [Listed -> Revisions] /\ available \subseteq Listed
RowsOK == quiz = [k \in QuizKey |-> quiz[k]] /\ \A k \in QuizKey : RowOK(quiz[k])
GamesOK == game \in [GameKey -> [open : BOOLEAN, questions : Seq(Ref)]]
PagesOK == page = [x \in Page |-> page[x]] /\ \A x \in Page : PageOK(page[x], quiz)

QuizInv == BankOK /\ RowsOK /\ GamesOK /\ PagesOK

-----------------------------------------------------------------------------
(* Lists.                                                                  *)

LEMMA RevisionOfIsOne == ASSUME NEW q \in Listed, NEW r \in RevisionsOf[q] PROVE r \in Revisions
BY DEF Revisions

LEMMA EntryIsItem ==
    ASSUME NEW q \in Listed, NEW r \in Revisions, NEW n \in 1..MAX_QUESTIONS
    PROVE  /\ Entry(q, r, n) \in ItemType
           /\ Entry(q, r, n).question = q /\ Entry(q, r, n).reviewed = r /\ Entry(q, r, n).position = n
BY DEF Entry, ItemType

LEMMA ItemIsEntry ==
    ASSUME NEW i \in ItemType
    PROVE  i \in {Entry(q, r, n) : q \in Listed, r \in Revisions, n \in 1..MAX_QUESTIONS}
<1>1. /\ i.question \in Listed /\ i.reviewed \in Revisions /\ i.position \in 1..MAX_QUESTIONS
      /\ i = Entry(i.question, i.reviewed, i.position)
  BY DEF ItemType, Entry
<1> QED BY <1>1

\* The positions of a list number its items, and its questions.
LEMMA ListIsNumbered ==
    ASSUME NEW items, NEW n \in Nat, ListOf(items, n)
    PROVE  /\ IsFiniteSet(items) /\ Cardinality(items) = n /\ Cardinality(Questions(items)) = n
           /\ \A m \in 1..n : At(items, m) \in items /\ At(items, m).position = m
           /\ \A i \in items : i.position \in 1..n /\ At(items, i.position) = i
<1>1. \A m \in 1..n : \E i \in items : i.position = m
  BY DEF ListOf
<1>2. \A m \in 1..n : At(items, m) \in items /\ At(items, m).position = m
  BY <1>1 DEF At
<1>3. \A i \in items : i.position \in 1..n
  BY DEF ListOf
<1>4. \A i \in items : At(items, i.position) = i
  BY <1>2, <1>3 DEF ListOf
<1>5. IsFiniteSet(1..n) /\ Cardinality(1..n) = n
  BY FS_Interval
<1>6. IsFiniteSet(items) /\ Cardinality(items) = n
  <2> DEFINE f == [m \in 1..n |-> At(items, m)]
  <2>1. f \in [1..n -> items]
    BY <1>2
  <2>2. \A a, b \in 1..n : f[a] = f[b] => a = b
    BY <1>2
  <2>3. \A i \in items : \E m \in 1..n : f[m] = i
    BY <1>3, <1>4
  <2>4. f \in Bijection(1..n, items)
    BY <2>1, <2>2, <2>3 DEF Bijection, Injection, Surjection, IsInjective
  <2> QED BY <1>5, <2>4, FS_Bijection DEF ExistsBijection
<1>7. Cardinality(Questions(items)) = n
  <2> DEFINE g == [m \in 1..n |-> At(items, m).question]
  <2>1. g \in [1..n -> Questions(items)]
    BY <1>2 DEF Questions
  <2>2. \A a, b \in 1..n : g[a] = g[b] => a = b
    BY <1>2 DEF ListOf
  <2>3. \A q \in Questions(items) : \E m \in 1..n : g[m] = q
    <3> SUFFICES ASSUME NEW i \in items PROVE \E m \in 1..n : g[m] = i.question
      BY DEF Questions
    <3> QED BY <1>3, <1>4
  <2>4. g \in Bijection(1..n, Questions(items))
    BY <2>1, <2>2, <2>3 DEF Bijection, Injection, Surjection, IsInjective
  <2> QED BY <1>5, <2>4, FS_Bijection DEF ExistsBijection
<1> QED BY <1>2, <1>3, <1>4, <1>6, <1>7

LEMMA EmptyIsList == ListOf({}, 0)
BY DEF ListOf

LEMMA NewItem ==
    ASSUME NEW i \in ItemType, NEW p \in 1..MAX_QUESTIONS
    PROVE  /\ [i EXCEPT !.position = p] \in ItemType
           /\ [i EXCEPT !.position = p].position = p /\ [i EXCEPT !.position = p].question = i.question
           /\ [i EXCEPT !.position = p].reviewed = i.reviewed
BY DEF ItemType

LEMMA ReviewedItem ==
    ASSUME NEW i \in ItemType, NEW r \in Revisions
    PROVE  /\ [i EXCEPT !.reviewed = r] \in ItemType
           /\ [i EXCEPT !.reviewed = r].position = i.position /\ [i EXCEPT !.reviewed = r].question = i.question
           /\ [i EXCEPT !.reviewed = r].reviewed = r
BY DEF ItemType

\* Taking a question out leaves a list, of the other questions as they were reviewed.
LEMMA RemovedIsList ==
    ASSUME NEW items, NEW n \in 0..MAX_QUESTIONS, ListOf(items, n), NEW q \in Questions(items), MAX_QUESTIONS \in Nat
    PROVE  /\ n - 1 \in 0..MAX_QUESTIONS /\ ListOf(Removed(items, q), n - 1)
           /\ \A a \in Removed(items, q) : \E i \in items : a.question = i.question /\ a.reviewed = i.reviewed
<1> DEFINE p == Item(items, q).position
           kept == {j \in items : j.question # q}
           at(i) == IF i.position > p THEN i.position - 1 ELSE i.position
           after == Removed(items, q)
<1>1. Item(items, q) \in items /\ Item(items, q).question = q
  BY DEF Questions, Item
<1>2. items \subseteq ItemType /\ p \in 1..n /\ n \in 1..MAX_QUESTIONS /\ n - 1 \in 0..MAX_QUESTIONS
  BY <1>1, ListIsNumbered DEF ListOf
<1>3. \A i \in kept : i \in ItemType /\ i.position \in 1..n /\ i.position # p
  BY <1>1, <1>2 DEF ListOf
<1>4. \A i \in kept : at(i) \in 1..n - 1 /\ at(i) \in 1..MAX_QUESTIONS
  <2>1. ASSUME NEW i \in kept PROVE at(i) \in 1..n - 1 /\ at(i) \in 1..MAX_QUESTIONS
    <3>1. i.position \in 1..n /\ i.position # p
      BY <1>3
    <3> QED BY <3>1, <1>2
  <2> QED BY <2>1
<1>5. after = {[i EXCEPT !.position = at(i)] : i \in kept}
  BY <1>3 DEF Removed, ItemType
<1>6. ASSUME NEW i \in kept
      PROVE  /\ [i EXCEPT !.position = at(i)] \in ItemType
             /\ [i EXCEPT !.position = at(i)].position = at(i)
             /\ [i EXCEPT !.position = at(i)].question = i.question
             /\ [i EXCEPT !.position = at(i)].reviewed = i.reviewed
  BY <1>3, <1>4, NewItem
<1>7. \A i, j \in kept : at(i) = at(j) => i = j
  <2>1. ASSUME NEW i \in kept, NEW j \in kept, at(i) = at(j) PROVE i = j
    <3>1. i.position \in 1..n /\ i.position # p /\ j.position \in 1..n /\ j.position # p
      BY <1>3
    <3>2. i.position = j.position
      BY <3>1, <2>1, <1>2
    <3> QED BY <3>2 DEF ListOf
  <2> QED BY <2>1
<1>8. \A m \in 1..n - 1 : \E i \in kept : at(i) = m
  <2>1. ASSUME NEW m \in 1..n - 1 PROVE \E i \in kept : at(i) = m
    <3> DEFINE w == IF m < p THEN m ELSE m + 1
    <3>1. w \in 1..n /\ w # p
      BY <1>2
    <3>2. At(items, w) \in items /\ At(items, w).position = w
      BY <3>1, ListIsNumbered
    <3>3. At(items, w).question # q
      BY <1>1, <3>1, <3>2 DEF ListOf
    <3>4. at(At(items, w)) = m
      BY <3>2, <1>2
    <3> QED BY <3>2, <3>3, <3>4
  <2> QED BY <2>1
<1> HIDE DEF at, p, kept
<1>9. after \subseteq ItemType
  BY <1>5, <1>6
<1>10. {a.position : a \in after} = 1..n - 1
  <2>1. ASSUME NEW a \in after PROVE a.position \in 1..n - 1
    <3>1. PICK i \in kept : a = [i EXCEPT !.position = at(i)]
      BY <1>5
    <3> QED BY <1>4, <1>6, <3>1
  <2>2. ASSUME NEW m \in 1..n - 1 PROVE \E a \in after : a.position = m
    <3>1. PICK i \in kept : at(i) = m
      BY <1>8
    <3>2. [i EXCEPT !.position = at(i)] \in after
      BY <1>5
    <3> QED BY <1>6, <3>1, <3>2
  <2> QED BY <2>1, <2>2
<1>11. kept \subseteq items
  BY DEF kept
<1>12. ASSUME NEW a \in after, NEW b \in after, a.position = b.position \/ a.question = b.question
      PROVE  a = b
  <2>1. PICK i \in kept, j \in kept : a = [i EXCEPT !.position = at(i)] /\ b = [j EXCEPT !.position = at(j)]
    BY <1>5
  <2>2. i = j
    BY <1>6, <1>7, <1>11, <1>12, <2>1 DEF ListOf
  <2> QED BY <2>1, <2>2
<1>13. ListOf(after, n - 1)
  BY <1>9, <1>10, <1>12 DEF ListOf
<1>14. \A a \in after : \E i \in items : a.question = i.question /\ a.reviewed = i.reviewed
  BY <1>5, <1>6, <1>11
<1> QED BY <1>2, <1>13, <1>14

\* Two neighbours change places, and every question keeps its review.
LEMMA SwappedIsList ==
    ASSUME NEW items, NEW n \in 0..MAX_QUESTIONS, ListOf(items, n), NEW c, NEW d, c \in 1..n, d \in 1..n,
           MAX_QUESTIONS \in Nat
    PROVE  /\ ListOf(Swapped(items, c, d), n)
           /\ \A a \in Swapped(items, c, d) : \E i \in items : a.question = i.question /\ a.reviewed = i.reviewed
<1> DEFINE to(p) == IF p = c THEN d ELSE IF p = d THEN c ELSE p
           after == Swapped(items, c, d)
<1>1. \A i \in items : i \in ItemType /\ i.position \in 1..n
  BY DEF ListOf
<1>2. \A p \in 1..n : to(p) \in 1..n /\ to(p) \in 1..MAX_QUESTIONS /\ to(to(p)) = p
  OBVIOUS
<1>3. after = {[i EXCEPT !.position = to(i.position)] : i \in items}
  BY <1>1 DEF Swapped, ItemType
<1> HIDE DEF to, after
<1>4. ASSUME NEW i \in items
      PROVE  /\ [i EXCEPT !.position = to(i.position)] \in ItemType
             /\ [i EXCEPT !.position = to(i.position)].position = to(i.position)
             /\ [i EXCEPT !.position = to(i.position)].question = i.question
             /\ [i EXCEPT !.position = to(i.position)].reviewed = i.reviewed
  BY <1>1, <1>2, NewItem
<1>5. after \subseteq ItemType
  BY <1>3, <1>4
<1>6. {a.position : a \in after} = 1..n
  <2>1. ASSUME NEW a \in after PROVE a.position \in 1..n
    <3>1. PICK i \in items : a = [i EXCEPT !.position = to(i.position)]
      BY <1>3
    <3> QED BY <1>1, <1>2, <1>4, <3>1
  <2>2. ASSUME NEW m \in 1..n PROVE \E a \in after : a.position = m
    <3>1. to(m) \in 1..n /\ to(to(m)) = m
      BY <1>2
    <3>2. At(items, to(m)) \in items /\ At(items, to(m)).position = to(m)
      BY <3>1, ListIsNumbered
    <3> DEFINE i == At(items, to(m))
    <3>3. [i EXCEPT !.position = to(i.position)] \in after
      BY <1>3, <3>2
    <3>4. [i EXCEPT !.position = to(i.position)].position = m
      BY <1>4, <3>1, <3>2
    <3> QED BY <3>3, <3>4
  <2> QED BY <2>1, <2>2
<1>7. ASSUME NEW a \in after, NEW b \in after, a.position = b.position \/ a.question = b.question
      PROVE  a = b
  <2>1. PICK i \in items, j \in items : a = [i EXCEPT !.position = to(i.position)] /\ b = [j EXCEPT !.position = to(j.position)]
    BY <1>3
  <2>2. i.position = j.position \/ i.question = j.question
    <3>1. CASE a.question = b.question
      BY <1>4, <2>1, <3>1
    <3>2. CASE a.position = b.position
      <4>1. to(i.position) = to(j.position)
        BY <1>4, <2>1, <3>2
      <4> QED BY <1>1, <1>2, <4>1
    <3> QED BY <1>7, <3>1, <3>2
  <2>3. i = j
    BY <2>2 DEF ListOf
  <2> QED BY <2>1, <2>3
<1>8. \A a \in after : \E i \in items : a.question = i.question /\ a.reviewed = i.reviewed
  BY <1>3, <1>4
<1>9. ListOf(after, n)
  BY <1>5, <1>6, <1>7 DEF ListOf
<1> QED BY <1>8, <1>9 DEF after

\* A review changes what stands as reviewed and nothing else.
Reviewed(items, s) == {IF i.question = s.question THEN [i EXCEPT !.reviewed = s.revision] ELSE i : i \in items}

LEMMA ReviewedIsList ==
    ASSUME NEW items, NEW n \in 0..MAX_QUESTIONS, ListOf(items, n), NEW s \in Ref
    PROVE  /\ ListOf(Reviewed(items, s), n)
           /\ \A a \in Reviewed(items, s) :
                 \/ a \in items
                 \/ a.question = s.question /\ a.reviewed = s.revision
<1> DEFINE to(i) == IF i.question = s.question THEN [i EXCEPT !.reviewed = s.revision] ELSE i
           after == Reviewed(items, s)
<1>1. \A i \in items : i \in ItemType /\ i.position \in 1..n
  BY DEF ListOf
<1>2. s.revision \in Revisions
  BY DEF Ref
<1>3. after = {to(i) : i \in items}
  BY DEF Reviewed
<1>4. ASSUME NEW i \in items
      PROVE  /\ to(i) \in ItemType /\ to(i).position = i.position /\ to(i).question = i.question
             /\ (to(i) = i \/ (i.question = s.question /\ to(i).reviewed = s.revision))
  BY <1>1, <1>2, ReviewedItem
<1> HIDE DEF to, after
<1>5. after \subseteq ItemType
  BY <1>3, <1>4
<1>6. {a.position : a \in after} = {i.position : i \in items}
  BY <1>3, <1>4
<1>7. ASSUME NEW a \in after, NEW b \in after, a.position = b.position \/ a.question = b.question
      PROVE  a = b
  <2>1. PICK i \in items, j \in items : a = to(i) /\ b = to(j)
    BY <1>3
  <2>2. i = j
    BY <1>4, <1>7, <2>1 DEF ListOf
  <2> QED BY <2>1, <2>2
<1>8. ListOf(after, n)
  BY <1>5, <1>6, <1>7 DEF ListOf
<1>9. \A a \in after : a \in items \/ (a.question = s.question /\ a.reviewed = s.revision)
  BY <1>3, <1>4
<1> QED BY <1>8, <1>9 DEF after

\* A new question goes to the end.
LEMMA AppendedIsList ==
    ASSUME NEW items, NEW n \in 0..MAX_QUESTIONS, ListOf(items, n), n < MAX_QUESTIONS, MAX_QUESTIONS \in Nat,
           NEW q \in Listed \ Questions(items), NEW r \in Revisions
    PROVE  ListOf(items \union {Entry(q, r, n + 1)}, n + 1)
<1> DEFINE e == Entry(q, r, n + 1)
<1>1. e \in ItemType /\ e.question = q /\ e.position = n + 1
  BY EntryIsItem
<1>2. \A i \in items : i \in ItemType /\ i.position \in 1..n /\ i.question # q
  BY DEF ListOf, Questions
<1> HIDE DEF e
<1>3. {i.position : i \in items \union {e}} = {i.position : i \in items} \union {n + 1}
  BY <1>1
<1>4. {i.position : i \in items} \union {n + 1} = 1..n + 1
  BY DEF ListOf
<1>5. ASSUME NEW i \in items \union {e}, NEW j \in items \union {e}, i.position = j.position \/ i.question = j.question
      PROVE  i = j
  <2>1. CASE i \in items /\ j \in items
    BY <1>5, <2>1 DEF ListOf
  <2>2. CASE i = e \/ j = e
    BY <1>1, <1>2, <1>5, <2>2
  <2> QED BY <2>1, <2>2
<1>6. ListOf(items \union {e}, n + 1)
  BY <1>1, <1>2, <1>3, <1>4, <1>5 DEF ListOf
<1> QED BY <1>6 DEF e

\* The list made from a preview.
Listing(shown) == {Entry(shown[n].question, shown[n].revision, n) : n \in DOMAIN shown}

LEMMA PreviewIsList ==
    ASSUME NEW n \in 1..MAX_QUESTIONS, NEW shown \in [1..n -> Ref], MAX_QUESTIONS \in Nat,
           \A i, j \in 1..n : shown[i].question = shown[j].question => i = j
    PROVE  /\ ListOf(Listing(shown), n)
           /\ \A a \in Listing(shown) : \E m \in DOMAIN shown : a.question = shown[m].question /\ a.reviewed = shown[m].revision
<1> DEFINE e(m) == Entry(shown[m].question, shown[m].revision, m)
           after == Listing(shown)
<1>1. after = {e(m) : m \in 1..n} /\ DOMAIN shown = 1..n
  BY DEF Listing
<1>2. ASSUME NEW m \in 1..n
      PROVE e(m) \in ItemType /\ e(m).position = m /\ e(m).question = shown[m].question /\ e(m).reviewed = shown[m].revision
  <2>1. shown[m].question \in Listed /\ shown[m].revision \in Revisions /\ m \in 1..MAX_QUESTIONS
    BY DEF Ref
  <2> QED BY <2>1, EntryIsItem
<1> HIDE DEF e, after
<1>3. {a.position : a \in after} = 1..n
  BY <1>1, <1>2
<1>4. \A a, b \in after : a.position = b.position \/ a.question = b.question => a = b
  BY <1>1, <1>2
<1>5. ListOf(after, n)
  BY <1>1, <1>2, <1>3, <1>4 DEF ListOf
<1> QED BY <1>1, <1>2, <1>5 DEF after

-----------------------------------------------------------------------------
(* Pages.                                                                  *)

LEMMA OneOrMore == MAX_QUESTIONS \in Nat \ {0}
BY SavedQuizAssumption

LEMMA BlankIsOK == ASSUME NEW rows PROVE PageOK(Blank, rows)
BY DEF PageOK, Blank

\* No quiz disappears, and none changes at the same version.
Later(rows, rows2) ==
    \A k \in QuizKey : rows[k].exists =>
        /\ rows2[k].exists /\ rows[k].version \in Nat /\ rows2[k].version \in Nat
        /\ rows2[k] = rows[k] \/ rows[k].version < rows2[k].version

\* What a page shows stays true of the version it shows.
LEMMA PageSurvives ==
    ASSUME NEW rows, NEW rows2, NEW p, PageOK(p, rows), Later(rows, rows2)
    PROVE  PageOK(p, rows2)
<1>1. ASSUME p.kind = "quiz" PROVE QuizPageOK(p, rows2)
  <2>1. QuizPageOK(p, rows)
    BY <1>1 DEF PageOK
  <2> DEFINE k == p.quiz
  <2>2. k \in QuizKey /\ p.version \in Nat /\ rows[k].exists /\ p.version <= rows[k].version
    BY <2>1 DEF QuizPageOK
  <2>3. /\ rows2[k].exists /\ rows[k].version \in Nat /\ rows2[k].version \in Nat
        /\ rows2[k] = rows[k] \/ rows[k].version < rows2[k].version
    BY <2>2 DEF Later
  <2>4. p.version <= rows2[k].version
    BY <2>2, <2>3
  <2>5. p.version = rows2[k].version => rows2[k] = rows[k]
    BY <2>2, <2>3
  <2>6. PICK n \in 0..MAX_QUESTIONS :
          /\ p.shown \in [1..n -> Ref]
          /\ p.version = rows[k].version => InOrder(p.shown, rows[k].items, n)
    BY <2>1 DEF QuizPageOK
  <2>7. p.version = rows2[k].version => InOrder(p.shown, rows2[k].items, n)
    BY <2>5, <2>6
  <2> QED BY <2>2, <2>3, <2>4, <2>6, <2>7 DEF QuizPageOK
<1>2. ASSUME p.kind = "host" PROVE HostPageOK(p, rows2)
  <2>1. HostPageOK(p, rows)
    BY <1>2 DEF PageOK
  <2>2. ASSUME NEW k \in DOMAIN p.versions
        PROVE  /\ rows2[k].exists /\ p.versions[k] \in Nat /\ p.versions[k] <= rows2[k].version
               /\ p.versions[k] = rows2[k].version => p.lists[k] = ApprovedList(rows2[k].items)
    <3>1. /\ k \in QuizKey /\ rows[k].exists /\ p.versions[k] \in Nat /\ p.versions[k] <= rows[k].version
          /\ p.versions[k] = rows[k].version => p.lists[k] = ApprovedList(rows[k].items)
      BY <2>1 DEF HostPageOK
    <3>2. /\ rows2[k].exists /\ rows[k].version \in Nat /\ rows2[k].version \in Nat
          /\ rows2[k] = rows[k] \/ rows[k].version < rows2[k].version
      BY <3>1 DEF Later
    <3>3. p.versions[k] = rows2[k].version => rows2[k] = rows[k]
      BY <3>1, <3>2
    <3>4. p.versions[k] <= rows2[k].version
      BY <3>1, <3>2
    <3> QED BY <3>1, <3>2, <3>3, <3>4
  <2> QED BY <2>1, <2>2 DEF HostPageOK
<1> QED BY <1>1, <1>2 DEF PageOK

LEMMA PagesSurvive ==
    ASSUME PagesOK, Later(quiz, quiz'), NEW x, page' = page \/ page' = [page EXCEPT ![x] = Blank]
    PROVE  PagesOK'
<1>1. page' = [y \in Page |-> page'[y]]
  BY DEF PagesOK
<1>2. ASSUME NEW y \in Page PROVE PageOK(page'[y], quiz')
  <2>1. PageOK(page[y], quiz')
    BY PageSurvives DEF PagesOK
  <2>2. page'[y] = page[y] \/ page'[y] = Blank
    BY DEF PagesOK
  <2> QED BY <2>1, <2>2, BlankIsOK
<1> QED BY <1>1, <1>2 DEF PagesOK

LEMMA SameIsLater == ASSUME RowsOK PROVE Later(quiz, quiz)
BY DEF RowsOK, RowOK, Row, Later

\* A page opened on the tables as they are.
LEMMA OpenedPage ==
    ASSUME QuizInv, NEW x \in Page, NEW p, PageOK(p, quiz), OpenPage(x, p)
    PROVE  QuizInv'
<1>1. BankOK' /\ RowsOK' /\ GamesOK'
  BY DEF QuizInv, OpenPage, BankOK, RowsOK, RowOK, GamesOK
<1>2. page' = [y \in Page |-> page'[y]] /\ \A y \in Page : page'[y] = IF y = x THEN p ELSE page[y]
  BY DEF OpenPage, QuizInv, PagesOK
<1>3. quiz' = quiz /\ \A y \in Page : PageOK(page'[y], quiz)
  BY <1>2 DEF OpenPage, QuizInv, PagesOK
<1>4. PagesOK'
  BY <1>2, <1>3 DEF PagesOK
<1> QED BY <1>1, <1>4 DEF QuizInv

LEMMA RowIsList ==
    ASSUME RowsOK, NEW k \in QuizKey
    PROVE  /\ quiz[k] \in Row
           /\ \E n \in 0..MAX_QUESTIONS : ListOf(quiz[k].items, n)
BY DEF RowsOK, RowOK, IsList

LEMMA RefIsKnown == ASSUME BankOK, NEW q \in Listed PROVE [question |-> q, revision |-> current[q]] \in Ref
BY DEF BankOK, Ref

LEMMA QuizPageOpens ==
    ASSUME QuizInv, NEW x \in Page, NEW k \in QuizKey, OpenQuiz(x, k)
    PROVE  QuizInv'
<1> DEFINE p == [kind |-> "quiz", quiz |-> k, version |-> quiz[k].version, shown |-> Shown(k)]
<1>1. PICK n \in 0..MAX_QUESTIONS : ListOf(quiz[k].items, n)
  BY RowIsList DEF QuizInv
<1>2. /\ n \in Nat /\ Cardinality(quiz[k].items) = n
      /\ \A m \in 1..n : At(quiz[k].items, m) \in quiz[k].items /\ At(quiz[k].items, m).position = m
  BY <1>1, ListIsNumbered, OneOrMore
<1>3. quiz[k].items \subseteq ItemType
  BY <1>1 DEF ListOf
<1>4. Shown(k) = [m \in 1..n |-> [question |-> At(quiz[k].items, m).question,
                                  revision |-> current[At(quiz[k].items, m).question]]]
  BY <1>2 DEF Shown
<1>5. \A m \in 1..n : At(quiz[k].items, m).question \in Listed
  BY <1>2, <1>3 DEF ItemType
<1>6. \A m \in 1..n : [question |-> At(quiz[k].items, m).question,
                       revision |-> current[At(quiz[k].items, m).question]] \in Ref
  BY <1>5, RefIsKnown DEF QuizInv
<1>7. Shown(k) \in [1..n -> Ref]
  BY <1>4, <1>6
<1>8. \A m \in 1..n : Shown(k)[m].question = At(quiz[k].items, m).question
  BY <1>4
<1>9. InOrder(Shown(k), quiz[k].items, n)
  BY <1>1, <1>2, <1>8 DEF InOrder
<1>10. p.kind = "quiz" /\ p.quiz = k /\ p.version = quiz[k].version /\ p.shown = Shown(k)
  OBVIOUS
<1>11. quiz[k].exists /\ quiz[k].version \in Nat /\ OpenPage(x, p)
  BY RowIsList DEF OpenQuiz, Row, QuizInv
<1> HIDE DEF p
<1>12. QuizPageOK(p, quiz)
  BY <1>7, <1>9, <1>10, <1>11 DEF QuizPageOK
<1>13. PageOK(p, quiz)
  BY <1>10, <1>12 DEF PageOK
<1> QED BY <1>11, <1>13, OpenedPage

LEMMA AddPageOpens ==
    ASSUME QuizInv, NEW x \in Page, NEW q \in Listed, OpenAdd(x, q)
    PROVE  QuizInv'
<1> DEFINE p == [kind |-> "add", shown |-> <<[question |-> q, revision |-> current[q]]>>,
                 versions |-> [k \in Offered |-> quiz[k].version]]
<1>1. /\ p.kind = "add" /\ DOMAIN p.shown = {1} /\ p.shown[1] = [question |-> q, revision |-> current[q]]
      /\ DOMAIN p.versions = Offered
  OBVIOUS
<1>2. OpenPage(x, p)
  BY DEF OpenAdd
<1> HIDE DEF p
<1>3. AddPageOK(p)
  BY <1>1, RefIsKnown DEF AddPageOK, Offered, QuizInv
<1> QED BY <1>1, <1>2, <1>3, OpenedPage DEF PageOK

LEMMA HostPageOpens ==
    ASSUME QuizInv, NEW x \in Page, NEW g \in GameKey, OpenHost(x, g)
    PROVE  QuizInv'
<1> DEFINE p == [kind |-> "host", game |-> g, versions |-> [k \in Offered |-> quiz[k].version],
                 lists |-> [k \in Offered |-> Approved(k)]]
<1>1. /\ p.kind = "host" /\ p.game = g /\ DOMAIN p.versions = Offered /\ DOMAIN p.lists = Offered
      /\ \A k \in Offered : p.versions[k] = quiz[k].version /\ p.lists[k] = Approved(k)
  OBVIOUS
<1>2. OpenPage(x, p)
  BY DEF OpenHost
<1> HIDE DEF p
<1>3. \A k \in Offered : k \in QuizKey /\ quiz[k].exists /\ quiz[k].version \in Nat
  BY DEF Offered, QuizInv, RowsOK, RowOK, Row
<1>4. \A k \in QuizKey : Approved(k) = ApprovedList(quiz[k].items)
  BY DEF Approved, ApprovedList
<1>5. HostPageOK(p, quiz)
  BY <1>1, <1>3, <1>4 DEF HostPageOK
<1> QED BY <1>1, <1>2, <1>5, OpenedPage DEF PageOK

LEMMA PreviewOpens ==
    ASSUME QuizInv, NEW x \in Page, NEW k \in QuizKey, OpenPreview(x, k)
    PROVE  QuizInv'
<1>0. PICK n \in 1..MAX_QUESTIONS : \E f \in [1..n -> available] :
         /\ f \in Previewed /\ \A i, j \in 1..n : f[i] = f[j] => i = j
         /\ OpenPage(x, [kind |-> "preview", quiz |-> k,
                         shown |-> [i \in 1..n |-> [question |-> f[i], revision |-> current[f[i]]]]])
  BY DEF OpenPreview
<1>1. PICK f \in [1..n -> available] :
         /\ \A i, j \in 1..n : f[i] = f[j] => i = j
         /\ OpenPage(x, [kind |-> "preview", quiz |-> k,
                         shown |-> [i \in 1..n |-> [question |-> f[i], revision |-> current[f[i]]]]])
  BY <1>0
<1> DEFINE s == [i \in 1..n |-> [question |-> f[i], revision |-> current[f[i]]]]
           p == [kind |-> "preview", quiz |-> k, shown |-> s]
<1>2. \A i \in 1..n : f[i] \in Listed
  BY DEF QuizInv, BankOK
<1>3. s \in [1..n -> Ref]
  BY <1>2, RefIsKnown DEF QuizInv
<1>4. \A i \in 1..n : s[i].question = f[i]
  OBVIOUS
<1>5. p.kind = "preview" /\ p.quiz = k /\ p.shown = s /\ OpenPage(x, p)
  BY <1>1
<1> HIDE DEF p, s
<1>6. PreviewOK(p)
  BY <1>1, <1>3, <1>4, <1>5 DEF PreviewOK
<1> QED BY <1>5, <1>6, OpenedPage DEF PageOK

-----------------------------------------------------------------------------
(* What a step does to the lists.  Every edit and every creation is of one *)
(* of two forms.                                                           *)

\* Where the review of an entry of the list k, which becomes new, comes from when page x
\* is submitted.
Sourced(x, k, a, new) == Stood(k, a) \/ Approves(x, k, a, new)

Edit(x, k, new) ==
    /\ page[x].kind # "none"
    /\ quiz[k].exists /\ new \in Row /\ new.exists /\ new.version = quiz[k].version /\ IsList(new.items)
    /\ \A a \in new.items : Sourced(x, k, a, new.items)
    /\ Touch(k, new)
    /\ page' = [page EXCEPT ![x] = Blank]

Creation(k, items) ==
    /\ IsList(items)
    /\ Create(k, items)

LEMMA TouchedRow ==
    ASSUME NEW row \in Row
    PROVE  /\ [row EXCEPT !.version = row.version + 1] \in Row
           /\ [row EXCEPT !.version = row.version + 1].version = row.version + 1
           /\ [row EXCEPT !.version = row.version + 1].items = row.items
           /\ [row EXCEPT !.version = row.version + 1].exists = row.exists
BY DEF Row

LEMMA RowWithItems ==
    ASSUME NEW row \in Row, NEW items \in SUBSET ItemType
    PROVE  /\ [row EXCEPT !.items = items] \in Row
           /\ [row EXCEPT !.items = items].version = row.version
           /\ [row EXCEPT !.items = items].items = items
           /\ [row EXCEPT !.items = items].exists = row.exists
BY DEF Row

LEMMA RowWithArchived ==
    ASSUME NEW row \in Row, NEW archived \in BOOLEAN
    PROVE  /\ [row EXCEPT !.archived = archived] \in Row
           /\ [row EXCEPT !.archived = archived].version = row.version
           /\ [row EXCEPT !.archived = archived].items = row.items
           /\ [row EXCEPT !.archived = archived].exists = row.exists
BY DEF Row

LEMMA EditKeeps ==
    ASSUME QuizInv, NEW x \in Page, NEW k \in QuizKey, NEW new, Edit(x, k, new)
    PROVE  QuizInv' /\ quiz'[k].items = new.items /\ \A l \in QuizKey \ {k} : quiz'[l] = quiz[l]
<1> DEFINE row == [new EXCEPT !.version = new.version + 1]
<1>1. quiz' = [quiz EXCEPT ![k] = row] /\ UNCHANGED <<current, available, game>>
  BY DEF Edit, Touch
<1>2. new \in Row /\ new.exists /\ quiz[k].exists /\ new.version = quiz[k].version /\ IsList(new.items)
  BY DEF Edit
<1>3. row \in Row /\ row.version = new.version + 1 /\ row.items = new.items /\ row.exists
  BY <1>2, TouchedRow
<1> HIDE DEF row
<1>4. RowOK(row)
  BY <1>2, <1>3 DEF RowOK
<1>5. /\ quiz' = [l \in QuizKey |-> quiz'[l]]
      /\ \A l \in QuizKey : quiz'[l] = IF l = k THEN row ELSE quiz[l]
  BY <1>1 DEF QuizInv, RowsOK
<1>6. RowsOK'
  BY <1>4, <1>5 DEF QuizInv, RowsOK
<1>7. Later(quiz, quiz')
  <2>1. SUFFICES ASSUME NEW l \in QuizKey, quiz[l].exists
                 PROVE  /\ quiz'[l].exists /\ quiz[l].version \in Nat /\ quiz'[l].version \in Nat
                        /\ quiz'[l] = quiz[l] \/ quiz[l].version < quiz'[l].version
    BY DEF Later
  <2>2. quiz[l].version \in Nat /\ quiz[k].version \in Nat /\ row.version \in Nat
    BY <1>3 DEF QuizInv, RowsOK, RowOK, Row
  <2>3. CASE l = k
    BY <1>2, <1>3, <1>5, <2>2, <2>3
  <2>4. CASE l # k
    BY <1>5, <2>1, <2>2, <2>4
  <2> QED BY <2>3, <2>4
<1>8. PagesOK'
  BY <1>7, PagesSurvive DEF QuizInv, Edit
<1>9. BankOK' /\ GamesOK'
  BY <1>1 DEF QuizInv, BankOK, GamesOK
<1> QED BY <1>3, <1>5, <1>6, <1>8, <1>9 DEF QuizInv

LEMMA CreationKeeps ==
    ASSUME QuizInv, NEW x, NEW k \in QuizKey, NEW items, Creation(k, items),
           page' = page \/ page' = [page EXCEPT ![x] = Blank]
    PROVE  QuizInv' /\ quiz'[k].items = items /\ \A l \in QuizKey \ {k} : quiz'[l] = quiz[l]
<1> DEFINE row == Fresh(items)
<1>1. quiz' = [quiz EXCEPT ![k] = row] /\ ~quiz[k].exists /\ UNCHANGED <<current, available, game>>
  BY DEF Creation, Create
<1>2. IsList(items) /\ items \subseteq ItemType
  BY DEF Creation, IsList, ListOf
<1>3. row \in Row /\ row.items = items /\ row.exists
  BY <1>2 DEF Row, Fresh
<1> HIDE DEF row
<1>4. RowOK(row)
  BY <1>2, <1>3 DEF RowOK
<1>5. /\ quiz' = [l \in QuizKey |-> quiz'[l]]
      /\ \A l \in QuizKey : quiz'[l] = IF l = k THEN row ELSE quiz[l]
  BY <1>1 DEF QuizInv, RowsOK
<1>6. RowsOK'
  BY <1>4, <1>5 DEF QuizInv, RowsOK
<1>7. Later(quiz, quiz')
  <2>1. SUFFICES ASSUME NEW l \in QuizKey, quiz[l].exists
                 PROVE  quiz'[l] = quiz[l] /\ quiz[l].version \in Nat
    BY DEF Later
  <2> QED BY <1>1, <1>5, <2>1 DEF QuizInv, RowsOK, RowOK, Row
<1>8. PagesOK'
  BY <1>7, PagesSurvive DEF QuizInv
<1>9. BankOK' /\ GamesOK'
  BY <1>1 DEF QuizInv, BankOK, GamesOK
<1> QED BY <1>3, <1>5, <1>6, <1>8, <1>9 DEF QuizInv

-----------------------------------------------------------------------------
(* The operations are of these forms.                                      *)

LEMMA QuizPage ==
    ASSUME QuizInv, NEW x \in Page, page[x].kind = "quiz"
    PROVE  QuizPageOK(page[x], quiz) /\ page[x].quiz \in QuizKey
BY DEF QuizInv, PagesOK, PageOK, QuizPageOK

\* A page at the version of its quiz shows the questions of the list, and no others.
LEMMA PageShowsList ==
    ASSUME QuizInv, NEW x \in Page, page[x].kind = "quiz", page[x].version = Its(x).version
    PROVE  \E n \in 0..MAX_QUESTIONS :
              /\ ListOf(Its(x).items, n) /\ DOMAIN page[x].shown = 1..n
              /\ \A m \in 1..n : page[x].shown[m] \in Ref /\ page[x].shown[m].question \in Questions(Its(x).items)
<1>1. PICK n \in 0..MAX_QUESTIONS : page[x].shown \in [1..n -> Ref] /\ InOrder(page[x].shown, Its(x).items, n)
  BY QuizPage DEF QuizPageOK, Its
<1> QED BY <1>1 DEF InOrder, Questions

\* An edit from a quiz page: what is left to show is that the new list is one.
LEMMA UpdateIsEdit ==
    ASSUME QuizInv, NEW x \in Page, NEW new \in Row, NEW archived, update_quiz(x, new, archived),
           new.exists = Its(x).exists, new.version = Its(x).version, IsList(new.items),
           \A a \in new.items : Sourced(x, page[x].quiz, a, new.items)
    PROVE  page[x].quiz \in QuizKey /\ Edit(x, page[x].quiz, new)
BY QuizPage DEF update_quiz, Checked, Its, Edit

LEMMA KeptIsSourced ==
    ASSUME NEW x, NEW k, NEW a, NEW new,
           NEW i \in quiz[k].items, a.question = i.question, a.reviewed = i.reviewed
    PROVE  Sourced(x, k, a, new)
BY DEF Sourced, Stood

LEMMA ItsRow ==
    ASSUME QuizInv, NEW x \in Page, page[x].kind = "quiz"
    PROVE  Its(x) \in Row /\ IsList(Its(x).items) /\ Its(x) = quiz[page[x].quiz] /\ page[x].quiz \in QuizKey
BY QuizPage DEF QuizInv, RowsOK, RowOK, Its

LEMMA RenameIsEdit ==
    ASSUME QuizInv, NEW x \in Page, rename(x)
    PROVE  page[x].quiz \in QuizKey /\ \E new : Edit(x, page[x].quiz, new)
<1>1. page[x].kind = "quiz" /\ update_quiz(x, Its(x), FALSE)
  BY DEF rename, update_quiz
<1>2. Its(x) \in Row /\ IsList(Its(x).items) /\ Its(x) = quiz[page[x].quiz]
  BY <1>1, ItsRow
<1>3. \A a \in Its(x).items : Sourced(x, page[x].quiz, a, Its(x).items)
  BY <1>2, KeptIsSourced
<1> QED BY <1>1, <1>2, <1>3, UpdateIsEdit

LEMMA ArchivingIsEdit ==
    ASSUME QuizInv, NEW x \in Page, archive(x) \/ restore(x)
    PROVE  page[x].quiz \in QuizKey /\ \E new : Edit(x, page[x].quiz, new)
<1>1. PICK archived \in BOOLEAN : update_quiz(x, [Its(x) EXCEPT !.archived = archived], ~archived)
  BY DEF archive, restore
<1>2. page[x].kind = "quiz"
  BY <1>1 DEF update_quiz
<1>3. Its(x) \in Row /\ IsList(Its(x).items) /\ Its(x) = quiz[page[x].quiz]
  BY <1>2, ItsRow
<1> DEFINE new == [Its(x) EXCEPT !.archived = archived]
<1>4. new \in Row /\ new.version = Its(x).version /\ new.items = Its(x).items /\ new.exists = Its(x).exists
  BY <1>3, RowWithArchived
<1>5. update_quiz(x, new, ~archived)
  BY <1>1
<1> HIDE DEF new
<1>6. \A a \in new.items : Sourced(x, page[x].quiz, a, new.items)
  BY <1>3, <1>4, KeptIsSourced
<1> QED BY <1>3, <1>4, <1>5, <1>6, UpdateIsEdit

\* The same for edits of the items.
LEMMA ItemsEdit ==
    ASSUME QuizInv, NEW x \in Page, NEW items, IsList(items),
           update_quiz(x, [Its(x) EXCEPT !.items = items], FALSE),
           \A a \in items : Sourced(x, page[x].quiz, a, items)
    PROVE  page[x].quiz \in QuizKey /\ \E new : Edit(x, page[x].quiz, new)
<1>1. page[x].kind = "quiz"
  BY DEF update_quiz
<1>2. Its(x) \in Row /\ items \subseteq ItemType
  BY <1>1, ItsRow DEF IsList, ListOf
<1> DEFINE new == [Its(x) EXCEPT !.items = items]
<1>3. new \in Row /\ new.version = Its(x).version /\ new.items = items /\ new.exists = Its(x).exists
  BY <1>2, RowWithItems
<1>4. update_quiz(x, new, FALSE)
  OBVIOUS
<1> HIDE DEF new
<1> QED BY <1>3, <1>4, UpdateIsEdit

LEMMA RemoveIsEdit ==
    ASSUME QuizInv, NEW x \in Page, NEW n \in 1..MAX_QUESTIONS, remove(x, n)
    PROVE  page[x].quiz \in QuizKey /\ \E new : Edit(x, page[x].quiz, new)
<1> DEFINE q == page[x].shown[n].question
           items == Removed(Its(x).items, q)
<1>1. /\ page[x].kind = "quiz" /\ n \in DOMAIN page[x].shown
      /\ update_quiz(x, [Its(x) EXCEPT !.items = items], FALSE)
  BY DEF remove
<1>2. page[x].version = Its(x).version /\ Its(x) = quiz[page[x].quiz]
  BY <1>1 DEF update_quiz, Checked, Its
<1>3. PICK c \in 0..MAX_QUESTIONS : ListOf(Its(x).items, c) /\ q \in Questions(Its(x).items)
  BY <1>1, <1>2, PageShowsList
<1> HIDE DEF q
<1>4. /\ c - 1 \in 0..MAX_QUESTIONS /\ ListOf(items, c - 1)
      /\ \A a \in items : \E i \in Its(x).items : a.question = i.question /\ a.reviewed = i.reviewed
  BY <1>3, RemovedIsList, OneOrMore
<1> HIDE DEF items
<1>5. \A a \in items : Sourced(x, page[x].quiz, a, items)
  BY <1>2, <1>4, KeptIsSourced
<1> QED BY <1>1, <1>4, <1>5, ItemsEdit DEF IsList

LEMMA MoveIsEdit ==
    ASSUME QuizInv, NEW x \in Page, NEW n \in 1..MAX_QUESTIONS, move(x, n)
    PROVE  page[x].quiz \in QuizKey /\ \E new : Edit(x, page[x].quiz, new)
<1> DEFINE items == Swapped(Its(x).items, n, n + 1)
<1>1. /\ page[x].kind = "quiz" /\ {n, n + 1} \subseteq DOMAIN page[x].shown
      /\ update_quiz(x, [Its(x) EXCEPT !.items = items], FALSE)
  BY DEF move
<1>2. page[x].version = Its(x).version /\ Its(x) = quiz[page[x].quiz]
  BY <1>1 DEF update_quiz, Checked, Its
<1>3. PICK c \in 0..MAX_QUESTIONS : ListOf(Its(x).items, c) /\ n \in 1..c /\ n + 1 \in 1..c
  BY <1>1, <1>2, PageShowsList
<1>4. /\ ListOf(items, c)
      /\ \A a \in items : \E i \in Its(x).items : a.question = i.question /\ a.reviewed = i.reviewed
  BY <1>3, SwappedIsList, OneOrMore
<1> HIDE DEF items
<1>5. \A a \in items : Sourced(x, page[x].quiz, a, items)
  BY <1>2, <1>4, KeptIsSourced
<1> QED BY <1>1, <1>3, <1>4, <1>5, ItemsEdit DEF IsList

\* A review is of one item.
LEMMA OthersStay ==
    ASSUME NEW items \in SUBSET ItemType, NEW s \in Ref, NEW a, a.question = s.question
    PROVE  Others(Reviewed(items, s), a) = Others(items, a)
BY DEF Others, Reviewed, ItemType, Ref

LEMMA ReviewIsEdit ==
    ASSUME QuizInv, NEW x \in Page, NEW n \in 1..MAX_QUESTIONS, review(x, n)
    PROVE  page[x].quiz \in QuizKey /\ \E new : Edit(x, page[x].quiz, new)
<1> DEFINE s == page[x].shown[n]
           items == Reviewed(Its(x).items, s)
<1>1. /\ page[x].kind = "quiz" /\ n \in DOMAIN page[x].shown
      /\ current[s.question] = s.revision
      /\ update_quiz(x, [Its(x) EXCEPT !.items = items], FALSE)
  BY DEF review, Reviewed
<1>2. page[x].version = Its(x).version /\ Its(x) = quiz[page[x].quiz]
  BY <1>1 DEF update_quiz, Checked, Its
<1>3. PICK c \in 0..MAX_QUESTIONS : ListOf(Its(x).items, c) /\ s \in Ref
  BY <1>1, <1>2, PageShowsList
<1>4. /\ ListOf(items, c)
      /\ \A a \in items :
            \/ a \in Its(x).items
            \/ a.question = s.question /\ a.reviewed = s.revision
  BY <1>3, ReviewedIsList
<1>5. s = [question |-> s.question, revision |-> s.revision]
  BY <1>3 DEF Ref
<1>6. ASSUME NEW a \in items PROVE Sourced(x, page[x].quiz, a, items)
  <2>1. CASE a \in Its(x).items
    BY <1>2, <2>1, KeptIsSourced
  <2>2. CASE a.question = s.question /\ a.reviewed = s.revision
    <3>1. Others(items, a) = Others(quiz[page[x].quiz].items, a)
      BY <1>2, <1>3, <2>2, OthersStay DEF ListOf
    <3>2. Shows(x, a)
      BY <1>1, <1>5, <2>2 DEF Shows
    <3> QED BY <1>1, <3>1, <3>2 DEF Sourced, Approves
  <2> QED BY <1>4, <2>1, <2>2
<1> HIDE DEF items
<1> QED BY <1>1, <1>3, <1>4, <1>6, ItemsEdit DEF IsList

LEMMA AddIsEdit ==
    ASSUME QuizInv, NEW x \in Page, NEW k \in QuizKey, add_question(x, k)
    PROVE  \E new : Edit(x, k, new)
<1> DEFINE s == page[x].shown[1]
           items == quiz[k].items \union {Entry(s.question, s.revision, Cardinality(quiz[k].items) + 1)}
           new == [quiz[k] EXCEPT !.items = items]
<1>1. /\ page[x].kind = "add" /\ quiz[k].exists
      /\ s.question \notin Questions(quiz[k].items) /\ current[s.question] = s.revision
      /\ Cardinality(quiz[k].items) < MAX_QUESTIONS
      /\ Touch(k, new) /\ page' = [page EXCEPT ![x] = Blank]
  BY DEF add_question, Checked
<1>2. PICK n \in 0..MAX_QUESTIONS : ListOf(quiz[k].items, n)
  BY RowIsList DEF QuizInv
<1>3. Cardinality(quiz[k].items) = n /\ n < MAX_QUESTIONS
  BY <1>1, <1>2, ListIsNumbered, OneOrMore
<1>4. DOMAIN page[x].shown = {1} /\ s \in Ref
  BY <1>1 DEF QuizInv, PagesOK, PageOK, AddPageOK
<1>5. s.question \in Listed /\ s.revision \in Revisions /\ s = [question |-> s.question, revision |-> s.revision]
  BY <1>4 DEF Ref
<1>6. ListOf(items, n + 1) /\ n + 1 \in 0..MAX_QUESTIONS
  BY <1>1, <1>2, <1>3, <1>5, AppendedIsList, OneOrMore
<1>7. ASSUME NEW a \in items PROVE Sourced(x, k, a, items)
  <2>1. CASE a \in quiz[k].items
    BY <2>1, KeptIsSourced
  <2>2. CASE a = Entry(s.question, s.revision, n + 1)
    <3>1. a.question = s.question /\ a.reviewed = s.revision
      BY <2>2 DEF Entry
    <3>2. Shows(x, a)
      BY <1>1, <1>4, <1>5, <3>1 DEF Shows
    <3> QED BY <1>1, <3>1, <3>2 DEF Sourced, Approves
  <2> QED BY <1>3, <2>1, <2>2
<1>8. quiz[k] \in Row /\ items \subseteq ItemType
  BY <1>6, RowIsList DEF QuizInv, ListOf
<1> HIDE DEF items
<1>9. new \in Row /\ new.version = quiz[k].version /\ new.items = items /\ new.exists = quiz[k].exists
  BY <1>8, RowWithItems
<1> HIDE DEF new
<1> QED BY <1>1, <1>6, <1>7, <1>9 DEF Edit, IsList

LEMMA PreviewIsCreation ==
    ASSUME QuizInv, NEW x \in Page, save_preview(x)
    PROVE  /\ page[x].quiz \in QuizKey /\ Creation(page[x].quiz, Listing(page[x].shown))
           /\ page' = [page EXCEPT ![x] = Blank]
           /\ \A a \in Listing(page[x].shown) : Sourced(x, page[x].quiz, a, Listing(page[x].shown))
<1> DEFINE shown == page[x].shown
<1>1. /\ page[x].kind = "preview" /\ Create(page[x].quiz, Listing(shown))
      /\ \A n \in DOMAIN shown : shown[n].revision = current[shown[n].question]
      /\ page' = [page EXCEPT ![x] = Blank]
  BY DEF save_preview, Listing
<1>2. PreviewOK(page[x])
  BY <1>1 DEF QuizInv, PagesOK, PageOK
<1>3. PICK n \in 1..MAX_QUESTIONS :
          /\ shown \in [1..n -> Ref]
          /\ \A i, j \in 1..n : shown[i].question = shown[j].question => i = j
  BY <1>2 DEF PreviewOK
<1>4. /\ ListOf(Listing(shown), n)
      /\ \A a \in Listing(shown) : \E m \in DOMAIN shown : a.question = shown[m].question /\ a.reviewed = shown[m].revision
  BY <1>3, PreviewIsList, OneOrMore
<1>5. ASSUME NEW a \in Listing(shown) PROVE Sourced(x, page[x].quiz, a, Listing(shown))
  <2>1. PICK m \in DOMAIN shown : a.question = shown[m].question /\ a.reviewed = shown[m].revision
    BY <1>4
  <2>2. shown[m] \in Ref
    BY <1>3
  <2>3. shown[m] = [question |-> a.question, revision |-> a.reviewed]
    BY <2>1, <2>2 DEF Ref
  <2>4. Shows(x, a)
    BY <1>1, <2>1, <2>3 DEF Shows
  <2>5. ~quiz[page[x].quiz].exists
    BY <1>1 DEF Create
  <2> QED BY <1>1, <2>4, <2>5 DEF Sourced, Approves
<1> QED BY <1>1, <1>2, <1>4, <1>5 DEF Creation, IsList, PreviewOK

LEMMA DuplicateIsCreation ==
    ASSUME QuizInv, NEW x \in Page, NEW k \in QuizKey, duplicate(x, k)
    PROVE  /\ Creation(k, Its(x).items) /\ page' = [page EXCEPT ![x] = Blank]
           /\ \A a \in Its(x).items : Sourced(x, k, a, Its(x).items)
<1>1. page[x].kind = "quiz" /\ Create(k, Its(x).items) /\ page' = [page EXCEPT ![x] = Blank]
  BY DEF duplicate, Duplicated, Its
<1>2. IsList(Its(x).items) /\ Its(x) = quiz[page[x].quiz]
  BY <1>1, ItsRow
<1>3. page[x].quiz # k /\ ~quiz[k].exists
  BY <1>1 DEF duplicate, Checked, Create
<1>4. \A a \in Its(x).items : Stood(page[x].quiz, a)
  BY <1>2 DEF Stood
<1>5. \A a \in Its(x).items : Sourced(x, k, a, Its(x).items)
  BY <1>1, <1>3, <1>4 DEF Sourced, Approves
<1> QED BY <1>1, <1>2, <1>5 DEF Creation

LEMMA EmptyIsCreation ==
    ASSUME NEW k \in QuizKey, create_quiz(k)
    PROVE  Creation(k, {}) /\ page' = page
BY EmptyIsList, OneOrMore DEF create_quiz, Creation, IsList

-----------------------------------------------------------------------------
(* Hosting.                                                                *)

\* In a list that is ready, what is approved is what there is.
LEMMA ReadyShowsApproved ==
    ASSUME QuizInv, NEW k \in QuizKey, Ready(k)
    PROVE  Shown(k) = ApprovedList(quiz[k].items) /\ Shown(k) \in Seq(Ref)
<1> DEFINE items == quiz[k].items
<1>1. PICK n \in 0..MAX_QUESTIONS : ListOf(items, n)
  BY RowIsList DEF QuizInv
<1>2. /\ n \in Nat /\ Cardinality(items) = n
      /\ \A m \in 1..n : At(items, m) \in items
  BY <1>1, ListIsNumbered, OneOrMore
<1>3. \A i \in items : current[i.question] = i.reviewed /\ i.question \in Listed
  BY <1>1 DEF Ready, Changed, ListOf, ItemType
<1>4. Shown(k) = [m \in 1..n |-> [question |-> At(items, m).question, revision |-> current[At(items, m).question]]]
  BY <1>2 DEF Shown
<1>5. ApprovedList(items) = [m \in 1..n |-> [question |-> At(items, m).question, revision |-> At(items, m).reviewed]]
  BY <1>2 DEF ApprovedList
<1>6. \A m \in 1..n : [question |-> At(items, m).question, revision |-> current[At(items, m).question]] \in Ref
  BY <1>2, <1>3, RefIsKnown DEF QuizInv
<1>7. Shown(k) \in [1..n -> Ref]
  BY <1>4, <1>6
<1>8. Shown(k) \in Seq(Ref)
  BY <1>2, <1>7
<1>9. Shown(k) = ApprovedList(items)
  BY <1>2, <1>3, <1>4, <1>5
<1> QED BY <1>8, <1>9

LEMMA HostStep ==
    ASSUME QuizInv, NEW x \in Page, NEW k \in QuizKey, host(x, k)
    PROVE  /\ QuizInv' /\ quiz' = quiz /\ page[x].kind = "host" /\ page'[x] = Blank
           /\ k \in DOMAIN page[x].lists
           /\ game' = [game EXCEPT ![page[x].game] = [open |-> TRUE, questions |-> page[x].lists[k]]]
<1> DEFINE g == page[x].game
<1>1. /\ page[x].kind = "host" /\ k \in DOMAIN page[x].versions /\ quiz[k].version = page[x].versions[k]
      /\ Ready(k) /\ game' = [game EXCEPT ![g] = [open |-> TRUE, questions |-> Shown(k)]]
      /\ page' = [page EXCEPT ![x] = Blank] /\ UNCHANGED <<current, available, quiz>>
  BY DEF host, HostedAt
<1>2. HostPageOK(page[x], quiz)
  BY <1>1 DEF QuizInv, PagesOK, PageOK
<1>3. g \in GameKey /\ k \in DOMAIN page[x].lists /\ page[x].lists[k] = ApprovedList(quiz[k].items)
  BY <1>1, <1>2 DEF HostPageOK
<1>4. Shown(k) = page[x].lists[k] /\ Shown(k) \in Seq(Ref)
  BY <1>1, <1>3, ReadyShowsApproved
<1>5. GamesOK'
  BY <1>1, <1>3, <1>4 DEF QuizInv, GamesOK
<1>6. PagesOK'
  BY <1>1, PagesSurvive, SameIsLater DEF QuizInv
<1>7. BankOK' /\ RowsOK'
  BY <1>1 DEF QuizInv, BankOK, RowsOK, RowOK
<1>8. page'[x] = Blank
  BY <1>1 DEF QuizInv, PagesOK
<1> QED BY <1>1, <1>3, <1>4, <1>5, <1>6, <1>7, <1>8 DEF QuizInv

LEMMA FinishStep ==
    ASSUME QuizInv, NEW g \in GameKey, Finish(g)
    PROVE  QuizInv' /\ quiz' = quiz /\ \A h \in GameKey : game'[h].questions = game[h].questions
<1>1. game' = [game EXCEPT ![g].open = FALSE] /\ UNCHANGED <<current, available, quiz, page>>
  BY DEF Finish
<1>2. GamesOK' /\ \A h \in GameKey : game'[h].questions = game[h].questions
  BY <1>1 DEF QuizInv, GamesOK
<1>3. BankOK' /\ RowsOK' /\ PagesOK'
  BY <1>1 DEF QuizInv, BankOK, RowsOK, RowOK, PagesOK
<1> QED BY <1>1, <1>2, <1>3 DEF QuizInv

LEMMA BankStep ==
    ASSUME QuizInv, NEW q \in Listed, BankChange(q)
    PROVE  QuizInv' /\ UNCHANGED <<quiz, game>>
<1>1. UNCHANGED <<quiz, game, page>>
  BY DEF BankChange
<1>2. BankOK'
  BY RevisionOfIsOne DEF BankChange, QuizInv, BankOK
<1>3. RowsOK' /\ PagesOK' /\ GamesOK'
  BY <1>1 DEF QuizInv, RowsOK, RowOK, PagesOK, GamesOK
<1> QED BY <1>1, <1>2, <1>3 DEF QuizInv

LEMMA CloseStep ==
    ASSUME QuizInv, NEW x \in Page, ClosePage(x)
    PROVE  QuizInv' /\ UNCHANGED <<quiz, game>>
<1>1. page' = [page EXCEPT ![x] = Blank] /\ UNCHANGED <<current, available, quiz, game>>
  BY DEF ClosePage
<1>2. PagesOK'
  BY <1>1, PagesSurvive, SameIsLater DEF QuizInv
<1>3. BankOK' /\ RowsOK' /\ GamesOK'
  BY <1>1 DEF QuizInv, BankOK, RowsOK, RowOK, GamesOK
<1> QED BY <1>1, <1>2, <1>3 DEF QuizInv

-----------------------------------------------------------------------------
(* Every step.                                                             *)

LEMMA QuizInvInit == ASSUME QuizInit PROVE QuizInv
<1>1. BankOK
  BY DEF QuizInit, BankOK, Revisions
<1>2. RowsOK
  <2>1. NoQuiz \in Row /\ NoQuiz.items = {}
    BY DEF NoQuiz, Row
  <2>2. RowOK(NoQuiz)
    BY <2>1, EmptyIsList, OneOrMore DEF RowOK, IsList
  <2> QED BY <2>2 DEF QuizInit, RowsOK
<1>3. GamesOK
  <2>1. <<>> \in Seq(Ref)
    OBVIOUS
  <2> QED BY <2>1 DEF QuizInit, GamesOK, NoGame
<1>4. PagesOK
  BY BlankIsOK DEF QuizInit, PagesOK
<1> QED BY <1>1, <1>2, <1>3, <1>4 DEF QuizInv

\* The step from which ReviewedWasShown is made, for the entry i of the list k.
Vouched(k, i) ==
    \/ Stood(k, i)
    \/ \E x \in Page : page[x] # Blank /\ page'[x] = Blank /\ Approves(x, k, i, quiz'[k].items)

ReviewedStep == \A k \in QuizKey : \A i \in quiz'[k].items : Vouched(k, i)

HostedStep ==
    \A g \in GameKey : game'[g].questions # game[g].questions =>
        \E x \in Page : page[x].kind = "host" /\ page'[x] = Blank
           /\ \E k \in DOMAIN page[x].lists : page[x].lists[k] = game'[g].questions

LEMMA SourcedIsVouched ==
    ASSUME PagesOK, NEW x \in Page, page[x].kind # "none", page' = [page EXCEPT ![x] = Blank],
           NEW k, NEW a, Sourced(x, k, a, quiz'[k].items)
    PROVE  Vouched(k, a)
<1>1. page'[x] = Blank /\ page[x] # Blank
  BY DEF PagesOK, Blank
<1> QED BY <1>1 DEF Sourced, Vouched

\* Lists that a step leaves alone need no new approval.
LEMMA KeptIsVouched ==
    ASSUME NEW k, quiz'[k] = quiz[k], NEW i \in quiz'[k].items
    PROVE  Vouched(k, i)
BY DEF Vouched, Stood

LEMMA EditStep ==
    ASSUME QuizInv, NEW x \in Page, NEW k \in QuizKey, NEW new, Edit(x, k, new)
    PROVE  QuizInv' /\ ReviewedStep /\ HostedStep
<1>1. QuizInv' /\ quiz'[k].items = new.items /\ \A l \in QuizKey \ {k} : quiz'[l] = quiz[l]
  BY EditKeeps
<1>2. \A a \in new.items : Vouched(k, a)
  BY <1>1, SourcedIsVouched DEF Edit, QuizInv
<1>3. ReviewedStep
  BY <1>1, <1>2, KeptIsVouched DEF ReviewedStep
<1>4. HostedStep
  BY DEF Edit, Touch, HostedStep
<1> QED BY <1>1, <1>3, <1>4

LEMMA CreationStep ==
    ASSUME QuizInv, NEW x \in Page, NEW k \in QuizKey, NEW items, Creation(k, items),
           page[x].kind # "none", page' = [page EXCEPT ![x] = Blank],
           \A a \in items : Sourced(x, k, a, items)
    PROVE  QuizInv' /\ ReviewedStep /\ HostedStep
<1>1. QuizInv' /\ quiz'[k].items = items /\ \A l \in QuizKey \ {k} : quiz'[l] = quiz[l]
  BY CreationKeeps
<1>2. \A a \in items : Vouched(k, a)
  BY <1>1, SourcedIsVouched DEF QuizInv
<1>3. ReviewedStep
  BY <1>1, <1>2, KeptIsVouched DEF ReviewedStep
<1>4. HostedStep
  BY DEF Creation, Create, HostedStep
<1> QED BY <1>1, <1>3, <1>4

LEMMA QuietStep ==
    ASSUME quiz' = quiz, \A g \in GameKey : game'[g].questions = game[g].questions
    PROVE  ReviewedStep /\ HostedStep
BY KeptIsVouched DEF ReviewedStep, HostedStep

LEMMA OpeningStep ==
    ASSUME QuizInv, NEW x \in Page,
           \/ \E k \in QuizKey : OpenQuiz(x, k) \/ OpenPreview(x, k)
           \/ \E q \in Listed : OpenAdd(x, q)
           \/ \E g \in GameKey : OpenHost(x, g)
    PROVE  QuizInv' /\ UNCHANGED <<quiz, game>>
<1>1. QuizInv'
  BY QuizPageOpens, PreviewOpens, AddPageOpens, HostPageOpens
<1>2. UNCHANGED <<quiz, game>>
  BY DEF OpenQuiz, OpenPreview, OpenAdd, OpenHost, OpenPage
<1> QED BY <1>1, <1>2

LEMMA QuizStep ==
    ASSUME QuizInv, [QuizNext]_quizVars
    PROVE  QuizInv' /\ ReviewedStep /\ HostedStep
<1>1. ASSUME NEW q \in Listed, BankChange(q) PROVE QuizInv' /\ ReviewedStep /\ HostedStep
  BY <1>1, BankStep, QuietStep
<1>2. ASSUME NEW g \in GameKey, Finish(g) PROVE QuizInv' /\ ReviewedStep /\ HostedStep
  BY <1>2, FinishStep, QuietStep
<1>3. ASSUME NEW k \in QuizKey, create_quiz(k) PROVE QuizInv' /\ ReviewedStep /\ HostedStep
  <2>1. Creation(k, {}) /\ page' = page
    BY <1>3, EmptyIsCreation
  <2>2. QuizInv' /\ quiz'[k].items = {} /\ \A l \in QuizKey \ {k} : quiz'[l] = quiz[l]
    BY <2>1, CreationKeeps
  <2>3. ReviewedStep
    BY <2>2, KeptIsVouched DEF ReviewedStep
  <2>4. HostedStep
    BY <2>1 DEF Creation, Create, HostedStep
  <2> QED BY <2>2, <2>3, <2>4
<1>4. ASSUME NEW x \in Page, NEW k \in QuizKey, duplicate(x, k) PROVE QuizInv' /\ ReviewedStep /\ HostedStep
  <2>1. page[x].kind # "none"
    BY <1>4 DEF duplicate
  <2> QED BY <1>4, <2>1, DuplicateIsCreation, CreationStep
<1>5. ASSUME NEW x \in Page, NEW k \in QuizKey, add_question(x, k) PROVE QuizInv' /\ ReviewedStep /\ HostedStep
  BY <1>5, AddIsEdit, EditStep
<1>6. ASSUME NEW x \in Page, NEW k \in QuizKey, host(x, k) PROVE QuizInv' /\ ReviewedStep /\ HostedStep
  <2>1. /\ QuizInv' /\ quiz' = quiz /\ page[x].kind = "host" /\ page'[x] = Blank
        /\ k \in DOMAIN page[x].lists
        /\ game' = [game EXCEPT ![page[x].game] = [open |-> TRUE, questions |-> page[x].lists[k]]]
    BY <1>6, HostStep
  <2>2. ReviewedStep
    BY <2>1, KeptIsVouched DEF ReviewedStep
  <2>3. ASSUME NEW g \in GameKey, game'[g].questions # game[g].questions
        PROVE  game'[g].questions = page[x].lists[k]
    BY <2>1, <2>3 DEF QuizInv, GamesOK
  <2>4. HostedStep
    BY <2>1, <2>3 DEF HostedStep
  <2> QED BY <2>1, <2>2, <2>4
<1>7. ASSUME NEW x \in Page, ClosePage(x) PROVE QuizInv' /\ ReviewedStep /\ HostedStep
  BY <1>7, CloseStep, QuietStep
<1>8. ASSUME NEW x \in Page, save_preview(x) PROVE QuizInv' /\ ReviewedStep /\ HostedStep
  <2>1. page[x].kind # "none"
    BY <1>8 DEF save_preview
  <2> QED BY <1>8, <2>1, PreviewIsCreation, CreationStep
<1>9. ASSUME NEW x \in Page, rename(x) \/ archive(x) \/ restore(x) PROVE QuizInv' /\ ReviewedStep /\ HostedStep
  BY <1>9, RenameIsEdit, ArchivingIsEdit, EditStep
<1>10. ASSUME NEW x \in Page, NEW n \in 1..MAX_QUESTIONS, remove(x, n) \/ move(x, n) \/ review(x, n)
       PROVE  QuizInv' /\ ReviewedStep /\ HostedStep
  BY <1>10, RemoveIsEdit, MoveIsEdit, ReviewIsEdit, EditStep
<1>11. ASSUME NEW x \in Page,
              \/ \E k \in QuizKey : OpenQuiz(x, k) \/ OpenPreview(x, k)
              \/ \E q \in Listed : OpenAdd(x, q)
              \/ \E g \in GameKey : OpenHost(x, g)
       PROVE  QuizInv' /\ ReviewedStep /\ HostedStep
  BY <1>11, OpeningStep, QuietStep
<1>12. ASSUME UNCHANGED quizVars PROVE QuizInv' /\ ReviewedStep /\ HostedStep
  <2>1. QuizInv'
    BY <1>12 DEF quizVars, QuizInv, BankOK, RowsOK, RowOK, GamesOK, PagesOK
  <2> QED BY <1>12, <2>1, QuietStep DEF quizVars
<1>13. CASE QuizNext
  BY <1>1, <1>2, <1>3, <1>4, <1>5, <1>6, <1>7, <1>8, <1>9, <1>10, <1>11, <1>13 DEF QuizNext
<1> QED BY <1>12, <1>13

LEMMA InvShowsOrder == ASSUME QuizInv PROVE ListsAreInOrder
<1> SUFFICES ASSUME NEW k \in QuizKey
             PROVE  LET items == quiz[k].items IN
                    /\ items \subseteq {Entry(q, r, n) : q \in Listed, r \in UNION {RevisionsOf[q] : q \in Listed}, n \in 1..MAX_QUESTIONS}
                    /\ {i.position : i \in items} = 1..Cardinality(items)
                    /\ Cardinality(Questions(items)) = Cardinality(items)
                    /\ ~quiz[k].exists => quiz[k] = NoQuiz
  BY DEF ListsAreInOrder
<1> DEFINE items == quiz[k].items
<1>1. PICK n \in 0..MAX_QUESTIONS : ListOf(items, n)
  BY RowIsList DEF QuizInv
<1>2. n \in Nat /\ Cardinality(items) = n /\ Cardinality(Questions(items)) = n
  BY <1>1, ListIsNumbered, OneOrMore
<1>3. items \subseteq {Entry(q, r, m) : q \in Listed, r \in Revisions, m \in 1..MAX_QUESTIONS}
  BY <1>1, ItemIsEntry DEF ListOf
<1>4. {i.position : i \in items} = 1..n
  BY <1>1 DEF ListOf
<1>5. ~quiz[k].exists => quiz[k] = NoQuiz
  BY DEF QuizInv, RowsOK, RowOK
<1> QED BY <1>2, <1>3, <1>4, <1>5 DEF Revisions

-----------------------------------------------------------------------------
(* The theorems.                                                           *)

\* What old pages know is inductive: a page at the version of a quiz shows that quiz, so an
\* edit (quiz_lists.py, update_quiz) means the item that its page meant.
THEOREM QuizInvariant == QuizSpec => []QuizInv
<1>1. QuizInit => QuizInv
  BY QuizInvInit
<1>2. QuizInv /\ [QuizNext]_quizVars => QuizInv'
  BY QuizStep
<1> QED BY <1>1, <1>2, PTL DEF QuizSpec

\* Lists hold distinct questions at positions 1..n and no more than MAX_QUESTIONS, whatever was
\* added, removed, moved, copied or saved, from however many pages of whatever age.
THEOREM ListsStayInOrder == QuizSpec => []ListsAreInOrder
<1>1. QuizInv => ListsAreInOrder
  BY InvShowsOrder
<1> QED BY <1>1, QuizInvariant, PTL

\* A game (live.py, host) asks what the hosting page offered: a list as it was, each question
\* in the wording that was reviewed.
THEOREM GamesAreAsReviewed == QuizSpec => HostedAsReviewed
<1>1. QuizInv /\ [QuizNext]_quizVars =>
          \A g \in GameKey : game'[g].questions # game[g].questions =>
              \E x \in Page : page[x].kind = "host" /\ page'[x] = Blank
                 /\ \E k \in DOMAIN page[x].lists : page[x].lists[k] = game'[g].questions
  BY QuizStep DEF HostedStep
<1> QED BY <1>1, QuizInvariant, PTL DEF QuizSpec, HostedAsReviewed

\* Nothing comes to stand as reviewed but with an added question, a saved preview or a review of
\* one item from a page that shows it, at the revision the bank has, or in a copy of a list in
\* which it was reviewed (quiz_lists.py): a copy approves nothing.
THEOREM ReviewsAreShown == QuizSpec => ReviewedWasShown
<1>1. QuizInv /\ [QuizNext]_quizVars =>
          \A k \in QuizKey : \A i \in quiz'[k].items :
              \/ Stood(k, i)
              \/ \E x \in Page : page[x] # Blank /\ page'[x] = Blank /\ Approves(x, k, i, quiz'[k].items)
  BY QuizStep DEF ReviewedStep, Vouched
<1> QED BY <1>1, QuizInvariant, PTL DEF QuizSpec, ReviewedWasShown

-----------------------------------------------------------------------------
(***************************************************************************)
(* The generator.                                                          *)
(***************************************************************************)

(***************************************************************************)
(* Counting by classes.                                                    *)
(***************************************************************************)

\* The smaller of two finite sets can be placed in the other.
LEMMA SmallerFits ==
    ASSUME NEW A, NEW B, IsFiniteSet(A), IsFiniteSet(B), Cardinality(A) <= Cardinality(B)
    PROVE  \E h : h \in Injection(A, B)
<1> DEFINE n == Cardinality(A)
           m == Cardinality(B)
<1>1. n \in Nat /\ m \in Nat /\ ExistsBijection(1..n, A) /\ ExistsBijection(1..m, B)
    BY FS_CardinalityType
<1>2. PICK u : u \in [1..n -> A] /\ \A a \in A : \E i \in 1..n : u[i] = a
    BY <1>1 DEF ExistsBijection, Bijection, Surjection
<1>3. PICK v : v \in [1..m -> B] /\ \A i, j \in 1..m : v[i] = v[j] => i = j
    BY <1>1 DEF ExistsBijection, Bijection, Injection, IsInjective
<1> HIDE DEF n, m
<1> DEFINE place == [a \in A |-> CHOOSE i \in 1..n : u[i] = a]
           h == [a \in A |-> v[place[a]]]
<1>4. \A a \in A : place[a] \in 1..n /\ u[place[a]] = a
    BY <1>2
<1>5. 1..n \subseteq 1..m
    BY <1>1 DEF n, m
<1> HIDE DEF place
<1>6. h \in [A -> B]
    BY <1>3, <1>4, <1>5
<1>7. ASSUME NEW a \in A, NEW b \in A, h[a] = h[b] PROVE a = b
    BY <1>3, <1>4, <1>5, <1>7
<1>8. h \in Injection(A, B)
    BY <1>6, <1>7 DEF Injection, IsInjective
<1>9. QED BY <1>8

\* How many of A have label k.
Labelled(A, f, k) == Cardinality({a \in A : f[a] = k})

\* Two labelled sets of which the second has as many of each label or more.
LEMMA ByLabels ==
    ASSUME NEW A, NEW B, IsFiniteSet(A), IsFiniteSet(B), NEW f, NEW g,
           \A k : Labelled(A, f, k) <= Labelled(B, g, k)
    PROVE  /\ Cardinality(A) <= Cardinality(B)
           /\ Cardinality(A) = Cardinality(B) => \A k : Labelled(A, f, k) = Labelled(B, g, k)
<1> DEFINE As(k) == {a \in A : f[a] = k}
           Bs(k) == {b \in B : g[b] = k}
           H(k) == CHOOSE h : h \in Injection(As(k), Bs(k))
           J == [a \in A |-> H(f[a])[a]]
<1>1. \A k : IsFiniteSet(As(k)) /\ IsFiniteSet(Bs(k)) /\ Cardinality(As(k)) \in Nat /\ Cardinality(Bs(k)) \in Nat
    <2> TAKE k
    <2>1. As(k) \in SUBSET A /\ Bs(k) \in SUBSET B
        OBVIOUS
    <2> HIDE DEF As, Bs
    <2>2. QED BY <2>1, FS_Subset, FS_CardinalityType
<1>2. \A k : Cardinality(As(k)) <= Cardinality(Bs(k))
    BY DEF Labelled
<1>3. \A k : H(k) \in Injection(As(k), Bs(k))
    <2> HIDE DEF As, Bs
    <2>1. QED BY <1>1, <1>2, SmallerFits
<1>4. \A k : H(k) \in [As(k) -> Bs(k)] /\ \A a, b \in As(k) : H(k)[a] = H(k)[b] => a = b
    <2> HIDE DEF As, Bs, H
    <2>1. QED BY <1>3 DEF Injection, IsInjective
<1> HIDE DEF H
<1>5. \A a \in A : a \in As(f[a]) /\ J[a] = H(f[a])[a] /\ J[a] \in Bs(f[a])
    <2> TAKE a \in A
    <2>1. a \in As(f[a])
        OBVIOUS
    <2>2. J[a] = H(f[a])[a]
        OBVIOUS
    <2> HIDE DEF As, Bs, J
    <2>3. QED BY <1>4, <2>1, <2>2
<1>6. \A a \in A : J[a] \in B /\ g[J[a]] = f[a]
    <2> HIDE DEF J
    <2>1. QED BY <1>5
<1>7. J \in [A -> B]
    BY <1>6
<1>8. ASSUME NEW a \in A, NEW b \in A, J[a] = J[b] PROVE a = b
    <2>1. f[a] = f[b] /\ a \in As(f[a]) /\ b \in As(f[a])
        BY <1>5, <1>6, <1>8
    <2> HIDE DEF As, Bs, J
    <2>2. QED BY <1>4, <1>5, <1>8, <2>1
<1> HIDE DEF J
<1>9. J \in Injection(A, B)
    BY <1>7, <1>8 DEF Injection, IsInjective
<1>10. Cardinality(A) <= Cardinality(B) /\ (Cardinality(A) = Cardinality(B) <=> J \in Surjection(A, B))
    BY <1>9, FS_Injection
<1>11. ASSUME Cardinality(A) = Cardinality(B), NEW k
       PROVE  Cardinality(As(k)) = Cardinality(Bs(k))
    <2> DEFINE R == [a \in As(k) |-> J[a]]
    <2>1. \A b \in B : \E a \in A : J[a] = b
        BY <1>10, <1>11 DEF Surjection
    <2>2. \A a \in As(k) : J[a] \in Bs(k)
        BY <1>6
    <2>3. \A b \in Bs(k) : \E a \in As(k) : J[a] = b
        BY <1>6, <2>1
    <2> HIDE DEF As, Bs
    <2>4. R \in Surjection(As(k), Bs(k))
        BY <2>2, <2>3 DEF Surjection
    <2>5. Cardinality(Bs(k)) <= Cardinality(As(k))
        <3> HIDE DEF R
        <3>1. QED BY <1>1, <2>4, FS_Surjection
    <2>6. QED BY <1>1, <1>2, <2>5
<1>12. QED BY <1>10, <1>11 DEF Labelled

\* Some numbers have a least one.
LEMMA LeastNumber ==
    ASSUME NEW S, S \subseteq Nat, S # {}
    PROVE  \E x \in S : \A y \in S : x <= y
<1>1. PICK x \in S : \A y \in S : ~(<<y, x>> \in OpToRel(<, Nat))
    BY NatLessThanWellFounded, WFMin, Zenon
<1>2. ASSUME NEW y \in S PROVE x <= y
    <2>1. ~(<<y, x>> \in OpToRel(<, Nat))
        BY <1>1
    <2>2. ~(y < x)
        BY <2>1 DEF OpToRel
    <2>3. QED BY <2>2
<1>3. QED BY <1>2

\* What is known before the first round: the source.
FirstRound == [paths |-> {<<Source>>}, near |-> {Source}]

\* The rounds are what their definition says: up to any n there is one function that satisfies
\* the equation, and the search is made of these.
LEMMA SearchIs ==
    ASSUME NEW E
    PROVE  \A n \in Nat : Search(E)[n] = IF n = 0 THEN {FirstRound} ELSE {Further(last, E) : last \in Search(E)[n - 1]}
<1> DEFINE From(S) == {Further(last, E) : last \in S}
           Round(g, n) == IF n = 0 THEN {FirstRound} ELSE From(g[n - 1])
           UpTo(g, n) == \A m \in 0..n : g[m] = Round(g, m)
           G(n) == CHOOSE g : UpTo(g, n)
           F == [n \in Nat |-> G(n)[n]]
<1> HIDE DEF From
<1>1. \A n \in Nat : \E g : UpTo(g, n)
    <2> DEFINE T == {n \in Nat : ~\E g : UpTo(g, n)}
    <2>1. SUFFICES ASSUME T # {} PROVE FALSE
        OBVIOUS
    <2>2. PICK x \in T : \A y \in T : x <= y
        <3>1. T \subseteq Nat
            OBVIOUS
        <3> HIDE DEF T
        <3>2. QED BY <2>1, <3>1, LeastNumber
    <2>3. CASE x = 0
        <3> DEFINE h == [m \in 0..0 |-> {FirstRound}]
        <3>1. UpTo(h, 0)
            OBVIOUS
        <3>2. QED BY <2>3, <3>1
    <2>4. CASE x # 0
        <3>1. x - 1 \in Nat /\ x - 1 \notin T
            BY <2>2, <2>4
        <3>2. PICK g : UpTo(g, x - 1)
            BY <3>1
        <3> DEFINE h == [m \in 0..x |-> IF m < x THEN g[m] ELSE Round(g, x)]
        <3>3. ASSUME NEW m \in 0..x PROVE h[m] = Round(h, m)
            <4>1. m # 0 => h[m - 1] = g[m - 1]
                OBVIOUS
            <4>2. Round(h, m) = Round(g, m)
                BY <4>1
            <4>3. CASE m = x
                BY <4>2, <4>3
            <4>4. CASE m < x
                <5>1. m \in 0..x - 1
                    BY <4>4
                <5>2. g[m] = Round(g, m) /\ h[m] = g[m]
                    BY <3>2, <4>4, <5>1
                <5>3. QED BY <4>2, <5>2
            <4>5. QED BY <4>3, <4>4
        <3>4. UpTo(h, x)
            <4> HIDE DEF h, Round
            <4>1. QED BY <3>3
        <3>5. QED BY <2>2, <3>4
    <2>5. QED BY <2>3, <2>4
<1>2. ASSUME NEW n \in Nat, NEW p \in Nat, n <= p, NEW g, NEW h, UpTo(g, n), UpTo(h, p)
      PROVE  \A m \in 0..n : g[m] = h[m]
    <2> DEFINE T == {m \in 0..n : g[m] # h[m]}
    <2>1. SUFFICES ASSUME T # {} PROVE FALSE
        OBVIOUS
    <2>2. PICK x \in T : \A y \in T : x <= y
        <3>1. T \subseteq Nat
            OBVIOUS
        <3> HIDE DEF T
        <3>2. QED BY <2>1, <3>1, LeastNumber
    <2>3. x \in 0..n /\ x \in 0..p
        BY <1>2
    <2>4. g[x] = Round(g, x) /\ h[x] = Round(h, x)
        <3> HIDE DEF Round
        <3>1. QED BY <1>2, <2>3
    <2>5. x # 0 => g[x - 1] = h[x - 1]
        <3>1. x # 0 => x - 1 \in 0..n /\ x - 1 \notin T
            BY <2>2
        <3>2. QED BY <3>1
    <2>6. QED BY <2>3, <2>4, <2>5
<1>3. \A n \in Nat : UpTo(G(n), n)
    BY <1>1
<1> HIDE DEF G
<1>4. \A n \in Nat : F[n] = Round(F, n)
    <2>1. SUFFICES ASSUME NEW n \in Nat PROVE F[n] = Round(F, n)
        OBVIOUS
    <2>2. F[n] = Round(G(n), n)
        <3>1. n \in 0..n
            OBVIOUS
        <3>2. QED BY <1>3, <3>1
    <2>3. ASSUME n # 0 PROVE G(n)[n - 1] = F[n - 1]
        <3>1. n - 1 \in Nat /\ n - 1 <= n /\ n - 1 \in 0..n - 1
            BY <2>3
        <3>2. UpTo(G(n - 1), n - 1) /\ UpTo(G(n), n)
            BY <1>3, <3>1
        <3> HIDE DEF UpTo
        <3>3. G(n - 1)[n - 1] = G(n)[n - 1]
            BY <1>2, <3>1, <3>2
        <3>4. QED BY <3>1, <3>3
    <2>4. QED BY <2>2, <2>3
<1>5. F = [n \in Nat |-> Round(F, n)]
    <2>1. F = [n \in Nat |-> F[n]]
        OBVIOUS
    <2> HIDE DEF F
    <2>2. QED BY <1>4, <2>1
<1>6. Search(E) = [n \in Nat |-> Round(Search(E), n)]
    <2> HIDE DEF F
    <2>1. QED BY <1>5 DEF Search, From, FirstRound
<1>7. QED BY <1>6 DEF From

\* A path that the search follows: its nodes differ, and each step is one of E.
Simple(p, E) ==
    /\ p \in Seq(Node) /\ Len(p) > 0 /\ p[1] = Source
    /\ \A i \in 1..Len(p) - 1 : <<p[i], p[i + 1]>> \in E
    /\ \A i, j \in 1..Len(p) : p[i] = p[j] => i = j

\* What is known after round n: the paths end at the nodes whose steps have not been tried.
Known(last, E, n) ==
    /\ last.near \subseteq Node /\ Source \in last.near
    /\ \A p \in last.paths : Simple(p, E) /\ \A i \in 1..Len(p) : p[i] \in last.near
    /\ IF Sink \in last.near THEN \E p \in last.paths : p[Len(p)] = Sink
       ELSE \A x \in last.near : \/ \E p \in last.paths : p[Len(p)] = x
                                 \/ \A e \in E : e[1] = x => e[2] \in last.near
    /\ Sink \in last.near \/ last.paths = {} \/ n < Cardinality(last.near)

LEMMA FirstIsKnown ==
    ASSUME NEW E
    PROVE  Known(FirstRound, E, 0)
<1>1. FirstRound.paths = {<<Source>>} /\ FirstRound.near = {Source}
    BY DEF FirstRound
<1>2. Source \in Node /\ Source # Sink
    BY DEF Node, Source, Sink
<1>3. Simple(<<Source>>, E)
    BY <1>2 DEF Simple
<1>4. Cardinality(FirstRound.near) = 1
    BY <1>1, FS_Singleton
<1>5. FirstRound.near \subseteq Node /\ Source \in FirstRound.near /\ Sink \notin FirstRound.near
    BY <1>1, <1>2
<1>6. \A x \in FirstRound.near : \E p \in FirstRound.paths : p[Len(p)] = x
    BY <1>1
<1>7. \A p \in FirstRound.paths : Simple(p, E) /\ \A i \in 1..Len(p) : p[i] \in FirstRound.near
    <2> DEFINE p == <<Source>>
    <2>1. Len(p) = 1 /\ p[1] = Source
        OBVIOUS
    <2>2. \A i \in 1..Len(p) : p[i] \in FirstRound.near
        <3> HIDE DEF p
        <3>1. QED BY <1>5, <2>1
    <2>3. QED BY <1>1, <1>3, <2>2
<1>8. QED BY <1>4, <1>5, <1>6, <1>7 DEF Known

\* A round keeps what is known, and comes near another node or ends the search.
LEMMA FurtherIsKnown ==
    ASSUME IsFiniteSet(Node), NEW E, E \subseteq Node \X Node, NEW n \in Nat, NEW last, Known(last, E, n)
    PROVE  Known(Further(last, E), E, n + 1)
<1>1. CASE Sink \in last.near
    BY <1>1 DEF Known, Further
<1>2. CASE Sink \notin last.near
    <2> DEFINE longer == {Append(x[1], x[2][2]) :
                             x \in {y \in last.paths \X E : y[2][1] = y[1][Len(y[1])] /\ y[2][2] \notin last.near}}
               next == Further(last, E)
    <2>1. next.paths = longer /\ next.near = last.near \union {p[Len(p)] : p \in longer}
        BY <1>2 DEF Further
    <2> HIDE DEF next
    <2>2. ASSUME NEW p \in last.paths, NEW e \in E, e[1] = p[Len(p)], e[2] \notin last.near
          PROVE  /\ Append(p, e[2]) \in longer
                 /\ LET q == Append(p, e[2]) IN q[Len(q)] = e[2]
        <3>1. <<p, e>> \in {y \in last.paths \X E : y[2][1] = y[1][Len(y[1])] /\ y[2][2] \notin last.near}
            BY <2>2
        <3>2. p \in Seq(Node) /\ e[2] \in Node
            BY DEF Known, Simple
        <3>3. QED BY <3>1, <3>2
    <2>3. ASSUME NEW q \in longer
          PROVE  /\ Simple(q, E)
                 /\ \A i \in 1..Len(q) : q[i] \in next.near
                 /\ q[Len(q)] \notin last.near
        <3>1. PICK p \in last.paths, e \in E : q = Append(p, e[2]) /\ e[1] = p[Len(p)] /\ e[2] \notin last.near
            OBVIOUS
        <3>2. /\ p \in Seq(Node) /\ Len(p) \in Nat /\ Len(p) > 0 /\ p[1] = Source
              /\ \A i \in 1..Len(p) - 1 : <<p[i], p[i + 1]>> \in E
              /\ \A i, j \in 1..Len(p) : p[i] = p[j] => i = j
              /\ \A i \in 1..Len(p) : p[i] \in last.near
            BY DEF Known, Simple
        <3>3. e = <<e[1], e[2]>> /\ e[2] \in Node
            OBVIOUS
        <3>4. /\ q \in Seq(Node) /\ Len(q) = Len(p) + 1 /\ q[Len(p) + 1] = e[2]
              /\ \A i \in 1..Len(p) : q[i] = p[i]
            BY <3>1, <3>2, <3>3
        <3>5. \A i \in 1..Len(q) - 1 : <<q[i], q[i + 1]>> \in E
            <4> TAKE i \in 1..Len(q) - 1
            <4>1. CASE i = Len(p)
                <5>1. q[i] = e[1] /\ q[i + 1] = e[2]
                    BY <3>1, <3>2, <3>4, <4>1
                <5>2. QED BY <3>3, <5>1
            <4>2. CASE i < Len(p)
                BY <3>2, <3>4, <4>2
            <4>3. QED BY <3>2, <3>4, <4>1, <4>2
        <3>6. \A i, j \in 1..Len(q) : q[i] = q[j] => i = j
            <4> TAKE i, j \in 1..Len(q)
            <4>1. i \in 1..Len(p) \/ i = Len(p) + 1
                BY <3>2, <3>4
            <4>2. j \in 1..Len(p) \/ j = Len(p) + 1
                BY <3>2, <3>4
            <4>3. QED BY <3>1, <3>2, <3>4, <4>1, <4>2
        <3>7. Simple(q, E)
            BY <3>2, <3>4, <3>5, <3>6 DEF Simple
        <3>8. q[Len(q)] = e[2] /\ q[Len(q)] \in next.near
            BY <2>1, <3>2, <3>4
        <3>9. \A i \in 1..Len(q) : q[i] \in next.near
            <4> TAKE i \in 1..Len(q)
            <4>1. i \in 1..Len(p) \/ i = Len(q)
                BY <3>2, <3>4
            <4>2. QED BY <2>1, <3>2, <3>4, <3>8, <4>1
        <3>10. QED BY <3>1, <3>7, <3>8, <3>9
    <2>4. next.near \subseteq Node /\ Source \in next.near
        <3>1. \A q \in longer : q[Len(q)] \in Node
            BY <2>3 DEF Simple
        <3> HIDE DEF longer
        <3>2. QED BY <2>1, <3>1 DEF Known
    <2>5. Sink \in next.near => \E p \in next.paths : p[Len(p)] = Sink
        <3> HIDE DEF longer
        <3>1. QED BY <1>2, <2>1
    <2>6. ASSUME NEW x \in next.near
          PROVE  \/ \E p \in next.paths : p[Len(p)] = x
                 \/ \A e \in E : e[1] = x => e[2] \in next.near
        <3>1. CASE x \in last.near
            <4>1. SUFFICES ASSUME NEW e \in E, e[1] = x
                           PROVE  e[2] \in next.near
                OBVIOUS
            <4>2. CASE e[2] \in last.near
                BY <2>1, <4>2
            <4>3. CASE e[2] \notin last.near
                <5>1. PICK p \in last.paths : p[Len(p)] = x
                    BY <1>2, <3>1, <4>1, <4>3 DEF Known
                <5>2. \E q \in longer : q[Len(q)] = e[2]
                    BY <2>2, <4>1, <4>3, <5>1
                <5> HIDE DEF longer
                <5>3. QED BY <2>1, <5>2
            <4>4. QED BY <4>2, <4>3
        <3>2. CASE x \notin last.near
            <4> HIDE DEF longer
            <4>1. QED BY <2>1, <3>2
        <3>3. QED BY <3>1, <3>2
    <2>7. longer = {} \/ n + 1 < Cardinality(next.near)
        <3>1. SUFFICES ASSUME NEW q \in longer PROVE n + 1 < Cardinality(next.near)
            BY Zenon
        <3>2. q[Len(q)] \in next.near /\ q[Len(q)] \notin last.near
            <4>1. q[Len(q)] \notin last.near
                BY <2>3
            <4> HIDE DEF longer
            <4>2. QED BY <2>1, <3>1, <4>1
        <3>3. last.paths # {}
            BY <3>1
        <3>4. IsFiniteSet(next.near) /\ IsFiniteSet(last.near)
            BY <2>4, FS_Subset DEF Known
        <3>5. last.near \in SUBSET next.near /\ last.near # next.near
            <4> HIDE DEF longer
            <4>1. QED BY <2>1, <3>2
        <3>6. Cardinality(last.near) <= Cardinality(next.near) /\ Cardinality(last.near) # Cardinality(next.near)
            BY <3>4, <3>5, FS_Subset
        <3>7. Cardinality(last.near) \in Nat /\ Cardinality(next.near) \in Nat
            BY <3>4, FS_CardinalityType
        <3>8. n < Cardinality(last.near)
            BY <1>2, <3>3 DEF Known
        <3>9. QED BY <3>6, <3>7, <3>8
    <2> HIDE DEF longer
    <2>8. QED BY <2>1, <2>3, <2>4, <2>5, <2>6, <2>7 DEF Known, next
<1>3. QED BY <1>1, <1>2

\* The search finds a path of steps to the sink, or leaves a set that no step leaves.
LEMMA SearchFinds ==
    ASSUME IsFiniteSet(Node), Residual \subseteq Node \X Node
    PROVE  /\ \A p \in Augmenting : Simple(p, Residual) /\ p[Len(p)] = Sink
           /\ Augmenting = {} =>
                 \E R \in SUBSET Node : /\ Source \in R /\ Sink \notin R
                                        /\ \A e \in Residual : e[1] \in R => e[2] \in R
<1> DEFINE S == Search(Residual)
           k == Cardinality(Node)
<1>1. \A n \in Nat : \E last : S[n] = {last} /\ Known(last, Residual, n)
    <2> DEFINE T == {n \in Nat : ~\E last : S[n] = {last} /\ Known(last, Residual, n)}
    <2>1. SUFFICES ASSUME T # {} PROVE FALSE
        OBVIOUS
    <2>2. PICK x \in T : \A y \in T : x <= y
        <3>1. T \subseteq Nat
            OBVIOUS
        <3> HIDE DEF T
        <3>2. QED BY <2>1, <3>1, LeastNumber
    <2>3. CASE x = 0
        <3>1. S[0] = {FirstRound}
            BY SearchIs
        <3>2. QED BY <2>3, <3>1, FirstIsKnown
    <2>4. CASE x # 0
        <3>1. x - 1 \in Nat /\ x - 1 \notin T /\ x \in Nat
            BY <2>2, <2>4
        <3>2. PICK last : S[x - 1] = {last} /\ Known(last, Residual, x - 1)
            BY <3>1
        <3>3. S[x] = {Further(l, Residual) : l \in S[x - 1]}
            BY <2>4, <3>1, SearchIs
        <3> HIDE DEF S
        <3>4. S[x] = {Further(last, Residual)}
            BY <3>2, <3>3
        <3>5. Known(Further(last, Residual), Residual, (x - 1) + 1)
            BY <3>1, <3>2, FurtherIsKnown
        <3>6. QED BY <2>2, <3>1, <3>4, <3>5
    <2>5. QED BY <2>3, <2>4
<1>2. k \in Nat
    BY FS_CardinalityType
<1>3. PICK last : S[k] = {last} /\ Known(last, Residual, k)
    BY <1>1, <1>2
<1>4. Augmenting = {p \in last.paths : p[Len(p)] = Sink}
    <2>1. Augmenting = {p \in UNION {l.paths : l \in S[k]} : p[Len(p)] = Sink}
        BY DEF Augmenting
    <2>2. UNION {l.paths : l \in S[k]} = last.paths
        BY <1>3
    <2>3. QED BY <2>1, <2>2
<1>5. \A p \in Augmenting : Simple(p, Residual) /\ p[Len(p)] = Sink
    BY <1>3, <1>4 DEF Known
<1>6. ASSUME Augmenting = {}
      PROVE  /\ last.near \in SUBSET Node /\ Source \in last.near /\ Sink \notin last.near
             /\ \A e \in Residual : e[1] \in last.near => e[2] \in last.near
    <2>1. Sink \notin last.near
        BY <1>3, <1>4, <1>6 DEF Known
    <2>2. ~(k < Cardinality(last.near))
        <3>1. last.near \in SUBSET Node
            BY <1>3 DEF Known
        <3>2. Cardinality(last.near) <= k /\ Cardinality(last.near) \in Nat
            BY <3>1, FS_Subset, FS_CardinalityType
        <3>3. QED BY <1>2, <3>2
    <2>3. last.paths = {}
        BY <1>3, <2>1, <2>2 DEF Known
    <2>4. QED BY <1>3, <2>1, <2>3 DEF Known
<1>7. QED BY <1>5, <1>6

(***************************************************************************)
(* The network.                                                            *)
(***************************************************************************)

\* The request, which no step changes.
Requested == pool \in Pools /\ settings \in Settings /\ quotas \in Quotas(settings)

\* Each group that flows does so through the topic of one of its questions.
Flows(v) ==
    /\ v \in [Groups -> Topics \union {"none"}]
    /\ \A g \in Groups : v[g] # "none" => \E q \in Pool : pool[q].group = g /\ pool[q].topic = v[g]

\* Capacities are kept.
Fits(v) ==
    /\ \A t \in Topics : Through(v, t) <= Cap
    /\ \A c \in Categories : Into(v, c) <= Room(c)

LEMMA NetworkIsFinite ==
    ASSUME Requested
    PROVE  /\ IsFiniteSet(Pool) /\ IsFiniteSet(Groups) /\ IsFiniteSet(Topics) /\ IsFiniteSet(Node)
           /\ \A G \in SUBSET Groups : IsFiniteSet(G) /\ Cardinality(G) \in Nat
           /\ \A S \in SUBSET Pool : IsFiniteSet(S) /\ Cardinality(S) \in Nat
<1>1. IsFiniteSet(Pool)
    <2>1. IsFiniteSet(DOMAIN pool) /\ Pool \in SUBSET DOMAIN pool
        BY GenerationAssumption DEF Requested, Pool
    <2>2. QED BY <2>1, FS_Subset
<1>2. IsFiniteSet(Groups)
    <2>1. [q \in Pool |-> pool[q].group] \in Surjection(Pool, Groups)
        BY DEF Surjection, Groups
    <2>2. QED BY <1>1, <2>1, FS_Surjection
<1>3. IsFiniteSet(Topics)
    <2>1. [q \in Pool |-> pool[q].topic] \in Surjection(Pool, Topics)
        BY DEF Surjection, Topics
    <2>2. QED BY <1>1, <2>1, FS_Surjection
<1>4. IsFiniteSet(Categories)
    BY GenerationAssumption DEF Requested, Categories
<1>5. IsFiniteSet(Node)
    <2>1. \A x : IsFiniteSet({x})
        BY FS_Singleton
    <2>2. IsFiniteSet({"group"} \X Groups) /\ IsFiniteSet({"topic"} \X Topics) /\ IsFiniteSet({"category"} \X Categories)
        BY <1>2, <1>3, <1>4, <2>1, FS_Product
    <2>3. IsFiniteSet({Source} \union {Sink})
        BY <2>1, FS_Union
    <2>4. {Source, Sink} = {Source} \union {Sink}
        OBVIOUS
    <2>5. QED BY <2>2, <2>3, <2>4, FS_Union DEF Node
<1>6. QED BY <1>1, <1>2, <1>3, <1>5, FS_Subset, FS_CardinalityType

LEMMA TopicsAreOfCategories ==
    ASSUME Requested
    PROVE  /\ \A q \in Pool : pool[q].category \in Categories /\ pool[q].group \in Groups /\ pool[q].topic \in Topics
                              /\ CategoryOf(pool[q].topic) = pool[q].category
           /\ \A t \in Topics : CategoryOf(t) \in Categories
           /\ "none" \notin Topics
<1>1. \A q \in Pool : q \in DOMAIN pool /\ pool[q].category \in Categories /\ pool[q].group \in Groups /\ pool[q].topic \in Topics
    BY DEF Pool, Groups, Topics
<1>2. \A t \in Topics : \E q \in Pool : pool[q].topic = t
    BY DEF Topics
<1>3. \A q, r \in Pool : pool[q].topic = pool[r].topic => pool[q].category = pool[r].category
    BY <1>1, GenerationAssumption DEF Requested
<1>4. ASSUME NEW t \in Topics
      PROVE  /\ CategoryOf(t) \in Categories
             /\ \A q \in Pool : pool[q].topic = t => CategoryOf(t) = pool[q].category
    BY <1>1, <1>2, <1>3 DEF CategoryOf
<1>5. "none" \notin Topics
    BY <1>1, <1>2, GenerationAssumption DEF Requested
<1>6. QED BY <1>1, <1>4, <1>5

\* The nodes of the network, each of one kind.
GroupNode(g) == <<"group", g>>
TopicNode(t) == <<"topic", t>>
CategoryNode(c) == <<"category", c>>

LEMMA NodesDiffer ==
    /\ Source # Sink /\ Source \in Node /\ Sink \in Node
    /\ \A x : Source # GroupNode(x) /\ Source # TopicNode(x) /\ Source # CategoryNode(x)
    /\ \A x : Sink # GroupNode(x) /\ Sink # TopicNode(x) /\ Sink # CategoryNode(x)
    /\ \A x, y : GroupNode(x) # TopicNode(y) /\ GroupNode(x) # CategoryNode(y) /\ TopicNode(x) # CategoryNode(y)
    /\ \A x, y : GroupNode(x) = GroupNode(y) => x = y
    /\ \A x, y : TopicNode(x) = TopicNode(y) => x = y
    /\ \A x, y : CategoryNode(x) = CategoryNode(y) => x = y
    /\ \A x : GroupNode(x)[2] = x /\ TopicNode(x)[2] = x
    /\ \A g \in Groups : GroupNode(g) \in Node
    /\ \A t \in Topics : TopicNode(t) \in Node
    /\ \A c \in Categories : CategoryNode(c) \in Node
<1>1. \A x, y : GroupNode(x) = GroupNode(y) => x = y
    BY DEF GroupNode
<1>2. \A x, y : TopicNode(x) = TopicNode(y) => x = y
    BY DEF TopicNode
<1>3. \A x, y : CategoryNode(x) = CategoryNode(y) => x = y
    BY DEF CategoryNode
<1>4. \A x, y : GroupNode(x) # TopicNode(y) /\ GroupNode(x) # CategoryNode(y) /\ TopicNode(x) # CategoryNode(y)
    BY DEF GroupNode, TopicNode, CategoryNode
<1>5. \A x : Source # GroupNode(x) /\ Source # TopicNode(x) /\ Source # CategoryNode(x)
    BY DEF Source, GroupNode, TopicNode, CategoryNode
<1>6. \A x : Sink # GroupNode(x) /\ Sink # TopicNode(x) /\ Sink # CategoryNode(x)
    BY DEF Sink, GroupNode, TopicNode, CategoryNode
<1>7. Source # Sink
    BY DEF Source, Sink
<1>8. Source \in Node /\ Sink \in Node
    BY DEF Node
<1>9. \A g \in Groups : GroupNode(g) \in Node
    BY DEF Node, GroupNode
<1>10. \A t \in Topics : TopicNode(t) \in Node
    BY DEF Node, TopicNode
<1>11. \A c \in Categories : CategoryNode(c) \in Node
    BY DEF Node, CategoryNode
<1>12. \A x : GroupNode(x)[2] = x /\ TopicNode(x)[2] = x
    BY DEF GroupNode, TopicNode
<1>13. QED BY <1>1, <1>2, <1>3, <1>4, <1>5, <1>6, <1>7, <1>8, <1>9, <1>10, <1>11, <1>12

\* The residual edges, kind by kind.
LEMMA StepsByKind ==
    ASSUME NEW e \in Residual
    PROVE  \/ \E g \in Groups : via[g] = "none" /\ e = <<Source, GroupNode(g)>>
           \/ \E q \in Pool : via[pool[q].group] # pool[q].topic /\ e = <<GroupNode(pool[q].group), TopicNode(pool[q].topic)>>
           \/ \E t \in Topics : Through(via, t) < Cap /\ e = <<TopicNode(t), CategoryNode(CategoryOf(t))>>
           \/ \E c \in Categories : Into(via, c) < Room(c) /\ e = <<CategoryNode(c), Sink>>
           \/ \E g \in Groups : via[g] # "none" /\ e = <<TopicNode(via[g]), GroupNode(g)>>
           \/ \E g \in Groups : via[g] # "none" /\ e = <<CategoryNode(CategoryOf(via[g])), TopicNode(via[g])>>
<1>1. CASE e \in {<<Source, <<"group", g>>>> : g \in {h \in Groups : via[h] = "none"}}
    BY <1>1 DEF GroupNode
<1>2. CASE e \in {<<<<"group", pool[q].group>>, <<"topic", pool[q].topic>>>> :
                     q \in {r \in Pool : via[pool[r].group] # pool[r].topic}}
    BY <1>2 DEF GroupNode, TopicNode
<1>3. CASE e \in {<<<<"topic", t>>, <<"category", CategoryOf(t)>>>> : t \in {u \in Topics : Through(via, u) < Cap}}
    BY <1>3 DEF TopicNode, CategoryNode
<1>4. CASE e \in {<<<<"category", c>>, Sink>> : c \in {d \in Categories : Into(via, d) < Room(d)}}
    BY <1>4 DEF CategoryNode
<1>5. CASE e \in {<<<<"topic", via[g]>>, <<"group", g>>>> : g \in {h \in Groups : via[h] # "none"}}
    BY <1>5 DEF GroupNode, TopicNode
<1>6. CASE e \in {<<<<"category", CategoryOf(via[g])>>, <<"topic", via[g]>>>> : g \in {h \in Groups : via[h] # "none"}}
    BY <1>6 DEF TopicNode, CategoryNode
<1>7. QED BY <1>1, <1>2, <1>3, <1>4, <1>5, <1>6 DEF Residual, Forward, Reversed

\* What each kind of step is a step of.
LEMMA StepsExist ==
    /\ \A g \in Groups : via[g] = "none" => <<Source, GroupNode(g)>> \in Residual
    /\ \A q \in Pool : via[pool[q].group] # pool[q].topic => <<GroupNode(pool[q].group), TopicNode(pool[q].topic)>> \in Residual
    /\ \A t \in Topics : Through(via, t) < Cap => <<TopicNode(t), CategoryNode(CategoryOf(t))>> \in Residual
    /\ \A c \in Categories : Into(via, c) < Room(c) => <<CategoryNode(c), Sink>> \in Residual
    /\ \A g \in Groups : via[g] # "none" => <<TopicNode(via[g]), GroupNode(g)>> \in Residual
    /\ \A g \in Groups : via[g] # "none" => <<CategoryNode(CategoryOf(via[g])), TopicNode(via[g])>> \in Residual
<1>1. \A g \in Groups : via[g] = "none" =>
          <<Source, GroupNode(g)>> \in {<<Source, <<"group", h>>>> : h \in {k \in Groups : via[k] = "none"}}
    BY DEF GroupNode
<1>2. \A q \in Pool : via[pool[q].group] # pool[q].topic =>
          <<GroupNode(pool[q].group), TopicNode(pool[q].topic)>> \in
              {<<<<"group", pool[r].group>>, <<"topic", pool[r].topic>>>> : r \in {s \in Pool : via[pool[s].group] # pool[s].topic}}
    BY DEF GroupNode, TopicNode
<1>3. \A t \in Topics : Through(via, t) < Cap =>
          <<TopicNode(t), CategoryNode(CategoryOf(t))>> \in
              {<<<<"topic", u>>, <<"category", CategoryOf(u)>>>> : u \in {x \in Topics : Through(via, x) < Cap}}
    BY DEF TopicNode, CategoryNode
<1>4. \A c \in Categories : Into(via, c) < Room(c) =>
          <<CategoryNode(c), Sink>> \in {<<<<"category", d>>, Sink>> : d \in {x \in Categories : Into(via, x) < Room(x)}}
    BY DEF CategoryNode
<1>5. \A g \in Groups : via[g] # "none" =>
          <<TopicNode(via[g]), GroupNode(g)>> \in {<<<<"topic", via[h]>>, <<"group", h>>>> : h \in {k \in Groups : via[k] # "none"}}
    BY DEF GroupNode, TopicNode
<1>6. \A g \in Groups : via[g] # "none" =>
          <<CategoryNode(CategoryOf(via[g])), TopicNode(via[g])>> \in
              {<<<<"category", CategoryOf(via[h])>>, <<"topic", via[h]>>>> : h \in {k \in Groups : via[k] # "none"}}
    BY DEF TopicNode, CategoryNode
<1>7. QED BY <1>1, <1>2, <1>3, <1>4, <1>5, <1>6 DEF Residual, Forward, Reversed

\* Where a step of the search may lead.
StepOK(e) ==
    /\ e \in Node \X Node /\ e[1] # Sink
    /\ e[1] = Source => \E g \in Groups : via[g] = "none" /\ e[2] = GroupNode(g)
    /\ \A g : e[1] = GroupNode(g) => \E q \in Pool : pool[q].group = g /\ e[2] = TopicNode(pool[q].topic)
    /\ \A t : e[1] = TopicNode(t) =>
          \/ e[2] = CategoryNode(CategoryOf(t)) /\ Through(via, t) < Cap
          \/ \E g \in Groups : via[g] = t /\ t # "none" /\ e[2] = GroupNode(g)
    /\ \A c : e[1] = CategoryNode(c) =>
          \/ e[2] = Sink /\ Into(via, c) < Room(c)
          \/ \E t \in Topics : CategoryOf(t) = c /\ e[2] = TopicNode(t)

LEMMA StepsAre ==
    ASSUME Requested, Flows(via), NEW e \in Residual
    PROVE  StepOK(e)
<1>1. \A g \in Groups : via[g] # "none" => via[g] \in Topics
    BY DEF Flows
<1>2. CASE \E g \in Groups : via[g] = "none" /\ e = <<Source, GroupNode(g)>>
    <2>1. PICK g \in Groups : via[g] = "none" /\ e = <<Source, GroupNode(g)>>
        BY <1>2
    <2>2. e[1] = Source /\ e[2] = GroupNode(g) /\ e \in Node \X Node
        BY <2>1, NodesDiffer
    <2>3. QED BY <2>1, <2>2, NodesDiffer DEF StepOK
<1>3. CASE \E q \in Pool : via[pool[q].group] # pool[q].topic /\ e = <<GroupNode(pool[q].group), TopicNode(pool[q].topic)>>
    <2>1. PICK q \in Pool : e = <<GroupNode(pool[q].group), TopicNode(pool[q].topic)>>
        BY <1>3
    <2>2. e[1] = GroupNode(pool[q].group) /\ e[2] = TopicNode(pool[q].topic) /\ e \in Node \X Node
        BY <2>1, NodesDiffer, TopicsAreOfCategories
    <2>3. QED BY <2>1, <2>2, NodesDiffer DEF StepOK
<1>4. CASE \E t \in Topics : Through(via, t) < Cap /\ e = <<TopicNode(t), CategoryNode(CategoryOf(t))>>
    <2>1. PICK t \in Topics : Through(via, t) < Cap /\ e = <<TopicNode(t), CategoryNode(CategoryOf(t))>>
        BY <1>4
    <2>2. e[1] = TopicNode(t) /\ e[2] = CategoryNode(CategoryOf(t)) /\ e \in Node \X Node
        BY <2>1, NodesDiffer, TopicsAreOfCategories
    <2>3. QED BY <2>1, <2>2, NodesDiffer DEF StepOK
<1>5. CASE \E c \in Categories : Into(via, c) < Room(c) /\ e = <<CategoryNode(c), Sink>>
    <2>1. PICK c \in Categories : Into(via, c) < Room(c) /\ e = <<CategoryNode(c), Sink>>
        BY <1>5
    <2>2. e[1] = CategoryNode(c) /\ e[2] = Sink /\ e \in Node \X Node
        BY <2>1, NodesDiffer
    <2>3. QED BY <2>1, <2>2, NodesDiffer DEF StepOK
<1>6. CASE \E g \in Groups : via[g] # "none" /\ e = <<TopicNode(via[g]), GroupNode(g)>>
    <2>1. PICK g \in Groups : via[g] # "none" /\ e = <<TopicNode(via[g]), GroupNode(g)>>
        BY <1>6
    <2>2. e[1] = TopicNode(via[g]) /\ e[2] = GroupNode(g) /\ e \in Node \X Node
        BY <1>1, <2>1, NodesDiffer
    <2>3. QED BY <2>1, <2>2, NodesDiffer DEF StepOK
<1>7. CASE \E g \in Groups : via[g] # "none" /\ e = <<CategoryNode(CategoryOf(via[g])), TopicNode(via[g])>>
    <2>1. PICK g \in Groups : via[g] # "none" /\ e = <<CategoryNode(CategoryOf(via[g])), TopicNode(via[g])>>
        BY <1>7
    <2>2. e[1] = CategoryNode(CategoryOf(via[g])) /\ e[2] = TopicNode(via[g]) /\ e \in Node \X Node
        BY <1>1, <2>1, NodesDiffer, TopicsAreOfCategories
    <2>3. via[g] \in Topics
        BY <1>1, <2>1
    <2>4. QED BY <2>2, <2>3, NodesDiffer DEF StepOK
<1>8. QED BY <1>2, <1>3, <1>4, <1>5, <1>6, <1>7, StepsByKind

(***************************************************************************)
(* A path moves flow and keeps the capacities.                             *)
(***************************************************************************)

LEMMA NodesAre ==
    /\ \A g : GroupNode(g) \in Node => g \in Groups
    /\ \A t : TopicNode(t) \in Node => t \in Topics
    /\ \A c : CategoryNode(c) \in Node => c \in Categories
<1>1. ASSUME NEW g, GroupNode(g) \in Node PROVE g \in Groups
    <2>1. GroupNode(g) \in {"group"} \X Groups \/ GroupNode(g) \in {"topic"} \X Topics \/ GroupNode(g) \in {"category"} \X Categories
        BY <1>1, NodesDiffer DEF Node
    <2>2. QED BY <2>1 DEF GroupNode
<1>2. ASSUME NEW t, TopicNode(t) \in Node PROVE t \in Topics
    <2>1. TopicNode(t) \in {"group"} \X Groups \/ TopicNode(t) \in {"topic"} \X Topics \/ TopicNode(t) \in {"category"} \X Categories
        BY <1>2, NodesDiffer DEF Node
    <2>2. QED BY <2>1 DEF TopicNode
<1>3. ASSUME NEW c, CategoryNode(c) \in Node PROVE c \in Categories
    <2>1. CategoryNode(c) \in {"group"} \X Groups \/ CategoryNode(c) \in {"topic"} \X Topics \/ CategoryNode(c) \in {"category"} \X Categories
        BY <1>3, NodesDiffer DEF Node
    <2>2. QED BY <2>1 DEF CategoryNode
<1>4. QED BY <1>1, <1>2, <1>3

\* A path from the source to the sink, step by step.
Route(p) ==
    /\ p \in Seq(Node) /\ Len(p) > 0 /\ p[1] = Source /\ p[Len(p)] = Sink
    /\ \A i \in 1..Len(p) - 1 : <<p[i], p[i + 1]>> \in Residual
    /\ \A i, j \in 1..Len(p) : p[i] = p[j] => i = j

On(p, g) == \E i \in 1..Len(p) - 1 : p[i] = GroupNode(g)
Position(p, g) == CHOOSE i \in 1..Len(p) - 1 : p[i] = GroupNode(g)

\* From a group the path goes to the topic that the group is moved to, from there to a group
\* that flowed through it or to its category, and from the category to another of its topics or
\* to the sink.
LEMMA RouteTurns ==
    ASSUME Requested, Flows(via), NEW p, Route(p)
    PROVE  LET n == Len(p) IN
           /\ n \in Nat
           /\ \A i \in 1..n - 1 : \A g : p[i] = GroupNode(g) =>
                 \E q \in Pool : pool[q].group = g /\ p[i + 1] = TopicNode(pool[q].topic) /\ i + 1 \in 1..n - 1
           /\ \A i \in 1..n - 1 : \A t : p[i] = TopicNode(t) =>
                 /\ i + 1 \in 1..n - 1
                 /\ \/ p[i + 1] = CategoryNode(CategoryOf(t)) /\ Through(via, t) < Cap
                    \/ \E g \in Groups : via[g] = t /\ t # "none" /\ p[i + 1] = GroupNode(g)
           /\ \A i \in 1..n - 1 : \A c : p[i] = CategoryNode(c) =>
                 \/ p[i + 1] = Sink /\ Into(via, c) < Room(c)
                 \/ \E t \in Topics : CategoryOf(t) = c /\ p[i + 1] = TopicNode(t) /\ i + 1 \in 1..n - 1
<1> DEFINE n == Len(p)
<1>1. n \in Nat /\ n > 0 /\ p[n] = Sink
    BY DEF Route
<1>2. ASSUME NEW i \in 1..n - 1, p[i + 1] # Sink PROVE i + 1 \in 1..n - 1
    BY <1>1, <1>2
<1>3. ASSUME NEW i \in 1..n - 1
      PROVE  /\ p[i] = Source => \E g \in Groups : via[g] = "none" /\ p[i + 1] = GroupNode(g)
             /\ \A g : p[i] = GroupNode(g) => \E q \in Pool : pool[q].group = g /\ p[i + 1] = TopicNode(pool[q].topic)
             /\ \A t : p[i] = TopicNode(t) =>
                   \/ p[i + 1] = CategoryNode(CategoryOf(t)) /\ Through(via, t) < Cap
                   \/ \E g \in Groups : via[g] = t /\ t # "none" /\ p[i + 1] = GroupNode(g)
             /\ \A c : p[i] = CategoryNode(c) =>
                   \/ p[i + 1] = Sink /\ Into(via, c) < Room(c)
                   \/ \E t \in Topics : CategoryOf(t) = c /\ p[i + 1] = TopicNode(t)
    <2> DEFINE e == <<p[i], p[i + 1]>>
    <2>1. e \in Residual
        BY DEF Route
    <2>2. e[1] = p[i] /\ e[2] = p[i + 1]
        OBVIOUS
    <2> HIDE DEF e
    <2>3. StepOK(e)
        BY <2>1, StepsAre
    <2>4. QED BY <2>2, <2>3 DEF StepOK
<1>4. ASSUME NEW i \in 1..n - 1, NEW g, p[i] = GroupNode(g)
      PROVE  \E q \in Pool : pool[q].group = g /\ p[i + 1] = TopicNode(pool[q].topic) /\ i + 1 \in 1..n - 1
    <2>1. PICK q \in Pool : pool[q].group = g /\ p[i + 1] = TopicNode(pool[q].topic)
        BY <1>3, <1>4
    <2>2. p[i + 1] # Sink
        BY <2>1, NodesDiffer
    <2>3. QED BY <1>2, <2>1, <2>2
<1>5. ASSUME NEW i \in 1..n - 1, NEW t, p[i] = TopicNode(t)
      PROVE  /\ i + 1 \in 1..n - 1
             /\ \/ p[i + 1] = CategoryNode(CategoryOf(t)) /\ Through(via, t) < Cap
                \/ \E g \in Groups : via[g] = t /\ t # "none" /\ p[i + 1] = GroupNode(g)
    <2>1. \/ p[i + 1] = CategoryNode(CategoryOf(t)) /\ Through(via, t) < Cap
          \/ \E g \in Groups : via[g] = t /\ t # "none" /\ p[i + 1] = GroupNode(g)
        BY <1>3, <1>5
    <2>2. p[i + 1] # Sink
        BY <2>1, NodesDiffer
    <2>3. QED BY <1>2, <2>1, <2>2
<1>6. ASSUME NEW i \in 1..n - 1, NEW c, p[i] = CategoryNode(c)
      PROVE  \/ p[i + 1] = Sink /\ Into(via, c) < Room(c)
             \/ \E t \in Topics : CategoryOf(t) = c /\ p[i + 1] = TopicNode(t) /\ i + 1 \in 1..n - 1
    <2>1. CASE p[i + 1] = Sink /\ Into(via, c) < Room(c)
        BY <2>1
    <2>2. CASE \E t \in Topics : CategoryOf(t) = c /\ p[i + 1] = TopicNode(t)
        <3>1. PICK t \in Topics : CategoryOf(t) = c /\ p[i + 1] = TopicNode(t)
            BY <2>2
        <3>2. p[i + 1] # Sink
            BY <3>1, NodesDiffer
        <3>3. QED BY <1>2, <3>1, <3>2
    <2>3. QED BY <1>3, <1>6, <2>1, <2>2
<1>7. QED BY <1>1, <1>4, <1>5, <1>6

\* The flow along the path, in terms of it.
LEMMA AlongIs ==
    ASSUME Requested, Flows(via), NEW p, Route(p)
    PROVE  LET n == Len(p)
               v == Along(p)
           IN  /\ v \in [Groups -> Topics \union {"none"}]
               /\ \A g \in Groups : ~On(p, g) => v[g] = via[g]
               /\ \A g \in Groups : On(p, g) =>
                     /\ Position(p, g) \in 1..n - 1 /\ Position(p, g) + 1 \in 1..n - 1 /\ Position(p, g) + 2 \in 1..n - 1
                     /\ p[Position(p, g)] = GroupNode(g) /\ p[Position(p, g) + 1] = TopicNode(v[g])
                     /\ \E q \in Pool : pool[q].group = g /\ pool[q].topic = v[g]
                     /\ v[g] \in Topics
<1> DEFINE n == Len(p)
           v == Along(p)
<1>1. \A g \in Groups : v[g] = IF On(p, g) THEN p[Position(p, g) + 1][2] ELSE via[g]
    BY DEF Along, On, Position, GroupNode
<1>2. DOMAIN v = Groups /\ v = [g \in Groups |-> v[g]]
    BY DEF Along
<1> HIDE DEF v
<1>3. ASSUME NEW g \in Groups, On(p, g)
      PROVE  /\ Position(p, g) \in 1..n - 1 /\ Position(p, g) + 1 \in 1..n - 1 /\ Position(p, g) + 2 \in 1..n - 1
             /\ p[Position(p, g)] = GroupNode(g) /\ p[Position(p, g) + 1] = TopicNode(v[g])
             /\ \E q \in Pool : pool[q].group = g /\ pool[q].topic = v[g]
             /\ v[g] \in Topics
    <2> DEFINE i == Position(p, g)
    <2>1. i \in 1..n - 1 /\ p[i] = GroupNode(g)
        BY <1>3 DEF Position, On
    <2> HIDE DEF i
    <2>2. PICK q \in Pool : pool[q].group = g /\ p[i + 1] = TopicNode(pool[q].topic) /\ i + 1 \in 1..n - 1
        BY <2>1, RouteTurns
    <2>3. v[g] = pool[q].topic
        <3>1. v[g] = p[i + 1][2]
            BY <1>1, <1>3 DEF i
        <3>2. QED BY <2>2, <3>1, NodesDiffer
    <2>4. (i + 1) + 1 \in 1..n - 1
        BY <2>2, RouteTurns
    <2>5. i + 2 \in 1..n - 1
        BY <2>1, <2>4
    <2>6. v[g] \in Topics
        BY <2>2, <2>3, TopicsAreOfCategories
    <2>7. QED BY <2>1, <2>2, <2>3, <2>5, <2>6 DEF i
<1>4. \A g \in Groups : v[g] \in Topics \union {"none"}
    BY <1>1, <1>3 DEF Flows
<1>5. v \in [Groups -> Topics \union {"none"}]
    BY <1>2, <1>4
<1>6. QED BY <1>1, <1>3, <1>5 DEF v

\* What a path makes of a flow is a flow.
LEMMA AlongFlows ==
    ASSUME Requested, Flows(via), NEW p, Route(p)
    PROVE  Flows(Along(p))
BY AlongIs DEF Flows

LEMMA OneMore ==
    ASSUME NEW A, NEW B, IsFiniteSet(B), NEW y, A \subseteq B \union {y}
    PROVE  IsFiniteSet(A) /\ Cardinality(A) \in Nat /\ Cardinality(B) \in Nat /\ Cardinality(A) <= Cardinality(B) + 1
<1> DEFINE C == B \union {y}
<1>1. IsFiniteSet(C) /\ Cardinality(C) <= Cardinality(B) + 1 /\ Cardinality(B) \in Nat
    BY FS_AddElement, FS_CardinalityType
<1>2. A \in SUBSET C
    OBVIOUS
<1> HIDE DEF C
<1>3. IsFiniteSet(A) /\ Cardinality(A) <= Cardinality(C) /\ Cardinality(A) \in Nat /\ Cardinality(C) \in Nat
    BY <1>1, <1>2, FS_Subset, FS_CardinalityType
<1>4. QED BY <1>1, <1>3

LEMMA OneForAnother ==
    ASSUME NEW A, NEW B, IsFiniteSet(B), NEW x \in B, NEW y, A \subseteq (B \ {x}) \union {y}
    PROVE  IsFiniteSet(A) /\ Cardinality(A) <= Cardinality(B)
<1> DEFINE C == B \ {x}
<1>1. IsFiniteSet(C) /\ Cardinality(C) = Cardinality(B) - 1 /\ Cardinality(B) \in Nat
    BY FS_RemoveElement, FS_CardinalityType
<1> HIDE DEF C
<1>2. A \subseteq C \union {y}
    BY DEF C
<1>3. IsFiniteSet(A) /\ Cardinality(A) <= Cardinality(C) + 1 /\ Cardinality(A) \in Nat
    BY <1>1, <1>2, OneMore
<1>4. QED BY <1>1, <1>3

LEMMA LimitsAreNumbers ==
    ASSUME Requested
    PROVE  settings.count \in Nat \ {0} /\ settings.max_per_topic \in Nat /\ Cap \in Nat
BY GenerationAssumption DEF Requested, Cap

LEMMA CountsAreNumbers ==
    ASSUME Requested, NEW v
    PROVE  /\ \A t : IsFiniteSet({g \in Groups : v[g] = t}) /\ Through(v, t) \in Nat
           /\ \A c : IsFiniteSet({g \in Groups : v[g] # "none" /\ CategoryOf(v[g]) = c}) /\ Into(v, c) \in Nat
           /\ Total(v) \in Nat /\ IsFiniteSet({g \in Groups : v[g] # "none"})
<1> DEFINE F(t) == {g \in Groups : v[g] = t}
           K(c) == {g \in Groups : v[g] # "none" /\ CategoryOf(v[g]) = c}
           T == {g \in Groups : v[g] # "none"}
<1>1. \A t : F(t) \in SUBSET Groups
    OBVIOUS
<1>2. \A c : K(c) \in SUBSET Groups
    OBVIOUS
<1>3. T \in SUBSET Groups
    OBVIOUS
<1>4. \A t : Through(v, t) = Cardinality(F(t))
    BY DEF Through
<1>5. \A c : Into(v, c) = Cardinality(K(c))
    BY DEF Into
<1>6. Total(v) = Cardinality(T)
    BY DEF Total
<1> HIDE DEF F, K, T
<1>7. \A t : IsFiniteSet(F(t)) /\ Through(v, t) \in Nat
    BY <1>1, <1>4, NetworkIsFinite
<1>8. \A c : IsFiniteSet(K(c)) /\ Into(v, c) \in Nat
    BY <1>2, <1>5, NetworkIsFinite
<1>9. IsFiniteSet(T) /\ Total(v) \in Nat
    BY <1>3, <1>6, NetworkIsFinite
<1>10. QED BY <1>7, <1>8, <1>9 DEF F, K, T

\* The topic limit is kept: at most one group comes to a topic, and another leaves it unless
\* the topic has room.
LEMMA ThroughIsKept ==
    ASSUME Requested, Flows(via), NEW p, Route(p), NEW t \in Topics, Through(via, t) <= Cap
    PROVE  Through(Along(p), t) <= Cap
<1> DEFINE n == Len(p)
           v == Along(p)
           F == {g \in Groups : via[g] = t}
           G == {g \in Groups : v[g] = t}
<1> HIDE DEF v
<1>1. Through(via, t) = Cardinality(F) /\ Through(v, t) = Cardinality(G)
    BY DEF Through
<1>2. IsFiniteSet(F) /\ IsFiniteSet(G) /\ Cardinality(F) \in Nat /\ Cardinality(G) \in Nat /\ Cap \in Nat
    BY <1>1, CountsAreNumbers, LimitsAreNumbers
<1>3. \A g \in Groups : ~On(p, g) => v[g] = via[g]
    BY AlongIs DEF v
<1>4. CASE ~\E y \in Groups : On(p, y) /\ v[y] = t
    <2>1. G \in SUBSET F
        BY <1>3, <1>4
    <2> HIDE DEF F, G
    <2>2. Cardinality(G) <= Cardinality(F)
        BY <1>2, <2>1, FS_Subset
    <2>3. QED BY <1>1, <1>2, <2>2 DEF v
<1>5. ASSUME NEW y \in Groups, On(p, y), v[y] = t
      PROVE  Through(v, t) <= Cap
    <2>0. n \in Nat /\ \A i, j \in 1..n : p[i] = p[j] => i = j
        BY RouteTurns DEF Route
    <2>1. ASSUME NEW z \in Groups, On(p, z), v[z] = t PROVE z = y
        <3>1. Position(p, y) \in 1..n - 1 /\ Position(p, y) + 1 \in 1..n - 1 /\ p[Position(p, y)] = GroupNode(y) /\ p[Position(p, y) + 1] = TopicNode(t)
            BY <1>5, AlongIs DEF v
        <3>2. Position(p, z) \in 1..n - 1 /\ Position(p, z) + 1 \in 1..n - 1 /\ p[Position(p, z)] = GroupNode(z) /\ p[Position(p, z) + 1] = TopicNode(t)
            BY <2>1, AlongIs DEF v
        <3>3. Position(p, y) + 1 = Position(p, z) + 1
            BY <2>0, <3>1, <3>2
        <3>4. Position(p, y) = Position(p, z)
            BY <2>0, <3>1, <3>2, <3>3
        <3>5. QED BY <3>1, <3>2, <3>4, NodesDiffer
    <2>2. PICK j \in 1..n - 1 : p[j] = TopicNode(t)
        BY <1>5, AlongIs DEF v
    <2>3. /\ j + 1 \in 1..n - 1
          /\ \/ p[j + 1] = CategoryNode(CategoryOf(t)) /\ Through(via, t) < Cap
             \/ \E g \in Groups : via[g] = t /\ t # "none" /\ p[j + 1] = GroupNode(g)
        BY <2>2, RouteTurns
    <2>4. CASE Through(via, t) < Cap
        <3>1. G \subseteq F \union {y}
            BY <1>3, <2>1
        <3> HIDE DEF F, G
        <3>2. Cardinality(G) <= Cardinality(F) + 1
            BY <1>2, <3>1, OneMore
        <3>3. QED BY <1>1, <1>2, <2>4, <3>2
    <2>5. CASE \E g \in Groups : via[g] = t /\ t # "none" /\ p[j + 1] = GroupNode(g)
        <3>1. PICK x \in Groups : via[x] = t /\ p[j + 1] = GroupNode(x)
            BY <2>5
        <3>2. On(p, x) /\ x \in F
            BY <2>3, <3>1 DEF On
        <3>3. G \subseteq (F \ {x}) \union {y}
            BY <1>3, <2>1, <3>2
        <3> HIDE DEF F, G
        <3>4. Cardinality(G) <= Cardinality(F)
            BY <1>2, <3>2, <3>3, OneForAnother
        <3>5. QED BY <1>1, <1>2, <3>4
    <2>6. QED BY <2>3, <2>4, <2>5
<1>6. QED BY <1>4, <1>5 DEF v

LEMMA RoomsAreNumbers ==
    ASSUME Requested, relaxed \in Nat
    PROVE  \A c \in Categories : Room(c) \in Nat /\ quotas[c] \in Nat
<1> DEFINE n == Cardinality(settings.categories)
           k == settings.count \div n
<1>1. SUFFICES ASSUME NEW c \in Categories PROVE Room(c) \in Nat /\ quotas[c] \in Nat
    OBVIOUS
<1>2. IsFiniteSet(settings.categories) /\ c \in settings.categories /\ settings.count \in Nat
    BY GenerationAssumption DEF Requested, Categories
<1>3. n \in Nat /\ n # 0
    BY <1>2, FS_CardinalityType, FS_EmptySet
<1>4. quotas \in [settings.categories -> {k, k + 1}]
    BY DEF Requested, Quotas
<1> HIDE DEF n
<1>5. k \in Nat
    BY <1>2, <1>3
<1> HIDE DEF k
<1>6. quotas[c] \in Nat
    BY <1>2, <1>4, <1>5
<1>7. QED BY <1>2, <1>6 DEF Room

\* Where the flow of a category that the group g of path p displaces is found on the path.
Displaced(p, c, g, k) ==
    /\ k \in 1..Len(p) - 1
    /\ \E x \in Groups : via[x] # "none" /\ CategoryOf(via[x]) = c /\ p[k] = GroupNode(x)
    /\ k = Position(p, g) + 2 \/ (k = Position(p, g) + 4 /\ p[Position(p, g) + 2] = CategoryNode(c))

\* A moved group displaces one of its new category, unless that category has room.
LEMMA CategoryOnRoute ==
    ASSUME Requested, Flows(via), NEW p, Route(p), NEW c \in Categories,
           NEW g \in Groups, On(p, g), CategoryOf(Along(p)[g]) = c
    PROVE  \/ \E k : Displaced(p, c, g, k)
           \/ p[Position(p, g) + 2] = CategoryNode(c) /\ Into(via, c) < Room(c)
<1> DEFINE n == Len(p)
           t == Along(p)[g]
           i == Position(p, g)
<1>1. n \in Nat /\ \A j, k \in 1..n : p[j] = p[k] => j = k
    BY RouteTurns DEF Route
<1>2. i \in 1..n - 1 /\ i + 1 \in 1..n - 1 /\ i + 2 \in 1..n - 1 /\ p[i + 1] = TopicNode(t)
    BY AlongIs
<1>3. CategoryOf(t) = c
    OBVIOUS
<1> HIDE DEF n, t, i
<1>4. \/ p[(i + 1) + 1] = CategoryNode(CategoryOf(t))
      \/ \E x \in Groups : via[x] = t /\ t # "none" /\ p[(i + 1) + 1] = GroupNode(x)
    BY <1>2, RouteTurns DEF n
<1>5. (i + 1) + 1 = i + 2 /\ ((i + 2) + 1) + 1 = i + 4 /\ i + 2 # i + 4
    BY <1>2
<1>6. CASE \E x \in Groups : via[x] = t /\ t # "none" /\ p[(i + 1) + 1] = GroupNode(x)
    BY <1>2, <1>3, <1>5, <1>6 DEF Displaced, n, i
<1>7. CASE p[(i + 1) + 1] = CategoryNode(CategoryOf(t))
    <2>1. p[i + 2] = CategoryNode(c)
        BY <1>3, <1>5, <1>7
    <2>2. \/ p[(i + 2) + 1] = Sink /\ Into(via, c) < Room(c)
          \/ \E u \in Topics : CategoryOf(u) = c /\ p[(i + 2) + 1] = TopicNode(u) /\ (i + 2) + 1 \in 1..n - 1
        BY <1>2, <2>1, RouteTurns DEF n
    <2>3. CASE Into(via, c) < Room(c)
        BY <2>1, <2>3 DEF i
    <2>4. CASE \E u \in Topics : CategoryOf(u) = c /\ p[(i + 2) + 1] = TopicNode(u) /\ (i + 2) + 1 \in 1..n - 1
        <3>1. PICK u \in Topics : CategoryOf(u) = c /\ p[(i + 2) + 1] = TopicNode(u) /\ (i + 2) + 1 \in 1..n - 1
            BY <2>4
        <3>2. /\ ((i + 2) + 1) + 1 \in 1..n - 1
              /\ \/ p[((i + 2) + 1) + 1] = CategoryNode(CategoryOf(u))
                 \/ \E x \in Groups : via[x] = u /\ u # "none" /\ p[((i + 2) + 1) + 1] = GroupNode(x)
            BY <3>1, RouteTurns DEF n
        <3>3. i + 4 \in 1..n - 1
            BY <1>5, <3>2
        <3>4. p[i + 4] # CategoryNode(c)
            BY <1>1, <1>2, <1>5, <2>1, <3>3
        <3>5. PICK x \in Groups : via[x] = u /\ u # "none" /\ p[i + 4] = GroupNode(x)
            BY <1>5, <3>1, <3>2, <3>4
        <3>6. Displaced(p, c, g, i + 4)
            BY <2>1, <3>1, <3>3, <3>5 DEF Displaced, n, i
        <3>7. QED BY <3>6
    <2>5. QED BY <2>2, <2>3, <2>4
<1>8. QED BY <1>4, <1>6, <1>7

\* The room of a category is kept: a group that comes to it displaces one of its own, and the
\* only one that does not needs room.
LEMMA IntoIsKept ==
    ASSUME Requested, Flows(via), NEW p, Route(p), NEW c \in Categories, Into(via, c) <= Room(c), Room(c) \in Nat
    PROVE  Into(Along(p), c) <= Room(c)
<1> DEFINE n == Len(p)
           v == Along(p)
           K == {g \in Groups : via[g] # "none" /\ CategoryOf(via[g]) = c}
           M == {g \in Groups : v[g] # "none" /\ CategoryOf(v[g]) = c}
           Pays(g) == \E k : Displaced(p, c, g, k)
           Spot(g) == CHOOSE k : Displaced(p, c, g, k)
           M0 == {g \in M : On(p, g) => Pays(g)}
           f == [g \in M0 |-> IF On(p, g) THEN p[Spot(g)][2] ELSE g]
<1>1. Into(via, c) = Cardinality(K) /\ Into(v, c) = Cardinality(M)
    BY DEF Into
<1>2. IsFiniteSet(K) /\ IsFiniteSet(M) /\ Cardinality(K) \in Nat /\ Cardinality(M) \in Nat
    <2> HIDE DEF v
    <2>1. QED BY <1>1, CountsAreNumbers
<1>3. n \in Nat /\ \A j, k \in 1..n : p[j] = p[k] => j = k
    BY RouteTurns DEF Route
<1>4. \A g \in M : ~On(p, g) => g \in K
    BY AlongIs
<1>5. \A g \in M : On(p, g) => /\ Position(p, g) \in 1..n - 1 /\ Position(p, g) + 2 \in 1..n - 1 /\ p[Position(p, g)] = GroupNode(g)
                               /\ Pays(g) \/ (p[Position(p, g) + 2] = CategoryNode(c) /\ Into(via, c) < Room(c))
    <2>1. SUFFICES ASSUME NEW g \in M, On(p, g)
                   PROVE  /\ Position(p, g) \in 1..n - 1 /\ Position(p, g) + 2 \in 1..n - 1 /\ p[Position(p, g)] = GroupNode(g)
                          /\ Pays(g) \/ (p[Position(p, g) + 2] = CategoryNode(c) /\ Into(via, c) < Room(c))
        OBVIOUS
    <2>2. g \in Groups /\ CategoryOf(Along(p)[g]) = c
        OBVIOUS
    <2>3. Position(p, g) \in 1..n - 1 /\ Position(p, g) + 2 \in 1..n - 1 /\ p[Position(p, g)] = GroupNode(g)
        BY <2>1, <2>2, AlongIs
    <2>4. QED BY <2>1, <2>2, <2>3, CategoryOnRoute
<1> HIDE DEF v, K, M
<1>6. ASSUME NEW g \in M0, On(p, g)
      PROVE  \E x \in K : /\ Spot(g) \in 1..n - 1 /\ p[Spot(g)] = GroupNode(x) /\ f[g] = x
                          /\ Spot(g) = Position(p, g) + 2 \/ (Spot(g) = Position(p, g) + 4 /\ p[Position(p, g) + 2] = CategoryNode(c))
    <2>1. Displaced(p, c, g, Spot(g))
        BY <1>6
    <2>2. f[g] = p[Spot(g)][2]
        BY <1>6
    <2> HIDE DEF Spot, f
    <2>3. PICK x \in Groups : via[x] # "none" /\ CategoryOf(via[x]) = c /\ p[Spot(g)] = GroupNode(x)
        BY <2>1 DEF Displaced
    <2>4. x \in K /\ f[g] = x
        BY <2>2, <2>3, NodesDiffer DEF K
    <2>5. QED BY <2>1, <2>3, <2>4 DEF Displaced
<1>7. ASSUME NEW g \in M0, ~On(p, g) PROVE f[g] = g /\ g \in K
    BY <1>4, <1>7
<1>8. f \in [M0 -> K]
    <2>1. \A g \in M0 : f[g] \in K
        BY <1>6, <1>7
    <2>2. QED BY <2>1
<1> HIDE DEF f, Spot
<1>9. ASSUME NEW g \in M0, NEW h \in M0, f[g] = f[h], On(p, g), On(p, h) PROVE g = h
    <2>1. PICK x \in K : /\ Spot(g) \in 1..n - 1 /\ p[Spot(g)] = GroupNode(x) /\ f[g] = x
                         /\ Spot(g) = Position(p, g) + 2 \/ (Spot(g) = Position(p, g) + 4 /\ p[Position(p, g) + 2] = CategoryNode(c))
        BY <1>6, <1>9
    <2>2. PICK y \in K : /\ Spot(h) \in 1..n - 1 /\ p[Spot(h)] = GroupNode(y) /\ f[h] = y
                         /\ Spot(h) = Position(p, h) + 2 \/ (Spot(h) = Position(p, h) + 4 /\ p[Position(p, h) + 2] = CategoryNode(c))
        BY <1>6, <1>9
    <2>3. Spot(g) = Spot(h)
        <3>1. x = y
            BY <1>9, <2>1, <2>2
        <3>2. Spot(g) \in 1..n /\ Spot(h) \in 1..n /\ p[Spot(g)] = p[Spot(h)]
            BY <1>3, <2>1, <2>2, <3>1
        <3> HIDE DEF M0
        <3>3. QED BY <1>3, <3>2
    <2>4. Position(p, g) \in 1..n - 1 /\ Position(p, h) \in 1..n - 1 /\ p[Position(p, g)] = GroupNode(g) /\ p[Position(p, h)] = GroupNode(h)
        BY <1>5, <1>9
    <2>5. \/ Position(p, g) = Position(p, h)
          \/ Position(p, g) = Position(p, h) + 2 /\ p[Position(p, h) + 2] = CategoryNode(c)
          \/ Position(p, h) = Position(p, g) + 2 /\ p[Position(p, g) + 2] = CategoryNode(c)
        BY <1>3, <2>1, <2>2, <2>3, <2>4
    <2>6. QED BY <2>4, <2>5, NodesDiffer
<1>10. ASSUME NEW g \in M0, NEW h \in M0, f[g] = f[h], On(p, g), ~On(p, h) PROVE FALSE
    <2>1. PICK x \in K : Spot(g) \in 1..n - 1 /\ p[Spot(g)] = GroupNode(x) /\ f[g] = x
        BY <1>6, <1>10
    <2>2. x = h
        BY <1>7, <1>10, <2>1
    <2>3. QED BY <1>10, <2>1, <2>2 DEF On
<1>11. \A g, h \in M0 : f[g] = f[h] => g = h
    <2>1. SUFFICES ASSUME NEW g \in M0, NEW h \in M0, f[g] = f[h] PROVE g = h
        OBVIOUS
    <2>2. CASE ~On(p, g) /\ ~On(p, h)
        BY <1>7, <2>1, <2>2
    <2>3. QED BY <1>9, <1>10, <2>1, <2>2
<1>12. f \in Injection(M0, K)
    BY <1>8, <1>11 DEF Injection, IsInjective
<1>13. IsFiniteSet(M0) /\ Cardinality(M0) <= Cardinality(K) /\ Cardinality(M0) \in Nat
    <2> HIDE DEF M0
    <2>1. QED BY <1>2, <1>12, FS_Injection, FS_CardinalityType
<1>14. CASE M = M0
    <2> HIDE DEF M0
    <2>1. QED BY <1>1, <1>2, <1>13, <1>14 DEF v
<1>15. ASSUME NEW y \in M, y \notin M0
       PROVE  Into(v, c) <= Room(c)
    <2>1. On(p, y) /\ ~Pays(y)
        BY <1>15
    <2>2. p[Position(p, y) + 2] = CategoryNode(c) /\ Into(via, c) < Room(c)
        BY <1>5, <2>1
    <2>3. ASSUME NEW z \in M, z \notin M0 PROVE z = y
        <3>1. On(p, z) /\ ~Pays(z)
            BY <2>3
        <3>2. /\ Position(p, z) \in 1..n - 1 /\ Position(p, z) + 2 \in 1..n - 1 /\ p[Position(p, z)] = GroupNode(z)
              /\ p[Position(p, z) + 2] = CategoryNode(c)
            BY <1>5, <3>1
        <3>3. Position(p, y) \in 1..n - 1 /\ Position(p, y) + 2 \in 1..n - 1 /\ p[Position(p, y)] = GroupNode(y)
            BY <1>5, <2>1
        <3>4. Position(p, y) + 2 = Position(p, z) + 2
            BY <1>3, <2>2, <3>2, <3>3
        <3>5. Position(p, y) = Position(p, z)
            BY <1>3, <3>2, <3>3, <3>4
        <3>6. QED BY <3>2, <3>3, <3>5, NodesDiffer
    <2>4. M \subseteq M0 \union {y}
        BY <2>3
    <2> HIDE DEF M0
    <2>5. Cardinality(M) <= Cardinality(M0) + 1
        BY <1>13, <2>4, OneMore
    <2>6. QED BY <1>1, <1>2, <1>13, <2>2, <2>5
<1>16. M0 \subseteq M
    OBVIOUS
<1>17. QED BY <1>14, <1>15, <1>16 DEF v

LEMMA RoutesAreFound ==
    ASSUME Requested, Flows(via)
    PROVE  /\ \A p \in Augmenting : Route(p)
           /\ Augmenting = {} =>
                 \E R \in SUBSET Node : /\ Source \in R /\ Sink \notin R
                                        /\ \A x, y : <<x, y>> \in Residual /\ x \in R => y \in R
<1>1. IsFiniteSet(Node)
    BY NetworkIsFinite
<1>2. Residual \subseteq Node \X Node
    BY StepsAre DEF StepOK
<1>3. /\ \A p \in Augmenting : Simple(p, Residual) /\ p[Len(p)] = Sink
      /\ Augmenting = {} =>
            \E R \in SUBSET Node : /\ Source \in R /\ Sink \notin R
                                   /\ \A e \in Residual : e[1] \in R => e[2] \in R
    BY <1>1, <1>2, SearchFinds
<1>4. \A p \in Augmenting : Route(p)
    BY <1>3 DEF Simple, Route
<1>5. ASSUME NEW R, \A e \in Residual : e[1] \in R => e[2] \in R, NEW x, NEW y, <<x, y>> \in Residual, x \in R
      PROVE  y \in R
    <2> DEFINE e == <<x, y>>
    <2>1. e[1] = x /\ e[2] = y /\ e \in Residual
        BY <1>5
    <2> HIDE DEF e
    <2>2. QED BY <1>5, <2>1
<1>6. QED BY <1>3, <1>4, <1>5

\* An augmented flow is a flow within the capacities.
LEMMA AugmentKeeps ==
    ASSUME Requested, relaxed \in Nat, Flows(via), Fits(via), NEW p \in Augmenting
    PROVE  Flows(Along(p)) /\ Fits(Along(p))
<1>1. Route(p)
    BY RoutesAreFound
<1>2. \A t \in Topics : Through(Along(p), t) <= Cap
    BY <1>1, ThroughIsKept DEF Fits
<1>3. \A c \in Categories : Into(Along(p), c) <= Room(c)
    BY <1>1, IntoIsKept, RoomsAreNumbers DEF Fits
<1>4. QED BY <1>1, <1>2, <1>3, AlongFlows DEF Fits

\* A flow that no path augments is as large as any choice of questions, one of each group,
\* within the capacities. What the search has come near is a cut: each question chosen is
\* counted where it crosses, and the flow is saturated there.
LEMMA NoPathBounds ==
    ASSUME Requested, relaxed \in Nat, Flows(via), Augmenting = {},
           NEW S \in SUBSET Pool,
           \A q, r \in S : pool[q].group = pool[r].group => q = r,
           \A t \in Topics : Cardinality({q \in S : pool[q].topic = t}) <= Cap,
           \A c \in Categories : Share(S, c) <= Room(c)
    PROVE  Cardinality(S) <= Total(via)
<1> DEFINE F == {g \in Groups : via[g] # "none"}
<1>1. PICK R \in SUBSET Node : /\ Source \in R /\ Sink \notin R
                               /\ \A x, y : <<x, y>> \in Residual /\ x \in R => y \in R
    BY RoutesAreFound
<1>2. \A g \in Groups : via[g] = "none" => GroupNode(g) \in R
    BY <1>1, StepsExist
<1>3. \A q \in Pool : GroupNode(pool[q].group) \in R /\ via[pool[q].group] # pool[q].topic => TopicNode(pool[q].topic) \in R
    BY <1>1, StepsExist
<1>4. \A t \in Topics : TopicNode(t) \in R /\ CategoryNode(CategoryOf(t)) \notin R => ~(Through(via, t) < Cap)
    BY <1>1, StepsExist
<1>5. \A c \in Categories : CategoryNode(c) \in R => ~(Into(via, c) < Room(c))
    BY <1>1, StepsExist
<1>6. \A g \in F : TopicNode(via[g]) \in R => GroupNode(g) \in R
    BY <1>1, StepsExist
<1>7. \A g \in F : CategoryNode(CategoryOf(via[g])) \in R => TopicNode(via[g]) \in R
    BY <1>1, StepsExist
<1> DEFINE Crossing(g, t, c) == IF GroupNode(g) \notin R \/ TopicNode(t) \notin R THEN GroupNode(g)
                                ELSE IF CategoryNode(c) \in R THEN CategoryNode(c) ELSE TopicNode(t)
           a == [q \in S |-> Crossing(pool[q].group, pool[q].topic, pool[q].category)]
           b == [g \in F |-> Crossing(g, via[g], CategoryOf(via[g]))]
           As(k) == {q \in S : a[q] = k}
           Bs(k) == {g \in F : b[g] = k}
<1>8. IsFiniteSet(S) /\ IsFiniteSet(F) /\ Total(via) = Cardinality(F)
    BY NetworkIsFinite, CountsAreNumbers DEF Total
<1>9. \A k : As(k) \in SUBSET S /\ Bs(k) \in SUBSET F
    OBVIOUS
<1>10. \A k : IsFiniteSet(As(k)) /\ IsFiniteSet(Bs(k)) /\ Cardinality(As(k)) \in Nat /\ Cardinality(Bs(k)) \in Nat
    <2> HIDE DEF As, Bs, F
    <2>1. QED BY <1>8, <1>9, FS_Subset, FS_CardinalityType
<1>11. \A q \in S : /\ q \in Pool /\ pool[q].group \in Groups /\ pool[q].topic \in Topics
                    /\ pool[q].category = CategoryOf(pool[q].topic) /\ pool[q].category \in Categories
    BY TopicsAreOfCategories
<1>12. \A q \in S : a[q] = Crossing(pool[q].group, pool[q].topic, pool[q].category)
    OBVIOUS
<1>13. \A g \in F : b[g] = Crossing(g, via[g], CategoryOf(via[g]))
    OBVIOUS
<1> HIDE DEF a, b
<1>14. \A q \in S : a[q] = GroupNode(pool[q].group) \/ a[q] = CategoryNode(pool[q].category) \/ a[q] = TopicNode(pool[q].topic)
    BY <1>12
<1>15. ASSUME NEW k PROVE Cardinality(As(k)) <= Cardinality(Bs(k))
    <2>1. CASE As(k) = {}
        <3> HIDE DEF As, Bs
        <3>1. Cardinality(As(k)) = 0
            BY <2>1, FS_EmptySet
        <3>2. QED BY <1>10, <3>1
    <2>2. ASSUME NEW q \in As(k) PROVE Cardinality(As(k)) <= Cardinality(Bs(k))
        <3> DEFINE g == pool[q].group
                   t == pool[q].topic
                   c == pool[q].category
        <3>1. q \in S /\ k = Crossing(g, t, c) /\ g \in Groups /\ t \in Topics /\ c = CategoryOf(t) /\ c \in Categories
            BY <1>11, <1>12
        <3>2. CASE k = GroupNode(g)
            <4>1. ASSUME NEW r \in As(k) PROVE r = q
                <5>1. r \in S /\ (k = GroupNode(pool[r].group) \/ k = CategoryNode(pool[r].category) \/ k = TopicNode(pool[r].topic))
                    BY <1>14
                <5>2. pool[r].group = g
                    BY <3>2, <5>1, NodesDiffer
                <5>3. QED BY <3>1, <5>1, <5>2
            <4>2. g \in F /\ (GroupNode(g) \notin R \/ TopicNode(via[g]) \notin R)
                <5>1. GroupNode(g) \notin R \/ TopicNode(t) \notin R
                    BY <3>1, <3>2, NodesDiffer
                <5>2. CASE GroupNode(g) \notin R
                    BY <1>2, <3>1, <5>2
                <5>3. CASE GroupNode(g) \in R /\ TopicNode(t) \notin R
                    <6>1. via[g] = t
                        BY <1>3, <1>11, <3>1, <5>3
                    <6>2. QED BY <3>1, <5>3, <6>1, TopicsAreOfCategories
                <5>4. QED BY <5>1, <5>2, <5>3
            <4>3. g \in Bs(k)
                BY <1>13, <3>2, <4>2
            <4> HIDE DEF As, Bs, g
            <4>4. As(k) \subseteq {q} /\ {g} \in SUBSET Bs(k)
                BY <4>1, <4>3
            <4>5. Cardinality({q}) = 1 /\ Cardinality({g}) = 1 /\ IsFiniteSet({q})
                BY FS_Singleton
            <4>6. Cardinality(As(k)) <= Cardinality({q}) /\ Cardinality({g}) <= Cardinality(Bs(k))
                BY <1>10, <4>4, <4>5, FS_Subset
            <4>7. QED BY <1>10, <4>5, <4>6
        <3>3. CASE k = CategoryNode(c) /\ k # GroupNode(g)
            <4>1. CategoryNode(c) \in R
                BY <3>1, <3>3, NodesDiffer
            <4>2. As(k) \subseteq {r \in S : pool[r].category = c}
                <5>1. ASSUME NEW r \in As(k) PROVE pool[r].category = c
                    <6>1. k = GroupNode(pool[r].group) \/ k = CategoryNode(pool[r].category) \/ k = TopicNode(pool[r].topic)
                        BY <1>14
                    <6>2. QED BY <3>3, <6>1, NodesDiffer
                <5>2. QED BY <5>1
            <4>3. {h \in Groups : via[h] # "none" /\ CategoryOf(via[h]) = c} \subseteq Bs(k)
                <5>1. ASSUME NEW h \in F, CategoryOf(via[h]) = c PROVE h \in Bs(k)
                    <6>1. TopicNode(via[h]) \in R /\ GroupNode(h) \in R
                        BY <1>6, <1>7, <4>1, <5>1
                    <6>2. Crossing(h, via[h], CategoryOf(via[h])) = k
                        BY <3>3, <4>1, <5>1, <6>1
                    <6>3. QED BY <1>13, <6>2
                <5>2. QED BY <5>1
            <4>4. ~(Into(via, c) < Room(c)) /\ Share(S, c) <= Room(c) /\ Into(via, c) \in Nat /\ Room(c) \in Nat
                BY <1>5, <3>1, <4>1, CountsAreNumbers, RoomsAreNumbers
            <4> HIDE DEF As, Bs, F, c, g, t
            <4>5. {r \in S : pool[r].category = c} \in SUBSET S
                OBVIOUS
            <4>6. Cardinality(As(k)) <= Share(S, c) /\ Share(S, c) \in Nat
                BY <1>8, <4>2, <4>5, FS_Subset, FS_CardinalityType DEF Share
            <4>7. Into(via, c) <= Cardinality(Bs(k))
                BY <1>10, <4>3, FS_Subset DEF Into
            <4>8. QED BY <1>10, <4>4, <4>6, <4>7
        <3>4. CASE k = TopicNode(t) /\ k # GroupNode(g) /\ k # CategoryNode(c)
            <4>1. GroupNode(g) \in R /\ TopicNode(t) \in R /\ CategoryNode(c) \notin R
                BY <3>1, <3>4, NodesDiffer
            <4>2. As(k) \subseteq {r \in S : pool[r].topic = t}
                <5>1. ASSUME NEW r \in As(k) PROVE pool[r].topic = t
                    <6>1. k = GroupNode(pool[r].group) \/ k = CategoryNode(pool[r].category) \/ k = TopicNode(pool[r].topic)
                        BY <1>14
                    <6>2. QED BY <3>4, <6>1, NodesDiffer
                <5>2. QED BY <5>1
            <4>3. {h \in Groups : via[h] = t} \subseteq Bs(k)
                <5>1. ASSUME NEW h \in Groups, via[h] = t PROVE h \in Bs(k)
                    <6>1. h \in F
                        BY <3>1, <5>1, TopicsAreOfCategories
                    <6>2. GroupNode(h) \in R
                        BY <1>6, <4>1, <5>1, <6>1
                    <6>3. Crossing(h, via[h], CategoryOf(via[h])) = k
                        BY <3>1, <3>4, <4>1, <5>1, <6>2
                    <6>4. QED BY <1>13, <6>1, <6>3
                <5>2. QED BY <5>1
            <4>4. ~(Through(via, t) < Cap) /\ Through(via, t) \in Nat /\ Cap \in Nat
                BY <1>4, <3>1, <4>1, CountsAreNumbers, LimitsAreNumbers
            <4>5. Cardinality({r \in S : pool[r].topic = t}) <= Cap
                BY <3>1
            <4> HIDE DEF As, Bs, F, c, g, t
            <4>6. {r \in S : pool[r].topic = t} \in SUBSET S
                OBVIOUS
            <4>7. Cardinality(As(k)) <= Cardinality({r \in S : pool[r].topic = t}) /\ Cardinality({r \in S : pool[r].topic = t}) \in Nat
                BY <1>8, <4>2, <4>6, FS_Subset, FS_CardinalityType
            <4>8. Through(via, t) <= Cardinality(Bs(k))
                BY <1>10, <4>3, FS_Subset DEF Through
            <4>9. QED BY <1>10, <4>4, <4>5, <4>7, <4>8
        <3>5. QED BY <3>1, <3>2, <3>3, <3>4
    <2>3. QED BY <2>1, <2>2
<1>16. Cardinality(S) <= Cardinality(F)
    <2>1. \A k : Labelled(S, a, k) <= Labelled(F, b, k)
        BY <1>15 DEF Labelled
    <2> HIDE DEF F
    <2>2. IsFiniteSet(S) /\ IsFiniteSet(F)
        BY <1>8
    <2>3. QED BY <2>1, <2>2, ByLabels
<1>17. QED BY <1>8, <1>16

(***************************************************************************)
(* Choices of questions.                                                   *)
(***************************************************************************)

LEMMA PoolSubsets ==
    ASSUME Requested, NEW S \in SUBSET Pool
    PROVE  /\ IsFiniteSet(S) /\ Cardinality(S) \in Nat
           /\ \A t : IsFiniteSet({q \in S : pool[q].topic = t}) /\ Cardinality({q \in S : pool[q].topic = t}) \in Nat
                     /\ Cardinality({q \in S : pool[q].topic = t}) <= Cardinality(S)
           /\ \A c : IsFiniteSet({q \in S : pool[q].category = c}) /\ Share(S, c) \in Nat /\ Share(S, c) <= Cardinality(S)
<1> DEFINE T(t) == {q \in S : pool[q].topic = t}
           C(c) == {q \in S : pool[q].category = c}
<1>1. \A t : T(t) \in SUBSET S
    OBVIOUS
<1>2. \A c : C(c) \in SUBSET S
    OBVIOUS
<1>3. IsFiniteSet(S) /\ Cardinality(S) \in Nat
    BY NetworkIsFinite
<1> HIDE DEF T, C
<1>4. \A t : IsFiniteSet(T(t)) /\ Cardinality(T(t)) \in Nat /\ Cardinality(T(t)) <= Cardinality(S)
    BY <1>1, <1>3, FS_Subset, FS_CardinalityType
<1>5. \A c : IsFiniteSet(C(c)) /\ Cardinality(C(c)) \in Nat /\ Cardinality(C(c)) <= Cardinality(S)
    BY <1>2, <1>3, FS_Subset, FS_CardinalityType
<1>6. \A t : IsFiniteSet({q \in S : pool[q].topic = t}) /\ Cardinality({q \in S : pool[q].topic = t}) \in Nat
             /\ Cardinality({q \in S : pool[q].topic = t}) <= Cardinality(S)
    BY <1>4 DEF T
<1>7. \A c : IsFiniteSet({q \in S : pool[q].category = c}) /\ Share(S, c) \in Nat /\ Share(S, c) <= Cardinality(S)
    BY <1>5 DEF C, Share
<1>8. QED BY <1>3, <1>6, <1>7

\* A flow that fits and is as large as a choice that meets the quotas meets them too.
LEMMA QuotasAreMet ==
    ASSUME Requested, Flows(via), NEW S \in SUBSET Pool, Total(via) = Cardinality(S),
           \A c \in Categories : Into(via, c) <= quotas[c],
           \A c \in Categories : Share(S, c) = quotas[c]
    PROVE  \A c \in Categories : Into(via, c) = quotas[c]
<1> DEFINE F == {g \in Groups : via[g] # "none"}
           a == [g \in F |-> CategoryOf(via[g])]
           b == [q \in S |-> pool[q].category]
<1>1. IsFiniteSet(F) /\ Total(via) = Cardinality(F) /\ IsFiniteSet(S)
    BY NetworkIsFinite, CountsAreNumbers DEF Total
<1>2. \A k : {g \in F : a[g] = k} = {g \in Groups : via[g] # "none" /\ CategoryOf(via[g]) = k}
    OBVIOUS
<1>3. \A k : Labelled(F, a, k) = Into(via, k)
    <2> HIDE DEF F, a
    <2>1. QED BY <1>2 DEF Labelled, Into
<1>4. \A k : {q \in S : b[q] = k} = {q \in S : pool[q].category = k}
    OBVIOUS
<1>5. \A k : Labelled(S, b, k) = Share(S, k)
    <2> HIDE DEF b
    <2>1. QED BY <1>4 DEF Labelled, Share
<1>6. \A g \in F : a[g] \in Categories
    BY TopicsAreOfCategories DEF Flows
<1>7. ASSUME NEW k, k \notin Categories PROVE Labelled(F, a, k) = 0
    <2>1. {g \in F : a[g] = k} = {}
        BY <1>6, <1>7
    <2> HIDE DEF F, a
    <2>2. QED BY <2>1, FS_EmptySet DEF Labelled
<1> HIDE DEF F, a, b
<1>8. \A k : Labelled(S, b, k) \in Nat
    BY <1>5, PoolSubsets
<1>9. ASSUME NEW k PROVE Labelled(F, a, k) <= Labelled(S, b, k)
    <2>1. CASE k \in Categories
        BY <1>3, <1>5, <2>1
    <2>2. CASE k \notin Categories
        BY <1>7, <1>8, <2>2
    <2>3. QED BY <2>1, <2>2
<1>10. Cardinality(F) = Cardinality(S)
    BY <1>1
<1>11. \A k : Labelled(F, a, k) = Labelled(S, b, k)
    <2>1. IsFiniteSet(F) /\ IsFiniteSet(S)
        BY <1>1
    <2>2. \A k : Labelled(F, a, k) <= Labelled(S, b, k)
        BY <1>9
    <2>3. QED BY <1>10, <2>1, <2>2, ByLabels
<1>12. QED BY <1>3, <1>5, <1>11

\* The selections of a flow: the right number, within the limits, and of the flow's categories.
LEMMA SelectionIsAllowed ==
    ASSUME Requested, Flows(via), Fits(via), Total(via) = settings.count,
           NEW S \in SUBSET Pool,
           \A q \in S : via[pool[q].group] = pool[q].topic,
           \A g \in Groups : Cardinality({q \in S : pool[q].group = g}) = IF via[g] = "none" THEN 0 ELSE 1
    PROVE  S \in Allowed /\ \A c \in Categories : Share(S, c) = Into(via, c)
<1> DEFINE F == {g \in Groups : via[g] # "none"}
           Of(g) == {q \in S : pool[q].group = g}
<1>1. \A q \in S : pool[q].group \in Groups /\ pool[q].topic \in Topics /\ via[pool[q].group] = pool[q].topic
                   /\ pool[q].topic # "none" /\ CategoryOf(pool[q].topic) = pool[q].category
    BY TopicsAreOfCategories
<1>2. \A g : IsFiniteSet(Of(g))
    <2>1. \A g : Of(g) \in SUBSET Pool
        OBVIOUS
    <2> HIDE DEF Of
    <2>2. QED BY <2>1, NetworkIsFinite
<1>3. ASSUME NEW q \in S, NEW r \in S, pool[q].group = pool[r].group PROVE q = r
    <2> DEFINE g == pool[q].group
    <2>1. Cardinality(Of(g)) = 1 /\ q \in Of(g) /\ r \in Of(g)
        BY <1>1, <1>3
    <2> HIDE DEF Of, g
    <2>2. \E x : Of(g) = {x}
        BY <1>2, <2>1, FS_Singleton
    <2>3. QED BY <2>1, <2>2
<1>4. ASSUME NEW g \in F PROVE \E q \in S : pool[q].group = g
    <2>1. Cardinality(Of(g)) = 1
        OBVIOUS
    <2>2. Of(g) # {}
        <3> HIDE DEF Of
        <3>1. QED BY <1>2, <2>1, FS_EmptySet
    <2>3. QED BY <2>2
<1>5. ASSUME NEW A \in SUBSET S, NEW B \in SUBSET F,
             \A q \in A : pool[q].group \in B,
             \A q \in S : pool[q].group \in B => q \in A
      PROVE  Cardinality(A) = Cardinality(B)
    <2> DEFINE h == [q \in A |-> pool[q].group]
    <2>1. IsFiniteSet(A) /\ IsFiniteSet(B)
        <3>1. IsFiniteSet(S) /\ IsFiniteSet(F)
            BY NetworkIsFinite, CountsAreNumbers
        <3> HIDE DEF F
        <3>2. QED BY <3>1, FS_Subset
    <2> HIDE DEF F
    <2>2. h \in [A -> B]
        BY <1>5
    <2>3. \A q, r \in A : h[q] = h[r] => q = r
        BY <1>3
    <2>4. \A g \in B : \E q \in A : h[q] = g
        BY <1>4, <1>5
    <2> HIDE DEF h
    <2>5. h \in Injection(A, B) /\ h \in Surjection(A, B)
        BY <2>2, <2>3, <2>4 DEF Injection, IsInjective, Surjection
    <2>6. QED BY <2>1, <2>5, FS_Injection
<1>6. Cardinality(S) = settings.count
    <2>1. \A q \in S : pool[q].group \in F
        BY <1>1
    <2>2. Total(via) = Cardinality(F)
        BY DEF Total
    <2> HIDE DEF F
    <2>3. Cardinality(S) = Cardinality(F)
        BY <1>5, <2>1
    <2>4. QED BY <2>2, <2>3
<1>7. ASSUME NEW t \in Topics PROVE Cardinality({q \in S : pool[q].topic = t}) <= Cap
    <2> DEFINE A == {q \in S : pool[q].topic = t}
               B == {g \in Groups : via[g] = t}
    <2>1. A \in SUBSET S /\ B \in SUBSET F
        BY TopicsAreOfCategories
    <2>2. \A q \in A : pool[q].group \in B
        BY <1>1
    <2>3. \A q \in S : pool[q].group \in B => q \in A
        BY <1>1
    <2>4. Cardinality(B) = Through(via, t)
        BY DEF Through
    <2> HIDE DEF A, B, F
    <2>5. Cardinality(A) = Through(via, t)
        BY <1>5, <2>1, <2>2, <2>3, <2>4
    <2>6. QED BY <2>5 DEF Fits, A
<1>8. ASSUME NEW c \in Categories PROVE Share(S, c) = Into(via, c)
    <2> DEFINE A == {q \in S : pool[q].category = c}
               B == {g \in Groups : via[g] # "none" /\ CategoryOf(via[g]) = c}
    <2>1. A \in SUBSET S /\ B \in SUBSET F
        OBVIOUS
    <2>2. \A q \in A : pool[q].group \in B
        BY <1>1
    <2>3. \A q \in S : pool[q].group \in B => q \in A
        BY <1>1
    <2>4. Cardinality(B) = Into(via, c) /\ Cardinality(A) = Share(S, c)
        BY DEF Into, Share
    <2> HIDE DEF A, B, F
    <2>5. QED BY <1>5, <2>1, <2>2, <2>3, <2>4
<1>9. QED BY <1>3, <1>6, <1>7, <1>8 DEF Allowed

(***************************************************************************)
(* The invariant.                                                          *)
(***************************************************************************)

\* Some selection meets the quotas.
QuotasCanBeMet == \E S \in Allowed : \A c \in Categories : Share(S, c) = quotas[c]

\* The flow fits; quotas are relaxed and a shortage is reported only with reason; what is selected
\* was asked for.
GenInv ==
    /\ Requested /\ relaxed \in Nat
    /\ Flows(via) /\ Fits(via)
    /\ settings.balanced /\ relaxed # 0 => ~QuotasCanBeMet
    /\ stage = "short" => Allowed = {}
    /\ stage \in {"fit", "done"} =>
          /\ selected \in Allowed /\ Total(via) = settings.count
          /\ settings.balanced => \A c \in Categories : Share(selected, c) = Into(via, c)

\* What depends on the request alone stays while it does.
LEMMA SameRequest ==
    ASSUME UNCHANGED <<pool, settings, quotas>>
    PROVE  /\ Requested' = Requested /\ Allowed' = Allowed /\ QuotasCanBeMet' = QuotasCanBeMet
           /\ Categories' = Categories /\ Topics' = Topics
           /\ Flows(via)' = Flows(via') /\ Total(via)' = Total(via')
           /\ \A t : Through(via, t)' = Through(via', t)
           /\ \A c : Into(via, c)' = Into(via', c) /\ Share(selected, c)' = Share(selected', c)
           /\ Cap' = Cap
           /\ \A c : Room(c)' = IF settings.balanced THEN quotas[c] + relaxed' ELSE settings.count
<1>1. Pool' = Pool /\ Categories' = Categories
    BY DEF Pool, Categories
<1>2. Groups' = Groups /\ Topics' = Topics
    BY <1>1 DEF Groups, Topics
<1>3. \A t : CategoryOf(t)' = CategoryOf(t)
    BY <1>1 DEF CategoryOf
<1>4. Cap' = Cap /\ Requested' = Requested
    BY DEF Cap, Requested, Quotas
<1>5. Total(via)' = Total(via') /\ \A t : Through(via, t)' = Through(via', t)
    BY <1>2 DEF Total, Through
<1>6. \A c : Into(via, c)' = Into(via', c)
    BY <1>1, <1>2 DEF Into, CategoryOf
<1>7. \A S, c : Share(S, c)' = Share(S, c)
    BY DEF Share
<1>8. \A c : Share(selected, c)' = Share(selected', c)
    BY DEF Share
<1>9. Flows(via)' = Flows(via')
    BY <1>1, <1>2 DEF Flows
<1>10. Allowed' = Allowed
    BY <1>1, <1>2, <1>4 DEF Allowed
<1>11. QuotasCanBeMet' = QuotasCanBeMet
    BY <1>1, <1>7, <1>10 DEF QuotasCanBeMet
<1>12. \A c : Room(c)' = IF settings.balanced THEN quotas[c] + relaxed' ELSE settings.count
    BY DEF Room
<1>13. QED BY <1>1, <1>2, <1>4, <1>5, <1>6, <1>8, <1>9, <1>10, <1>11, <1>12

\* A flow that stays keeps its capacities when rooms do not shrink.
LEMMA FlowStays ==
    ASSUME UNCHANGED <<pool, settings, quotas, via>>, Requested, relaxed \in Nat, relaxed' \in Nat, relaxed <= relaxed',
           Flows(via), Fits(via)
    PROVE  Requested' /\ Flows(via)' /\ Fits(via)'
<1>1. /\ Requested' = Requested /\ Categories' = Categories /\ Topics' = Topics /\ Flows(via)' = Flows(via') /\ Cap' = Cap
      /\ \A t : Through(via, t)' = Through(via', t)
      /\ \A c : Into(via, c)' = Into(via', c)
      /\ \A c : Room(c)' = IF settings.balanced THEN quotas[c] + relaxed' ELSE settings.count
    BY SameRequest
<1>2. \A t \in Topics : Through(via, t)' <= Cap
    BY <1>1 DEF Fits
<1>3. \A c \in Categories : Into(via, c)' <= Room(c)'
    <2> TAKE c \in Categories
    <2>1. Into(via, c) <= Room(c) /\ Into(via, c) \in Nat /\ quotas[c] \in Nat /\ Into(via, c)' = Into(via, c)
        BY <1>1, CountsAreNumbers, RoomsAreNumbers DEF Fits
    <2>2. Room(c) = IF settings.balanced THEN quotas[c] + relaxed ELSE settings.count
        BY DEF Room
    <2>3. Room(c)' = IF settings.balanced THEN quotas[c] + relaxed' ELSE settings.count
        BY <1>1
    <2>4. settings.count \in Nat
        BY LimitsAreNumbers
    <2>5. QED BY <2>1, <2>2, <2>3, <2>4
<1>4. Fits(via)'
    BY <1>1, <1>2, <1>3 DEF Fits
<1>5. QED BY <1>1, <1>4

LEMMA AugmentKeepsInv ==
    ASSUME GenInv, Augment
    PROVE  GenInv'
<1>1. PICK p \in Augmenting : via' = Along(p)
    BY DEF Augment
<1>2. stage = "fill" /\ UNCHANGED <<pool, settings, quotas, relaxed, targets, selected, stage>>
    BY DEF Augment
<1>3. Flows(via') /\ Fits(via')
    BY <1>1, AugmentKeeps DEF GenInv
<1>4. /\ Requested' = Requested /\ Categories' = Categories /\ Topics' = Topics /\ Flows(via)' = Flows(via') /\ Cap' = Cap
      /\ \A t : Through(via, t)' = Through(via', t)
      /\ \A c : Into(via, c)' = Into(via', c)
      /\ \A c : Room(c)' = Room(c)
      /\ QuotasCanBeMet' = QuotasCanBeMet
    BY <1>2, SameRequest DEF Room
<1>5. Fits(via)'
    BY <1>3, <1>4 DEF Fits
<1>6. QED BY <1>2, <1>3, <1>4, <1>5 DEF GenInv

\* Once no path is left, what was asked for cannot be had with the rooms as they are.
LEMMA NoneFits ==
    ASSUME GenInv, Augmenting = {}, Total(via) < settings.count,
           NEW S \in Allowed, \A c \in Categories : Share(S, c) <= Room(c)
    PROVE  FALSE
<1>1. /\ S \in SUBSET Pool /\ Cardinality(S) = settings.count
      /\ \A q, r \in S : pool[q].group = pool[r].group => q = r
      /\ \A t \in Topics : Cardinality({q \in S : pool[q].topic = t}) <= Cap
    BY DEF Allowed
<1>2. Cardinality(S) <= Total(via)
    BY <1>1, NoPathBounds DEF GenInv
<1>3. Total(via) \in Nat /\ settings.count \in Nat
    BY CountsAreNumbers, LimitsAreNumbers DEF GenInv
<1>4. QED BY <1>1, <1>2, <1>3

LEMMA RelaxKeepsInv ==
    ASSUME GenInv, Relax
    PROVE  GenInv'
<1>1. /\ stage = "fill" /\ settings.balanced /\ relaxed' = relaxed + 1
      /\ UNCHANGED <<pool, settings, quotas, via, targets, selected, stage>>
    BY DEF Relax
<1>2. relaxed \in Nat /\ relaxed' \in Nat /\ relaxed <= relaxed'
    BY <1>1 DEF GenInv
<1>3. Requested' /\ Flows(via)' /\ Fits(via)'
    BY <1>1, <1>2, FlowStays DEF GenInv
<1>4. ~QuotasCanBeMet
    <2>1. CASE relaxed # 0
        BY <1>1, <2>1 DEF GenInv
    <2>2. CASE relaxed = 0
        <3>1. SUFFICES ASSUME NEW S \in Allowed, \A c \in Categories : Share(S, c) = quotas[c]
                       PROVE  FALSE
            BY DEF QuotasCanBeMet
        <3>2. ASSUME NEW c \in Categories PROVE Share(S, c) <= Room(c)
            <4>1. quotas[c] \in Nat /\ Room(c) = quotas[c] + 0
                BY <1>1, <1>2, <2>2, RoomsAreNumbers DEF GenInv, Room
            <4>2. QED BY <3>1, <4>1
        <3>3. QED BY <3>2, NoneFits DEF Relax
    <2>3. QED BY <2>1, <2>2
<1>5. QuotasCanBeMet' = QuotasCanBeMet
    BY <1>1, SameRequest
<1>6. QED BY <1>1, <1>2, <1>3, <1>4, <1>5 DEF GenInv

LEMMA ShortageKeepsInv ==
    ASSUME GenInv, Shortage
    PROVE  GenInv'
<1>1. /\ stage' = "short"
      /\ settings.balanced => relaxed = settings.count
      /\ UNCHANGED <<pool, settings, quotas, via, relaxed, targets, selected>>
    BY DEF Shortage
<1>2. relaxed \in Nat /\ relaxed' \in Nat /\ relaxed <= relaxed'
    BY <1>1 DEF GenInv
<1>3. Requested' /\ Flows(via)' /\ Fits(via)'
    BY <1>1, <1>2, FlowStays DEF GenInv
<1>4. Allowed = {}
    <2>1. SUFFICES ASSUME NEW S \in Allowed PROVE FALSE
        OBVIOUS
    <2>2. S \in SUBSET Pool /\ Cardinality(S) = settings.count /\ settings.count \in Nat
        BY LimitsAreNumbers DEF Allowed, GenInv
    <2>3. ASSUME NEW c \in Categories PROVE Share(S, c) <= Room(c)
        <3>1. Share(S, c) \in Nat /\ Share(S, c) <= settings.count
            BY <2>2, PoolSubsets DEF GenInv
        <3>2. quotas[c] \in Nat
            BY <1>2, RoomsAreNumbers DEF GenInv
        <3>3. Room(c) = IF settings.balanced THEN quotas[c] + relaxed ELSE settings.count
            BY DEF Room
        <3>4. QED BY <1>1, <2>2, <3>1, <3>2, <3>3
    <2>4. QED BY <2>3, NoneFits DEF Shortage
<1>5. QuotasCanBeMet' = QuotasCanBeMet /\ Allowed' = Allowed
    BY <1>1, SameRequest
<1>6. stage' \notin {"fit", "done"}
    BY <1>1
<1>7. settings.balanced' /\ relaxed' # 0 => ~QuotasCanBeMet'
    BY <1>1, <1>5 DEF GenInv
<1>8. QED BY <1>2, <1>3, <1>4, <1>5, <1>6, <1>7 DEF GenInv

LEMMA SelectKeepsInv ==
    ASSUME GenInv, Select
    PROVE  GenInv'
<1>1. /\ stage' = "fit" /\ Total(via) = settings.count
      /\ UNCHANGED <<pool, settings, quotas, via, relaxed, targets>>
    BY DEF Select
<1>2. relaxed \in Nat /\ relaxed' \in Nat /\ relaxed <= relaxed'
    BY <1>1 DEF GenInv
<1>3. Requested' /\ Flows(via)' /\ Fits(via)'
    BY <1>1, <1>2, FlowStays DEF GenInv
<1>4. selected' \in Allowed /\ \A c \in Categories : Share(selected', c) = Into(via, c)
    <2>1. /\ selected' \in SUBSET Pool /\ \A q \in selected' : via[pool[q].group] = pool[q].topic
          /\ \A g \in Groups : Cardinality({q \in selected' : pool[q].group = g}) = IF via[g] = "none" THEN 0 ELSE 1
        BY DEF Select
    <2>2. QED BY <1>1, <2>1, SelectionIsAllowed DEF GenInv
<1>5. /\ QuotasCanBeMet' = QuotasCanBeMet /\ Allowed' = Allowed /\ Categories' = Categories /\ Total(via)' = Total(via')
      /\ \A c : Into(via, c)' = Into(via', c) /\ Share(selected, c)' = Share(selected', c)
    BY <1>1, SameRequest
<1>6. /\ selected' \in Allowed' /\ Total(via)' = settings.count'
      /\ \A c \in Categories' : Share(selected, c)' = Into(via, c)'
    BY <1>1, <1>4, <1>5
<1>7. settings.balanced' /\ relaxed' # 0 => ~QuotasCanBeMet'
    BY <1>1, <1>5 DEF GenInv
<1>8. QED BY <1>1, <1>2, <1>3, <1>6, <1>7 DEF GenInv

\* The exchange of one question for another in a choice of questions.
LEMMA ExchangeIsAllowed ==
    ASSUME Requested, NEW S \in Allowed, NEW new \in Pool, NEW old \in S, new # old,
           pool[new].group = pool[old].group \/ \A q \in S : pool[q].group # pool[new].group,
           \/ settings.max_per_topic = 0 \/ pool[new].topic = pool[old].topic
           \/ Cardinality({q \in S : pool[q].topic = pool[new].topic}) < settings.max_per_topic
    PROVE  /\ (S \ {old}) \union {new} \in Allowed
           /\ pool[new].category = pool[old].category =>
                 \A c \in Categories : Share((S \ {old}) \union {new}, c) = Share(S, c)
<1> DEFINE N == (S \ {old}) \union {new}
<1>1. /\ S \in SUBSET Pool /\ Cardinality(S) = settings.count
      /\ \A q, r \in S : pool[q].group = pool[r].group => q = r
      /\ \A t \in Topics : Cardinality({q \in S : pool[q].topic = t}) <= Cap
    BY DEF Allowed
<1>2. N \in SUBSET Pool
    BY <1>1
<1>3. new \notin S
    BY <1>1
<1>4. \A q, r \in N : pool[q].group = pool[r].group => q = r
    BY <1>1
<1>5. ASSUME NEW A, IsFiniteSet(A), old \in A, new \notin A
      PROVE  Cardinality((A \ {old}) \union {new}) = Cardinality(A)
    <2> DEFINE B == A \ {old}
    <2>1. IsFiniteSet(B) /\ Cardinality(B) = Cardinality(A) - 1 /\ Cardinality(A) \in Nat
        BY <1>5, FS_RemoveElement, FS_CardinalityType
    <2>2. new \notin B
        BY <1>5
    <2> HIDE DEF B
    <2>3. Cardinality(B \union {new}) = Cardinality(B) + 1
        BY <2>1, <2>2, FS_AddElement
    <2>4. QED BY <2>1, <2>3 DEF B
<1>6. Cardinality(N) = settings.count
    <2>1. IsFiniteSet(S)
        BY <1>1, PoolSubsets
    <2>2. QED BY <1>1, <1>3, <1>5, <2>1
<1>7. ASSUME NEW t \in Topics PROVE Cardinality({q \in N : pool[q].topic = t}) <= Cap
    <2> DEFINE T == {q \in S : pool[q].topic = t}
               U == {q \in N : pool[q].topic = t}
    <2>1. IsFiniteSet(T) /\ Cardinality(T) \in Nat /\ Cardinality(T) <= Cap
        BY <1>1, PoolSubsets
    <2>2. IsFiniteSet(U) /\ Cardinality(U) \in Nat /\ Cardinality(U) <= Cardinality(N)
        <3> HIDE DEF N
        <3>1. QED BY <1>2, PoolSubsets
    <2>3. settings.count \in Nat /\ settings.max_per_topic \in Nat /\ Cap \in Nat
        BY LimitsAreNumbers
    <2>4. CASE settings.max_per_topic = 0
        <3>1. Cap = settings.count
            BY <2>4 DEF Cap
        <3> HIDE DEF N, U
        <3>2. QED BY <1>6, <2>2, <2>3, <3>1 DEF U
    <2>5. CASE pool[new].topic = pool[old].topic
        <3>1. CASE pool[old].topic = t
            <4>1. U \subseteq (T \ {old}) \union {new} /\ old \in T
                BY <2>5, <3>1
            <4> HIDE DEF T, U
            <4>2. Cardinality(U) <= Cardinality(T)
                BY <2>1, <4>1, OneForAnother
            <4>3. QED BY <2>1, <2>2, <2>3, <4>2 DEF U
        <3>2. CASE pool[old].topic # t
            <4>1. U \in SUBSET T
                BY <2>5, <3>2
            <4> HIDE DEF T, U
            <4>2. Cardinality(U) <= Cardinality(T)
                BY <2>1, <4>1, FS_Subset
            <4>3. QED BY <2>1, <2>2, <2>3, <4>2 DEF U
        <3>3. QED BY <3>1, <3>2
    <2>6. CASE settings.max_per_topic # 0 /\ Cardinality({q \in S : pool[q].topic = pool[new].topic}) < settings.max_per_topic
        <3>1. Cap = settings.max_per_topic
            BY <2>6 DEF Cap
        <3>2. CASE pool[new].topic = t
            <4>1. Cardinality(T) < Cap
                BY <2>6, <3>1, <3>2
            <4>2. U \subseteq T \union {new}
                OBVIOUS
            <4> HIDE DEF T, U
            <4>3. Cardinality(U) <= Cardinality(T) + 1
                BY <2>1, <4>2, OneMore
            <4>4. QED BY <2>1, <2>2, <2>3, <4>1, <4>3 DEF U
        <3>3. CASE pool[new].topic # t
            <4>1. U \in SUBSET T
                BY <3>3
            <4> HIDE DEF T, U
            <4>2. Cardinality(U) <= Cardinality(T)
                BY <2>1, <4>1, FS_Subset
            <4>3. QED BY <2>1, <2>2, <2>3, <4>2 DEF U
        <3>4. QED BY <3>2, <3>3
    <2>7. QED BY <2>4, <2>5, <2>6
<1>8. N \in Allowed
    <2> HIDE DEF N
    <2>1. QED BY <1>2, <1>4, <1>6, <1>7 DEF Allowed
<1>9. ASSUME pool[new].category = pool[old].category, NEW c \in Categories
      PROVE  Share(N, c) = Share(S, c)
    <2> DEFINE C == {q \in S : pool[q].category = c}
               D == {q \in N : pool[q].category = c}
    <2>1. Share(N, c) = Cardinality(D) /\ Share(S, c) = Cardinality(C) /\ IsFiniteSet(C)
        BY <1>1, PoolSubsets DEF Share
    <2>2. CASE pool[old].category = c
        <3>1. D = (C \ {old}) \union {new} /\ old \in C /\ new \notin C
            BY <1>3, <1>9, <2>2
        <3> HIDE DEF C, D, N
        <3>2. QED BY <1>5, <2>1, <3>1
    <2>3. CASE pool[old].category # c
        <3>1. D = C
            BY <1>9, <2>3
        <3> HIDE DEF C, D, N
        <3>2. QED BY <2>1, <3>1
    <2>4. QED BY <2>2, <2>3
<1>10. QED BY <1>8, <1>9

LEMMA ExchangeKeepsInv ==
    ASSUME GenInv, Exchange
    PROVE  GenInv'
<1>1. stage = "fit" /\ UNCHANGED <<pool, settings, quotas, via, relaxed, targets, stage>>
    BY DEF Exchange
<1>2. PICK i \in 1..3 : \E e \in Exchanges(i) : selected' = (selected \ {e[2]}) \union {e[1]}
    BY DEF Exchange
<1>3. PICK new \in Pool, old \in selected :
          selected' = (selected \ {old}) \union {new} /\ MayReplace(new, old)
    BY <1>2 DEF Exchanges
<1>4. /\ selected' \in Allowed
      /\ settings.balanced => \A c \in Categories : Share(selected', c) = Share(selected, c)
    <2>1. selected \in Allowed /\ Requested
        BY <1>1 DEF GenInv
    <2>2. /\ pool[new].group = pool[old].group \/ \A q \in selected : pool[q].group # pool[new].group
          /\ settings.balanced => pool[new].category = pool[old].category
          /\ \/ settings.max_per_topic = 0 \/ pool[new].topic = pool[old].topic
             \/ Cardinality({q \in selected : pool[q].topic = pool[new].topic}) < settings.max_per_topic
        BY <1>3 DEF MayReplace, OfTopic
    <2>3. CASE new = old
        <3>1. selected' = selected
            BY <1>3, <2>3
        <3>2. QED BY <2>1, <3>1
    <2>4. CASE new # old
        BY <1>3, <2>1, <2>2, <2>4, ExchangeIsAllowed
    <2>5. QED BY <2>3, <2>4
<1>5. relaxed \in Nat /\ relaxed' \in Nat /\ relaxed <= relaxed'
    BY <1>1 DEF GenInv
<1>6. Requested' /\ Flows(via)' /\ Fits(via)'
    BY <1>1, <1>5, FlowStays DEF GenInv
<1>7. /\ QuotasCanBeMet' = QuotasCanBeMet /\ Allowed' = Allowed /\ Categories' = Categories /\ Total(via)' = Total(via')
      /\ \A c : Into(via, c)' = Into(via', c) /\ Share(selected, c)' = Share(selected', c)
    BY <1>1, SameRequest
<1>8. /\ selected' \in Allowed' /\ Total(via)' = settings.count'
      /\ settings.balanced' => \A c \in Categories' : Share(selected, c)' = Into(via, c)'
    BY <1>1, <1>4, <1>7 DEF GenInv
<1>9. settings.balanced' /\ relaxed' # 0 => ~QuotasCanBeMet'
    BY <1>1, <1>7 DEF GenInv
<1>10. QED BY <1>1, <1>5, <1>6, <1>8, <1>9 DEF GenInv

LEMMA ReturnKeepsInv ==
    ASSUME GenInv, UNCHANGED <<pool, settings, quotas, via, relaxed, targets, selected>>,
           stage' = stage \/ (stage = "fit" /\ stage' = "done")
    PROVE  GenInv'
<1>1. relaxed \in Nat /\ relaxed' \in Nat /\ relaxed <= relaxed'
    BY DEF GenInv
<1>2. Requested' /\ Flows(via)' /\ Fits(via)'
    BY <1>1, FlowStays DEF GenInv
<1>3. /\ QuotasCanBeMet' = QuotasCanBeMet /\ Allowed' = Allowed /\ Categories' = Categories /\ Total(via)' = Total(via')
      /\ \A c : Into(via, c)' = Into(via', c) /\ Share(selected, c)' = Share(selected', c)
    BY SameRequest
<1>4. QED BY <1>1, <1>2, <1>3 DEF GenInv

LEMMA GenInvStarts ==
    ASSUME GenerationInit
    PROVE  GenInv
<1>1. Requested /\ relaxed = 0 /\ stage = "fill" /\ via = [g \in Groups |-> "none"]
    BY DEF GenerationInit, Requested
<1>2. Flows(via)
    BY <1>1 DEF Flows
<1>3. Cardinality({}) = 0
    BY FS_EmptySet
<1>4. ASSUME NEW t \in Topics PROVE Through(via, t) <= Cap
    <2>1. {g \in Groups : via[g] = t} = {}
        BY <1>1, TopicsAreOfCategories
    <2>2. QED BY <1>1, <1>3, <2>1, LimitsAreNumbers DEF Through
<1>5. ASSUME NEW c \in Categories PROVE Into(via, c) <= Room(c)
    <2>1. {g \in Groups : via[g] # "none" /\ CategoryOf(via[g]) = c} = {}
        BY <1>1
    <2>2. Into(via, c) = 0
        BY <1>3, <2>1 DEF Into
    <2>3. Room(c) \in Nat
        BY <1>1, RoomsAreNumbers
    <2>4. QED BY <2>2, <2>3
<1>6. QED BY <1>1, <1>2, <1>4, <1>5 DEF GenInv, Fits

\* What the generator reports is so.
LEMMA GenInvShows ==
    ASSUME GenInv
    PROVE  GeneratedAsAsked
<1>1. /\ stage = "short" => Allowed = {}
      /\ stage \in {"fit", "done"} => selected \in Allowed
    BY DEF GenInv
<1>2. ASSUME stage = "done", settings.balanced
      PROVE  /\ \A c \in Categories : Share(selected, c) = Into(via, c)
             /\ QuotasCanBeMet => \A c \in Categories : Share(selected, c) = quotas[c]
    <2>1. Total(via) = settings.count /\ \A c \in Categories : Share(selected, c) = Into(via, c)
        BY <1>2 DEF GenInv
    <2>2. ASSUME QuotasCanBeMet PROVE \A c \in Categories : Into(via, c) = quotas[c]
        <3>1. PICK S \in Allowed : \A c \in Categories : Share(S, c) = quotas[c]
            BY <2>2 DEF QuotasCanBeMet
        <3>2. relaxed = 0
            BY <1>2, <2>2 DEF GenInv
        <3>3. \A c \in Categories : Into(via, c) <= quotas[c]
            <4> TAKE c \in Categories
            <4>1. Into(via, c) <= Room(c) /\ quotas[c] \in Nat
                BY RoomsAreNumbers DEF GenInv, Fits
            <4>2. Room(c) = quotas[c] + 0
                BY <1>2, <3>2 DEF Room
            <4>3. QED BY <4>1, <4>2
        <3>4. S \in SUBSET Pool /\ Total(via) = Cardinality(S)
            BY <2>1 DEF Allowed
        <3>5. QED BY <3>1, <3>3, <3>4, QuotasAreMet DEF GenInv
    <2>3. QED BY <2>1, <2>2
<1>3. QED BY <1>1, <1>2 DEF GeneratedAsAsked, QuotasCanBeMet

LEMMA GenInvStep ==
    ASSUME GenInv, [GenerationNext]_generationVars
    PROVE  GenInv'
<1>1. CASE Return
    BY <1>1, ReturnKeepsInv DEF Return
<1>2. CASE UNCHANGED generationVars
    BY <1>2, ReturnKeepsInv DEF generationVars
<1>3. QED BY <1>1, <1>2, AugmentKeepsInv, RelaxKeepsInv, ShortageKeepsInv, SelectKeepsInv, ExchangeKeepsInv
          DEF GenerationNext

\* However the search and the shuffles choose: a shortage is reported only where no choice of
\* questions satisfies the request, what is selected satisfies it after every exchange, and a
\* balanced quiz meets its quotas wherever some choice meets them
\* (scholars/quiz_generation.py: generate, Flow.fill, fit_difficulty).
THEOREM GeneratorIsExact == GenerationSpec => []GeneratedAsAsked
<1>1. GenInv /\ [GenerationNext]_generationVars => GenInv'
    BY GenInvStep
<1>2. QED BY <1>1, GenInvStarts, GenInvShows, PTL DEF GenerationSpec

(***************************************************************************)
(* The generator descends.                                                 *)
(***************************************************************************)

\* By how much the choice S is short of questions of level i.
Lack(S, i) == IF Deficit(S, i) > 0 THEN Deficit(S, i) ELSE 0

\* A bound on the steps that the generator has still to take.
StepsLeft ==
    IF stage = "fill"
    THEN 2 + (targets[1] + targets[2] + targets[3]) + (settings.count - Total(via)) + (settings.count - relaxed)
    ELSE IF stage = "fit" THEN 1 + Lack(selected, 1) + Lack(selected, 2) + Lack(selected, 3)
    ELSE 0

\* A path takes the flow of one more group, its first.
LEMMA AugmentAddsOne ==
    ASSUME Requested, Flows(via), NEW p \in Augmenting
    PROVE  Total(Along(p)) = Total(via) + 1
<1> DEFINE n == Len(p)
           v == Along(p)
           F == {g \in Groups : via[g] # "none"}
           G == {g \in Groups : v[g] # "none"}
<1>1. Route(p)
    BY RoutesAreFound
<1>2. /\ n \in Nat /\ n > 0 /\ p[1] = Source /\ p[n] = Sink
      /\ \A i \in 1..n - 1 : <<p[i], p[i + 1]>> \in Residual
      /\ \A i, j \in 1..n : p[i] = p[j] => i = j
    BY <1>1, RouteTurns DEF Route
<1>3. 1 \in 1..n - 1
    BY <1>2, NodesDiffer
<1>4. ASSUME NEW i \in 1..n - 1, NEW g \in Groups, p[i + 1] = GroupNode(g), p[i] # Source PROVE via[g] # "none"
    <2> DEFINE e == <<p[i], p[i + 1]>>
    <2>1. e \in Residual /\ e[1] = p[i] /\ e[2] = GroupNode(g)
        BY <1>2, <1>4
    <2> HIDE DEF e
    <2>2. \/ \E h \in Groups : via[h] = "none" /\ e = <<Source, GroupNode(h)>>
          \/ \E q \in Pool : via[pool[q].group] # pool[q].topic /\ e = <<GroupNode(pool[q].group), TopicNode(pool[q].topic)>>
          \/ \E t \in Topics : Through(via, t) < Cap /\ e = <<TopicNode(t), CategoryNode(CategoryOf(t))>>
          \/ \E c \in Categories : Into(via, c) < Room(c) /\ e = <<CategoryNode(c), Sink>>
          \/ \E h \in Groups : via[h] # "none" /\ e = <<TopicNode(via[h]), GroupNode(h)>>
          \/ \E h \in Groups : via[h] # "none" /\ e = <<CategoryNode(CategoryOf(via[h])), TopicNode(via[h])>>
        BY <2>1, StepsByKind
    <2>3. PICK h \in Groups : via[h] # "none" /\ e[2] = GroupNode(h)
        BY <1>4, <2>1, <2>2, NodesDiffer
    <2>4. QED BY <2>1, <2>3, NodesDiffer
<1>5. PICK first \in Groups : via[first] = "none" /\ p[2] = GroupNode(first)
    <2> DEFINE e == <<p[1], p[1 + 1]>>
    <2>1. e \in Residual /\ e[1] = Source /\ e[2] = p[2]
        BY <1>2, <1>3
    <2> HIDE DEF e
    <2>2. StepOK(e)
        BY <2>1, StepsAre
    <2>3. QED BY <2>1, <2>2 DEF StepOK
<1>6. On(p, first)
    <2>1. 2 \in 1..n - 1
        BY <1>2, <1>3, <1>5, NodesDiffer
    <2>2. QED BY <1>5, <2>1 DEF On
<1>7. \A g \in Groups : On(p, g) => v[g] # "none"
    BY <1>1, AlongIs, TopicsAreOfCategories
<1>8. \A g \in Groups : ~On(p, g) => v[g] = via[g]
    BY <1>1, AlongIs
<1>9. ASSUME NEW g \in Groups, On(p, g), via[g] = "none" PROVE g = first
    <2>1. PICK i \in 1..n - 1 : p[i] = GroupNode(g)
        BY <1>9 DEF On
    <2>2. i # 1
        BY <1>2, <2>1, NodesDiffer
    <2>3. i - 1 \in 1..n - 1 /\ (i - 1) + 1 = i
        BY <1>2, <2>2
    <2>4. p[i - 1] = p[1]
        <3>1. p[(i - 1) + 1] = GroupNode(g)
            BY <2>1, <2>3
        <3>2. QED BY <1>2, <1>4, <1>9, <2>3, <3>1
    <2>5. i - 1 = 1
        BY <1>2, <1>3, <2>3, <2>4
    <2>6. p[2] = GroupNode(g)
        BY <2>1, <2>5
    <2>7. QED BY <1>5, <2>6, NodesDiffer
<1> HIDE DEF v
<1>10. G = F \union {first} /\ first \notin F
    BY <1>5, <1>6, <1>7, <1>8, <1>9
<1>11. Total(via) = Cardinality(F) /\ Total(v) = Cardinality(G) /\ IsFiniteSet(F)
    BY CountsAreNumbers DEF Total
<1> HIDE DEF F, G
<1>12. QED BY <1>10, <1>11, FS_AddElement DEF v

LEMMA RatedIsNumber ==
    ASSUME Requested, NEW S \in SUBSET Pool, NEW i \in 1..3
    PROVE  /\ IsFiniteSet({q \in S : pool[q].difficulty = Levels[i]})
           /\ Rated(S, i) = Cardinality({q \in S : pool[q].difficulty = Levels[i]}) /\ Rated(S, i) \in Nat
<1> DEFINE D == {q \in S : pool[q].difficulty = Levels[i]}
<1>1. D \in SUBSET Pool
    OBVIOUS
<1>2. Rated(S, i) = Cardinality(D)
    BY DEF Rated
<1> HIDE DEF D
<1>3. IsFiniteSet(D) /\ Cardinality(D) \in Nat
    BY <1>1, PoolSubsets
<1>4. QED BY <1>2, <1>3 DEF D

LEMMA LackIsNumber ==
    ASSUME Requested, targets \in [1..3 -> Nat], NEW S \in SUBSET Pool, NEW i \in 1..3
    PROVE  Deficit(S, i) \in Int /\ Lack(S, i) \in Nat /\ Lack(S, i) <= targets[i]
<1>1. Rated(S, i) \in Nat /\ targets[i] \in Nat
    BY RatedIsNumber
<1>2. Deficit(S, i) = targets[i] - Rated(S, i)
    BY DEF Deficit
<1>3. Deficit(S, i) \in Int /\ Deficit(S, i) <= targets[i]
    BY <1>1, <1>2
<1>4. QED BY <1>1, <1>3 DEF Lack

\* An exchange takes from what there is too much of, and gives to what there is too little of.
LEMMA ExchangeMeetsDemand ==
    ASSUME Requested, targets \in [1..3 -> Nat], NEW S \in SUBSET Pool, NEW new \in Pool, NEW old \in S, new \notin S,
           NEW i \in 1..3, pool[new].difficulty = Levels[i], Deficit(S, i) > 0,
           \A k \in 1..3 : pool[old].difficulty = Levels[k] => Deficit(S, k) < 0
    PROVE  LET N == (S \ {old}) \union {new} IN
           /\ \A k \in 1..3 : Lack(N, k) \in Nat /\ Lack(N, k) <= Lack(S, k)
           /\ Lack(N, i) < Lack(S, i)
<1> DEFINE N == (S \ {old}) \union {new}
           C(k) == {q \in S : pool[q].difficulty = Levels[k]}
           D(k) == {q \in N : pool[q].difficulty = Levels[k]}
<1>1. N \in SUBSET Pool
    OBVIOUS
<1>2. \A k \in 1..3 : /\ IsFiniteSet(C(k)) /\ Rated(S, k) = Cardinality(C(k)) /\ Rated(S, k) \in Nat
                      /\ Deficit(S, k) \in Int /\ Lack(S, k) \in Nat /\ Deficit(S, k) = targets[k] - Rated(S, k)
                      /\ targets[k] \in Nat
    BY RatedIsNumber, LackIsNumber DEF Deficit
<1>3. \A k \in 1..3 : /\ IsFiniteSet(D(k)) /\ Rated(N, k) = Cardinality(D(k)) /\ Rated(N, k) \in Nat
                      /\ Deficit(N, k) \in Int /\ Lack(N, k) \in Nat /\ Deficit(N, k) = targets[k] - Rated(N, k)
    <2> HIDE DEF N
    <2>1. QED BY <1>1, RatedIsNumber, LackIsNumber DEF Deficit
<1>4. \A k \in 1..3 : k # i => Levels[k] # Levels[i]
    BY DEF Levels
<1>5. pool[old].difficulty # Levels[i]
    <2>1. SUFFICES ASSUME pool[old].difficulty = Levels[i] PROVE FALSE
        OBVIOUS
    <2>2. Deficit(S, i) < 0 /\ Deficit(S, i) > 0 /\ Deficit(S, i) \in Int
        BY <1>2, <2>1
    <2>3. QED BY <2>2
<1>6. Deficit(N, i) = Deficit(S, i) - 1
    <2>1. D(i) = C(i) \union {new} /\ new \notin C(i)
        BY <1>5
    <2> HIDE DEF C, D, N
    <2>2. Cardinality(D(i)) = Cardinality(C(i)) + 1
        BY <1>2, <2>1, FS_AddElement
    <2>3. Rated(N, i) = Rated(S, i) + 1
        BY <1>2, <1>3, <2>2
    <2>4. QED BY <1>2, <1>3, <2>3
<1>7. ASSUME NEW k \in 1..3, k # i PROVE Deficit(N, k) = Deficit(S, k) \/ (Deficit(S, k) < 0 /\ Deficit(N, k) = Deficit(S, k) + 1)
    <2>1. pool[new].difficulty # Levels[k]
        BY <1>4, <1>7
    <2>2. CASE pool[old].difficulty = Levels[k]
        <3>1. D(k) = C(k) \ {old} /\ old \in C(k)
            BY <2>1, <2>2
        <3> HIDE DEF C, D, N
        <3>2. Cardinality(D(k)) = Cardinality(C(k)) - 1
            BY <1>2, <3>1, FS_RemoveElement
        <3>3. Rated(N, k) = Rated(S, k) - 1
            BY <1>2, <1>3, <3>2
        <3>4. Deficit(S, k) < 0
            BY <2>2
        <3>5. QED BY <1>2, <1>3, <3>3, <3>4
    <2>3. CASE pool[old].difficulty # Levels[k]
        <3>1. D(k) = C(k)
            BY <2>1, <2>3
        <3> HIDE DEF C, D, N
        <3>2. Rated(N, k) = Rated(S, k)
            BY <1>2, <1>3, <3>1
        <3>3. QED BY <1>2, <1>3, <3>2
    <2>4. QED BY <2>2, <2>3
<1> HIDE DEF C, D, N
<1>8. \A k \in 1..3 : Deficit(S, k) \in Int /\ Deficit(N, k) \in Int
    BY <1>2, <1>3
<1>9. Lack(N, i) < Lack(S, i)
    BY <1>6, <1>8 DEF Lack
<1>10. \A k \in 1..3 : k # i => Lack(N, k) <= Lack(S, k)
    BY <1>7, <1>8 DEF Lack
<1>11. \A k \in 1..3 : Lack(N, k) \in Nat /\ Lack(N, k) <= Lack(S, k)
    BY <1>2, <1>3, <1>9, <1>10
<1>12. QED BY <1>9, <1>11 DEF N

LEMMA TargetsAreNumbers ==
    ASSUME settings \in Settings, targets \in difficulty_targets(settings)
    PROVE  targets \in [1..3 -> Nat]
<1> DEFINE w == settings.weights
           sum == w[1] + w[2] + w[3]
           whole == [i \in 1..3 |-> (settings.count * w[i]) \div sum]
<1>1. PICK R \in SUBSET (1..3) : targets = [i \in 1..3 |-> whole[i] + (IF i \in R THEN 1 ELSE 0)]
    BY DEF difficulty_targets
<1>2. settings.count \in Nat /\ w \in [1..3 -> Nat] /\ sum > 0
    BY GenerationAssumption
<1>3. sum \in Nat
    BY <1>2
<1> HIDE DEF sum
<1>4. ASSUME NEW i \in 1..3 PROVE whole[i] \in Nat
    <2>1. w[i] \in Nat
        BY <1>2
    <2>2. settings.count * w[i] \in Nat
        BY <1>2, <2>1
    <2> DEFINE m == settings.count * w[i]
    <2>3. whole[i] = m \div sum
        OBVIOUS
    <2>4. m \in Nat
        BY <2>2
    <2> HIDE DEF m, whole
    <2>5. m \div sum \in Nat
        BY <1>2, <1>3, <2>4
    <2>6. QED BY <2>3, <2>5
<1> HIDE DEF whole
<1>5. QED BY <1>1, <1>4

\* What the bound needs to be a number.
DescentInv == GenInv /\ Total(via) <= settings.count /\ relaxed <= settings.count /\ targets \in [1..3 -> Nat]

\* The terms of the bound, and that it is a number.
LEMMA StepsLeftIs ==
    ASSUME DescentInv
    PROVE  /\ settings.count \in Nat /\ Total(via) \in Nat /\ relaxed \in Nat
           /\ targets[1] \in Nat /\ targets[2] \in Nat /\ targets[3] \in Nat
           /\ \A S \in SUBSET Pool : \A i \in 1..3 : Lack(S, i) \in Nat /\ Lack(S, i) <= targets[i]
           /\ stage \in {"fit", "done"} => selected \in SUBSET Pool
           /\ StepsLeft \in Nat
<1>1. /\ settings.count \in Nat /\ Total(via) \in Nat /\ relaxed \in Nat
      /\ Total(via) <= settings.count /\ relaxed <= settings.count
    BY LimitsAreNumbers, CountsAreNumbers DEF DescentInv, GenInv
<1>2. targets[1] \in Nat /\ targets[2] \in Nat /\ targets[3] \in Nat
    BY DEF DescentInv
<1>3. \A S \in SUBSET Pool : \A i \in 1..3 : Lack(S, i) \in Nat /\ Lack(S, i) <= targets[i]
    BY LackIsNumber DEF DescentInv, GenInv
<1>4. stage \in {"fit", "done"} => selected \in SUBSET Pool
    BY DEF DescentInv, GenInv, Allowed
<1>5. StepsLeft \in Nat
    <2>1. CASE stage = "fill"
        BY <1>1, <1>2, <2>1 DEF StepsLeft
    <2>2. CASE stage = "fit"
        <3>1. Lack(selected, 1) \in Nat /\ Lack(selected, 2) \in Nat /\ Lack(selected, 3) \in Nat
            BY <1>3, <1>4, <2>2
        <3>2. StepsLeft = 1 + Lack(selected, 1) + Lack(selected, 2) + Lack(selected, 3)
            BY <2>2 DEF StepsLeft
        <3>3. QED BY <3>1, <3>2
    <2>3. CASE stage \notin {"fill", "fit"}
        BY <2>3 DEF StepsLeft
    <2>4. QED BY <2>1, <2>2, <2>3
<1>6. QED BY <1>1, <1>2, <1>3, <1>4, <1>5

\* The bound after a step that leaves the request and the targets.
LEMMA StepsLeftNext ==
    ASSUME UNCHANGED <<pool, settings, quotas, targets>>
    PROVE  StepsLeft' =
               IF stage' = "fill"
               THEN 2 + (targets[1] + targets[2] + targets[3]) + (settings.count - Total(via')) + (settings.count - relaxed')
               ELSE IF stage' = "fit" THEN 1 + Lack(selected', 1) + Lack(selected', 2) + Lack(selected', 3)
               ELSE 0
<1>1. Total(via)' = Total(via')
    BY SameRequest
<1>2. /\ Lack(selected, 1)' = Lack(selected', 1)
      /\ Lack(selected, 2)' = Lack(selected', 2)
      /\ Lack(selected, 3)' = Lack(selected', 3)
    BY DEF Lack, Deficit, Rated
<1>3. QED BY <1>1, <1>2 DEF StepsLeft

LEMMA ExchangeDescends ==
    ASSUME DescentInv, Exchange
    PROVE  StepsLeft' < StepsLeft
<1>1. stage = "fit" /\ stage' = "fit" /\ UNCHANGED <<pool, settings, quotas, targets>>
    BY DEF Exchange
<1>2. PICK i \in 1..3 : \E e \in Exchanges(i) : selected' = (selected \ {e[2]}) \union {e[1]}
    BY DEF Exchange
<1>3. PICK new \in Pool, old \in selected :
          /\ selected' = (selected \ {old}) \union {new} /\ ~(Deficit(selected, i) <= 0)
          /\ pool[new].difficulty = Levels[i] /\ MayReplace(new, old)
    BY <1>2 DEF Exchanges
<1>4. /\ selected \in SUBSET Pool /\ Requested /\ targets \in [1..3 -> Nat]
      /\ \A q, r \in selected : pool[q].group = pool[r].group => q = r
    BY <1>1 DEF DescentInv, GenInv, Allowed
<1>5. \A k \in 1..3 : Deficit(selected, k) \in Int
    BY <1>4, LackIsNumber
<1>6. Deficit(selected, i) > 0
    BY <1>3, <1>5
<1>7. \A k \in 1..3 : pool[old].difficulty = Levels[k] => Deficit(selected, k) < 0
    BY <1>3 DEF MayReplace, Surplus
<1>8. new # old
    <2>1. SUFFICES ASSUME new = old PROVE FALSE
        OBVIOUS
    <2>2. Deficit(selected, i) < 0 /\ Deficit(selected, i) \in Int
        BY <1>3, <1>5, <1>7, <2>1
    <2>3. QED BY <1>6, <2>2
<1>9. new \notin selected
    BY <1>3, <1>4, <1>8 DEF MayReplace
<1>10. /\ \A k \in 1..3 : Lack(selected', k) \in Nat /\ Lack(selected', k) <= Lack(selected, k)
       /\ Lack(selected', i) < Lack(selected, i)
    BY <1>3, <1>4, <1>6, <1>7, <1>9, ExchangeMeetsDemand
<1>11. \A k \in 1..3 : Lack(selected, k) \in Nat
    BY <1>4, LackIsNumber
<1>12. Lack(selected', 1) + Lack(selected', 2) + Lack(selected', 3) < Lack(selected, 1) + Lack(selected, 2) + Lack(selected, 3)
    <2>1. /\ Lack(selected', 1) \in Nat /\ Lack(selected', 2) \in Nat /\ Lack(selected', 3) \in Nat
          /\ Lack(selected, 1) \in Nat /\ Lack(selected, 2) \in Nat /\ Lack(selected, 3) \in Nat
          /\ Lack(selected', 1) <= Lack(selected, 1) /\ Lack(selected', 2) <= Lack(selected, 2) /\ Lack(selected', 3) <= Lack(selected, 3)
        BY <1>10, <1>11
    <2>2. i = 1 \/ i = 2 \/ i = 3
        OBVIOUS
    <2>3. CASE i = 1
        BY <1>10, <2>1, <2>3
    <2>4. CASE i = 2
        BY <1>10, <2>1, <2>4
    <2>5. CASE i = 3
        BY <1>10, <2>1, <2>5
    <2>6. QED BY <2>2, <2>3, <2>4, <2>5
<1>13. StepsLeft = 1 + Lack(selected, 1) + Lack(selected, 2) + Lack(selected, 3)
    BY <1>1 DEF StepsLeft
<1>14. StepsLeft' = 1 + Lack(selected', 1) + Lack(selected', 2) + Lack(selected', 3)
    BY <1>1, StepsLeftNext
<1>15. QED BY <1>10, <1>11, <1>12, <1>13, <1>14

LEMMA GeneratorStepDescends ==
    ASSUME DescentInv, GenerationNext
    PROVE  StepsLeft' < StepsLeft
<1>1. /\ settings.count \in Nat /\ Total(via) \in Nat /\ relaxed \in Nat
      /\ targets[1] \in Nat /\ targets[2] \in Nat /\ targets[3] \in Nat /\ StepsLeft \in Nat
      /\ Total(via) <= settings.count /\ relaxed <= settings.count
    BY StepsLeftIs DEF DescentInv
<1>2. stage = "fill" =>
          StepsLeft = 2 + (targets[1] + targets[2] + targets[3]) + (settings.count - Total(via)) + (settings.count - relaxed)
    BY DEF StepsLeft
<1>3. CASE Augment
    <2>1. PICK p \in Augmenting : via' = Along(p)
        BY <1>3 DEF Augment
    <2>2. stage = "fill" /\ stage' = "fill" /\ relaxed' = relaxed /\ UNCHANGED <<pool, settings, quotas, targets>>
        BY <1>3 DEF Augment
    <2>3. Total(via') = Total(via) + 1
        BY <2>1, AugmentAddsOne DEF DescentInv, GenInv
    <2>4. StepsLeft' = 2 + (targets[1] + targets[2] + targets[3]) + (settings.count - Total(via')) + (settings.count - relaxed')
        BY <2>2, StepsLeftNext
    <2>5. QED BY <1>1, <1>2, <2>2, <2>3, <2>4
<1>4. CASE Relax
    <2>1. /\ stage = "fill" /\ stage' = "fill" /\ relaxed' = relaxed + 1 /\ via' = via
          /\ UNCHANGED <<pool, settings, quotas, targets>>
        BY <1>4 DEF Relax
    <2>2. StepsLeft' = 2 + (targets[1] + targets[2] + targets[3]) + (settings.count - Total(via)) + (settings.count - relaxed')
        BY <2>1, StepsLeftNext
    <2>3. QED BY <1>1, <1>2, <2>1, <2>2
<1>5. CASE Shortage
    <2>1. stage = "fill" /\ stage' = "short" /\ UNCHANGED <<pool, settings, quotas, targets>>
        BY <1>5 DEF Shortage
    <2>2. StepsLeft' = 0
        BY <2>1, StepsLeftNext
    <2>3. QED BY <1>1, <1>2, <2>1, <2>2
<1>6. CASE Select
    <2>1. stage = "fill" /\ stage' = "fit" /\ UNCHANGED <<pool, settings, quotas, targets>> /\ selected' \in SUBSET Pool
        BY <1>6 DEF Select
    <2>2. StepsLeft' = 1 + Lack(selected', 1) + Lack(selected', 2) + Lack(selected', 3)
        BY <2>1, StepsLeftNext
    <2>3. /\ Lack(selected', 1) \in Nat /\ Lack(selected', 1) <= targets[1]
          /\ Lack(selected', 2) \in Nat /\ Lack(selected', 2) <= targets[2]
          /\ Lack(selected', 3) \in Nat /\ Lack(selected', 3) <= targets[3]
        BY <2>1, StepsLeftIs
    <2>4. QED BY <1>1, <1>2, <2>1, <2>2, <2>3
<1>7. CASE Exchange
    BY <1>7, ExchangeDescends
<1>8. CASE Return
    <2>1. stage = "fit" /\ stage' = "done" /\ UNCHANGED <<pool, settings, quotas, targets>>
        BY <1>8 DEF Return
    <2>2. StepsLeft' = 0
        BY <2>1, StepsLeftNext
    <2>3. StepsLeft = 1 + Lack(selected, 1) + Lack(selected, 2) + Lack(selected, 3)
        BY <2>1 DEF StepsLeft
    <2>4. Lack(selected, 1) \in Nat /\ Lack(selected, 2) \in Nat /\ Lack(selected, 3) \in Nat
        BY <2>1, StepsLeftIs
    <2>5. QED BY <2>2, <2>3, <2>4
<1>9. QED BY <1>3, <1>4, <1>5, <1>6, <1>7, <1>8 DEF GenerationNext

LEMMA DescentStarts ==
    ASSUME GenerationInit
    PROVE  DescentInv
<1>1. GenInv
    BY GenInvStarts
<1>2. settings \in Settings /\ targets \in difficulty_targets(settings) /\ relaxed = 0 /\ via = [g \in Groups |-> "none"]
    BY DEF GenerationInit
<1>3. {g \in Groups : via[g] # "none"} = {}
    BY <1>2
<1>4. Total(via) = 0
    BY <1>3, FS_EmptySet DEF Total
<1>5. settings.count \in Nat
    BY <1>1, LimitsAreNumbers DEF GenInv
<1>6. QED BY <1>1, <1>2, <1>4, <1>5, TargetsAreNumbers DEF DescentInv

LEMMA DescentStep ==
    ASSUME DescentInv, GenInv', [GenerationNext]_generationVars
    PROVE  DescentInv'
<1>1. /\ settings.count \in Nat /\ Total(via) \in Nat /\ relaxed \in Nat
      /\ Total(via) <= settings.count /\ relaxed <= settings.count
    BY StepsLeftIs DEF DescentInv
<1>2. UNCHANGED <<pool, settings, quotas, targets>>
    BY DEF GenerationNext, Augment, Relax, Shortage, Select, Exchange, Return, generationVars
<1>3. Total(via)' = Total(via')
    BY <1>2, SameRequest
<1>4. Total(via') <= settings.count /\ relaxed' <= settings.count
    <2>1. CASE Augment
        <3>1. PICK p \in Augmenting : via' = Along(p)
            BY <2>1 DEF Augment
        <3>2. Total(via) < settings.count /\ relaxed' = relaxed
            BY <2>1 DEF Augment
        <3>3. Total(via') = Total(via) + 1
            BY <3>1, AugmentAddsOne DEF DescentInv, GenInv
        <3>4. QED BY <1>1, <3>2, <3>3
    <2>2. CASE Relax
        <3>1. relaxed' = relaxed + 1 /\ relaxed < settings.count /\ via' = via
            BY <2>2 DEF Relax
        <3>2. QED BY <1>1, <3>1
    <2>3. CASE UNCHANGED <<via, relaxed>>
        BY <1>1, <2>3
    <2>4. QED BY <2>1, <2>2, <2>3 DEF GenerationNext, Shortage, Select, Exchange, Return, generationVars
<1>5. QED BY <1>2, <1>3, <1>4 DEF DescentInv

\* A step leaves fewer to take.
Descends == StepsLeft' < StepsLeft

\* Every step of the generator, an exchange of difficulties among them, leaves fewer steps to
\* take, so that whatever the shuffles choose it takes no more of them than two, twice the
\* count and the targets together
\* (scholars/quiz_generation.py: generate; "Each exchange reduces a difficulty deficit").
THEOREM GeneratorDescends ==
    GenerationSpec => [](StepsLeft \in Nat) /\ [][Descends]_generationVars
<1>1. GenerationInit => DescentInv
    BY DescentStarts
<1>2. DescentInv /\ [GenerationNext]_generationVars => DescentInv'
    BY GenInvStep, DescentStep DEF DescentInv
<1>3. DescentInv => StepsLeft \in Nat
    BY StepsLeftIs
<1>4. DescentInv /\ [GenerationNext]_generationVars => [Descends]_generationVars
    BY GeneratorStepDescends DEF Descends
<1>5. QED BY <1>1, <1>2, <1>3, <1>4, PTL DEF GenerationSpec

\* A step that the generator may take: the guards of its actions.
Onward ==
    \/ stage = "fill" /\ Total(via) < settings.count
       /\ (Augmenting # {} \/ (settings.balanced /\ relaxed < settings.count) \/ (settings.balanced => relaxed = settings.count))
    \/ stage = "fill" /\ Total(via) = settings.count
       /\ \E S \in SUBSET Pool :
             /\ \A q \in S : via[pool[q].group] = pool[q].topic
             /\ \A g \in Groups : Cardinality({q \in S : pool[q].group = g}) = IF via[g] = "none" THEN 0 ELSE 1
    \/ stage = "fit" /\ \E i \in 1..3 : Exchanges(i) # {} /\ \A j \in 1..3 : Before(j, i) => Exchanges(j) = {}
    \/ stage = "fit" /\ \A i \in 1..3 : Exchanges(i) = {}

\* Every flow can be read as a selection: each group that flows has a variant of its topic.
LEMMA FlowHasSelection ==
    ASSUME Requested, Flows(via)
    PROVE  \E S \in SUBSET Pool :
              /\ \A q \in S : via[pool[q].group] = pool[q].topic
              /\ \A g \in Groups : Cardinality({q \in S : pool[q].group = g}) = IF via[g] = "none" THEN 0 ELSE 1
<1> DEFINE F == {g \in Groups : via[g] # "none"}
           variant == [g \in F |-> CHOOSE q \in Pool : pool[q].group = g /\ pool[q].topic = via[g]]
           S == {variant[g] : g \in F}
<1>1. \A g \in F : variant[g] \in Pool /\ pool[variant[g]].group = g /\ pool[variant[g]].topic = via[g]
    BY DEF Flows
<1> HIDE DEF variant
<1>2. S \in SUBSET Pool /\ \A q \in S : via[pool[q].group] = pool[q].topic
    BY <1>1
<1>3. ASSUME NEW g \in Groups PROVE Cardinality({q \in S : pool[q].group = g}) = IF via[g] = "none" THEN 0 ELSE 1
    <2>1. CASE via[g] = "none"
        <3>1. {q \in S : pool[q].group = g} = {}
            BY <1>1, <2>1
        <3> HIDE DEF S
        <3>2. QED BY <2>1, <3>1, FS_EmptySet
    <2>2. CASE via[g] # "none"
        <3>1. {q \in S : pool[q].group = g} = {variant[g]}
            BY <1>1, <2>2
        <3> HIDE DEF S
        <3>2. QED BY <2>2, <3>1, FS_Singleton
    <2>3. QED BY <2>1, <2>2
<1> HIDE DEF S
<1>4. QED BY <1>2, <1>3

\* Of the levels with an exchange, one is tried first.
LEMMA SomeLevelIsFirst ==
    ASSUME \A i \in 1..3 : Deficit(selected, i) \in Int, NEW i \in 1..3, Exchanges(i) # {}
    PROVE  \E k \in 1..3 : Exchanges(k) # {} /\ \A j \in 1..3 : Before(j, k) => Exchanges(j) = {}
<1> DEFINE d(k) == Deficit(selected, k)
<1>1. d(1) \in Int /\ d(2) \in Int /\ d(3) \in Int
    OBVIOUS
<1>2. \A j, k : Before(j, k) <=> d(j) > d(k) \/ (d(j) = d(k) /\ j < k)
    BY DEF Before
<1> HIDE DEF d
<1>3. \A j \in 1..3 : j = 1 \/ j = 2 \/ j = 3
    OBVIOUS
<1>4. \A k \in 1..3 : ~Before(k, k)
    BY <1>1, <1>2, <1>3
<1>5. \A j, k \in 1..3 : Before(j, k) => ~Before(k, j)
    BY <1>1, <1>2, <1>3
<1>6. \A j, k, m \in 1..3 : Before(j, k) /\ Before(k, m) => Before(j, m)
    BY <1>1, <1>2, <1>3
<1>7. ASSUME NEW k \in 1..3, NEW j \in 1..3, Before(j, k), Exchanges(j) # {}
      PROVE  \E m \in 1..3 : Exchanges(m) # {} /\ \A l \in 1..3 : Before(l, m) => Exchanges(l) = {}
    <2>1. CASE \A l \in 1..3 : Before(l, j) => Exchanges(l) = {}
        BY <1>7, <2>1
    <2>2. ASSUME NEW l \in 1..3, Before(l, j), Exchanges(l) # {}
          PROVE  \A m \in 1..3 : Before(m, l) => Exchanges(m) = {}
        <3>1. l # j /\ l # k /\ j # k
            BY <1>4, <1>5, <1>7, <2>2
        <3>2. \A m \in 1..3 : m = j \/ m = k \/ m = l
            BY <1>3, <3>1
        <3>3. ~Before(j, l) /\ ~Before(k, l) /\ ~Before(l, l)
            BY <1>4, <1>5, <1>6, <1>7, <2>2
        <3>4. QED BY <3>2, <3>3
    <2>3. QED BY <2>1, <2>2
<1>8. QED BY <1>7

\* A generator that has not returned has a step to take: the rooms are relaxed or the shortage
\* is reported when no path is left, and a flow that is large enough can be read as a selection
\* (scholars/quiz_generation.py: generate, fit_difficulty).
THEOREM GeneratorGoesOn == GenerationSpec => [](stage \notin {"done", "short"} => Onward)
<1> DEFINE Staged == stage \in {"fill", "fit", "done", "short"}
<1>1. GenerationInit => Staged
    BY DEF GenerationInit
<1>2. Staged /\ [GenerationNext]_generationVars => Staged'
    BY DEF GenerationNext, Augment, Relax, Shortage, Select, Exchange, Return, generationVars
<1>3. DescentInv /\ Staged => (stage \notin {"done", "short"} => Onward)
    <2>1. SUFFICES ASSUME DescentInv, stage \in {"fill", "fit"} PROVE Onward
        OBVIOUS
    <2>2. /\ settings.count \in Nat /\ Total(via) \in Nat /\ relaxed \in Nat
          /\ Total(via) <= settings.count /\ relaxed <= settings.count
        BY <2>1, StepsLeftIs DEF DescentInv
    <2>3. CASE stage = "fill" /\ Total(via) < settings.count
        <3>1. relaxed < settings.count \/ relaxed = settings.count
            BY <2>2
        <3>2. (settings.balanced /\ relaxed < settings.count) \/ (settings.balanced => relaxed = settings.count)
            BY <3>1, Zenon
        <3>3. QED BY <2>3, <3>2 DEF Onward
    <2>4. CASE stage = "fill" /\ Total(via) = settings.count
        BY <2>1, <2>4, FlowHasSelection DEF Onward, DescentInv, GenInv
    <2>5. CASE stage = "fit"
        <3>1. \A i \in 1..3 : Deficit(selected, i) \in Int
            BY <2>1, <2>5, LackIsNumber DEF DescentInv, GenInv, Allowed
        <3>2. (\A i \in 1..3 : Exchanges(i) = {})
              \/ \E k \in 1..3 : Exchanges(k) # {} /\ \A j \in 1..3 : Before(j, k) => Exchanges(j) = {}
            BY <3>1, SomeLevelIsFirst
        <3>3. QED BY <2>5, <3>2 DEF Onward
    <2>6. stage = "fill" \/ stage = "fit"
        BY <2>1
    <2>7. Total(via) < settings.count \/ Total(via) = settings.count
        BY <2>2
    <2>8. QED BY <2>3, <2>4, <2>5, <2>6, <2>7
<1>4. GenerationInit => DescentInv
    BY DescentStarts
<1>5. DescentInv /\ [GenerationNext]_generationVars => DescentInv'
    BY GenInvStep, DescentStep DEF DescentInv
<1> HIDE DEF Staged
<1>6. QED BY <1>1, <1>2, <1>3, <1>4, <1>5, PTL DEF GenerationSpec
=============================================================================
