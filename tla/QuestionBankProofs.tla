-------------------------- MODULE QuestionBankProofs --------------------------
(***************************************************************************)
(* Proofs about the question bank: for any questions, topics, study        *)
(* material, update files and forms, a rating is about the text it stands  *)
(* beside, the answer banks are those of the available questions, and no   *)
(* update is lost.                                                         *)
(***************************************************************************)
EXTENDS QuestionBank, TLAPS

(***************************************************************************)
(* The shapes of the state, and the invariant.                             *)
(***************************************************************************)

Context == {"none"} \union UNION {{C[t].context : t \in DOMAIN C} : C \in Content}
Assigned == {"none"} \union UNION {{C[t].category : t \in DOMAIN C} : C \in Content}
Format == {"typed"} \union {Seed[q].format : q \in DOMAIN Seed}
Fact == {"none"} \union {FactOf[p] : p \in Payload}
Shape(T, F, P) ==
    [topic : T, format : F, active : BOOLEAN, revision : [payload : P, context : Context], difficulty : Difficulty,
     metadata : [kind : {"none", "manual", "batch_analysis", "bulk_review"}, fact : Fact], version : Nat]

\* Rows, and rows on their way: a new one has no revision yet.
Row == Shape(Topic, Format, Payload)
Draft == Shape(Topic \union {"none"}, Format \union {"none"}, Payload \union {"none"})

BankTypeOK ==
    /\ question \in [Question -> Row \union {NoQuestion}]
    /\ DOMAIN trail = Question
    /\ topic \in [Topic -> [active : BOOLEAN, category : Assigned, context : Context]]
    /\ bank \in [Category -> SUBSET UNION {AnswersOf[p] : p \in Payload}]
    /\ tab \in [Tab -> {Closed} \union [question : Question, seen : Row]]
    /\ export \in [Question -> Row \union {NoQuestion}]

\* The record of changes ends with the row as it stands.
TrailEndsHere == \A q \in Question : trail[q] = NoChange \/ (Exists(q) /\ trail[q].after = question[q])

\* What was seen of a question is the row as it stands, or one of an earlier version.
Seen(rows, q, row) ==
    rows[q] # NoQuestion /\ row.version <= rows[q].version /\ (row.version = rows[q].version => row = rows[q])
WhatWasSeen ==
    /\ \A x \in Tab : tab[x] # Closed => Seen(question, tab[x].question, tab[x].seen)
    /\ \A q \in Question : export[q] # NoQuestion => Seen(question, q, export[q])

BankInv == BankTypeOK /\ TrailEndsHere /\ WhatWasSeen /\ RatingDescribesContent /\ BanksAreCurrent

LEMMA NoQuestionIsNoRow == NoQuestion \notin Row
BY BankAssumption DEF NoQuestion, NoRevision, Row, Shape

LEMMA ContentTypes ==
    ASSUME NEW C \in Content, NEW t \in DOMAIN C
    PROVE  C[t].context \in Context /\ C[t].category \in Assigned
BY DEF Context, Assigned

LEMMA RowIsDraft ==
    ASSUME NEW row \in Row
    PROVE  row \in Draft /\ row.topic \in Topic /\ row.format \in Format /\ row.revision # NoRevision
<1>1. row.revision \in [payload : Payload \union {"none"}, context : Context]
    BY DEF Row, Shape
<1>2. row \in Draft
    BY <1>1 DEF Row, Draft, Shape
<1>3. QED BY <1>2, BankAssumption DEF Row, Shape, NoRevision

LEMMA DraftIsRow ==
    ASSUME NEW row \in Draft, row.topic \in Topic, row.format \in Format, row.revision.payload \in Payload
    PROVE  row \in Row
<1>1. row.revision \in [payload : Payload, context : Context]
    BY DEF Draft, Shape
<1>2. QED BY <1>1 DEF Row, Draft, Shape

(***************************************************************************)
(* What changing one field leaves of the others.                           *)
(***************************************************************************)

SameBut(field, old, new) ==
    /\ field # "topic" => new.topic = old.topic
    /\ field # "format" => new.format = old.format
    /\ field # "active" => new.active = old.active
    /\ field # "revision" => new.revision = old.revision
    /\ field # "rating" => new.difficulty = old.difficulty /\ new.metadata = old.metadata
    /\ field # "version" => new.version = old.version

LEMMA WithTopic ==
    ASSUME NEW row \in Draft, NEW t \in Topic
    PROVE  LET new == [row EXCEPT !.topic = t] IN new \in Draft /\ new.topic = t /\ SameBut("topic", row, new)
BY DEF Draft, Shape, SameBut

LEMMA WithFormat ==
    ASSUME NEW row \in Draft, NEW f \in Format
    PROVE  LET new == [row EXCEPT !.format = f] IN new \in Draft /\ new.format = f /\ SameBut("format", row, new)
BY DEF Draft, Shape, SameBut

LEMMA WithActive ==
    ASSUME NEW row \in Draft, NEW b \in BOOLEAN
    PROVE  LET new == [row EXCEPT !.active = b] IN new \in Draft /\ new.active = b /\ SameBut("active", row, new)
BY DEF Draft, Shape, SameBut

LEMMA WithRevision ==
    ASSUME NEW row \in Draft, NEW r \in [payload : Payload, context : Context]
    PROVE  LET new == [row EXCEPT !.revision = r] IN new \in Draft /\ new.revision = r /\ SameBut("revision", row, new)
<1>1. r \in [payload : Payload \union {"none"}, context : Context]
    OBVIOUS
<1>2. QED BY <1>1 DEF Draft, Shape, SameBut

LEMMA WithDifficulty ==
    ASSUME NEW row \in Draft, NEW d \in Difficulty
    PROVE  LET new == [row EXCEPT !.difficulty = d] IN
           new \in Draft /\ new.difficulty = d /\ new.metadata = row.metadata /\ SameBut("rating", row, new)
BY DEF Draft, Shape, SameBut

LEMMA WithMetadata ==
    ASSUME NEW row \in Draft, NEW m \in [kind : {"none", "manual", "batch_analysis", "bulk_review"}, fact : Fact]
    PROVE  LET new == [row EXCEPT !.metadata = m] IN
           new \in Draft /\ new.metadata = m /\ new.difficulty = row.difficulty /\ SameBut("rating", row, new)
BY DEF Draft, Shape, SameBut

LEMMA WithVersion ==
    ASSUME NEW row \in Draft
    PROVE  LET new == [row EXCEPT !.version = @ + 1] IN
           new \in Draft /\ new.version = row.version + 1 /\ SameBut("version", row, new)
BY DEF Draft, Shape, SameBut

(***************************************************************************)
(* How the writers change a row.                                           *)
(***************************************************************************)

\* The rating of a row is about its text.
Rated(row) == IF row.difficulty = "" THEN row.metadata = Unrated ELSE row.metadata.fact = fingerprint(row)

\* The row new comes next after old.
Follows(old, new) ==
    /\ new \in Row /\ Rated(new)
    /\ new.version = old.version + 1 /\ new.topic = old.topic /\ new.format = old.format

LEMMA NextRow ==
    ASSUME NEW old \in Row, NEW new, Follows(old, new)
    PROVE  old.version < new.version /\ new # old /\ new # NoQuestion
<1>1. old.version \in Nat
    BY DEF Row, Shape
<1>2. new \in Row /\ new.version = old.version + 1
    BY DEF Follows
<1>3. old.version < new.version /\ new # old
    BY <1>1, <1>2
<1>4. new # NoQuestion
    BY <1>2, NoQuestionIsNoRow
<1>5. QED BY <1>3, <1>4

LEMMA RevisedRow ==
    ASSUME BankTypeOK, NEW row \in Draft, row.topic \in Topic, row.format \in Format,
           IF row.revision = NoRevision THEN row.difficulty = "" /\ row.metadata = Unrated ELSE Rated(row),
           NEW payload \in Payload, NEW difficulty \in Given
    PROVE  LET new == Revised(row, payload, difficulty) IN Follows(row, new) /\ new.active = row.active
<1> DEFINE rerated == Rerated(row, payload, difficulty)
           revision == [payload |-> payload, context |-> topic[row.topic].context]
           worded == [rerated EXCEPT !.revision = revision]
           new == Revised(row, payload, difficulty)
           kinds == {"none", "manual", "batch_analysis", "bulk_review"}
           Goal == /\ rerated \in Draft /\ SameBut("rating", row, rerated)
                   /\ IF rerated.difficulty = "" THEN rerated.metadata = Unrated
                      ELSE rerated.metadata.fact = FactOf[payload]
<1>1. difficulty \in Difficulty \union {Keep}
    BY BankAssumption
<1>2. Goal
    <2>1. ASSUME NEW d \in Difficulty, NEW m \in [kind : kinds, fact : Fact],
                 rerated = [row EXCEPT !.difficulty = d, !.metadata = m],
                 IF d = "" THEN m = Unrated ELSE m.fact = FactOf[payload]
          PROVE  Goal
        <3> DEFINE half == [row EXCEPT !.difficulty = d]
        <3>1. half \in Draft /\ half.difficulty = d /\ SameBut("rating", row, half)
            BY WithDifficulty
        <3>2. rerated = [half EXCEPT !.metadata = m]
            BY <2>1
        <3> HIDE DEF half, rerated
        <3>3. rerated \in Draft /\ rerated.metadata = m /\ rerated.difficulty = d /\ SameBut("rating", half, rerated)
            BY <3>1, <3>2, WithMetadata
        <3>4. QED BY <2>1, <3>1, <3>3 DEF SameBut
    <2>2. Unrated \in [kind : kinds, fact : Fact] /\ [kind |-> "manual", fact |-> FactOf[payload]] \in [kind : kinds, fact : Fact]
        BY DEF Unrated, Fact
    <2>3. CASE row.revision # NoRevision /\ FactOf[payload] # fingerprint(row)
        <3>1. rerated = [row EXCEPT !.difficulty = "", !.metadata = Unrated]
            BY <2>3 DEF Rerated
        <3>2. QED BY <2>1, <2>2, <3>1 DEF Difficulty
    <2>4. CASE (row.revision = NoRevision \/ FactOf[payload] = fingerprint(row)) /\ difficulty \in {row.difficulty, Keep}
        BY <2>4 DEF Rerated, Rated, SameBut
    <2>5. CASE (row.revision = NoRevision \/ FactOf[payload] = fingerprint(row)) /\ difficulty \notin {row.difficulty, Keep}
        <3>1. rerated = [row EXCEPT !.difficulty = difficulty,
                             !.metadata = IF difficulty = "" THEN Unrated ELSE [kind |-> "manual", fact |-> FactOf[payload]]]
            BY <2>5 DEF Rerated
        <3>2. QED BY <1>1, <2>1, <2>2, <2>5, <3>1
    <2>6. QED BY <2>3, <2>4, <2>5
<1>3. revision \in [payload : Payload, context : Context] /\ revision.payload = payload
    BY DEF BankTypeOK
<1>4. new = [rerated EXCEPT !.revision = revision, !.version = @ + 1]
    BY DEF Revised
<1> HIDE DEF rerated, revision, new
<1>5. worded \in Draft /\ worded.revision = revision /\ SameBut("revision", rerated, worded)
    BY <1>2, <1>3, WithRevision
<1>6. new = [worded EXCEPT !.version = @ + 1]
    BY <1>4, <1>5 DEF SameBut
<1> HIDE DEF worded
<1>7. new \in Draft /\ new.version = worded.version + 1 /\ SameBut("version", worded, new)
    BY <1>5, <1>6, WithVersion
<1>8. new.revision.payload = payload
    BY <1>3, <1>5, <1>7 DEF SameBut
<1>9. new \in Row
    BY <1>2, <1>5, <1>7, <1>8, DraftIsRow DEF SameBut
<1>10. Follows(row, new) /\ new.active = row.active
    BY <1>2, <1>5, <1>7, <1>8, <1>9 DEF Follows, Rated, fingerprint, SameBut
<1>11. QED BY <1>10 DEF new

LEMMA CreatedRow ==
    ASSUME BankTypeOK, NEW t \in Topic, NEW payload \in Payload, NEW difficulty \in Given
    PROVE  LET row == [NoQuestion EXCEPT !.topic = t, !.format = "typed", !.active = TRUE]
               new == Revised(row, payload, difficulty)
           IN  new \in Row /\ Rated(new) /\ new.topic = t /\ new.version = 1
<1> DEFINE named == [NoQuestion EXCEPT !.topic = t]
           typed == [named EXCEPT !.format = "typed"]
           row == [NoQuestion EXCEPT !.topic = t, !.format = "typed", !.active = TRUE]
<1>1. /\ NoQuestion \in Draft /\ NoQuestion.revision = NoRevision /\ NoQuestion.difficulty = ""
      /\ NoQuestion.metadata = Unrated /\ NoQuestion.version = 0
    BY DEF NoQuestion, Draft, Shape, NoRevision, Unrated, Difficulty, Context, Fact
<1>2. row = [typed EXCEPT !.active = TRUE]
    OBVIOUS
<1>3. named \in Draft /\ named.topic = t /\ SameBut("topic", NoQuestion, named)
    BY <1>1, WithTopic
<1> HIDE DEF named, row
<1>4. "typed" \in Format
    BY DEF Format
<1>5. typed \in Draft /\ typed.format = "typed" /\ SameBut("format", named, typed)
    BY <1>3, <1>4, WithFormat
<1> HIDE DEF typed
<1>6. row \in Draft /\ SameBut("active", typed, row)
    BY <1>2, <1>5, WithActive
<1>7. /\ row.topic = t /\ row.format = "typed" /\ row.revision = NoRevision
      /\ row.difficulty = "" /\ row.metadata = Unrated /\ row.version = 0
    BY <1>1, <1>3, <1>5, <1>6 DEF SameBut
<1> DEFINE new == Revised(row, payload, difficulty)
<1>8. Follows(row, new)
    BY <1>4, <1>6, <1>7, RevisedRow
<1> HIDE DEF new
<1>9. new \in Row /\ Rated(new) /\ new.topic = t /\ new.version = 1
    <2>1. new \in Row /\ Rated(new) /\ new.topic = row.topic
        BY <1>8 DEF Follows
    <2>2. new.version = row.version + 1
        BY <1>8 DEF Follows
    <2>3. row.version = 0
        BY <1>7
    <2>4. new.version = 1
        BY <2>2, <2>3
    <2>5. QED BY <1>7, <2>1, <2>4
<1>10. QED BY <1>9 DEF new, row

LEMMA StatusRow ==
    ASSUME NEW row \in Row, Rated(row), NEW active \in BOOLEAN
    PROVE  Follows(row, [row EXCEPT !.active = active, !.version = @ + 1])
<1> DEFINE switched == [row EXCEPT !.active = active]
           new == [row EXCEPT !.active = active, !.version = @ + 1]
<1>1. switched \in Draft /\ SameBut("active", row, switched)
    BY RowIsDraft, WithActive
<1>2. new = [switched EXCEPT !.version = @ + 1]
    BY <1>1 DEF SameBut
<1> HIDE DEF switched, new
<1>3. new \in Draft /\ new.version = switched.version + 1 /\ SameBut("version", switched, new)
    BY <1>1, <1>2, WithVersion
<1>4. /\ new.version = row.version + 1 /\ new.topic = row.topic /\ new.format = row.format
      /\ new.revision = row.revision /\ new.difficulty = row.difficulty /\ new.metadata = row.metadata
    BY <1>1, <1>3 DEF SameBut
<1>5. row.revision.payload \in Payload
    BY DEF Row, Shape
<1>6. new \in Row
    BY <1>3, <1>4, <1>5, RowIsDraft, DraftIsRow
<1>7. Follows(row, new)
    BY <1>4, <1>6 DEF Follows, Rated, fingerprint
<1>8. QED BY <1>7 DEF new

LEMMA CorrectedPayload ==
    ASSUME NEW p \in Payload
    PROVE  Corrected(p) \in Payload /\ AnswersOf[Corrected(p)] = AnswersOf[p]
BY BankAssumption DEF Corrected

\* A correction leaves the answers of a question as they were.
LEMMA AdoptedRow ==
    ASSUME NEW row \in Row, NEW analysis \in Analysis, NEW q \in DOMAIN analysis, ~Conflicts(row, analysis[q])
    PROVE  LET new == Adopts(row, analysis[q]) IN
           Follows(row, new) /\ new.active = row.active
           /\ AnswersOf[new.revision.payload] = AnswersOf[row.revision.payload]
<1> DEFINE result == analysis[q]
           metadata == [kind |-> "batch_analysis", fact |-> result.fact]
           graded == [row EXCEPT !.difficulty = result.difficulty]
           rated == [graded EXCEPT !.metadata = metadata]
           revision == [row.revision EXCEPT !.payload = Corrected(row.revision.payload)]
           worded == [rated EXCEPT !.revision = revision]
           new == Adopts(row, result)
<1>1. result.difficulty \in Level /\ result.difficulty \in Difficulty /\ result.difficulty # ""
    BY BankAssumption DEF Level, Difficulty
<1>2. row.revision \in [payload : Payload, context : Context] /\ row.revision.payload \in Payload
    BY DEF Row, Shape
<1>3. /\ revision \in [payload : Payload, context : Context] /\ revision.payload \in Payload
      /\ AnswersOf[revision.payload] = AnswersOf[row.revision.payload]
      /\ FactOf[revision.payload] = result.fact
    <2>1. revision \in [payload : Payload, context : Context] /\ revision.payload = Corrected(row.revision.payload)
        BY <1>2, CorrectedPayload
    <2>2. FactOf[Corrected(row.revision.payload)] = result.fact
        BY DEF Conflicts
    <2>3. QED BY <1>2, <2>1, <2>2, CorrectedPayload
<1>4. metadata \in [kind : {"none", "manual", "batch_analysis", "bulk_review"}, fact : Fact] /\ metadata.fact = result.fact
    BY <1>3 DEF Fact
<1>5. graded \in Draft /\ graded.difficulty = result.difficulty /\ SameBut("rating", row, graded)
    BY <1>1, RowIsDraft, WithDifficulty
<1>6. new = [[[graded EXCEPT !.metadata = metadata] EXCEPT !.revision.payload = Corrected(@)] EXCEPT !.version = @ + 1]
    BY DEF Adopts
<1> HIDE DEF graded, metadata, new, result
<1>7. rated \in Draft /\ rated.metadata = metadata /\ rated.difficulty = graded.difficulty /\ SameBut("rating", graded, rated)
    BY <1>4, <1>5, WithMetadata
<1>8. rated.revision = row.revision
    BY <1>5, <1>7 DEF SameBut
<1>9. [rated EXCEPT !.revision.payload = Corrected(@)] = worded
    BY <1>8
<1> HIDE DEF revision
<1>10. worded \in Draft /\ worded.revision = revision /\ SameBut("revision", rated, worded)
    BY <1>3, <1>7, WithRevision
<1>11. new = [worded EXCEPT !.version = @ + 1]
    BY <1>6, <1>9
<1> HIDE DEF rated, worded
<1>12. new \in Draft /\ new.version = worded.version + 1 /\ SameBut("version", worded, new)
    BY <1>10, <1>11, WithVersion
<1>13. /\ new.version = row.version + 1 /\ new.topic = row.topic /\ new.format = row.format /\ new.active = row.active
       /\ new.revision = revision /\ new.difficulty = result.difficulty /\ new.metadata = metadata
    BY <1>5, <1>7, <1>10, <1>12 DEF SameBut
<1>14. new \in Row
    BY <1>3, <1>12, <1>13, RowIsDraft, DraftIsRow
<1>15. Follows(row, new) /\ new.active = row.active /\ AnswersOf[new.revision.payload] = AnswersOf[row.revision.payload]
    BY <1>1, <1>3, <1>4, <1>13, <1>14 DEF Follows, Rated, fingerprint
<1>16. QED BY <1>15 DEF new, result

LEMMA PatchedRow ==
    ASSUME BankTypeOK, NEW row \in Row, Rated(row), NEW update \in Update, NEW q \in DOMAIN update
    PROVE  Follows(row, [Patched(row, update[q]) EXCEPT !.version = @ + 1])
<1> DEFINE patch == update[q]
           payload == IF patch.payload = Keep THEN row.revision.payload ELSE patch.payload
           changed == FactOf[payload] # fingerprint(row)
           difficulty == IF patch.difficulty # Keep THEN patch.difficulty ELSE IF changed THEN "" ELSE row.difficulty
           revision == IF payload = row.revision.payload THEN row.revision
                       ELSE [payload |-> payload, context |-> topic[row.topic].context]
           metadata == IF patch.difficulty = Keep /\ ~changed THEN row.metadata
                       ELSE IF difficulty = "" THEN Unrated
                       ELSE [kind |-> "bulk_review", fact |-> FactOf[payload]]
           active == IF patch.active = Keep THEN row.active ELSE patch.active = "active"
           worded == [row EXCEPT !.revision = revision]
           graded == [worded EXCEPT !.difficulty = difficulty]
           rated == [graded EXCEPT !.metadata = metadata]
           patched == Patched(row, patch)
           new == [patched EXCEPT !.version = @ + 1]
<1>1. /\ row \in Draft /\ row.topic \in Topic /\ row.format \in Format /\ row.active \in BOOLEAN
      /\ row.revision \in [payload : Payload, context : Context] /\ row.difficulty \in Difficulty
      /\ row.metadata \in [kind : {"none", "manual", "batch_analysis", "bulk_review"}, fact : Fact]
    BY RowIsDraft DEF Row, Shape
<1>2. patch.payload \in Payload \union {Keep} /\ patch.difficulty \in Difficulty \union {Keep}
    BY BankAssumption
<1>3. payload \in Payload
    BY <1>1, <1>2
<1>4. revision \in [payload : Payload, context : Context] /\ revision.payload = payload
    <2>1. topic[row.topic].context \in Context
        BY <1>1 DEF BankTypeOK
    <2>2. QED BY <1>1, <1>3, <2>1
<1>5. difficulty \in Difficulty
    BY <1>1, <1>2 DEF Difficulty
<1>6. /\ metadata \in [kind : {"none", "manual", "batch_analysis", "bulk_review"}, fact : Fact]
      /\ IF difficulty = "" THEN metadata = Unrated ELSE metadata.fact = FactOf[payload]
    <2>1. /\ Unrated \in [kind : {"none", "manual", "batch_analysis", "bulk_review"}, fact : Fact]
          /\ [kind |-> "bulk_review", fact |-> FactOf[payload]] \in [kind : {"none", "manual", "batch_analysis", "bulk_review"}, fact : Fact]
        BY <1>3 DEF Unrated, Fact
    <2>2. CASE patch.difficulty = Keep /\ ~changed
        BY <1>1, <2>2 DEF Rated
    <2>3. CASE ~(patch.difficulty = Keep /\ ~changed)
        BY <2>1, <2>3
    <2>4. QED BY <2>2, <2>3
<1>7. active \in BOOLEAN
    BY <1>1
<1>8. patched = [row EXCEPT !.revision = revision, !.difficulty = difficulty, !.metadata = metadata, !.active = active]
    BY DEF Patched
<1> HIDE DEF patched, revision, difficulty, metadata, active
<1>9. worded \in Draft /\ worded.revision = revision /\ SameBut("revision", row, worded)
    BY <1>1, <1>4, WithRevision
<1>10. patched = [rated EXCEPT !.active = active]
    BY <1>8
<1> HIDE DEF worded
<1>11. graded \in Draft /\ graded.difficulty = difficulty /\ SameBut("rating", worded, graded)
    BY <1>5, <1>9, WithDifficulty
<1> HIDE DEF graded
<1>12. rated \in Draft /\ rated.metadata = metadata /\ rated.difficulty = graded.difficulty /\ SameBut("rating", graded, rated)
    BY <1>6, <1>11, WithMetadata
<1> HIDE DEF rated
<1>13. patched \in Draft /\ SameBut("active", rated, patched)
    BY <1>7, <1>10, <1>12, WithActive
<1>14. new \in Draft /\ new.version = patched.version + 1 /\ SameBut("version", patched, new)
    BY <1>13, WithVersion
<1> HIDE DEF new
<1>15. /\ new.version = row.version + 1 /\ new.topic = row.topic /\ new.format = row.format
       /\ new.revision = revision /\ new.difficulty = difficulty /\ new.metadata = metadata
    BY <1>9, <1>11, <1>12, <1>13, <1>14 DEF SameBut
<1>16. new \in Row
    BY <1>1, <1>3, <1>4, <1>14, <1>15, DraftIsRow
<1>17. FactOf[payload] = fingerprint(new)
    BY <1>4, <1>15 DEF fingerprint
<1> HIDE DEF payload
<1>18. Follows(row, new)
    BY <1>6, <1>15, <1>16, <1>17 DEF Follows, Rated
<1>19. QED BY <1>18 DEF new, patched

(***************************************************************************)
(* What every writer does to the rows and their record of changes.         *)
(***************************************************************************)

Unchanged(q) == question'[q] = question[q] /\ trail'[q] = trail[q]
Rewritten(q) ==
    /\ question[q] \in Row /\ Follows(question[q], question'[q])
    /\ trail'[q] # NoChange /\ trail'[q].before = question[q] /\ trail'[q].after = question'[q]
Made(q) ==
    /\ question[q] = NoQuestion /\ question'[q] \in Row /\ Rated(question'[q])
    /\ trail'[q] = trail[q] \/ (trail'[q] # NoChange /\ trail'[q].after = question'[q])

Moves ==
    /\ DOMAIN question' = Question /\ question' = [q \in Question |-> question'[q]]
    /\ DOMAIN trail' = Question
    /\ \A q \in Question : Unchanged(q) \/ Rewritten(q) \/ Made(q)

LEMMA RatingIsRated ==
    ASSUME BankTypeOK
    PROVE  RatingDescribesContent <=> \A q \in Question : question[q] \in Row => Rated(question[q])
<1>1. \A q \in Question : Exists(q) <=> question[q] \in Row
    BY NoQuestionIsNoRow DEF BankTypeOK, Exists
<1>2. QED BY <1>1 DEF RatingDescribesContent, Rows, Rated

LEMMA MovesKeep ==
    ASSUME BankInv, Moves
    PROVE  /\ question' \in [Question -> Row \union {NoQuestion}]
           /\ TrailEndsHere'
           /\ \A q \in Question : question'[q] \in Row => Rated(question'[q])
           /\ \A q \in Question, row \in Row : Seen(question, q, row) => Seen(question', q, row)
<1> USE DEF BankInv
<1>1. \A q \in Question : question'[q] \in Row \union {NoQuestion}
    BY DEF Moves, Unchanged, Rewritten, Made, Follows, BankTypeOK
<1>2. question' \in [Question -> Row \union {NoQuestion}]
    BY <1>1 DEF Moves
<1>3. TrailEndsHere'
    <2>1. SUFFICES ASSUME NEW q \in Question
                   PROVE  trail'[q] = NoChange \/ (question'[q] # NoQuestion /\ trail'[q].after = question'[q])
        BY DEF TrailEndsHere, Exists
    <2>2. CASE Unchanged(q)
        BY <2>2 DEF TrailEndsHere, Exists, Unchanged
    <2>3. CASE Rewritten(q)
        BY <2>3, NoQuestionIsNoRow DEF Rewritten, Follows
    <2>4. CASE Made(q)
        <3>1. trail[q] = NoChange
            BY <2>4 DEF TrailEndsHere, Exists, Made
        <3>2. QED BY <2>4, <3>1, NoQuestionIsNoRow DEF Made
    <2>5. QED BY <2>2, <2>3, <2>4 DEF Moves
<1>4. \A q \in Question : question'[q] \in Row => Rated(question'[q])
    BY RatingIsRated DEF Moves, Unchanged, Rewritten, Made, Follows
<1>5. ASSUME NEW q \in Question, NEW row \in Row, Seen(question, q, row) PROVE Seen(question', q, row)
    <2>1. CASE Unchanged(q)
        BY <1>5, <2>1 DEF Unchanged, Seen
    <2>2. CASE Rewritten(q)
        <3>1. row.version \in Nat /\ question[q].version \in Nat
            BY <2>2 DEF Rewritten, Row, Shape
        <3>2. question'[q].version = question[q].version + 1 /\ question'[q] # NoQuestion
            BY <2>2, NoQuestionIsNoRow DEF Rewritten, Follows
        <3>3. QED BY <1>5, <3>1, <3>2 DEF Seen
    <2>3. CASE Made(q)
        BY <1>5, <2>3 DEF Made, Seen
    <2>4. QED BY <2>1, <2>2, <2>3 DEF Moves
<1>6. QED BY <1>2, <1>3, <1>4, <1>5

LEMMA SaveMoves ==
    ASSUME BankInv, NEW q \in Question, NEW new, NEW kind, kind # "none", Save(q, new, kind),
           \/ question[q] \in Row /\ Follows(question[q], new)
           \/ question[q] = NoQuestion /\ new \in Row /\ Rated(new)
    PROVE  Moves /\ question'[q] = new
<1> USE DEF BankInv, BankTypeOK
<1>1. question'[q] = new /\ \A r \in Question : r # q => question'[r] = question[r]
    BY DEF Save
<1>2. trail'[q] = [kind |-> kind, before |-> question[q], after |-> new] /\ \A r \in Question : r # q => trail'[r] = trail[r]
    BY DEF Save
<1>3. trail'[q] # NoChange /\ trail'[q].before = question[q] /\ trail'[q].after = new
    BY <1>2 DEF NoChange
<1>4. DOMAIN question' = Question /\ question' = [r \in Question |-> question'[r]] /\ DOMAIN trail' = Question
    BY DEF Save
<1>5. Rewritten(q) \/ Made(q)
    BY <1>1, <1>3 DEF Rewritten, Made
<1>6. QED BY <1>1, <1>2, <1>4, <1>5 DEF Moves, Unchanged

LEMMA SaveAllMoves ==
    ASSUME BankInv, NEW new, NEW kind, kind # "none", SaveAll(new, kind), DOMAIN new \subseteq Question,
           \A q \in DOMAIN new : question[q] \in Row /\ Follows(question[q], new[q])
    PROVE  Moves
<1> USE DEF BankInv, BankTypeOK
<1>1. \A q \in Question : question'[q] = IF q \in DOMAIN new THEN new[q] ELSE question[q]
    BY DEF SaveAll
<1>2. \A q \in Question : trail'[q] = IF q \in DOMAIN new THEN [kind |-> kind, before |-> question[q], after |-> new[q]] ELSE trail[q]
    BY DEF SaveAll
<1>3. DOMAIN question' = Question /\ question' = [q \in Question |-> question'[q]] /\ DOMAIN trail' = Question
    BY DEF SaveAll
<1>4. ASSUME NEW q \in Question PROVE Unchanged(q) \/ Rewritten(q)
    <2>1. CASE q \notin DOMAIN new
        BY <1>1, <1>2, <2>1 DEF Unchanged
    <2>2. CASE q \in DOMAIN new
        <3>1. trail'[q] = [kind |-> kind, before |-> question[q], after |-> new[q]]
            BY <1>2, <2>2
        <3>2. trail'[q] # NoChange /\ trail'[q].before = question[q] /\ trail'[q].after = new[q]
            BY <3>1 DEF NoChange
        <3>3. QED BY <1>1, <2>2, <3>2 DEF Rewritten
    <2>3. QED BY <2>1, <2>2
<1>5. QED BY <1>3, <1>4 DEF Moves

(***************************************************************************)
(* The answer banks.                                                       *)
(***************************************************************************)

\* The available typed questions of category c, and their answers.
TypedOf(rows, topics, c) ==
    {q \in Question : Available(rows, topics, q) /\ rows[q].format = "typed" /\ topics[rows[q].topic].category = c}
Answers(rows, S) == UNION {AnswersOf[rows[q].revision.payload] : q \in S}

LEMMA BanksOfTyped ==
    BanksAreCurrent <=> \A c \in Category : TypedOf(question, topic, c) # {} =>
                            bank[c] = Answers(question, TypedOf(question, topic, c))
<1>1. \A c \in Category : TypedOf(question, topic, c) =
         {q \in Rows : /\ question[q].active /\ question[q].format = "typed"
                       /\ topic[question[q].topic].active /\ topic[question[q].topic].category = c}
    BY DEF TypedOf, Available, Rows, Exists
<1>2. QED BY <1>1 DEF BanksAreCurrent, Answers

LEMMA AnswersOfTyped ==
    ASSUME NEW rows, NEW topics, NEW c, TypedOf(rows, topics, c) # {}
    PROVE  AnswersIn(c, rows, topics) = Answers(rows, TypedOf(rows, topics, c))
<1> DEFINE typed == {q \in {r \in Question : Available(rows, topics, r)} : rows[q].format = "typed"}
<1>1. typed # {}
    BY DEF TypedOf
<1>2. CurrentTyped(rows, topics) = typed
    BY <1>1 DEF CurrentTyped
<1>3. {r \in CurrentTyped(rows, topics) : topics[rows[r].topic].category = c} = TypedOf(rows, topics, c)
    BY <1>2 DEF TypedOf
<1>4. QED BY <1>3 DEF AnswersIn, Answers

\* A question is as it was for the banks of the other categories.
SameFor(q, categories) ==
    \/ question'[q] = question[q]
    \/ /\ question'[q] # NoQuestion /\ topic[question'[q].topic].category \in categories
       /\ question[q] = NoQuestion \/ question'[q].topic = question[q].topic
    \/ /\ question[q] # NoQuestion /\ question'[q] # NoQuestion
       /\ question'[q].topic = question[q].topic /\ question'[q].format = question[q].format
       /\ question'[q].active = question[q].active
       /\ AnswersOf[question'[q].revision.payload] = AnswersOf[question[q].revision.payload]

LEMMA BanksKept ==
    ASSUME BanksAreCurrent, topic' = topic, NEW categories, \A q \in Question : SameFor(q, categories),
           \A c \in Category : bank'[c] = IF c \in categories THEN AnswersIn(c, question', topic) ELSE bank[c]
    PROVE  BanksAreCurrent'
<1>1. SUFFICES ASSUME NEW c \in Category, TypedOf(question', topic, c) # {}
               PROVE  bank'[c] = Answers(question', TypedOf(question', topic, c))
    <2>1. BanksAreCurrent' <=> \A c \in Category : TypedOf(question', topic', c) # {} =>
                                   bank'[c] = Answers(question', TypedOf(question', topic', c))
        <3>1. \A c \in Category : TypedOf(question', topic', c) =
                 {q \in Rows' : /\ question'[q].active /\ question'[q].format = "typed"
                                /\ topic'[question'[q].topic].active /\ topic'[question'[q].topic].category = c}
            BY DEF TypedOf, Available, Rows, Exists
        <3>2. QED BY <3>1 DEF BanksAreCurrent, Answers
    <2>2. QED BY <2>1
<1>2. CASE c \in categories
    BY <1>1, <1>2, AnswersOfTyped
<1>3. CASE c \notin categories
    <2>1. TypedOf(question', topic, c) = TypedOf(question, topic, c)
        BY <1>3 DEF TypedOf, Available, SameFor
    <2>2. \A q \in TypedOf(question, topic, c) :
             AnswersOf[question'[q].revision.payload] = AnswersOf[question[q].revision.payload]
        BY <1>3 DEF TypedOf, Available, SameFor
    <2>3. Answers(question', TypedOf(question, topic, c)) = Answers(question, TypedOf(question, topic, c))
        BY <2>2 DEF Answers
    <2>4. QED BY <1>1, <1>3, <2>1, <2>3, BanksOfTyped
<1>4. QED BY <1>2, <1>3

LEMMA RebuiltTypes ==
    ASSUME NEW rows \in [Question -> Row \union {NoQuestion}], NEW topics, NEW c
    PROVE  AnswersIn(c, rows, topics) \in SUBSET UNION {AnswersOf[p] : p \in Payload}
<1>1. ASSUME NEW q \in CurrentTyped(rows, topics) PROVE rows[q].revision.payload \in Payload
    <2>1. q \in Question /\ rows[q] # NoQuestion
        BY DEF CurrentTyped, Available
    <2>2. rows[q] \in Row
        BY <2>1
    <2>3. QED BY <2>2 DEF Row, Shape
<1>2. QED BY <1>1 DEF AnswersIn

(***************************************************************************)
(* The invariant and its steps.                                            *)
(***************************************************************************)

\* What a step that moves the rows leaves to be said of the rest.
Rest ==
    /\ topic' \in [Topic -> [active : BOOLEAN, category : Assigned, context : Context]]
    /\ bank' \in [Category -> SUBSET UNION {AnswersOf[p] : p \in Payload}]
    /\ DOMAIN tab' = Tab /\ tab' = [x \in Tab |-> tab'[x]]
    /\ \A x \in Tab : tab'[x] = tab[x] \/ tab'[x] = Closed
    /\ export' = export

LEMMA ClosedShowsNothing == Closed \notin [question : Question, seen : Row]
BY NoQuestionIsNoRow DEF Closed

LEMMA MovesKeepInv ==
    ASSUME BankInv, Moves, Rest, BanksAreCurrent'
    PROVE  BankInv'
<1> USE DEF BankInv
<1>1. /\ question' \in [Question -> Row \union {NoQuestion}] /\ TrailEndsHere'
      /\ \A q \in Question : question'[q] \in Row => Rated(question'[q])
      /\ \A q \in Question, row \in Row : Seen(question, q, row) => Seen(question', q, row)
    BY MovesKeep
<1>2. tab' \in [Tab -> {Closed} \union [question : Question, seen : Row]]
    BY DEF Rest, BankTypeOK
<1>3. BankTypeOK'
    BY <1>1, <1>2 DEF BankTypeOK, Rest, Moves
<1>4. WhatWasSeen'
    <2>1. ASSUME NEW x \in Tab, tab'[x] # Closed PROVE Seen(question', tab'[x].question, tab'[x].seen)
        <3>1. tab'[x] = tab[x]
            BY <2>1 DEF Rest
        <3>2. tab[x] \in [question : Question, seen : Row]
            BY <2>1, <3>1 DEF BankTypeOK
        <3>3. QED BY <1>1, <2>1, <3>1, <3>2 DEF WhatWasSeen
    <2>2. ASSUME NEW q \in Question, export'[q] # NoQuestion PROVE Seen(question', q, export'[q])
        <3>1. export'[q] = export[q] /\ export[q] \in Row
            BY <2>2 DEF Rest, BankTypeOK
        <3>2. QED BY <1>1, <2>2, <3>1 DEF WhatWasSeen
    <2>3. QED BY <2>1, <2>2 DEF WhatWasSeen
<1>5. RatingDescribesContent'
    <2>1. \A q \in Question : question'[q] # NoQuestion => question'[q] \in Row
        BY <1>1
    <2>2. QED BY <1>1, <2>1 DEF RatingDescribesContent, Rows, Exists, Rated, fingerprint
<1>6. QED BY <1>1, <1>3, <1>4, <1>5

LEMMA BankStart == BankInit => BankInv
<1> SUFFICES ASSUME BankInit PROVE BankInv
    OBVIOUS
<1>1. NoTopic \in [active : BOOLEAN, category : Assigned, context : Context]
    BY DEF NoTopic, Assigned, Context
<1>2. BankTypeOK
    BY <1>1 DEF BankInit, BankTypeOK
<1>3. Rows = {}
    BY DEF BankInit, Rows, Exists
<1>4. QED BY <1>2, <1>3 DEF BankInv, BankInit, TrailEndsHere, WhatWasSeen, RatingDescribesContent, BanksAreCurrent

\* A form that is submitted at the version it was made for replaces what it shows.
LEMMA UpToDateIsSeen ==
    ASSUME BankInv, NEW q \in Question, NEW row \in Row, Seen(question, q, row), UpToDate(question[q], row)
    PROVE  row = question[q] /\ question[q] \in Row /\ Rated(question[q])
<1>1. question[q] \in Row /\ row = question[q]
    BY DEF BankInv, BankTypeOK, UpToDate, Seen
<1>2. QED BY <1>1, RatingIsRated DEF BankInv

LEMMA SaveKeeps ==
    ASSUME BankInv, NEW q \in Question, NEW new, NEW kind, kind # "none", Save(q, new, kind),
           \/ question[q] \in Row /\ Follows(question[q], new)
           \/ question[q] = NoQuestion /\ new \in Row /\ Rated(new),
           DOMAIN tab' = Tab, tab' = [x \in Tab |-> tab'[x]], \A x \in Tab : tab'[x] = tab[x] \/ tab'[x] = Closed
    PROVE  BankInv' /\ Moves
<1>1. Moves /\ question'[q] = new
    BY SaveMoves
<1>2. \A r \in Question : r # q => question'[r] = question[r]
    BY DEF Save, BankInv, BankTypeOK
<1>3. topic' = topic /\ export' = export /\ bank' = rebuild_banks({topic[new.topic].category}, question', topic)
    BY DEF Save
<1>4. \A c \in Category : bank'[c] = IF c \in {topic[new.topic].category} THEN AnswersIn(c, question', topic) ELSE bank[c]
    BY <1>3 DEF rebuild_banks
<1>5. \A r \in Question : SameFor(r, {topic[new.topic].category})
    <2>1. new # NoQuestion /\ (question[q] = NoQuestion \/ new.topic = question[q].topic)
        BY NoQuestionIsNoRow DEF Follows
    <2>2. QED BY <1>1, <1>2, <2>1 DEF SameFor
<1>6. BanksAreCurrent'
    BY <1>3, <1>4, <1>5, BanksKept DEF BankInv
<1>7. question' \in [Question -> Row \union {NoQuestion}]
    BY <1>1, MovesKeep
<1>8. Rest
    <2>1. \A c \in Category : bank'[c] \in SUBSET UNION {AnswersOf[p] : p \in Payload}
        BY <1>4, <1>7, RebuiltTypes DEF BankInv, BankTypeOK
    <2>2. bank' \in [Category -> SUBSET UNION {AnswersOf[p] : p \in Payload}]
        BY <1>3, <2>1 DEF rebuild_banks
    <2>3. QED BY <1>3, <2>2 DEF Rest, BankInv, BankTypeOK
<1>9. QED BY <1>1, <1>6, <1>8, MovesKeepInv

LEMMA CreateStep ==
    ASSUME BankInv, NEW q \in Question, NEW t \in Topic, NEW p \in Payload, NEW d \in Given, create_question(q, t, p, d)
    PROVE  BankInv' /\ Moves
<1> DEFINE new == Revised([NoQuestion EXCEPT !.topic = t, !.format = "typed", !.active = TRUE], p, d)
<1>1. new \in Row /\ Rated(new)
    BY CreatedRow DEF BankInv
<1>2. question[q] = NoQuestion /\ Save(q, new, "edit") /\ tab' = tab
    BY DEF create_question, Exists
<1> HIDE DEF new
<1>3. DOMAIN tab' = Tab /\ tab' = [x \in Tab |-> tab'[x]] /\ \A x \in Tab : tab'[x] = tab[x]
    BY <1>2 DEF BankInv, BankTypeOK
<1>4. QED BY <1>1, <1>2, <1>3, SaveKeeps

\* What a form shows, once it is accepted, is the row as it stands.
LEMMA FormIsCurrent ==
    ASSUME BankInv, NEW x \in Tab, tab[x] # Closed, UpToDate(question[tab[x].question], tab[x].seen)
    PROVE  /\ tab[x] = [question |-> tab[x].question, seen |-> question[tab[x].question]]
           /\ tab[x].question \in Question
           /\ question[tab[x].question] \in Row /\ Rated(question[tab[x].question])
<1>1. tab[x] \in [question : Question, seen : Row]
    BY DEF BankInv, BankTypeOK
<1>2. tab[x].question \in Question /\ tab[x].seen \in Row /\ tab[x] = [question |-> tab[x].question, seen |-> tab[x].seen]
    BY <1>1
<1>3. Seen(question, tab[x].question, tab[x].seen)
    BY DEF BankInv, WhatWasSeen
<1>4. QED BY <1>2, <1>3, UpToDateIsSeen

LEMMA EditStep ==
    ASSUME BankInv, NEW x \in Tab, NEW p \in Payload, NEW d \in Given, edit_question(x, p, d)
    PROVE  BankInv' /\ Moves
<1> DEFINE q == tab[x].question
           new == Revised(question[q], p, d)
<1>1. tab[x] # Closed /\ UpToDate(question[q], tab[x].seen) /\ Save(q, new, "edit") /\ tab' = [tab EXCEPT ![x] = Closed]
    BY DEF edit_question
<1>2. q \in Question /\ question[q] \in Row /\ Rated(question[q])
    BY <1>1, FormIsCurrent
<1>3. Follows(question[q], new)
    BY <1>2, RowIsDraft, RevisedRow DEF BankInv
<1> HIDE DEF new, q
<1>4. DOMAIN tab' = Tab /\ tab' = [y \in Tab |-> tab'[y]] /\ \A y \in Tab : tab'[y] = tab[y] \/ tab'[y] = Closed
    BY <1>1 DEF BankInv, BankTypeOK
<1>5. QED BY <1>1, <1>2, <1>3, <1>4, SaveKeeps

LEMMA StatusStep ==
    ASSUME BankInv, NEW x \in Tab, change_question_status(x)
    PROVE  BankInv' /\ Moves
<1> DEFINE q == tab[x].question
           new == [question[q] EXCEPT !.active = ~tab[x].seen.active, !.version = @ + 1]
           kind == IF tab[x].seen.active THEN "archive" ELSE "reactivate"
<1>1. tab[x] # Closed /\ UpToDate(question[q], tab[x].seen) /\ Save(q, new, kind) /\ tab' = [tab EXCEPT ![x] = Closed]
    BY DEF change_question_status
<1>2. q \in Question /\ question[q] \in Row /\ Rated(question[q])
    BY <1>1, FormIsCurrent
<1>3. Follows(question[q], new)
    BY <1>2, StatusRow
<1>4. kind # "none"
    OBVIOUS
<1> HIDE DEF new, q, kind
<1>5. DOMAIN tab' = Tab /\ tab' = [y \in Tab |-> tab'[y]] /\ \A y \in Tab : tab'[y] = tab[y] \/ tab'[y] = Closed
    BY <1>1 DEF BankInv, BankTypeOK
<1>6. QED BY <1>1, <1>2, <1>3, <1>4, <1>5, SaveKeeps

LEMMA AdoptStep ==
    ASSUME BankInv, NEW analysis \in Analysis, adopt_difficulty(analysis)
    PROVE  BankInv' /\ Moves
<1> DEFINE S == {q \in DOMAIN analysis : LET row == question[q] IN
                    \/ row.difficulty # analysis[q].difficulty
                    \/ row.metadata # [kind |-> "batch_analysis", fact |-> analysis[q].fact]
                    \/ row.revision.payload \in DOMAIN Fixed}
           new == [q \in S |-> Adopts(question[q], analysis[q])]
<1>1. /\ \A q \in DOMAIN analysis : ~Conflicts(question[q], analysis[q])
      /\ SaveAll(new, "database_cutover") /\ UNCHANGED <<topic, bank, tab, export>>
    BY DEF adopt_difficulty
<1>2. S \subseteq DOMAIN analysis /\ DOMAIN analysis \subseteq Question /\ DOMAIN new = S
    BY BankAssumption
<1>3. \A q \in S : new[q] = Adopts(question[q], analysis[q])
    OBVIOUS
<1> HIDE DEF S, new
<1>4. ASSUME NEW q \in S
      PROVE  /\ question[q] \in Row /\ Follows(question[q], new[q]) /\ new[q].active = question[q].active
             /\ AnswersOf[new[q].revision.payload] = AnswersOf[question[q].revision.payload]
    <2>1. question[q] \in Row
        BY <1>1, <1>2 DEF Conflicts, BankInv, BankTypeOK
    <2>2. Rated(question[q])
        BY <1>2, <2>1, RatingIsRated DEF BankInv
    <2>3. QED BY <1>1, <1>2, <1>3, <2>1, <2>2, AdoptedRow
<1>5. Moves
    BY <1>1, <1>2, <1>4, SaveAllMoves
<1>6. \A q \in Question : question'[q] = IF q \in S THEN new[q] ELSE question[q]
    BY <1>1, <1>2 DEF SaveAll
<1>7. \A q \in Question : SameFor(q, {})
    <2>1. \A q \in S : question[q] # NoQuestion /\ new[q] # NoQuestion
        BY <1>4, NoQuestionIsNoRow DEF Follows
    <2>2. QED BY <1>4, <1>6, <2>1 DEF SameFor, Follows
<1>8. BanksAreCurrent'
    BY <1>1, <1>7, BanksKept DEF BankInv
<1>9. Rest
    BY <1>1 DEF Rest, BankInv, BankTypeOK
<1>10. QED BY <1>5, <1>8, <1>9, MovesKeepInv

LEMMA UpdateStep ==
    ASSUME BankInv, NEW update \in Update, apply_updates(update)
    PROVE  BankInv' /\ Moves
<1> DEFINE S == {q \in DOMAIN update : Patched(question[q], update[q]) # question[q]}
           new == [q \in S |-> [Patched(question[q], update[q]) EXCEPT !.version = @ + 1]]
           categories == {topic[question[q].topic].category : q \in Touched(S, question, question')}
<1>1. /\ \A q \in DOMAIN update : UpToDate(question[q], export[q])
      /\ SaveAll(new, "bulk_update") /\ UNCHANGED <<topic, tab, export>>
      /\ bank' = rebuild_banks(categories, question', topic)
    BY DEF apply_updates
<1>2. S \subseteq DOMAIN update /\ DOMAIN update \subseteq Question /\ DOMAIN new = S
    BY BankAssumption
<1>3. \A q \in S : new[q] = [Patched(question[q], update[q]) EXCEPT !.version = @ + 1]
    OBVIOUS
<1>4. \A q \in Touched(S, question, question') : topic[question[q].topic].category \in categories
    OBVIOUS
<1> HIDE DEF S, new, categories
<1>5. ASSUME NEW q \in S PROVE question[q] \in Row /\ Follows(question[q], new[q])
    <2>1. question[q] \in Row
        BY <1>1, <1>2 DEF UpToDate, BankInv, BankTypeOK
    <2>2. Rated(question[q])
        BY <1>2, <2>1, RatingIsRated DEF BankInv
    <2>3. QED BY <1>2, <1>3, <2>1, <2>2, PatchedRow DEF BankInv
<1>6. Moves
    BY <1>1, <1>2, <1>5, SaveAllMoves
<1>7. \A q \in Question : question'[q] = IF q \in S THEN new[q] ELSE question[q]
    BY <1>1, <1>2 DEF SaveAll
<1>8. ASSUME NEW q \in Question PROVE SameFor(q, categories)
    <2>1. CASE q \notin S
        BY <1>7, <2>1 DEF SameFor
    <2>2. CASE q \in S
        <3>1. /\ question[q] # NoQuestion /\ question'[q] # NoQuestion /\ question'[q].topic = question[q].topic
              /\ question'[q].format = question[q].format
            BY <1>5, <1>7, <2>2, NoQuestionIsNoRow DEF Follows
        <3>2. CASE q \in Touched(S, question, question')
            BY <1>4, <3>1, <3>2 DEF SameFor
        <3>3. CASE q \notin Touched(S, question, question')
            BY <2>2, <3>1, <3>3 DEF SameFor, Touched
        <3>4. QED BY <3>2, <3>3
    <2>3. QED BY <2>1, <2>2
<1>9. \A c \in Category : bank'[c] = IF c \in categories THEN AnswersIn(c, question', topic) ELSE bank[c]
    BY <1>1 DEF rebuild_banks
<1>10. BanksAreCurrent'
    BY <1>1, <1>8, <1>9, BanksKept DEF BankInv
<1>11. question' \in [Question -> Row \union {NoQuestion}]
    BY <1>6, MovesKeep
<1>12. bank' \in [Category -> SUBSET UNION {AnswersOf[p] : p \in Payload}]
    <2>1. \A c \in Category : bank'[c] \in SUBSET UNION {AnswersOf[p] : p \in Payload}
        BY <1>9, <1>11, RebuiltTypes DEF BankInv, BankTypeOK
    <2>2. QED BY <1>1, <2>1 DEF rebuild_banks
<1>13. Rest
    BY <1>1, <1>12 DEF Rest, BankInv, BankTypeOK
<1>14. QED BY <1>6, <1>10, <1>13, MovesKeepInv

LEMMA SeededRow ==
    ASSUME NEW content \in Content, NEW q \in DOMAIN Seed, Seed[q].topic \in DOMAIN content
    PROVE  LET new == Seeded(content)[q] IN new \in Row /\ Rated(new) /\ new.version = 0
<1> DEFINE s == Seed[q]
           revision == [payload |-> s.payload, context |-> content[s.topic].context]
           named == [NoQuestion EXCEPT !.topic = s.topic]
           formed == [named EXCEPT !.format = s.format]
           active == [formed EXCEPT !.active = TRUE]
           new == Seeded(content)[q]
<1>1. /\ NoQuestion \in Draft /\ NoQuestion.difficulty = "" /\ NoQuestion.metadata = Unrated /\ NoQuestion.version = 0
    BY DEF NoQuestion, Draft, Shape, NoRevision, Unrated, Difficulty, Context, Fact
<1>2. q \in Question /\ s.topic \in Topic /\ s.format \in Format /\ s.payload \in Payload
    BY BankAssumption DEF Format
<1>3. revision \in [payload : Payload, context : Context] /\ revision.payload = s.payload
    BY <1>2, ContentTypes
<1>4. new = [NoQuestion EXCEPT !.topic = s.topic, !.format = s.format, !.active = TRUE, !.revision = revision]
    BY <1>2 DEF Seeded
<1>5. new = [active EXCEPT !.revision = revision]
    BY <1>4
<1> HIDE DEF new, revision
<1>6. named \in Draft /\ named.topic = s.topic /\ SameBut("topic", NoQuestion, named)
    BY <1>1, <1>2, WithTopic
<1> HIDE DEF named
<1>7. formed \in Draft /\ formed.format = s.format /\ SameBut("format", named, formed)
    BY <1>2, <1>6, WithFormat
<1> HIDE DEF formed
<1>8. active \in Draft /\ SameBut("active", formed, active)
    BY <1>7, WithActive
<1> HIDE DEF active
<1>9. new \in Draft /\ new.revision = revision /\ SameBut("revision", active, new)
    BY <1>3, <1>5, <1>8, WithRevision
<1>10. new.topic = s.topic /\ new.format = s.format /\ new.difficulty = "" /\ new.metadata = Unrated /\ new.version = 0
    BY <1>1, <1>6, <1>7, <1>8, <1>9 DEF SameBut
<1>11. new \in Row
    BY <1>2, <1>3, <1>9, <1>10, DraftIsRow
<1>12. Rated(new)
    BY <1>10 DEF Rated
<1>13. QED BY <1>10, <1>11, <1>12 DEF new

LEMMA ImportStep ==
    ASSUME BankInv, NEW content \in Content, NEW retire \in BOOLEAN, NEW seed \in BOOLEAN,
           import_content(content, retire, seed)
    PROVE  /\ BankInv' /\ Moves
           /\ \A q \in Question : question'[q] # question[q] => question[q] = NoQuestion /\ question'[q].version = 0
<1> DEFINE newTopic(t) == IF t \in DOMAIN content
                          THEN [active |-> TRUE, category |-> content[t].category, context |-> content[t].context]
                          ELSE [topic[t] EXCEPT !.active = FALSE]
<1>1. /\ seed => Rows = {} /\ \A q \in DOMAIN Seed : Seed[q].topic \in DOMAIN content
      /\ topic' = [t \in Topic |-> newTopic(t)]
      /\ question' = IF seed THEN Seeded(content) ELSE question
      /\ bank' = rebuild_banks(Category, question', topic')
      /\ UNCHANGED <<trail, tab, export>>
    BY DEF import_content
<1>2. ASSUME NEW t \in Topic PROVE newTopic(t) \in [active : BOOLEAN, category : Assigned, context : Context]
    <2>1. CASE t \in DOMAIN content
        BY <2>1, ContentTypes
    <2>2. CASE t \notin DOMAIN content
        BY <2>2 DEF BankInv, BankTypeOK
    <2>3. QED BY <2>1, <2>2
<1> HIDE DEF newTopic
<1>3. topic' \in [Topic -> [active : BOOLEAN, category : Assigned, context : Context]]
    BY <1>1, <1>2
<1>4. ASSUME NEW q \in Question
      PROVE  /\ Unchanged(q) \/ Made(q)
             /\ question'[q] # question[q] => question[q] = NoQuestion /\ question'[q].version = 0
    <2>1. CASE ~seed
        BY <1>1, <2>1 DEF Unchanged
    <2>2. CASE seed
        <3>1. question[q] = NoQuestion
            BY <1>1, <2>2 DEF Rows, Exists
        <3>2. CASE q \notin DOMAIN Seed
            BY <1>1, <2>2, <3>1, <3>2 DEF Unchanged, Seeded
        <3>3. CASE q \in DOMAIN Seed
            BY <1>1, <2>2, <3>1, <3>3, SeededRow DEF Made
        <3>4. QED BY <3>2, <3>3
    <2>3. QED BY <2>1, <2>2
<1>5. Moves
    BY <1>1, <1>4 DEF Moves, Seeded, BankInv, BankTypeOK
<1>6. question' \in [Question -> Row \union {NoQuestion}]
    BY <1>5, MovesKeep
<1>7. bank' = [c \in Category |-> AnswersIn(c, question', topic')]
    BY <1>1 DEF rebuild_banks
<1>8. bank' \in [Category -> SUBSET UNION {AnswersOf[p] : p \in Payload}]
    BY <1>6, <1>7, RebuiltTypes
<1>9. BanksAreCurrent'
    <2>1. SUFFICES ASSUME NEW c \in Category, TypedOf(question', topic', c) # {}
                   PROVE  bank'[c] = Answers(question', TypedOf(question', topic', c))
        <3>1. \A c \in Category : TypedOf(question', topic', c) =
                 {q \in Rows' : /\ question'[q].active /\ question'[q].format = "typed"
                                /\ topic'[question'[q].topic].active /\ topic'[question'[q].topic].category = c}
            BY DEF TypedOf, Available, Rows, Exists
        <3>2. QED BY <3>1 DEF BanksAreCurrent, Answers
    <2>2. QED BY <1>7, <2>1, AnswersOfTyped
<1>10. Rest
    BY <1>1, <1>3, <1>8 DEF Rest, BankInv, BankTypeOK
<1>11. QED BY <1>4, <1>5, <1>9, <1>10, MovesKeepInv

\* A page that opens or closes, and an export, leave the bank as it is.
LEMMA LookStep ==
    ASSUME BankInv, UNCHANGED <<question, trail, topic, bank>>,
           /\ DOMAIN tab' = Tab /\ tab' = [x \in Tab |-> tab'[x]]
           /\ \A x \in Tab : \/ tab'[x] = tab[x] \/ tab'[x] = Closed
                             \/ \E q \in Question : Exists(q) /\ tab'[x] = [question |-> q, seen |-> question[q]],
           export' = export \/ export' = question
    PROVE  BankInv'
<1> USE DEF BankInv
<1>1. \A q \in Question : Exists(q) => question[q] \in Row /\ Seen(question, q, question[q])
    <2>1. SUFFICES ASSUME NEW q \in Question, Exists(q)
                   PROVE  question[q] \in Row /\ Seen(question, q, question[q])
        OBVIOUS
    <2>2. question[q] \in Row
        BY <2>1 DEF BankTypeOK, Exists
    <2>3. question[q].version \in Nat
        BY <2>2 DEF Row, Shape
    <2>4. QED BY <2>1, <2>2, <2>3 DEF Seen, Exists
<1>2. tab' \in [Tab -> {Closed} \union [question : Question, seen : Row]]
    <2>1. \A x \in Tab : tab'[x] \in {Closed} \union [question : Question, seen : Row]
        BY <1>1 DEF BankTypeOK
    <2>2. QED BY <2>1
<1>3. BankTypeOK'
    BY <1>2 DEF BankTypeOK
<1>4. WhatWasSeen'
    <2>1. ASSUME NEW x \in Tab, tab'[x] # Closed PROVE Seen(question', tab'[x].question, tab'[x].seen)
        BY <1>1, <2>1 DEF WhatWasSeen
    <2>2. ASSUME NEW q \in Question, export'[q] # NoQuestion PROVE Seen(question', q, export'[q])
        BY <1>1, <2>2 DEF WhatWasSeen, Exists
    <2>3. QED BY <2>1, <2>2 DEF WhatWasSeen
<1>5. TrailEndsHere' /\ RatingDescribesContent'
    BY DEF TrailEndsHere, RatingDescribesContent, Exists, Rows, fingerprint
<1>6. BanksAreCurrent'
    <2>1. \A q \in Question : SameFor(q, {})
        BY DEF SameFor
    <2>2. QED BY <2>1, BanksKept
<1>7. QED BY <1>3, <1>4, <1>5, <1>6

LEMMA BankStep == BankInv /\ [BankNext]_bankVars => BankInv'
<1> SUFFICES ASSUME BankInv, [BankNext]_bankVars PROVE BankInv'
    OBVIOUS
<1> USE DEF BankInv
<1>1. tab = [x \in Tab |-> tab[x]] /\ DOMAIN tab = Tab
    BY DEF BankTypeOK
<1>2. CASE export_question_bank
    BY <1>1, <1>2, LookStep DEF export_question_bank
<1>3. ASSUME NEW analysis \in Analysis, adopt_difficulty(analysis) PROVE BankInv'
    BY <1>3, AdoptStep
<1>4. ASSUME NEW update \in Update, apply_updates(update) PROVE BankInv'
    BY <1>4, UpdateStep
<1>5. ASSUME NEW content \in Content, NEW retire \in BOOLEAN, NEW seed \in BOOLEAN, import_content(content, retire, seed)
      PROVE  BankInv'
    BY <1>5, ImportStep
<1>6. ASSUME NEW q \in Question, NEW t \in Topic, NEW p \in Payload, NEW d \in Given, create_question(q, t, p, d)
      PROVE  BankInv'
    BY <1>6, CreateStep
<1>7. ASSUME NEW x \in Tab, NEW q \in Question, OpenForm(x, q) PROVE BankInv'
    <2>1. tab' = [tab EXCEPT ![x] = [question |-> q, seen |-> question[q]]] /\ Exists(q)
        BY <1>7 DEF OpenForm
    <2>2. DOMAIN tab' = Tab /\ tab' = [y \in Tab |-> tab'[y]]
        BY <1>1, <2>1
    <2>3. \A y \in Tab : tab'[y] = tab[y] \/ (Exists(q) /\ tab'[y] = [question |-> q, seen |-> question[q]])
        BY <1>1, <2>1
    <2>4. QED BY <1>7, <2>2, <2>3, LookStep DEF OpenForm
<1>8. ASSUME NEW x \in Tab, CloseForm(x) PROVE BankInv'
    <2>1. tab' = [tab EXCEPT ![x] = Closed]
        BY <1>8 DEF CloseForm
    <2>2. DOMAIN tab' = Tab /\ tab' = [y \in Tab |-> tab'[y]] /\ \A y \in Tab : tab'[y] = tab[y] \/ tab'[y] = Closed
        BY <1>1, <2>1
    <2>3. QED BY <1>8, <2>2, LookStep DEF CloseForm
<1>9. ASSUME NEW x \in Tab, NEW p \in Payload, NEW d \in Given, edit_question(x, p, d) PROVE BankInv'
    BY <1>9, EditStep
<1>10. ASSUME NEW x \in Tab, change_question_status(x) PROVE BankInv'
    BY <1>10, StatusStep
<1>11. CASE UNCHANGED bankVars
    BY <1>1, <1>11, LookStep DEF bankVars
<1>12. QED BY <1>2, <1>3, <1>4, <1>5, <1>6, <1>7, <1>8, <1>9, <1>10, <1>11 DEF BankNext

LEMMA BankInvariant == BankSpec => []BankInv
BY BankStart, BankStep, PTL DEF BankSpec

\* Whatever forms, restores, bulk reviews and adoptions came between, a rating is about the
\* stem and answer it stands beside.
THEOREM RatingsDescribeContent == BankSpec => []RatingDescribesContent
<1>1. BankInv => RatingDescribesContent
    BY DEF BankInv
<1>2. QED BY <1>1, BankInvariant, PTL

\* The stored answer bank of a category is that of its available typed questions, whichever
\* writers touched them and whether a writer rebuilt one bank, some or all.
THEOREM BanksStayCurrent == BankSpec => []BanksAreCurrent
<1>1. BankInv => BanksAreCurrent
    BY DEF BankInv
<1>2. QED BY <1>1, BankInvariant, PTL

(***************************************************************************)
(* No lost update.                                                         *)
(***************************************************************************)

\* What is said of a row q that changes, after its first seeding.
OnRecord(q) ==
    /\ trail'[q].before = question[q] /\ trail'[q].after = question'[q]
    /\ question'[q].version = question[q].version + 1
    /\ trail[q] = NoChange \/ trail[q].after = question[q]
AsOnForm(q) == \A x \in Tab : tab'[x] # tab[x] => tab[x] = [question |-> q, seen |-> question[q]]
AsExported(q) == trail'[q].kind = "bulk_update" => export[q] = question[q]
Replaces(q) ==
    \/ question[q] = NoQuestion /\ question'[q].version = 0
    \/ OnRecord(q) /\ AsOnForm(q) /\ AsExported(q)

LEMMA RewrittenOnRecord ==
    ASSUME BankInv, NEW q \in Question, Rewritten(q)
    PROVE  OnRecord(q)
BY DEF BankInv, TrailEndsHere, Rewritten, Follows, OnRecord

LEMMA SavedOnly ==
    ASSUME BankInv, NEW q \in Question, NEW new, NEW kind, Save(q, new, kind), NEW r \in Question, question'[r] # question[r]
    PROVE  r = q /\ trail'[r] = [kind |-> kind, before |-> question[r], after |-> question'[r]]
BY DEF BankInv, BankTypeOK, Save

LEMMA FormReplaces ==
    ASSUME BankInv, Moves, NEW x \in Tab, tab[x] # Closed, UpToDate(question[tab[x].question], tab[x].seen),
           NEW new, NEW kind, kind \notin {"none", "bulk_update"}, Save(tab[x].question, new, kind),
           tab' = [tab EXCEPT ![x] = Closed], NEW q \in Question, question'[q] # question[q]
    PROVE  Replaces(q)
<1>1. tab[x] = [question |-> tab[x].question, seen |-> question[tab[x].question]] /\ tab[x].question \in Question
      /\ question[tab[x].question] \in Row
    BY FormIsCurrent
<1>2. q = tab[x].question /\ trail'[q].kind = kind
    <2>1. q = tab[x].question /\ trail'[q] = [kind |-> kind, before |-> question[q], after |-> question'[q]]
        BY <1>1, SavedOnly
    <2>2. QED BY <2>1
<1>3. Rewritten(q)
    BY <1>1, <1>2, NoQuestionIsNoRow DEF Moves, Unchanged, Made
<1>4. AsOnForm(q)
    BY <1>1, <1>2 DEF AsOnForm, BankInv, BankTypeOK
<1>5. AsExported(q)
    BY <1>2 DEF AsExported
<1>6. QED BY <1>3, <1>4, <1>5, RewrittenOnRecord DEF Replaces

LEMMA StepReplaces ==
    ASSUME BankInv, BankNext, NEW q \in Question, question'[q] # question[q]
    PROVE  Replaces(q)
<1>1. CASE export_question_bank
    BY <1>1 DEF export_question_bank
<1>2. ASSUME NEW analysis \in Analysis, adopt_difficulty(analysis) PROVE Replaces(q)
    <2>1. Moves /\ tab' = tab /\ trail' = [r \in Question |-> trail'[r]]
        BY <1>2, AdoptStep DEF adopt_difficulty, SaveAll
    <2>2. question[q] # NoQuestion /\ trail'[q].kind = "database_cutover"
        BY <1>2, BankAssumption DEF adopt_difficulty, SaveAll, Conflicts, BankInv, BankTypeOK
    <2>3. Rewritten(q)
        BY <2>1, <2>2 DEF Moves, Unchanged, Made
    <2>4. QED BY <2>1, <2>2, <2>3, RewrittenOnRecord DEF Replaces, AsOnForm, AsExported
<1>3. ASSUME NEW update \in Update, apply_updates(update) PROVE Replaces(q)
    <2>1. Moves /\ tab' = tab
        BY <1>3, UpdateStep DEF apply_updates
    <2>2. q \in DOMAIN update
        BY <1>3 DEF apply_updates, SaveAll
    <2>3. export[q] # NoQuestion /\ UpToDate(question[q], export[q])
        BY <1>3, <2>2 DEF apply_updates
    <2>4. export[q] = question[q] /\ question[q] \in Row
        BY <2>3, UpToDateIsSeen DEF BankInv, BankTypeOK, WhatWasSeen
    <2>5. Rewritten(q)
        BY <2>1, <2>3, <2>4 DEF Moves, Unchanged, Made
    <2>6. QED BY <2>1, <2>4, <2>5, RewrittenOnRecord DEF Replaces, AsOnForm, AsExported
<1>4. ASSUME NEW content \in Content, NEW retire \in BOOLEAN, NEW seed \in BOOLEAN, import_content(content, retire, seed)
      PROVE  Replaces(q)
    BY <1>4, ImportStep DEF Replaces
<1>5. ASSUME NEW r \in Question, NEW t \in Topic, NEW p \in Payload, NEW d \in Given, create_question(r, t, p, d)
      PROVE  Replaces(q)
    <2> DEFINE new == Revised([NoQuestion EXCEPT !.topic = t, !.format = "typed", !.active = TRUE], p, d)
    <2>1. Save(r, new, "edit") /\ question[r] = NoQuestion /\ tab' = tab
        BY <1>5 DEF create_question, Exists
    <2>2. new.version = 1
        BY CreatedRow DEF BankInv
    <2> HIDE DEF new
    <2>3. q = r /\ trail'[q] = [kind |-> "edit", before |-> question[q], after |-> question'[q]]
        BY <2>1, SavedOnly
    <2>4. question'[q] = new
        BY <2>1, <2>3 DEF Save, BankInv, BankTypeOK
    <2>5. question[q] = NoQuestion /\ NoQuestion.version = 0 /\ trail[q] = NoChange
        <3>1. question[q] = NoQuestion
            BY <2>1, <2>3
        <3>2. NoQuestion.version = 0
            BY DEF NoQuestion
        <3>3. QED BY <3>1, <3>2 DEF BankInv, TrailEndsHere, Exists
    <2>6. OnRecord(q)
        <3>1. question'[q].version = question[q].version + 1
            BY <2>2, <2>4, <2>5
        <3>2. QED BY <2>3, <2>5, <3>1 DEF OnRecord
    <2>7. QED BY <2>1, <2>3, <2>6 DEF Replaces, AsOnForm, AsExported
<1>6. ASSUME NEW x \in Tab, OpenForm(x, q) \/ CloseForm(x) \/ (\E r \in Question : OpenForm(x, r)) PROVE Replaces(q)
    BY <1>6 DEF OpenForm, CloseForm
<1>7. ASSUME NEW x \in Tab, NEW p \in Payload, NEW d \in Given, edit_question(x, p, d) PROVE Replaces(q)
    <2>1. Moves
        BY <1>7, EditStep
    <2>2. /\ tab[x] # Closed /\ UpToDate(question[tab[x].question], tab[x].seen) /\ tab' = [tab EXCEPT ![x] = Closed]
          /\ Save(tab[x].question, Revised(question[tab[x].question], p, d), "edit")
        BY <1>7 DEF edit_question
    <2>3. "edit" \notin {"none", "bulk_update"}
        OBVIOUS
    <2>4. QED BY <2>1, <2>2, <2>3, FormReplaces
<1>8. ASSUME NEW x \in Tab, change_question_status(x) PROVE Replaces(q)
    <2> DEFINE kind == IF tab[x].seen.active THEN "archive" ELSE "reactivate"
               new == [question[tab[x].question] EXCEPT !.active = ~tab[x].seen.active, !.version = @ + 1]
    <2>1. Moves
        BY <1>8, StatusStep
    <2>2. /\ tab[x] # Closed /\ UpToDate(question[tab[x].question], tab[x].seen) /\ tab' = [tab EXCEPT ![x] = Closed]
          /\ Save(tab[x].question, new, kind)
        BY <1>8 DEF change_question_status
    <2>3. kind \notin {"none", "bulk_update"}
        OBVIOUS
    <2> HIDE DEF kind, new
    <2>4. QED BY <2>1, <2>2, <2>3, FormReplaces
<1>9. QED BY <1>1, <1>2, <1>3, <1>4, <1>5, <1>6, <1>7, <1>8 DEF BankNext

\* No update is lost: a form or an update file that is accepted replaces exactly the row that
\* it was made from, and every change of a row goes on record as the next version.
THEOREM NoUpdateIsLost == BankSpec => SavesReplaceWhatWasSeen
<1>1. BankInv /\ [BankNext]_bankVars =>
         \A q \in Question : question'[q] # question[q] =>
            \/ question[q] = NoQuestion /\ question'[q].version = 0
            \/ /\ trail'[q].before = question[q] /\ trail'[q].after = question'[q]
               /\ question'[q].version = question[q].version + 1
               /\ trail[q] = NoChange \/ trail[q].after = question[q]
               /\ \A x \in Tab : tab'[x] # tab[x] => tab[x] = [question |-> q, seen |-> question[q]]
               /\ trail'[q].kind = "bulk_update" => export[q] = question[q]
    BY StepReplaces DEF bankVars, Replaces, OnRecord, AsOnForm, AsExported
<1>2. QED BY <1>1, BankInvariant, PTL DEF BankSpec, SavesReplaceWhatWasSeen
=============================================================================
