--------------------------- MODULE DifficultyBatch ---------------------------
(***************************************************************************)
(* The difficulty run of scripts/question_difficulty_batch.py: every       *)
(* question of the bank is sent once, in parts, to a remote batch service  *)
(* that charges for what it accepts, and what comes back is published when *)
(* it is complete and the bank has not moved.  The process may die between *)
(* any two of its steps, and a request may be accepted without its reply   *)
(* ever being seen.                                                        *)
(***************************************************************************)
EXTENDS Naturals, FiniteSets, Sequences

CONSTANTS
    N,              \* the bank's questions are 1..N, in the order of their ids
    PartSize,       \* questions in a part when the parts are first cut
    MinPart,        \* a part of no more than this is not split
    Workers,        \* threads of one invocation
    Label,          \* the levels the rubric allows
    Line,           \* what a batch may have to say of a question: a level, "failed" or "missing"
    MaxRevision     \* bound: the revision at which each question's text stops changing

ASSUME DifficultyBatchAssumption ==
    /\ N \in Nat \ {0} /\ PartSize \in Nat \ {0} /\ MinPart \in Nat \ {0}
    /\ Workers \in Nat \ {0} /\ MaxRevision \in [1..N -> Nat]
    /\ {"failed", "missing"} \intersect Label = {} /\ Line \subseteq Label \union {"failed", "missing"}

VARIABLES
    source,         \* the revision of each question in the bank's data files
    manifest,       \* the revisions frozen by prepare, <<>> before
    parts,          \* parts.json: the sets of questions sent together
    marked,         \* parts with a submission-pending.json
    batch,          \* batch.json of the parts that have one: the position in posts, the status last seen
    posts,          \* every batch requested of the service, with what became of it
    action,         \* the invocation that holds the lock: "none", "submit" or "collect"
    thread,         \* where the invocation stands with each part
    summary,        \* summary.json: "none", "complete" or "incomplete"
    annotations,    \* annotations.json: level and revision of the questions that were answered
    published       \* data/question-difficulty.json, <<>> when there is none

batchFiles == <<manifest, parts, marked, batch, summary, annotations, published>>
batchVars == <<source, batchFiles, posts, action, thread>>

Question == 1..N
None == <<>>

BatchInit ==
    /\ source = [q \in Question |-> 0]
    /\ manifest = None
    /\ parts = {} /\ marked = {} /\ batch = <<>>
    /\ posts = <<>>
    /\ action = "none" /\ thread = <<>>
    /\ summary = "none" /\ annotations = None /\ published = None

----------------------------------------------------------------------------
(* Cutting the run into parts.  Each index or manifest is written after the *)
(* files it names, so that a cut that dies half-way has not happened.       *)

prepare == IF manifest = None THEN source ELSE manifest

Chunk(q) == {r \in Question : (r - 1) \div PartSize = (q - 1) \div PartSize}
prepare_parts == IF parts = {} THEN {Chunk(q) : q \in Question} ELSE parts

Lower(p) == {q \in p : 2 * Cardinality({r \in p : r < q}) < Cardinality(p)}
Unattempted(p) == p \notin DOMAIN batch /\ p \notin marked
Halves(p) ==
    IF Unattempted(p) /\ Cardinality(p) > MinPart THEN {Lower(p), p \ Lower(p)} ELSE {p}

Prepare ==
    /\ action = "none"
    /\ manifest' = prepare
    /\ UNCHANGED <<source, parts, marked, batch, posts, action, thread, summary, annotations, published>>

split_pending ==
    /\ action = "none"
    /\ manifest' = prepare
    /\ parts' = UNION {Halves(p) : p \in prepare_parts}
    /\ UNCHANGED <<source, marked, batch, posts, action, thread, summary, annotations, published>>

----------------------------------------------------------------------------
(* submit and collect work on up to Workers parts at a time.               *)

operate_parts(a) ==
    /\ action = "none"
    /\ action' = a
    /\ manifest' = prepare
    /\ parts' = prepare_parts
    /\ thread' = [p \in prepare_parts |-> "queued"]
    /\ UNCHANGED <<source, marked, batch, posts, summary, annotations, published>>

Working == {p \in DOMAIN thread : thread[p] \notin {"queued", "done", "error"}}
At(p, step) == p \in DOMAIN thread /\ thread[p] = step
Goes(p, step) == thread' = [thread EXCEPT ![p] = step]

Accepted(i) == posts[i].status \notin {"sent", "lost"}
Matches(p) == {i \in DOMAIN posts : posts[i].part = p /\ Accepted(i)}
Record(p, i) == batch' = [x \in DOMAIN batch \union {p} |->
                            IF x = p THEN [id |-> i, status |-> posts[i].status] ELSE batch[x]]

\* A part is sent only if no earlier invocation may have sent it.
MayPost_WithoutMatch(p) == p \notin DOMAIN batch /\ Matches(p) = {}
MayPost(p) == Unattempted(p)

Take(p) ==
    /\ At(p, "queued") /\ Cardinality(Working) < Workers
    /\ Goes(p, IF action = "collect" THEN "collecting"
               ELSE IF p \in DOMAIN batch THEN "done"
               ELSE IF MayPost(p) THEN "uploading"
               ELSE "reconciling")
    /\ UNCHANGED <<source, batchFiles, posts, action>>

\* The marker is there but no batch.json: the batch is looked for among those of the service.
Reconcile(p) ==
    /\ At(p, "reconciling")
    /\ IF Cardinality(Matches(p)) = 1
       THEN \E i \in Matches(p) : Record(p, i) /\ Goes(p, "done")
       ELSE Goes(p, "error") /\ UNCHANGED batch
    /\ UNCHANGED <<source, manifest, parts, marked, posts, action, summary, annotations, published>>

\* The file the batch is to read, kept from an earlier attempt or uploaded now.
Upload(p) ==
    /\ At(p, "uploading")
    /\ Goes(p, "uploaded")
    /\ UNCHANGED <<source, batchFiles, posts, action>>

Mark(p) ==
    /\ At(p, "uploaded")
    /\ marked' = marked \union {p}
    /\ Goes(p, "marked")
    /\ UNCHANGED <<source, manifest, parts, batch, posts, action, summary, annotations, published>>

Post(p) ==
    /\ At(p, "marked")
    /\ posts' = Append(posts, [part |-> p, status |-> "sent", output |-> <<>>])
    /\ Goes(p, "posted")
    /\ UNCHANGED <<source, batchFiles, action>>

Reply(p) ==
    /\ At(p, "posted")
    /\ \E i \in Matches(p) : Record(p, i)
    /\ Goes(p, "done")
    /\ UNCHANGED <<source, manifest, parts, marked, posts, action, summary, annotations, published>>

\* Any call to the service may fail, whether or not the service acted on it.
Fails(p) ==
    /\ \E step \in {"uploading", "reconciling", "posted", "collecting"} : At(p, step)
    /\ Goes(p, "error")
    /\ UNCHANGED <<source, batchFiles, posts, action>>

Terminal == {"completed", "expired"}

\* The batch as it is now; of a terminal one the outputs are fetched too.
collect(p) ==
    /\ At(p, "collecting")
    /\ IF p \in DOMAIN batch
       THEN Record(p, batch[p].id) /\ Goes(p, "done")
       ELSE Goes(p, "error") /\ UNCHANGED batch
    /\ UNCHANGED <<source, manifest, parts, marked, posts, action, summary, annotations, published>>

Output(q) ==
    LET p == CHOOSE x \in parts : q \in x
    IN  posts[batch[p].id].output[q]
parse_outputs ==
    [q \in {x \in Question : Output(x) \in Label} |-> [difficulty |-> Output(q), source |-> manifest[q]]]

Ended == action # "none" /\ \A p \in DOMAIN thread : thread[p] \in {"done", "error"}
AllTerminal ==
    /\ action = "collect"
    /\ \A p \in parts : thread[p] = "done" /\ batch[p].status \in Terminal

\* The two files of the whole run, one after the other.
summarize ==
    /\ Ended /\ AllTerminal /\ action' = "annotating"
    /\ summary' = IF DOMAIN parse_outputs = Question THEN "complete" ELSE "incomplete"
    /\ UNCHANGED <<source, manifest, parts, marked, batch, posts, thread, annotations, published>>

Annotate ==
    /\ action = "annotating"
    /\ annotations' = parse_outputs
    /\ action' = "none" /\ thread' = <<>>
    /\ UNCHANGED <<source, manifest, parts, marked, batch, posts, summary, published>>

Return ==
    /\ Ended /\ ~AllTerminal /\ action # "annotating"
    /\ action' = "none" /\ thread' = <<>>
    /\ UNCHANGED <<source, batchFiles, posts>>

\* The process dies, and with it the lock and every thread.
Die ==
    /\ action # "none"
    /\ action' = "none" /\ thread' = <<>>
    /\ UNCHANGED <<source, batchFiles, posts>>

----------------------------------------------------------------------------
(* Publishing, the bank and the service.                                   *)

StillCurrent_Unchecked(assessed) == TRUE
StillCurrent(assessed) == source = assessed

publish ==
    /\ action = "none"
    /\ summary = "complete" /\ annotations # None
    /\ manifest = [q \in DOMAIN annotations |-> annotations[q].source]
    /\ StillCurrent(manifest)
    /\ published \in {None, annotations}
    /\ published' = annotations
    /\ UNCHANGED <<source, manifest, parts, marked, batch, posts, action, thread, summary, annotations>>

Revise(q) ==
    /\ source[q] < MaxRevision[q]
    /\ source' = [source EXCEPT ![q] = @ + 1]
    /\ UNCHANGED <<batchFiles, posts, action, thread>>

\* The service accepts a request, at once or after its sender is gone, or never sees it.
Arrive(i) ==
    /\ posts[i].status = "sent"
    /\ \E s \in {"in_progress", "lost"} : posts' = [posts EXCEPT ![i].status = s]
    /\ UNCHANGED <<source, batchFiles, action, thread>>

\* A completed batch has a line for every question, an expired one only for some.
Judge(i) ==
    /\ posts[i].status = "in_progress"
    /\ \E s \in Terminal : \E out \in [posts[i].part -> Line] :
         /\ \A q \in DOMAIN out : out[q] = "missing" => s = "expired"
         /\ posts' = [posts EXCEPT ![i].status = s, ![i].output = out]
    /\ UNCHANGED <<source, batchFiles, action, thread>>

BatchNext ==
    \/ Prepare \/ split_pending \/ publish
    \/ \E a \in {"submit", "collect"} : operate_parts(a)
    \/ \E p \in DOMAIN thread :
         \/ Take(p) \/ Reconcile(p) \/ Upload(p) \/ Mark(p) \/ Post(p) \/ Reply(p) \/ Fails(p) \/ collect(p)
    \/ summarize \/ Annotate \/ Return \/ Die
    \/ \E q \in Question : Revise(q)
    \/ \E i \in DOMAIN posts : Arrive(i) \/ Judge(i)

BatchSpec == BatchInit /\ [][BatchNext]_batchVars

----------------------------------------------------------------------------
(* Properties.                                                             *)

\* No question is ever sent to the service twice, whatever dies, is lost, comes late or is split
\* in between: each request is paid for, and the run's policy allows no paid retry.
BatchedOnce ==
    \A i, j \in DOMAIN posts : i # j => posts[i].part \intersect posts[j].part = {}

\* What is published is complete, is the service's own judgement of each question as the bank
\* words it at that moment, and is never replaced by another assessment.
PublishedAsJudged ==
    [][published' # published =>
         /\ published = None
         /\ DOMAIN published' = Question
         /\ \A q \in Question :
              /\ published'[q].source = source[q]
              /\ \E i \in DOMAIN posts :
                   q \in posts[i].part /\ Accepted(i) /\ published'[q].difficulty = posts[i].output[q]]_batchVars
=============================================================================
