---------------------------- MODULE ResearchQueue ----------------------------
(***************************************************************************)
(* The enrichment queue: scripts/enrich_topics.py hands batches of topics  *)
(* to researchers and accepts what they write into the site's content;     *)
(* scripts/integrate_luna_topics.py takes topics out of batches nobody has *)
(* claimed and imports pages prepared elsewhere.  Both hold one lock for a *)
(* whole command; a command may die between the files it writes, and the   *)
(* researchers write theirs without the lock.                              *)
(***************************************************************************)
EXTENDS Naturals, FiniteSets, FiniteSetsExt

CONSTANTS
    Unwritten,      \* topics without a page when the queue is made
    Written,        \* topics that had one; their pages are the baseline
    Divided,        \* the batches the queue is cut into: position |-> topics
    Seeded,         \* batches that may have been assigned by hand before
    Researcher,
    Page            \* what a topic's page, with its research, may be

ASSUME ResearchQueueAssumption ==
    /\ Unwritten \intersect Written = {}
    /\ DOMAIN Divided \subseteq Nat /\ Seeded \subseteq DOMAIN Divided
    /\ UNION {Divided[b] : b \in DOMAIN Divided} = Unwritten
    /\ \A b, c \in DOMAIN Divided : b # c => Divided[b] \intersect Divided[c] = {}

VARIABLES
    batches,        \* queue.json: each batch's topics, status and worker
    acceptances,    \* queue.json: external acceptances by topic
    assignments,    \* the assignment files: batch |-> the topics listed
    results,        \* the results files: batch |-> pages of its topics
    content,        \* data/content.json
    command         \* what the command holding the lock has still to write

queueVars == <<batches, acceptances, assignments, results, content, command>>

Nobody == "nobody"
NoCommand == [kind |-> "none", batch |-> 0, worker |-> Nobody, pages |-> <<>>, fresh |-> {}]
Pages(S) == [S -> Page]
Onto(f, g) == [x \in DOMAIN f \union DOMAIN g |-> IF x \in DOMAIN g THEN g[x] ELSE f[x]]

QueueInit ==
    /\ \E S \in SUBSET Seeded : assignments = [b \in S |-> Divided[b]]
    /\ batches = [b \in DOMAIN Divided |->
                    [topic_ids |-> Divided[b], worker |-> Nobody,
                     status |-> IF b \in DOMAIN assignments THEN "assigned" ELSE "pending"]]
    /\ acceptances = <<>>
    /\ results = <<>>
    /\ content \in Pages(Written)
    /\ command = NoCommand

Free == command = NoCommand
Runs(kind, b, w, pages, fresh) ==
    command' = [kind |-> kind, batch |-> b, worker |-> w, pages |-> pages, fresh |-> fresh]

----------------------------------------------------------------------------
(* Claiming, writing, releasing and accepting a batch.                     *)

Unfinished(w) ==
    {b \in DOMAIN batches :
        batches[b].status = "assigned" /\ batches[b].worker = w /\ b \notin DOMAIN results}
Claimable == {b \in DOMAIN batches : batches[b].status = "pending" /\ batches[b].topic_ids # {}}

\* An assignment file from an earlier claim is used again if it lists the same topics.
assignment(b) ==
    /\ b \in DOMAIN assignments => assignments[b] = batches[b].topic_ids
    /\ assignments' = Onto(assignments, [x \in {b} |-> batches[b].topic_ids])

\* A worker's own unfinished batch, or the first pending one.  The assignment file is written
\* first, the queue after it.
claim(w) ==
    LET choice == IF Unfinished(w) # {} THEN Unfinished(w) ELSE Claimable
    IN  /\ Free /\ choice # {}
        /\ assignment(Min(choice))
        /\ Runs("claim", Min(choice), w, <<>>, {})
        /\ UNCHANGED <<batches, acceptances, results, content>>

Assign ==
    /\ command.kind = "claim"
    /\ batches' = [batches EXCEPT ![command.batch].status = "assigned", ![command.batch].worker = command.worker]
    /\ command' = NoCommand
    /\ UNCHANGED <<acceptances, assignments, results, content>>

\* A researcher who has seen the assignment writes, or rewrites, its results at any time.
WriteResults(b) ==
    /\ b \in DOMAIN assignments
    /\ \E pages \in Pages(assignments[b]) : results' = Onto(results, [x \in {b} |-> pages])
    /\ UNCHANGED <<batches, acceptances, assignments, content, command>>

release(b) ==
    /\ Free
    /\ batches[b].status \notin {"accepted", "absorbed"}
    /\ b \notin DOMAIN results
    /\ batches' = [batches EXCEPT ![b].status = "pending", ![b].worker = Nobody]
    /\ UNCHANGED <<acceptances, assignments, results, content, command>>

WouldOverwrite_Never(pages) == FALSE
WouldOverwrite(pages) == \E t \in DOMAIN pages \intersect DOMAIN content : content[t] # pages[t]

\* The reviewer's acceptance: the pages first, the queue after them.
accept(b) ==
    /\ Free
    /\ b \in DOMAIN results /\ DOMAIN results[b] = batches[b].topic_ids
    /\ ~WouldOverwrite(results[b])
    /\ content' = Onto(content, results[b])
    /\ Runs("accept", b, Nobody, <<>>, {})
    /\ UNCHANGED <<batches, acceptances, assignments, results>>

Accept ==
    /\ command.kind = "accept"
    /\ batches' = [batches EXCEPT ![command.batch].status = "accepted"]
    /\ command' = NoCommand
    /\ UNCHANGED <<acceptances, assignments, results, content>>

----------------------------------------------------------------------------
(* Importing pages: the topics leave their batches and are on record as    *)
(* prepared, then the pages are written, then the record says accepted.    *)

Owners(t) == {b \in DOMAIN batches : t \in batches[b].topic_ids}

Untouched_ByStatus(b) == batches[b].status = "pending"
Untouched(b) == batches[b].status = "pending" /\ b \notin DOMAIN assignments /\ b \notin DOMAIN results

MayImport(t, page) ==
    IF t \in DOMAIN acceptances
    THEN /\ acceptances[t].page = page
         /\ acceptances[t].status = "accepted" => t \in DOMAIN content
    ELSE Cardinality(Owners(t)) = 1 /\ \A b \in Owners(t) : Untouched(b)

Importable(pages) ==
    /\ \A t \in DOMAIN pages : t \notin Written /\ MayImport(t, pages[t])
    /\ ~WouldOverwrite(pages)

integrate(pages) ==
    LET fresh == DOMAIN pages \ DOMAIN acceptances
        prepared == {t \in DOMAIN pages \ fresh : acceptances[t].status = "prepared"}
        left(b) == batches[b].topic_ids \ fresh
    IN  /\ Free
        /\ Importable(pages)
        /\ batches' = [b \in DOMAIN batches |->
                         [batches[b] EXCEPT
                            !.topic_ids = left(b),
                            !.status = IF left(b) = {} /\ batches[b].topic_ids # {} THEN "absorbed" ELSE @]]
        /\ acceptances' = Onto(acceptances, [t \in fresh |-> [status |-> "prepared", page |-> pages[t]]])
        /\ IF fresh \union prepared = {} THEN UNCHANGED command
           ELSE Runs("write", 0, Nobody, pages, fresh \union prepared)
        /\ UNCHANGED <<assignments, results, content>>

WritePages ==
    /\ command.kind = "write"
    /\ content' = Onto(content, command.pages)
    /\ command' = [command EXCEPT !.kind = "confirm"]
    /\ UNCHANGED <<batches, acceptances, assignments, results>>

Confirm ==
    /\ command.kind = "confirm"
    /\ acceptances' = [t \in DOMAIN acceptances |->
                         IF t \in command.fresh THEN [acceptances[t] EXCEPT !.status = "accepted"]
                         ELSE acceptances[t]]
    /\ command' = NoCommand
    /\ UNCHANGED <<batches, assignments, results, content>>

Interrupted == ~Free /\ command' = NoCommand /\ UNCHANGED <<batches, acceptances, assignments, results, content>>

QueueNext ==
    \/ \E w \in Researcher : claim(w)
    \/ \E b \in DOMAIN batches : WriteResults(b) \/ release(b) \/ accept(b)
    \/ \E S \in (SUBSET Unwritten) \ {{}} : \E pages \in Pages(S) : integrate(pages)
    \/ Assign \/ Accept \/ WritePages \/ Confirm \/ Interrupted

QueueSpec == QueueInit /\ [][QueueNext]_queueVars

----------------------------------------------------------------------------
(* Properties.                                                             *)

\* Every topic without a page at the start has exactly one owner, a batch or an import, through
\* claims, releases and imports that died half-way; what was assigned to a researcher stays the
\* batch's; and whatever an interrupted import has put on record can be completed, or verified, by
\* importing the same page again.
OneOwner ==
    /\ \A t \in Unwritten : Cardinality(Owners(t)) + (IF t \in DOMAIN acceptances THEN 1 ELSE 0) = 1
    /\ \A b \in DOMAIN assignments : assignments[b] = batches[b].topic_ids
    /\ \A t \in DOMAIN acceptances : Importable([x \in {t} |-> acceptances[t].page])

\* A page of the site is never changed or taken away by any of this.
PagesAreFinal ==
    [][\A t \in DOMAIN content : t \in DOMAIN content' /\ content'[t] = content[t]]_queueVars
=============================================================================
