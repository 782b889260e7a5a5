------------------------------ MODULE TypedRun ------------------------------
(***************************************************************************)
(* The full generation of the typed questions:                             *)
(* scripts/typed_question_full.py, next to the pilot.  Each script has a   *)
(* directory of its own, with its lock, its markers and its answers; the   *)
(* full run looks into the pilot's once, while it prepares its manifest,   *)
(* and copies the valid answers it finds there.  Every request is paid     *)
(* for, so each is marked before it is sent and its answer is kept before  *)
(* it is looked at.  The process may die between any two of these steps;   *)
(* what is on disk is all the next invocation has.                         *)
(***************************************************************************)
EXTENDS TypedPilot, Sequences

CONSTANTS
    Attempts,       \* attempts at one stage of a topic in the full run
    Reserve,        \* what the full run sets aside for a topic it starts; an answer costs 1
    Budget          \* local_budget_usd of the full run

ASSUME TypedRunAssumption ==
    /\ Attempts \in Nat \ {0} /\ Budget \in Nat
    /\ Reserve \in Nat /\ Reserve >= 2      \* one answer for each of the two stages

VARIABLES
    mode,           \* what holds the full run's lock: "off", "init" or "full"
    initialized,    \* the full run has its manifest
    reused,         \* topics whose generation is a copy of the pilot's (reused_from)
    records,        \* response files: for each stage and topic, the record of each attempt
    inflight,       \* in-flight markers: [stage, topic] |-> attempt
    asked,          \* every request sent so far, [stage, topic, attempt] |-> how often
    outcomes,       \* outcome files
    queue,          \* topics this invocation has yet to prepare or to start
    active,         \* topics it is working on, and where it stands with each
    known,          \* what the main thread knows each topic to have cost
    exhausted       \* the main thread starts no more topics

fullVars == <<mode, initialized, reused, records, inflight, asked, outcomes, queue, active, known, exhausted>>
typedVars == <<pilotVars, fullVars>>
typedFiles == <<initialized, reused, records, inflight, asked, outcomes>>

Topic == 1..Topics
Stage == {"generation", "correction"}
NoOutcome == [status |-> "none", cost |-> 0]

\* "fixed" is a correction that keeps the answers, "altered" one that does not.
Answer == {"unread", "clean", "flagged", "invalid", "fixed", "altered"}
Valid(s) == IF s = "correction" THEN {"fixed", "altered"} ELSE ValidDraft

TypedInit ==
    /\ PilotInit
    /\ mode = "off" /\ initialized = FALSE /\ reused = {}
    /\ records = [s \in Stage |-> [t \in Topic |-> <<>>]]
    /\ inflight = <<>> /\ asked = <<>>
    /\ outcomes = [t \in Topic |-> NoOutcome]
    /\ queue = {} /\ active = <<>> /\ known = <<>> /\ exhausted = FALSE

Cost(s, t) == Cardinality({i \in DOMAIN records[s][t] : records[s][t][i] \in Answer})
CostOf(t) == (IF t \in reused THEN 0 ELSE Cost("generation", t)) + Cost("correction", t)
Charges == [t \in Topic |-> CostOf(t)]

NoMarker == DOMAIN inflight = {}

----------------------------------------------------------------------------
(* Starting an invocation.                                                 *)

First == Min(queue)
NewQueue(m, S) == mode' = m /\ queue' = S

\* Any first invocation prepares the manifest, topic by topic, before it does anything else.
initialize ==
    /\ mode = "off" /\ ~initialized
    /\ NewQueue("init", Topic)
    /\ UNCHANGED <<typedFiles, active, known, exhausted>>

\* A valid answer of the pilot to the identical request is taken over.
CopyDraft ==
    LET t == First
    IN  /\ mode = "init" /\ queue # {}
        /\ IF t \in Sample /\ drafts[t] \in ValidDraft
           THEN /\ records' = [records EXCEPT !["generation"][t] = <<drafts[t]>>]
                /\ reused' = reused \union {t}
           ELSE UNCHANGED <<records, reused>>
        /\ queue' = queue \ {t}
        /\ UNCHANGED <<mode, initialized, inflight, asked, outcomes, active, known, exhausted>>

Freeze ==
    /\ mode = "init" /\ queue = {}
    /\ initialized' = TRUE /\ mode' = "off"
    /\ UNCHANGED <<reused, records, inflight, asked, outcomes, queue, active, known, exhausted>>

\* Markers of the run's own requests stop it; the pilot's lie in another directory.
run_full ==
    /\ mode = "off" /\ initialized
    /\ NoMarker
    /\ NewQueue("full", {t \in Topic : outcomes[t].status # "completed"})
    /\ known' = [t \in Topic |-> outcomes[t].cost]
    /\ UNCHANGED <<typedFiles, active, exhausted>>

----------------------------------------------------------------------------
(* The main thread of an invocation.                                       *)

Step(s, a, step) == [stage |-> s, attempt |-> a, step |-> step]
MayStart == ~exhausted /\ queue # {} /\ Cardinality(DOMAIN active) < TypedWorkers
With(f, x, y) == [z \in DOMAIN f \union {x} |-> IF z = x THEN y ELSE f[z]]
Without(f, x) == [z \in DOMAIN f \ {x} |-> f[z]]

\* What the topics under way may still cost is set aside before one more is started.
WithinReach_OneTopic == SumFunction(known) + Reserve <= Budget
WithinReach == SumFunction(known) + Reserve * (Cardinality(DOMAIN active) + 1) <= Budget

StartTopic ==
    /\ mode = "full" /\ MayStart
    /\ IF WithinReach
       THEN /\ queue' = queue \ {First}
            /\ active' = With(active, First, Step("generation", 1, "look"))
            /\ UNCHANGED exhausted
       ELSE exhausted' = TRUE /\ UNCHANGED <<queue, active>>
    /\ UNCHANGED <<mode, typedFiles, known>>

Denied(t) == \E s \in Stage : \E i \in DOMAIN records[s][t] : records[s][t][i] = "denied"

\* All the topics finished by now are counted before another is started; a refusal of the key
\* ends the run.
Collect ==
    LET done == {t \in DOMAIN active : active[t].step = "done"}
    IN  /\ mode = "full" /\ ~MayStart /\ done # {}
        /\ active' = [t \in DOMAIN active \ done |-> active[t]]
        /\ known' = [t \in Topic |-> IF t \in done THEN outcomes[t].cost ELSE known[t]]
        /\ exhausted' = (exhausted \/ \E t \in done : Denied(t))
        /\ UNCHANGED <<mode, typedFiles, queue>>

Ends ==
    /\ mode' = "off" /\ queue' = {} /\ active' = <<>> /\ known' = <<>> /\ exhausted' = FALSE
    /\ UNCHANGED typedFiles

Finish == mode = "full" /\ DOMAIN active = {} /\ ~MayStart /\ Ends

Crash == mode # "off" /\ Ends

\* The operator looks at a marker and, finding its answer recorded, removes it.
Inspect(s, t) ==
    /\ mode = "off"
    /\ inflight[<<s, t>>] \in DOMAIN records[s][t]
    /\ inflight' = Without(inflight, <<s, t>>)
    /\ UNCHANGED <<mode, initialized, reused, records, asked, outcomes, queue, active, known, exhausted>>

----------------------------------------------------------------------------
(* One topic in a thread: run_one for each attempt of a stage.             *)

Moves(t, to) == active' = [active EXCEPT ![t] = to]
Here(t) == active[t].stage
Try(t) == active[t].attempt
Stays(t, step) == Moves(t, [active[t] EXCEPT !.step = step])

\* What follows from the record of an attempt: another attempt, the other stage or the outcome.
After(s, a, r) ==
    IF r = "transient" /\ a < Attempts THEN Step(s, a + 1, "look")
    ELSE IF s = "generation" /\ r = "flagged" THEN Step("correction", 1, "look")
    ELSE Step(s, a, "finishing")

Status(s, r) ==
    CASE s = "generation" /\ r = "clean" -> "completed"
      [] s = "generation" /\ r # "clean" -> "generation_failed"
      [] s = "correction" /\ r = "fixed" -> "completed"
      [] OTHER -> "correction_failed"

\* An attempt that was recorded before is not made again.
Replay(t) ==
    /\ active[t].step = "look" /\ Try(t) \in DOMAIN records[Here(t)][t]
    /\ Moves(t, After(Here(t), Try(t), records[Here(t)][t][Try(t)]))
    /\ UNCHANGED <<mode, typedFiles, queue, known, exhausted>>

Ask(t) ==
    LET call == <<Here(t), t, Try(t)>>
    IN  /\ active[t].step = "look" /\ Try(t) \notin DOMAIN records[Here(t)][t]
        /\ inflight' = With(inflight, <<Here(t), t>>, Try(t))
        /\ asked' = With(asked, call, IF call \in DOMAIN asked THEN asked[call] + 1 ELSE 1)
        /\ Stays(t, "asked")
        /\ UNCHANGED <<mode, initialized, reused, records, outcomes, queue, known, exhausted>>

\* An answer is kept as it came; a failure of the call is recorded as such.
Answered(t) ==
    /\ active[t].step = "asked"
    /\ \E r \in {"unread", "transient", "denied"} :
         /\ records' = [records EXCEPT ![Here(t)][t] = Append(@, r)]
         /\ Stays(t, IF r = "unread" THEN "kept" ELSE "recorded")
    /\ UNCHANGED <<mode, initialized, reused, inflight, asked, outcomes, queue, known, exhausted>>

validate(t) ==
    /\ active[t].step = "kept"
    /\ \E r \in Valid(Here(t)) \union {"invalid"} :
         records' = [records EXCEPT ![Here(t)][t][Try(t)] = r]
    /\ Stays(t, "recorded")
    /\ UNCHANGED <<mode, initialized, reused, inflight, asked, outcomes, queue, known, exhausted>>

Unmark(t) ==
    /\ active[t].step = "recorded"
    /\ inflight' = Without(inflight, <<Here(t), t>>)
    /\ Moves(t, After(Here(t), Try(t), records[Here(t)][t][Try(t)]))
    /\ UNCHANGED <<mode, initialized, reused, records, asked, outcomes, queue, known, exhausted>>

process_topic(t) ==
    /\ active[t].step = "finishing"
    /\ outcomes' = [outcomes EXCEPT ![t] =
                      [status |-> Status(Here(t), records[Here(t)][t][Try(t)]), cost |-> CostOf(t)]]
    /\ Stays(t, "done")
    /\ UNCHANGED <<mode, initialized, reused, records, inflight, asked, queue, known, exhausted>>

FullNext ==
    \/ initialize \/ CopyDraft \/ Freeze \/ run_full \/ StartTopic \/ Collect \/ Finish \/ Crash
    \/ \E s \in Stage, t \in Topic : <<s, t>> \in DOMAIN inflight /\ Inspect(s, t)
    \/ \E t \in DOMAIN active :
         Replay(t) \/ Ask(t) \/ Answered(t) \/ validate(t) \/ Unmark(t) \/ process_topic(t)

\* The scripts exclude each other nowhere: either may run before, after or beside the other.
TypedNext ==
    \/ PilotNext /\ UNCHANGED fullVars
    \/ FullNext /\ UNCHANGED pilotVars

TypedSpec == TypedInit /\ [][TypedNext]_typedVars

----------------------------------------------------------------------------
(* Properties.                                                             *)

\* Neither script sends a request twice of its own, whatever dies in between; the full run tries
\* a stage again only after a transient failure, asks for a correction only when the generation
\* was flagged, and never for a generation it has copied from the pilot.  A topic whose pilot
\* request was lost, refused or answered badly it does ask about once more: its directory knows
\* nothing of the pilot's markers.
AskedOnce ==
    /\ PilotAskedOnce
    /\ \A c \in DOMAIN asked :
         /\ asked[c] = 1
         /\ \A i \in 1..(c[3] - 1) : i \in DOMAIN records[c[1]][c[2]] /\ records[c[1]][c[2]][i] = "transient"
         /\ c[1] = "correction" =>
              \E i \in DOMAIN records["generation"][c[2]] : records["generation"][c[2]][i] = "flagged"
         /\ c[1] = "generation" => c[2] \notin reused

\* What has been charged by answers that came back stays within each script's budget, although
\* an invocation that died leaves charges no outcome has counted yet.
WithinBudget == PilotWithinBudget /\ SumFunction(Charges) <= Budget
=============================================================================
