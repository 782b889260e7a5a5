----------------------------- MODULE TypedPilot -----------------------------
(***************************************************************************)
(* The pilot of the typed questions: scripts/typed_question_pilot.py, one  *)
(* paid request for each topic of its sample.  A request is marked before  *)
(* it is sent and its answer is kept before it is looked at; the process   *)
(* may die between any two of these steps.                                 *)
(***************************************************************************)
EXTENDS Naturals, FiniteSets, FiniteSetsExt, Functions

CONSTANTS
    Topics,         \* the topics are 1..Topics, in the manifest's order
    Sample,         \* the topics of the pilot, which come first in it
    TypedWorkers,   \* threads of one invocation
    PilotBudget     \* budget_usd; a topic reserves 1, and an answer costs 1

ASSUME TypedPilotAssumption ==
    /\ Topics \in Nat \ {0} /\ Sample \subseteq 1..Topics
    /\ TypedWorkers \in Nat \ {0} /\ PilotBudget \in Nat

VARIABLES
    pilotRunning,   \* an invocation of `run` holds the pilot's lock
    drafts,         \* the response file of each topic, "none" without one
    pilotMarkers,   \* topics with an in-flight file in the pilot's directory
    pilotAsked,     \* how often the pilot has sent each topic's request
    toDraft,        \* topics this invocation has yet to start
    drafting        \* topics its threads work on, and where each stands

pilotFiles == <<drafts, pilotMarkers, pilotAsked>>
pilotVars == <<pilotRunning, pilotFiles, toDraft, drafting>>

\* "unread" is a returned answer that is not yet validated.  A valid one is "flagged" when it
\* gives an answer away, which the full run's scan will see.
ValidDraft == {"clean", "flagged"}
PaidDraft == ValidDraft \union {"unread", "invalid"}
Draft == PaidDraft \union {"none", "refused", "unknown"}

PilotInit ==
    /\ pilotRunning = FALSE
    /\ drafts = [t \in Sample |-> "none"]
    /\ pilotMarkers = {} /\ pilotAsked = [t \in Sample |-> 0]
    /\ toDraft = {} /\ drafting = <<>>

Paid == {t \in Sample : drafts[t] \in PaidDraft}

\* The pilot goes no further after a request whose cost is unknown, and needs its budget for all
\* it is going to do at once; --limit cuts that off after some topic.
run_pilot ==
    \E last \in Sample :
        LET remaining == {t \in Sample : drafts[t] = "none" /\ t <= last}
        IN  /\ ~pilotRunning
            /\ pilotMarkers = {} /\ \A t \in Sample : drafts[t] # "unknown"
            /\ Cardinality(Paid) + Cardinality(remaining) <= PilotBudget
            /\ pilotRunning' = TRUE /\ toDraft' = remaining
            /\ UNCHANGED <<pilotFiles, drafting>>

ask_pilot ==
    LET t == Min(toDraft)
    IN  /\ toDraft # {} /\ Cardinality(DOMAIN drafting) < TypedWorkers
        /\ toDraft' = toDraft \ {t}
        /\ pilotMarkers' = pilotMarkers \union {t}
        /\ pilotAsked' = [pilotAsked EXCEPT ![t] = @ + 1]
        /\ drafting' = [u \in DOMAIN drafting \union {t} |-> IF u = t THEN "asked" ELSE drafting[u]]
        /\ UNCHANGED <<pilotRunning, drafts>>

\* A refusal (below 500) is not charged; after a server error or a broken connection nobody knows.
PilotAnswered(t) ==
    /\ drafting[t] = "asked"
    /\ \E r \in {"unread", "refused", "unknown"} :
         /\ drafts' = [drafts EXCEPT ![t] = r]
         /\ drafting' = [drafting EXCEPT ![t] = IF r = "unread" THEN "kept" ELSE "recorded"]
    /\ UNCHANGED <<pilotRunning, pilotMarkers, pilotAsked, toDraft>>

validate_draft(t) ==
    /\ drafting[t] = "kept"
    /\ \E r \in ValidDraft \union {"invalid"} : drafts' = [drafts EXCEPT ![t] = r]
    /\ drafting' = [drafting EXCEPT ![t] = "recorded"]
    /\ UNCHANGED <<pilotRunning, pilotMarkers, pilotAsked, toDraft>>

PilotUnmark(t) ==
    /\ drafting[t] = "recorded"
    /\ pilotMarkers' = pilotMarkers \ {t}
    /\ drafting' = [u \in DOMAIN drafting \ {t} |-> drafting[u]]
    /\ UNCHANGED <<pilotRunning, drafts, pilotAsked, toDraft>>

PilotStops == pilotRunning' = FALSE /\ toDraft' = {} /\ drafting' = <<>> /\ UNCHANGED pilotFiles

PilotFinish == pilotRunning /\ toDraft = {} /\ DOMAIN drafting = {} /\ PilotStops

PilotCrash == pilotRunning /\ PilotStops

\* The operator looks at a marker and, finding its answer recorded, removes it.
InspectPilot(t) ==
    /\ ~pilotRunning /\ t \in pilotMarkers /\ drafts[t] # "none"
    /\ pilotMarkers' = pilotMarkers \ {t}
    /\ UNCHANGED <<pilotRunning, drafts, pilotAsked, toDraft, drafting>>

PilotNext ==
    \/ run_pilot \/ ask_pilot \/ PilotFinish \/ PilotCrash
    \/ \E t \in Sample : InspectPilot(t)
    \/ \E t \in DOMAIN drafting : PilotAnswered(t) \/ validate_draft(t) \/ PilotUnmark(t)

----------------------------------------------------------------------------
(* Properties.                                                             *)

\* The pilot sends no topic's request twice, wherever an invocation of it dies.
PilotAskedOnce == \A t \in Sample : pilotAsked[t] <= 1

\* What the pilot's answers have cost stays within its budget, over all its invocations.
PilotWithinBudget == Cardinality(Paid) <= PilotBudget
=============================================================================
