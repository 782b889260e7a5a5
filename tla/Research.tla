------------------------------ MODULE Research ------------------------------
(***************************************************************************)
(* The research scripts side by side.  They share no state while they run: *)
(* a behaviour uses one of them (tool) and leaves the others as they were. *)
(***************************************************************************)
EXTENDS DifficultyBatch, TypedRun, TopicBatch, ResearchQueue, Normalize

VARIABLE tool

researchVars == <<batchVars, typedVars, topicVars, queueVars, normalizeVars, tool>>

Init ==
    /\ tool \in {"difficulty", "typed", "topics", "queue", "normalizer"}
    /\ BatchInit /\ TypedInit /\ TopicInit
    /\ QueueInit /\ (tool = "queue" \/ (assignments = <<>> /\ content = [t \in Written |-> "p1"]))
    /\ IF tool = "normalizer" THEN NormalizeInit
       ELSE /\ response = (CHOOSE r \in Response : TRUE)
            /\ page = NoPage /\ evidence = {} /\ blocked = {} /\ applied = 0 /\ phase = "withheld"

Next ==
    /\ UNCHANGED tool
    /\ \/ tool = "difficulty" /\ BatchNext /\ UNCHANGED <<typedVars, topicVars, queueVars, normalizeVars>>
       \/ tool = "typed" /\ TypedNext /\ UNCHANGED <<batchVars, topicVars, queueVars, normalizeVars>>
       \/ tool = "topics" /\ TopicNext /\ UNCHANGED <<batchVars, typedVars, queueVars, normalizeVars>>
       \/ tool = "queue" /\ QueueNext /\ UNCHANGED <<batchVars, typedVars, topicVars, normalizeVars>>
       \/ tool = "normalizer" /\ NormalizeNext /\ UNCHANGED <<batchVars, typedVars, topicVars, queueVars>>

Spec == Init /\ [][Next]_researchVars

\* Neither a typed script nor a topic run sends, and so pays for, a request of its own twice, and
\* what the answers have cost stays within the budget of each, whatever dies in between.
SpentAsPlanned == AskedOnce /\ WithinBudget /\ RequestedOnce /\ WithinGuardrail
=============================================================================
