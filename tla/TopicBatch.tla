----------------------------- MODULE TopicBatch -----------------------------
(***************************************************************************)
(* The batch of one-topic research requests: scripts/luna_topic_batch.py   *)
(* around run_one of scripts/luna_topic_pilot.py.  One paid request per    *)
(* topic, no retries: a request whose outcome is uncertain stops the batch *)
(* until somebody resolves it.                                             *)
(***************************************************************************)
EXTENDS Naturals, FiniteSets, FiniteSetsExt, Functions

CONSTANTS
    Assigned,       \* the manifest's topics are 1..Assigned, in its order
    Threads,        \* requests at a time
    Held,           \* what can_dispatch sets aside for a request
    Charge,         \* what a returned answer may cost
    Guardrail       \* budget_usd

ASSUME TopicBatchAssumption ==
    /\ Assigned \in Nat \ {0} /\ Threads \in Nat \ {0} /\ Guardrail \in Nat
    /\ Held \in Nat /\ Charge \subseteq 0..Held

VARIABLES
    running,        \* a `run` invocation holds the lock
    responses,      \* response files: topic |-> [status, cost]
    markers,        \* topics with an in-flight file
    requested,      \* how often each topic's request has been sent
    untried,        \* topics this invocation has yet to dispatch
    pending,        \* topics it has dispatched, and where their threads stand
    settling,       \* those among them that had finished when it last waited
    spent,          \* what the main loop has added up
    stop_reason     \* it dispatches no more

topicFiles == <<responses, markers, requested>>
topicVars == <<running, topicFiles, untried, pending, settling, spent, stop_reason>>

Numbered == 1..Assigned
NoResponse == [status |-> "none", cost |-> 0]
Recorded(t) == responses[t].status # "none"
BillingUnknown(status) == status \in {"transport_error", "worker_error"}
Charged == SumFunction([t \in Numbered |-> responses[t].cost])

TopicInit ==
    /\ running = FALSE
    /\ responses = [t \in Numbered |-> NoResponse]
    /\ markers = {} /\ requested = [t \in Numbered |-> 0]
    /\ untried = {} /\ pending = <<>> /\ settling = {} /\ spent = 0 /\ stop_reason = FALSE

\* Nothing is dispatched while an earlier request may have been charged without our knowing.
Resolved ==
    /\ \A t \in Numbered : ~BillingUnknown(responses[t].status)
    /\ \A t \in markers : Recorded(t)

Run ==
    /\ ~running /\ Resolved
    /\ running' = TRUE
    /\ untried' = {t \in Numbered : ~Recorded(t)}
    /\ pending' = <<>> /\ settling' = {} /\ spent' = Charged /\ stop_reason' = FALSE
    /\ UNCHANGED topicFiles

can_dispatch(sum, n) == sum + Held * (n + 1) <= Guardrail

Filling == running /\ ~stop_reason /\ untried # {} /\ Cardinality(DOMAIN pending) < Threads

Dispatch ==
    LET t == Min(untried)
    IN  /\ Filling /\ settling = {}
        /\ IF can_dispatch(spent, Cardinality(DOMAIN pending))
           THEN /\ untried' = untried \ {t}
                /\ pending' = [x \in DOMAIN pending \union {t} |-> IF x = t THEN "marking" ELSE pending[x]]
                /\ UNCHANGED stop_reason
           ELSE stop_reason' = TRUE /\ UNCHANGED <<untried, pending>>
        /\ UNCHANGED <<running, topicFiles, settling, spent>>

MarkTopic(t) ==
    /\ pending[t] = "marking"
    /\ markers' = markers \union {t}
    /\ pending' = [pending EXCEPT ![t] = "calling"]
    /\ UNCHANGED <<running, responses, requested, untried, settling, spent, stop_reason>>

Call(t) ==
    /\ pending[t] = "calling"
    /\ requested' = [requested EXCEPT ![t] = @ + 1]
    /\ pending' = [pending EXCEPT ![t] = "called"]
    /\ UNCHANGED <<running, responses, markers, untried, settling, spent, stop_reason>>

\* run_one records every outcome it foresees; an answer that is not JSON is an exception instead.
run_one(t) ==
    /\ pending[t] = "called"
    /\ \/ \E c \in Charge : responses' = [responses EXCEPT ![t] = [status |-> "answered", cost |-> c]]
       \/ \E s \in {"http_error", "transport_error"} : responses' = [responses EXCEPT ![t].status = s]
       \/ UNCHANGED responses
    /\ pending' = [pending EXCEPT ![t] = IF responses'[t] = responses[t] THEN "raised" ELSE "recorded"]
    /\ UNCHANGED <<running, markers, requested, untried, settling, spent, stop_reason>>

run_recorded(t) ==
    /\ pending[t] = "recorded"
    /\ markers' = markers \ {t}
    /\ pending' = [pending EXCEPT ![t] = "returned"]
    /\ UNCHANGED <<running, responses, requested, untried, settling, spent, stop_reason>>

\* The main loop waits until some request has finished, and takes in every one that has before
\* it fills up again; after an exception it records the outcome as unknown.
Wait ==
    LET done == {t \in DOMAIN pending : pending[t] \in {"returned", "raised"}}
    IN  /\ ~Filling /\ settling = {} /\ done # {}
        /\ settling' = done
        /\ UNCHANGED <<running, topicFiles, untried, pending, spent, stop_reason>>

Settle(t) ==
    /\ t \in settling
    /\ responses' = IF pending[t] = "raised" THEN [responses EXCEPT ![t].status = "worker_error"] ELSE responses
    /\ spent' = spent + responses'[t].cost
    /\ stop_reason' = (stop_reason \/ responses'[t].status # "answered")
    /\ pending' = [x \in DOMAIN pending \ {t} |-> pending[x]]
    /\ settling' = settling \ {t}
    /\ UNCHANGED <<running, markers, requested, untried>>

Idle ==
    /\ running' = FALSE /\ untried' = {} /\ pending' = <<>> /\ settling' = {}
    /\ spent' = 0 /\ stop_reason' = FALSE

Stop == running /\ ~Filling /\ DOMAIN pending = {} /\ Idle /\ UNCHANGED topicFiles

Killed == running /\ Idle /\ UNCHANGED topicFiles

TopicNext ==
    \/ Run \/ Dispatch \/ Wait \/ Stop \/ Killed
    \/ \E t \in DOMAIN pending : MarkTopic(t) \/ Call(t) \/ run_one(t) \/ run_recorded(t) \/ Settle(t)

TopicSpec == TopicInit /\ [][TopicNext]_topicVars

----------------------------------------------------------------------------
(* Properties.                                                             *)

\* No topic's request is sent twice, whatever becomes of the process that sent it.
RequestedOnce == \A t \in Numbered : requested[t] <= 1

\* What the answers that came back have cost never exceeds the guardrail, although several
\* requests are under way when the next one is dispatched.
WithinGuardrail == Charged <= Guardrail
=============================================================================
