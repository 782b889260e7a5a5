--------------------------- MODULE QuizGeneration ---------------------------
(***************************************************************************)
(* The random quiz generator (scholars/quiz_generation.py): a maximum flow *)
(* source -> duplicate group -> topic -> category -> sink finds as many    *)
(* questions as there can be under the topic limit, one of each group,     *)
(* with category quotas that are relaxed one by one when they cannot be    *)
(* met; then exchanges bring the difficulties closer to their targets.     *)
(*                                                                         *)
(* The flow is kept as what the algorithm reads off it: the topic through  *)
(* which each group flows.  Whatever the code shuffles is a choice.        *)
(***************************************************************************)
EXTENDS Integers, Sequences, FiniteSets

CONSTANTS
    Pools,      \* the questions to draw from: functions to [group, topic, category, difficulty]
    Settings    \* [categories, count, max_per_topic (0: no limit), balanced, weights]

Levels == <<"easy", "medium", "hard">>

\* A topic belongs to one category, and "none" is no topic; weights are not all zero
\* (RandomQuizForm.clean).
ASSUME GenerationAssumption ==
    /\ \A P \in Pools : IsFiniteSet(DOMAIN P)
    /\ \A P \in Pools : \A q, r \in DOMAIN P : P[q].topic = P[r].topic => P[q].category = P[r].category
    /\ \A P \in Pools : \A q \in DOMAIN P : P[q].topic # "none"
    /\ \A s \in Settings : s.count \in Nat \ {0} /\ s.max_per_topic \in Nat /\ IsFiniteSet(s.categories)
    /\ \A s \in Settings : s.weights \in [1..3 -> Nat] /\ s.weights[1] + s.weights[2] + s.weights[3] > 0

VARIABLES
    pool, settings,     \* the request
    quotas,             \* of the categories
    via,                \* the flow: the topic each group flows through, or "none"
    relaxed,            \* by how much the quotas have been relaxed
    targets,            \* of the difficulties
    selected,           \* the questions of the quiz
    stage               \* "fill", "fit", "done" or "short"

generationVars == <<pool, settings, quotas, via, relaxed, targets, selected, stage>>

Categories == settings.categories
Pool == {q \in DOMAIN pool : pool[q].category \in Categories}
Groups == {pool[q].group : q \in Pool}
Topics == {pool[q].topic : q \in Pool}
CategoryOf(t) == pool[CHOOSE q \in Pool : pool[q].topic = t].category

Through(v, t) == Cardinality({g \in Groups : v[g] = t})
Into(v, c) == Cardinality({g \in Groups : v[g] # "none" /\ CategoryOf(v[g]) = c})
Total(v) == Cardinality({g \in Groups : v[g] # "none"})

Cap == IF settings.max_per_topic = 0 THEN settings.count ELSE settings.max_per_topic
Room(c) == IF settings.balanced THEN quotas[c] + relaxed ELSE settings.count

-----------------------------------------------------------------------------
(* The request.                                                            *)

\* count // n for each category, and one more for count % n of them, whichever.
Quotas(s) ==
    LET n == Cardinality(s.categories)
    IN  {f \in [s.categories -> {s.count \div n, (s.count \div n) + 1}] :
            Cardinality({c \in s.categories : f[c] > s.count \div n}) = s.count % n}

\* Largest remainders; equal ones in any order.
difficulty_targets(s) ==
    LET sum == s.weights[1] + s.weights[2] + s.weights[3]
        whole == [i \in 1..3 |-> (s.count * s.weights[i]) \div sum]
        rest == [i \in 1..3 |-> (s.count * s.weights[i]) % sum]
        left == s.count - (whole[1] + whole[2] + whole[3])
    IN  {[i \in 1..3 |-> whole[i] + (IF i \in R THEN 1 ELSE 0)] :
            R \in {S \in SUBSET (1..3) : /\ Cardinality(S) = left
                                         /\ \A i \in S, j \in (1..3) \ S : rest[i] >= rest[j]}}

GenerationInit ==
    /\ pool \in Pools
    /\ settings \in Settings
    /\ quotas \in Quotas(settings)
    /\ via = [g \in Groups |-> "none"]
    /\ relaxed = 0
    /\ targets \in difficulty_targets(settings)
    /\ selected = {}
    /\ stage = "fill"

-----------------------------------------------------------------------------
(* Mistakes for the mutation runs: each replaces its stem's definition.    *)

Reversed_Never == {}
Surplus_Any(q) == pool[q].difficulty # ""

-----------------------------------------------------------------------------
(* Flow.fill: breadth-first augmenting paths in the residual network.      *)

Source == <<"source", "">>
Sink == <<"sink", "">>

Forward ==
    {<<Source, <<"group", g>>>> : g \in {h \in Groups : via[h] = "none"}}
    \union {<<<<"group", pool[q].group>>, <<"topic", pool[q].topic>>>> :
               q \in {r \in Pool : via[pool[r].group] # pool[r].topic}}
    \union {<<<<"topic", t>>, <<"category", CategoryOf(t)>>>> : t \in {u \in Topics : Through(via, u) < Cap}}
    \union {<<<<"category", c>>, Sink>> : c \in {d \in Categories : Into(via, d) < Room(d)}}

\* What flows can be taken back, so that earlier choices move.
Reversed ==
    {<<<<"topic", via[g]>>, <<"group", g>>>> : g \in {h \in Groups : via[h] # "none"}}
    \union {<<<<"category", CategoryOf(via[g])>>, <<"topic", via[g]>>>> : g \in {h \in Groups : via[h] # "none"}}

Residual == Forward \union Reversed
Node == {Source, Sink} \union ({"group"} \X Groups) \union ({"topic"} \X Topics) \union ({"category"} \X Categories)

\* A round of the search: the paths go on by the steps to nodes that none has come near.
Further(last, steps) ==
    LET longer == {Append(x[1], x[2][2]) :
                      x \in {y \in last.paths \X steps : y[2][1] = y[1][Len(y[1])] /\ y[2][2] \notin last.near}}
    IN  IF Sink \in last.near THEN last
        ELSE [paths |-> longer, near |-> last.near \union {p[Len(p)] : p \in longer}]

\* What is known after each round, in a set of its own.
Search(steps) ==
    LET round[n \in Nat] ==
            IF n = 0 THEN {[paths |-> {<<Source>>}, near |-> {Source}]}
            ELSE {Further(last, steps) : last \in round[n - 1]}
    IN  round

\* The paths that the breadth-first search may find.
Augmenting ==
    {p \in UNION {last.paths : last \in Search(Residual)[Cardinality(Node)]} : p[Len(p)] = Sink}

\* The flow along p: each group on it moves to the topic that follows it.
Along(p) ==
    [g \in Groups |->
        IF \E i \in 1..Len(p) - 1 : p[i] = <<"group", g>>
        THEN p[(CHOOSE i \in 1..Len(p) - 1 : p[i] = <<"group", g>>) + 1][2]
        ELSE via[g]]

Augment ==
    /\ stage = "fill" /\ Total(via) < settings.count
    /\ \E p \in Augmenting : via' = Along(p)
    /\ UNCHANGED <<pool, settings, quotas, relaxed, targets, selected, stage>>

\* The flow that is there stays, and every category may take one more.
Relax ==
    /\ stage = "fill" /\ Total(via) < settings.count
    /\ Augmenting = {}
    /\ settings.balanced /\ relaxed < settings.count
    /\ relaxed' = relaxed + 1
    /\ UNCHANGED <<pool, settings, quotas, via, targets, selected, stage>>

Shortage ==
    /\ stage = "fill" /\ Total(via) < settings.count
    /\ Augmenting = {}
    /\ settings.balanced => relaxed = settings.count
    /\ stage' = "short"
    /\ UNCHANGED <<pool, settings, quotas, via, relaxed, targets, selected>>

\* One of the variants of each group that flows.
Select ==
    /\ stage = "fill" /\ Total(via) = settings.count
    /\ selected' \in {S \in SUBSET Pool :
                         /\ \A q \in S : via[pool[q].group] = pool[q].topic
                         /\ \A g \in Groups : Cardinality({q \in S : pool[q].group = g}) = IF via[g] = "none" THEN 0 ELSE 1}
    /\ stage' = "fit"
    /\ UNCHANGED <<pool, settings, quotas, via, relaxed, targets>>

-----------------------------------------------------------------------------
(* fit_difficulty.                                                         *)

Rated(S, i) == Cardinality({q \in S : pool[q].difficulty = Levels[i]})
Deficit(S, i) == targets[i] - Rated(S, i)

\* A question may go if there are more of its difficulty than wanted; none is wanted unrated.
Surplus(q) == \A i \in 1..3 : pool[q].difficulty = Levels[i] => Deficit(selected, i) < 0

OfTopic(t) == Cardinality({q \in selected : pool[q].topic = t})

\* new may take the place of old: its group is free, or becomes so; categories keep their
\* shares when they are balanced; and no topic exceeds its limit.
MayReplace(new, old) ==
    /\ Surplus(old)
    /\ pool[new].group = pool[old].group \/ \A q \in selected : pool[q].group # pool[new].group
    /\ settings.balanced => pool[new].category = pool[old].category
    /\ \/ settings.max_per_topic = 0 \/ pool[new].topic = pool[old].topic
       \/ OfTopic(pool[new].topic) < settings.max_per_topic

Exchanges(i) ==
    IF Deficit(selected, i) <= 0 THEN {}
    ELSE {e \in Pool \X selected : pool[e[1]].difficulty = Levels[i] /\ MayReplace(e[1], e[2])}

\* Levels are tried by deficit, the largest first.
Before(i, j) == Deficit(selected, i) > Deficit(selected, j) \/ (Deficit(selected, i) = Deficit(selected, j) /\ i < j)

Exchange ==
    /\ stage = "fit"
    /\ \E i \in 1..3 :
          /\ \A j \in 1..3 : Before(j, i) => Exchanges(j) = {}
          /\ \E e \in Exchanges(i) : selected' = (selected \ {e[2]}) \union {e[1]}
    /\ UNCHANGED <<pool, settings, quotas, via, relaxed, targets, stage>>

Return ==
    /\ stage = "fit"
    /\ \A i \in 1..3 : Exchanges(i) = {}
    /\ stage' = "done"
    /\ UNCHANGED <<pool, settings, quotas, via, relaxed, targets, selected>>

GenerationNext == Augment \/ Relax \/ Shortage \/ Select \/ Exchange \/ Return

GenerationSpec == GenerationInit /\ [][GenerationNext]_generationVars /\ WF_generationVars(GenerationNext)

-----------------------------------------------------------------------------
(* Properties.                                                             *)

\* The selections that were asked for, whatever their difficulties.
Allowed ==
    {S \in SUBSET Pool :
        /\ Cardinality(S) = settings.count
        /\ \A q, r \in S : pool[q].group = pool[r].group => q = r
        /\ \A t \in Topics : Cardinality({q \in S : pool[q].topic = t}) <= Cap}

Share(S, c) == Cardinality({q \in S : pool[q].category = c})

\* A shortage is reported only where there is one, and the quotas are missed only where no
\* selection meets them, although the search moves one question at a time and duplicates
\* span topics and categories; what is returned keeps all limits, the exchanges included.
GeneratedAsAsked ==
    /\ stage = "short" => Allowed = {}
    /\ stage \in {"fit", "done"} => selected \in Allowed
    /\ stage = "done" /\ settings.balanced =>
          /\ (\E S \in Allowed : \A c \in Categories : Share(S, c) = quotas[c]) =>
                \A c \in Categories : Share(selected, c) = quotas[c]
          /\ \A c \in Categories : Share(selected, c) = Into(via, c)

\* The generator returns or reports a shortage; its exchanges do not go round in circles.
GenerationEnds == <>(stage \in {"done", "short"})
=============================================================================
