----------------------------- MODULE MCTeaching -----------------------------
(***************************************************************************)
(* The teachers' tools for TLC.  They share no state, so one run checks    *)
(* them side by side: a behaviour uses one of them and leaves the others   *)
(* as they were.                                                           *)
(***************************************************************************)
EXTENDS QuestionBank, SavedQuiz, QuizGeneration, TLC

CONSTANTS qa, qb, n1, t1, t2, c1, c2, pa, pa2, pa3, pb, x1, x2, y1, y2, k1, k2, g1

VARIABLE tool

MCFormatOf == [p \in Payload |-> IF p = pb THEN "multiple_choice" ELSE "typed"]
MCFactOf == (pa :> "fa") @@ (pa2 :> "fa2") @@ (pa3 :> "fa3") @@ (pb :> "fb")
MCAnswersOf == (pa :> {"a"}) @@ (pa2 :> {"a"}) @@ (pa3 :> {"c"}) @@ (pb :> {"b", "d"})
MCFixed == pa :> pa2
MCContent ==
    LET stay == t1 :> [category |-> c1, context |-> "s1"]
    IN  {stay, stay @@ (t2 :> [category |-> c2, context |-> "s1"])}
MCSeed == (qa :> [topic |-> t1, format |-> "typed", payload |-> pa])
          @@ (qb :> [topic |-> t2, format |-> "multiple_choice", payload |-> pb])
MCAnalysis == {qa :> [difficulty |-> "easy", fact |-> "fa2"]}
Patch(p, d, a) == [payload |-> p, difficulty |-> d, active |-> a]
MCUpdate ==
    {(qa :> Patch(Keep, "hard", Keep)) @@ (n1 :> Patch(pa2, Keep, Keep)),
     qa :> Patch(pa2, Keep, Keep), qa :> Patch(Keep, Keep, "archived"), qa :> Patch(Keep, Keep, "active")}
MCGiven == {Keep, "easy"}
MCMaxVersion == (qa :> 2) @@ (qb :> 0) @@ (n1 :> 2)

MCRevisionsOf == (qa :> {1, 2}) @@ (qb :> {1}) @@ (n1 :> {1})
MCKindsOn == (y1 :> {"quiz", "add", "preview"}) @@ (y2 :> {"quiz", "host"})
MCPreviewed == {<<qa, qb>>}

MCPools ==
    LET groups == {<<"g1", "g1", "g2", "g3">>, <<"g1", "g2", "g1", "g3">>, <<"g1", "g2", "g2", "g3">>,
                   <<"g1", "g2", "g3", "g1">>, <<"g1", "g2", "g3", "g3">>, <<"g1", "g2", "g1", "g2">>}
        topics == {<<"t1", "t2", "t3", "t3">>, <<"t1", "t1", "t2", "t3">>}
        levels == {<<"easy", "hard", "easy", "hard">>, <<"hard", "easy", "easy", "">>}
    IN  {[i \in 1..4 |-> [group |-> g[i], topic |-> t[i], difficulty |-> d[i],
                          category |-> IF t[i] = "t3" THEN "c2" ELSE "c1"]] :
            g \in groups, t \in topics, d \in levels}
MCSettings ==
    {[categories |-> {"c1", "c2"}, count |-> n[1], max_per_topic |-> n[2], balanced |-> b, weights |-> <<1, 0, 1>>] :
        n \in {<<2, 1>>, <<3, 0>>}, b \in BOOLEAN}

teachingVars == <<bankVars, quizVars, generationVars, tool>>

\* The generator, when it is not the tool in use, has been asked for more than an empty bank holds.
Init ==
    /\ tool \in {"bank", "lists", "generator"}
    /\ BankInit
    /\ QuizInit /\ (tool = "lists" \/ \A q \in Listed : current[q] = 1)
    /\ IF tool = "generator" THEN GenerationInit
       ELSE /\ pool = <<>> /\ settings = (CHOOSE s \in Settings : TRUE) /\ quotas = <<>> /\ via = <<>>
            /\ relaxed = 0 /\ targets = <<>> /\ selected = {} /\ stage = "short"

Next ==
    /\ UNCHANGED tool
    /\ \/ tool = "bank" /\ BankNext /\ UNCHANGED <<quizVars, generationVars>>
       \/ tool = "lists" /\ QuizNext /\ UNCHANGED <<bankVars, generationVars>>
       \/ tool = "generator" /\ GenerationNext /\ UNCHANGED <<bankVars, quizVars>>

Spec == Init /\ [][Next]_teachingVars /\ WF_generationVars(GenerationNext)

\* The tabs of the bank, and the keys of quizzes and games, are interchangeable; the two tabs
\* of the lists open different pages.  None of them occurs in the generator's state, which
\* alone the liveness property is about.
Symmetry == Permutations(Tab) \union Permutations(QuizKey) \union Permutations(GameKey)
=============================================================================
