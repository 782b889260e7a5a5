----------------------------- MODULE MCPractice -----------------------------
(* One student, two sessions; a typed question with two revisions and one more. *)
EXTENDS Practice, TLC

CONSTANTS k1, k2, qa, qb, ra, ra2, rb, t1

MCQuestionOf == (ra :> qa) @@ (ra2 :> qa) @@ (rb :> qb)
MCTopicOf == [r \in Revision |-> t1]
MCCategoryOf == (t1 :> t1)
MCFormatOf == [r \in Revision |-> "typed"]
MCAnswerOf == [r \in Revision |-> r]
MCScope == {[topics |-> {t1}, status |-> ""]}
MCBanks == {{ra, rb}, {ra2, rb}}
MCIntervals == <<1, 2, 3>>
MCOffer == {<<"typed", "random">>, <<"typed", "review">>, <<"recall", "personalized">>}
MCSymmetry == Permutations(Key)
=============================================================================
