--------------------------- MODULE MCStudySession ---------------------------
(* Two contents for TLC: a deep one, of one session and its retries, and a wide one,
   of several short sessions, imports and changing interests. *)
EXTENDS StudySession, TLC

CONSTANTS k1, k2, k3, c1, c2, s1, s2, t1, t2, t3,
          a1, a2, a3, b1, b2, b3, x1, x2, x3, x4, x5

\* Two topics that share a question, five groups in all; and one topic of three groups,
\* three of whose questions are connected only through the middle one.
DeepCategoryOf == [x \in {s1, s2, t1, t2, t3} |-> c1]
DeepTopicsOf == (s1 :> {t1, t2}) @@ (s2 :> {t3})
DeepTopicOf == [q \in Question |-> IF q \in {a1, a2, a3} THEN t1 ELSE IF q \in {b1, b2, b3} THEN t2 ELSE t3]
DeepPromptOf == [q \in Question |-> IF q = x4 THEN x3 ELSE q]
DeepAnswerOf == [q \in Question |-> IF q = b3 THEN a3 ELSE IF q = x5 THEN x4 ELSE q]
DeepCatalogs == {Category \union Subcategory \union Topic \union Question}

\* What the states tell apart: not the two topics with their questions, nor questions
\* that are alike to nothing.
Renamings ==
    {f @@ g @@ h @@ [x \in {a3, b3, t1, t2} |-> x] :
        f \in Permutations({a1, a2}), g \in Permutations({b1, b2}), h \in Permutations({x1, x2})}
SwapTopics == (t1 :> t2) @@ (t2 :> t1) @@ (a3 :> b3) @@ (b3 :> a3) @@ (a1 :> b1) @@ (b1 :> a1)
                  @@ (a2 :> b2) @@ (b2 :> a2) @@ (x1 :> x1) @@ (x2 :> x2)
DeepSymmetry == Renamings \union {[x \in DOMAIN f |-> SwapTopics[f[x]]] : f \in Renamings}

\* A topic in two subjects; an import replaces a question, another retires a subject.
WideCategoryOf == (s1 :> c1) @@ (s2 :> c2) @@ (t1 :> c1) @@ (t2 :> c1)
WideTopicsOf == (s1 :> {t1, t2}) @@ (s2 :> {t2})
WideTopicOf == [q \in Question |-> IF q \in {a1, a2, a3} THEN t1 ELSE t2]
WidePromptOf == [q \in Question |-> IF q = a3 THEN a2 ELSE q]
WideAnswerOf == [q \in Question |-> q]
WideCatalogs ==
    {{c1, c2, s1, s2, t1, t2, a1, a2, b1, b2}, {c1, c2, s1, s2, t1, t2, a1, a3, b1, b2},
     {c1, s1, t1, a1, a2, a3}}
=============================================================================
