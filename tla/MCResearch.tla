----------------------------- MODULE MCResearch -----------------------------
(***************************************************************************)
(* Three questions, three topics of the typed runs (two of them the        *)
(* pilot's), three topics to write about, and small responses and          *)
(* corrections for the normalizer.                                         *)
(***************************************************************************)
EXTENDS Research, TLC

MCMaxRevision == [q \in 1..N |-> IF q = 1 THEN 1 ELSE 0]

MCDivided == 1 :> {"t1", "t2"} @@ 2 :> {"t3"}

MCSame == "u" :> "c" @@ "v" :> "c" @@ "w" :> "d"
Ref(u, c) == [url |-> u, complete |-> c]
MCResponse ==
    {[refs |-> r, text |-> "o1" :> o @@ "f1" :> f, urls |-> "o1" :> x @@ "f1" :> y, sound |-> s] :
        r \in {<<>>, <<Ref("u", TRUE)>>, <<Ref("u", TRUE), Ref("w", TRUE)>>, <<Ref("u", TRUE), Ref("w", FALSE)>>,
               <<Ref("u", TRUE), Ref("v", TRUE)>>, <<Ref("u", TRUE), Ref("u", TRUE)>>},
        o \in {"long", "wide"}, f \in {"", "wide"}, x \in {{}, {"u"}, {"v", "w"}}, y \in {{"u"}, {"v"}, {"w"}},
        s \in BOOLEAN}
MCPatch ==
    {[block |-> b, old_text |-> o, new_text |-> n, new_urls |-> u, additions |-> a, proper |-> t, removals |-> r] :
        b \in Block, o \in {"long", "wide"}, n \in {"long", "wide"}, u \in {{}, {"u"}, {"w"}},
        a \in {{}, {"w"}}, t \in BOOLEAN, r \in {{}, {"u"}, {"w"}}}
=============================================================================
