------------------------------ MODULE Normalize ------------------------------
(***************************************************************************)
(* scripts/normalize_luna_topics.py for one topic: a saved response is     *)
(* turned into a page, reviewed corrections are applied to it one after    *)
(* the other, problems a correction has repaired are cleared, and a page   *)
(* with a problem left is withheld.  A topic is normalized by itself, and  *)
(* a correction changes no topic but its own.                              *)
(***************************************************************************)
EXTENDS Naturals, FiniteSets, Sequences

CONSTANTS
    Response,       \* saved responses, see below
    Patch,          \* corrections a reviewer may have written
    Same,           \* URL |-> what canonical_url makes of it
    Fits,           \* texts of 80 to 130 words
    FitsImport,     \* texts of 80 to 150 words
    MaxPatches      \* bound: corrections in the file

\* A response has its references, each a URL and whether title, publisher and evidence note are
\* all there; its blocks "o1" and "f1", each a text and the URLs it cites; and whether every
\* other check (identity, model, completion, search trace, time, queries, self-check, number of
\* facts) finds nothing wrong.  A text is "" when it is missing.
ASSUME NormalizeAssumption ==
    /\ MaxPatches \in Nat /\ "" \notin FitsImport /\ Fits \subseteq FitsImport
    /\ \A p \in Patch : p.block \in {"o1", "f1"}

VARIABLES
    response,       \* the response being normalized
    page,           \* output["topics"]: the references and blocks
    evidence,       \* the URLs of output["research"]["sources"]; what is removed goes each time it is listed
    blocked,        \* output["blocked_topics"]: the problems found
    applied,        \* corrections taken from the file so far
    phase           \* "reading", "correcting", "shipped" or "withheld"

normalizeVars == <<response, page, evidence, blocked, applied, phase>>

Block == {"o1", "f1"}
NoPage == [refs |-> {}, text |-> [b \in Block |-> ""], urls |-> [b \in Block |-> {}]]

NormalizeInit ==
    /\ response \in Response
    /\ page = NoPage /\ evidence = {} /\ blocked = {} /\ applied = 0
    /\ phase = "reading"

----------------------------------------------------------------------------
(* Reading a response.                                                     *)

\* References are listed once each; canonical_url decides which listed one a citation means, if
\* it is the only one.
ListedUrls == {response.refs[i].url : i \in DOMAIN response.refs}
canonical_url(u) == {l \in ListedUrls : Same[l] = Same[u]}
Meant(u) == IF u \in ListedUrls THEN {u} ELSE IF Cardinality(canonical_url(u)) = 1 THEN canonical_url(u) ELSE {}
Citations(b) == UNION {Meant(u) : u \in response.urls[b]}

\* The citation problems a correction may later repair, and the others.
CitationProblems == {"o1: no listed supporting reference", "f1: no listed supporting reference"}
Unsupported(b) == IF b = "o1" THEN "o1: no listed supporting reference" ELSE "f1: no listed supporting reference"

Unreadable(b) == response.text[b] = "" \/ response.urls[b] = {}

_block(b) == IF Unreadable(b) THEN {"missing text or citations"}
             ELSE IF Citations(b) = {} THEN {Unsupported(b)} ELSE {}

normalize_record ==
    /\ phase = "reading"
    /\ page' = [refs |-> ListedUrls,
                text |-> [b \in Block |-> IF Unreadable(b) THEN "" ELSE response.text[b]],
                urls |-> [b \in Block |-> IF Unreadable(b) THEN {} ELSE Citations(b)]]
    /\ evidence' = ListedUrls
    /\ blocked' = (UNION {_block(b) : b \in Block})
                  \union (IF response.text["o1"] \in Fits THEN {} ELSE {"overview length"})
                  \union (IF response.refs = <<>> THEN {"missing sources"} ELSE {})
                  \union (IF \A i \in DOMAIN response.refs : response.refs[i].complete THEN {} ELSE {"reference incomplete"})
                  \union (IF Len(response.refs) = Cardinality(ListedUrls) THEN {} ELSE {"duplicate reference"})
                  \union (IF response.sound THEN {} ELSE {"other"})
    /\ phase' = "correcting"
    /\ UNCHANGED <<response, applied>>

----------------------------------------------------------------------------
(* One reviewed correction: the block it names must read as the reviewer   *)
(* saw it, every URL it cites must be listed or be added with it, and it is *)
(* proper when its additions are complete and the new ones carry their own *)
(* retrieval time.  Without new citations it keeps the block's.            *)

Blocks(reason) == blocked' = blocked \union {reason} /\ UNCHANGED <<page, evidence>>

Added(p) == {u \in p.additions : u \notin page.refs}
NewUrls(p) == IF p.new_urls = {} THEN page.urls[p.block] ELSE p.new_urls

Refused(p) ==
    \/ page.text[p.block] = "" \/ page.text[p.block] # p.old_text
    \/ p.new_text = ""
    \/ ~p.proper
    \/ NewUrls(p) = {} \/ ~ NewUrls(p) \subseteq (page.refs \union Added(p))
    \/ p.block = "o1" /\ p.new_text \notin Fits

StillCited_Never(u, urls) == FALSE
StillCited(u, urls) == \E b \in Block : u \in urls[b]

\* After the text, references the reviewer has dropped: each on the list, with its evidence, and
\* cited by no block any more.
Patched(p) ==
    LET refs == page.refs \union Added(p)
        urls == [page.urls EXCEPT ![p.block] = NewUrls(p)]
        dropped == {u \in p.removals : u \in refs \intersect (evidence \union Added(p)) /\ ~StillCited(u, urls)}
    IN  /\ page' = [refs |-> refs \ dropped, text |-> [page.text EXCEPT ![p.block] = p.new_text], urls |-> urls]
        /\ evidence' = (evidence \union Added(p)) \ dropped
        /\ blocked' = IF dropped = p.removals THEN blocked ELSE blocked \union {"correction"}

_apply_corrections ==
    /\ phase = "correcting" /\ applied < MaxPatches
    /\ applied' = applied + 1
    /\ \E p \in Patch : IF Refused(p) THEN Blocks("correction") ELSE Patched(p)
    /\ UNCHANGED <<response, phase>>

----------------------------------------------------------------------------
(* What is left to ship.                                                   *)

AllListed == \A b \in Block : page.text[b] # "" => page.urls[b] # {} /\ page.urls[b] \subseteq page.refs
Cleared == IF applied > 0 /\ AllListed THEN blocked \ CitationProblems ELSE blocked

normalize ==
    /\ phase = "correcting"
    /\ blocked' = Cleared
    /\ phase' = IF Cleared = {} THEN "shipped" ELSE "withheld"
    /\ UNCHANGED <<response, page, evidence, applied>>

NormalizeNext == normalize_record \/ _apply_corrections \/ normalize

NormalizeSpec == NormalizeInit /\ [][NormalizeNext]_normalizeVars

----------------------------------------------------------------------------
(* What the queue asks of a page: validate_payload of enrich_topics.py.    *)

validate_payload ==
    /\ page.text["o1"] \in FitsImport
    /\ page.refs # {}
    /\ \A b \in Block : page.text[b] # "" /\ page.urls[b] # {} /\ page.urls[b] \subseteq page.refs
    /\ evidence = page.refs

\* A page that is shipped passes every check the import makes of it, is as short as the normalizer
\* wants it, and every reference it had from the model is complete and listed once: no sequence of
\* corrections lets a page through with a citation nobody lists, a reference without evidence or
\* evidence without its reference.
ShippedIsClean ==
    phase = "shipped" =>
        /\ validate_payload /\ page.text["o1"] \in Fits
        /\ response.sound
        /\ \A i \in DOMAIN response.refs : response.refs[i].complete
        /\ Cardinality(ListedUrls) = Len(response.refs)
=============================================================================
