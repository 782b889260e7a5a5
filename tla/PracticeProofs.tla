--------------------------- MODULE PracticeProofs ---------------------------
(***************************************************************************)
(* Proofs about practice: for any bank, sessions, size, days and order of  *)
(* requests, the first answer is the one recorded, a page always has its   *)
(* next question, every question is rewarded once a day, the bests a scope *)
(* keeps are those of its sessions, and a review is due only as late as    *)
(* the answers earned.                                                     *)
(***************************************************************************)
EXTENDS Practice, TLAPS, FiniteSetTheorems, WellFoundedInduction

IsItem(x) ==
    /\ x = [revision |-> x.revision, revealed |-> x.revealed, verdict |-> x.verdict, at |-> x.at,
            day |-> x.day, kind |-> x.kind, corrected |-> x.corrected]
    /\ x.at \in Nat /\ x.day \in Nat

IsSession(s) ==
    /\ s = [mode |-> s.mode, selection |-> s.selection, key |-> s.key, items |-> s.items,
            completed |-> s.completed, abandoned |-> s.abandoned, best |-> s.best]
    /\ \E c \in Nat : Slots(s) = 1..c
    /\ \A n \in Slots(s) : IsItem(s.items[n])

\* The answers of a session come in its order, and the last one completes it.
InOrder(s) ==
    /\ \A n \in Slots(s) : s.items[n].at # 0 => \A i \in 1..n - 1 : s.items[i].at # 0
    /\ s.completed # 0 => Done(s) /\ ~s.abandoned
    /\ s # NoSession /\ Done(s) => s.completed # 0

SessionInv ==
    /\ DOMAIN session = Key
    /\ \A k \in Key : IsSession(session[k]) /\ InOrder(session[k])
    /\ clock \in Nat /\ day \in Nat
    /\ bank \subseteq Revision

----------------------------------------------------------------------------
(* What each request does to the session it names.                         *)

\* The other sessions are left alone.
Only(k) == DOMAIN session' = Key /\ \A j \in Key \ {k} : session'[j] = session[j]

\* A session goes on: it keeps what it pinned and what was answered.
GoesOn(s, t) ==
    /\ t.mode = s.mode /\ t.key = s.key /\ Slots(t) = Slots(s)
    /\ \A n \in Slots(s) :
         t.items[n].revision = s.items[n].revision /\ (s.items[n].at # 0 => t.items[n] = s.items[n])

\* What is drawn for a session is a finite sequence of questions.
LEMMA DrawnIsSequence ==
    ASSUME SessionInv, NEW mode, NEW scope, NEW selection,
           NEW p \in select_questions(Pool(mode, scope), mode, selection)
    PROVE  \E c \in Nat : DOMAIN p = 1..c
<1>1. PICK S \in Drawn(Pool(mode, scope), mode, selection) : p \in Orders(S)
  BY DEF select_questions
<1>2. Pool(mode, scope) \subseteq Revision
  BY DEF SessionInv, Pool, current_questions
<1>3. S \subseteq Pool(mode, scope)
  BY <1>1 DEF Drawn, Personalized, Oldest
<1>4. IsFiniteSet(S)
  BY <1>2, <1>3, PracticeAssumption, FS_Subset
<1>5. Cardinality(S) \in Nat
  BY <1>4, FS_CardinalityType
<1> QED BY <1>1, <1>5 DEF Orders

LEMMA StartStep ==
    ASSUME SessionInv, NEW k \in Key, NEW scope, NEW mode, NEW selection, start_session(k, scope, mode, selection)
    PROVE  /\ Only(k) /\ session[k] = NoSession
           /\ IsSession(session'[k]) /\ InOrder(session'[k]) /\ session'[k].completed = 0
           /\ \A n \in Slots(session'[k]) : session'[k].items[n].at = 0
<1>1. PICK p \in select_questions(Pool(mode, scope), mode, selection) :
        /\ p # <<>>
        /\ session' = [session EXCEPT ![k] =
              [mode |-> mode, selection |-> selection, key |-> comparison_key(mode, scope, selection),
               items |-> [n \in DOMAIN p |-> Unanswered(p[n])],
               completed |-> 0, abandoned |-> FALSE, best |-> FALSE]]
  BY DEF start_session
<1>2. PICK c \in Nat : DOMAIN p = 1..c
  BY DrawnIsSequence
<1> DEFINE t == [mode |-> mode, selection |-> selection, key |-> comparison_key(mode, scope, selection),
                 items |-> [n \in DOMAIN p |-> Unanswered(p[n])],
                 completed |-> 0, abandoned |-> FALSE, best |-> FALSE]
<1>3. \A n \in 1..c : IsItem(Unanswered(p[n])) /\ Unanswered(p[n]).at = 0
  BY DEF IsItem, Unanswered
<1>4. c # 0
  <2>1. p \in UNION {Orders(S) : S \in Drawn(Pool(mode, scope), mode, selection)}
    BY DEF select_questions
  <2>2. PICK C, D : p \in [1..C -> D]
    BY <2>1 DEF Orders
  <2>3. CASE c = 0
    <3>1. p = [n \in {} |-> p[n]]
      BY <1>2, <2>2, <2>3
    <3>2. p = <<>>
      BY <3>1
    <3> QED BY <1>1, <3>2
  <2> QED BY <2>3
<1>5. session'[k] = t /\ Only(k)
  BY <1>1 DEF SessionInv, Only
<1>6. t.items = [n \in 1..c |-> Unanswered(p[n])] /\ t.completed = 0
      /\ t = [mode |-> t.mode, selection |-> t.selection, key |-> t.key, items |-> t.items,
              completed |-> t.completed, abandoned |-> t.abandoned, best |-> t.best]
  BY <1>2
<1> HIDE DEF t
<1>7. IsSession(t) /\ \A n \in Slots(t) : t.items[n].at = 0
  BY <1>3, <1>6 DEF IsSession, Slots
<1>8. InOrder(t)
  <2>1. 1 \in Slots(t)
    BY <1>4, <1>6 DEF Slots
  <2> QED BY <1>6, <1>7, <2>1 DEF InOrder, Done
<1> QED BY <1>5, <1>6, <1>7, <1>8 DEF start_session

\* The record of a session with another flag, result or list of items.
LEMMA SessionChanges ==
    ASSUME NEW s, IsSession(s), NEW x, NEW y
    PROVE  /\ [s EXCEPT !.abandoned = x] = [mode |-> s.mode, selection |-> s.selection, key |-> s.key,
                 items |-> s.items, completed |-> s.completed, abandoned |-> x, best |-> s.best]
           /\ [s EXCEPT !.items = x] = [mode |-> s.mode, selection |-> s.selection, key |-> s.key,
                 items |-> x, completed |-> s.completed, abandoned |-> s.abandoned, best |-> s.best]
           /\ [s EXCEPT !.completed = x, !.best = y] = [mode |-> s.mode, selection |-> s.selection, key |-> s.key,
                 items |-> s.items, completed |-> x, abandoned |-> s.abandoned, best |-> y]
<1>1. /\ [s EXCEPT !.abandoned = x] = [mode |-> s.mode, selection |-> s.selection, key |-> s.key,
            items |-> s.items, completed |-> s.completed, abandoned |-> x, best |-> s.best]
      /\ [s EXCEPT !.items = x] = [mode |-> s.mode, selection |-> s.selection, key |-> s.key,
            items |-> x, completed |-> s.completed, abandoned |-> s.abandoned, best |-> s.best]
      /\ [s EXCEPT !.completed = x] = [mode |-> s.mode, selection |-> s.selection, key |-> s.key,
            items |-> s.items, completed |-> x, abandoned |-> s.abandoned, best |-> s.best]
  BY DEF IsSession
<1>2. [[mode |-> s.mode, selection |-> s.selection, key |-> s.key,
        items |-> s.items, completed |-> x, abandoned |-> s.abandoned, best |-> s.best] EXCEPT !.best = y]
      = [mode |-> s.mode, selection |-> s.selection, key |-> s.key,
         items |-> s.items, completed |-> x, abandoned |-> s.abandoned, best |-> y]
  OBVIOUS
<1>3. [s EXCEPT !.completed = x, !.best = y] = [[s EXCEPT !.completed = x] EXCEPT !.best = y]
  OBVIOUS
<1> QED BY <1>1, <1>2, <1>3

LEMMA AbandonStep ==
    ASSUME SessionInv, NEW k \in Key, abandon_session(k)
    PROVE  /\ Only(k) /\ Open(session[k])
           /\ IsSession(session'[k]) /\ InOrder(session'[k]) /\ GoesOn(session[k], session'[k])
           /\ session'[k].items = session[k].items
<1> DEFINE s == session[k]
           t == [mode |-> s.mode, selection |-> s.selection, key |-> s.key, items |-> s.items,
                 completed |-> s.completed, abandoned |-> TRUE, best |-> s.best]
<1>1. IsSession(s) /\ InOrder(s) /\ s # NoSession /\ s.completed = 0 /\ ~s.abandoned
  BY DEF SessionInv, abandon_session
<1>2. session' = [session EXCEPT ![k] = [session[k] EXCEPT !.abandoned = TRUE]]
  BY DEF abandon_session
<1>3. [session[k] EXCEPT !.abandoned = TRUE] = t
  BY <1>1, SessionChanges
<1>4. session'[k] = t /\ Only(k)
  BY <1>2, <1>3 DEF SessionInv, Only
<1>5. /\ t.items = s.items /\ t.completed = 0 /\ t.mode = s.mode /\ t.key = s.key
      /\ t = [mode |-> t.mode, selection |-> t.selection, key |-> t.key, items |-> t.items,
               completed |-> t.completed, abandoned |-> t.abandoned, best |-> t.best]
  BY <1>1
<1> HIDE DEF t
<1>6. IsSession(t) /\ InOrder(t) /\ GoesOn(s, t)
  BY <1>1, <1>5 DEF IsSession, InOrder, Done, Slots, GoesOn
<1> QED BY <1>1, <1>4, <1>5, <1>6 DEF Open

LEMMA ItemRevealed ==
    ASSUME NEW y, IsItem(y), NEW v
    PROVE  [y EXCEPT !.revealed = v] =
             [revision |-> y.revision, revealed |-> v, verdict |-> y.verdict, at |-> y.at,
              day |-> y.day, kind |-> y.kind, corrected |-> y.corrected]
BY DEF IsItem

LEMMA RevealStep ==
    ASSUME SessionInv, NEW k \in Key, NEW n \in Slots(session[k]), reveal_question(k, n)
    PROVE  /\ Only(k) /\ Open(session[k])
           /\ IsSession(session'[k]) /\ InOrder(session'[k]) /\ GoesOn(session[k], session'[k])
           /\ \A i \in Slots(session[k]) : session'[k].items[i].at = session[k].items[i].at
<1> DEFINE s == session[k]
           old == s.items[n]
           x == [revision |-> old.revision, revealed |-> TRUE, verdict |-> old.verdict, at |-> old.at,
                 day |-> old.day, kind |-> old.kind, corrected |-> old.corrected]
           f == [s.items EXCEPT ![n] = x]
           t == [mode |-> s.mode, selection |-> s.selection, key |-> s.key, items |-> f,
                 completed |-> s.completed, abandoned |-> s.abandoned, best |-> s.best]
<1>1. IsSession(s) /\ InOrder(s) /\ IsItem(old) /\ old.at = 0 /\ ~s.abandoned
  BY DEF SessionInv, IsSession, reveal_question, Answerable
<1>2. s.completed = 0 /\ s # NoSession
  BY <1>1 DEF InOrder, Done, NoSession, Slots
<1>3. [old EXCEPT !.revealed = TRUE] = x
  <2> HIDE DEF old
  <2> QED BY <1>1, ItemRevealed
<1>4. session' = [session EXCEPT ![k] = [s EXCEPT !.items = [s.items EXCEPT ![n] = [old EXCEPT !.revealed = TRUE]]]]
  BY DEF reveal_question
<1>5. IsItem(x) /\ x.at = 0 /\ x.revision = old.revision
  BY <1>1 DEF IsItem
<1> HIDE DEF x
<1>6. [s EXCEPT !.items = f] = t
  BY <1>1, SessionChanges
<1>7. session'[k] = t /\ Only(k)
  BY <1>3, <1>4, <1>6 DEF SessionInv, Only
<1>8. /\ DOMAIN f = Slots(s) /\ f[n] = x
      /\ \A i \in Slots(s) \ {n} : f[i] = s.items[i]
  BY DEF Slots
<1> HIDE DEF f
<1>9. /\ t.items = f /\ t.completed = 0 /\ t.mode = s.mode /\ t.key = s.key
      /\ t = [mode |-> t.mode, selection |-> t.selection, key |-> t.key, items |-> t.items,
               completed |-> t.completed, abandoned |-> t.abandoned, best |-> t.best]
  BY <1>2
<1> HIDE DEF t
<1>10. \A i \in Slots(s) : t.items[i].at = s.items[i].at
  BY <1>1, <1>5, <1>8, <1>9
<1>11. IsSession(t) /\ GoesOn(s, t)
  BY <1>1, <1>5, <1>8, <1>9 DEF IsSession, GoesOn, Slots
<1>12. InOrder(t)
  <2>1. \A i \in Slots(t) : t.items[i].at # 0 => \A j \in 1..i - 1 : t.items[j].at # 0
    <3>1. \A i \in Slots(t) : \A j \in 1..i - 1 : j \in Slots(t)
      BY <1>11 DEF IsSession
    <3> QED BY <1>1, <1>8, <1>9, <1>10, <3>1 DEF InOrder, Slots
  <2>2. ~Done(t)
    BY <1>5, <1>8, <1>9 DEF Done, Slots
  <2> QED BY <1>9, <2>1, <2>2 DEF InOrder
<1> QED BY <1>1, <1>2, <1>7, <1>10, <1>11, <1>12 DEF Open

\* What an answer records.
LEMMA AnswerStep ==
    ASSUME SessionInv, NEW k \in Key, NEW n \in Slots(session[k]), NEW right \in BOOLEAN, answer_question(k, n, right)
    PROVE  /\ Only(k) /\ Open(session[k])
           /\ IsSession(session'[k]) /\ InOrder(session'[k]) /\ GoesOn(session[k], session'[k])
           /\ session[k].items[n].at = 0 /\ session'[k].items[n].at = clock + 1 /\ session'[k].items[n].day = day
           /\ session'[k].items[n].verdict = Verdict(session[k].mode, right)
           /\ session'[k].items[n].kind = LET q == session[k].items[n].revision IN
                 IF IsCurrent(q, session[k].mode) THEN Kind(review[q][session[k].mode]) ELSE "historical"
           /\ session'[k].completed # 0 => session'[k].completed = clock + 1 /\ session'[k].best = IsBest(session'[k])
           /\ \A i \in Slots(session[k]) \ {n} : session'[k].items[i] = session[k].items[i]
<1> DEFINE s == session[k]
           old == s.items[n]
           r == old.revision
           verdict == Verdict(s.mode, right)
           x == [revision |-> r, revealed |-> old.revealed, verdict |-> verdict,
                 at |-> clock + 1, day |-> day,
                 kind |-> IF IsCurrent(r, s.mode) THEN Kind(review[r][s.mode]) ELSE "historical",
                 corrected |-> verdict = "right" /\ MissedBefore(r, s.mode)]
           f == [s.items EXCEPT ![n] = x]
           u == [mode |-> s.mode, selection |-> s.selection, key |-> s.key, items |-> f,
                 completed |-> s.completed, abandoned |-> s.abandoned, best |-> s.best]
<1>1. /\ IsSession(s) /\ InOrder(s) /\ IsItem(old) /\ old.at = 0 /\ ~s.abandoned
      /\ \A i \in 1..n - 1 : s.items[i].at # 0
  BY DEF SessionInv, IsSession, answer_question, Answerable
<1>2. s.completed = 0 /\ s # NoSession
  BY <1>1 DEF InOrder, Done, NoSession, Slots
<1>3. session' = [session EXCEPT ![k] = Completed([s EXCEPT !.items = [s.items EXCEPT ![n] = x]])]
  BY DEF answer_question
<1>4. /\ IsItem(x) /\ x.at = clock + 1 /\ x.at # 0 /\ x.revision = old.revision /\ x.day = day
      /\ x.verdict = Verdict(s.mode, right)
      /\ x.kind = IF IsCurrent(r, s.mode) THEN Kind(review[r][s.mode]) ELSE "historical"
  BY DEF IsItem, SessionInv
<1> HIDE DEF x
<1>5. [s EXCEPT !.items = f] = u
  BY <1>1, SessionChanges
<1>6. /\ DOMAIN f = Slots(s) /\ f[n] = x
      /\ \A i \in Slots(s) \ {n} : f[i] = s.items[i]
  BY DEF Slots
<1>7. session'[k] = Completed(u) /\ Only(k)
  BY <1>3, <1>5 DEF SessionInv, Only
<1> HIDE DEF f
<1>8. /\ u.items = f /\ u.completed = 0 /\ u.mode = s.mode /\ u.key = s.key /\ ~u.abandoned
      /\ u = [mode |-> u.mode, selection |-> u.selection, key |-> u.key, items |-> u.items,
               completed |-> u.completed, abandoned |-> u.abandoned, best |-> u.best]
  BY <1>1, <1>2
<1> HIDE DEF u
<1>9. IsSession(u) /\ Slots(u) = Slots(s)
  BY <1>1, <1>4, <1>6, <1>8 DEF IsSession, Slots
<1> DEFINE t == Completed(u)
<1>10. /\ t.items = f /\ t.mode = s.mode /\ t.key = s.key /\ ~t.abandoned
       /\ t.completed = IF Done(u) THEN clock + 1 ELSE 0
       /\ t = [mode |-> t.mode, selection |-> t.selection, key |-> t.key, items |-> t.items,
                completed |-> t.completed, abandoned |-> t.abandoned, best |-> t.best]
  <2>1. CASE Done(u)
    <3>1. t = [mode |-> u.mode, selection |-> u.selection, key |-> u.key, items |-> u.items,
               completed |-> clock + 1, abandoned |-> u.abandoned, best |-> IsBest(u)]
      BY <1>9, <2>1, SessionChanges DEF Completed
    <3> QED BY <1>8, <2>1, <3>1
  <2>2. CASE ~Done(u)
    BY <1>8, <2>2 DEF Completed
  <2> QED BY <2>1, <2>2
<1> HIDE DEF t
<1>10a. t.completed # 0 => t.completed = clock + 1 /\ t.best = IsBest(t)
  <2>1. SUFFICES ASSUME t.completed # 0 PROVE t.completed = clock + 1 /\ t.best = IsBest(t)
    OBVIOUS
  <2>2. Done(u) /\ t.completed = clock + 1
    BY <1>10, <2>1
  <2>3. t.best = IsBest(u)
    <3>1. t = [mode |-> u.mode, selection |-> u.selection, key |-> u.key, items |-> u.items,
               completed |-> clock + 1, abandoned |-> u.abandoned, best |-> IsBest(u)]
      BY <1>9, <2>2, SessionChanges DEF Completed, t
    <3> QED BY <3>1
  <2>4. t.items = u.items /\ t.mode = u.mode /\ t.key = u.key
    BY <1>8, <1>10
  <2>5. IsBest(u) = IsBest(t)
    <3>1. Score(t) = Score(u) /\ Earlier(t) = Earlier(u)
      BY <2>4 DEF Score, Slots, Earlier
    <3> QED BY <2>4, <3>1 DEF IsBest
  <2> QED BY <2>2, <2>3, <2>5
<1>11. IsSession(t) /\ GoesOn(s, t)
  BY <1>1, <1>4, <1>6, <1>10 DEF IsSession, GoesOn, Slots
<1>12. Done(t) <=> Done(u)
  BY <1>8, <1>10 DEF Done, Slots
<1>13. InOrder(t)
  <2>1. \A i \in Slots(t) : t.items[i].at # 0 => \A j \in 1..i - 1 : t.items[j].at # 0
    <3>1. \A i \in Slots(t) : \A j \in 1..i - 1 : j \in Slots(t)
      BY <1>11 DEF IsSession
    <3>2. \A j \in Slots(t) : s.items[j].at # 0 => t.items[j].at # 0
      BY <1>4, <1>6, <1>10 DEF Slots
    <3>3. \A j \in 1..n - 1 : t.items[j].at # 0
      BY <1>1, <1>6, <1>10, <3>1, <3>2 DEF Slots
    <3>4. ASSUME NEW i \in Slots(t) \ {n}, t.items[i].at # 0, NEW j \in 1..i - 1
          PROVE  t.items[j].at # 0
      <4>1. s.items[i].at # 0 /\ i \in Slots(s)
        BY <1>6, <1>10, <3>4 DEF Slots
      <4>2. s.items[j].at # 0
        BY <1>1, <3>4, <4>1 DEF InOrder
      <4> QED BY <3>1, <3>2, <3>4, <4>2
    <3> QED BY <3>3, <3>4
  <2>2. clock + 1 # 0
    BY DEF SessionInv
  <2> QED BY <1>10, <1>12, <2>1, <2>2 DEF InOrder
<1> QED BY <1>1, <1>2, <1>4, <1>6, <1>7, <1>10, <1>10a, <1>11, <1>13 DEF Open, t

----------------------------------------------------------------------------
(* The sessions.                                                           *)

\* Every step is a request to one session, or leaves all sessions alone.
LEMMA Requests ==
    ASSUME [PracticeNext]_practiceVars
    PROVE  \/ \E k \in Key : \E scope, mode, selection : start_session(k, scope, mode, selection)
           \/ \E k \in Key : \E n \in Slots(session[k]) : reveal_question(k, n)
           \/ \E k \in Key : \E n \in Slots(session[k]) : \E right \in BOOLEAN : answer_question(k, n, right)
           \/ \E k \in Key : abandon_session(k)
           \/ /\ session' = session /\ reward' = reward /\ clock' = clock
              /\ day' \in {day, day + 1} /\ bank' \in {bank} \union Banks
BY DEF PracticeNext, practiceVars, NewContent, NextDay, mark_studied

LEMMA SessionStep == SessionInv /\ [PracticeNext]_practiceVars => SessionInv'
<1> SUFFICES ASSUME SessionInv, [PracticeNext]_practiceVars
             PROVE  SessionInv'
  OBVIOUS
<1>1. ASSUME NEW k \in Key, Only(k), IsSession(session'[k]), InOrder(session'[k]),
             UNCHANGED <<day, bank>>, clock' \in {clock, clock + 1}
      PROVE  SessionInv'
  BY <1>1 DEF SessionInv, Only
<1>2. ASSUME NEW k \in Key, NEW scope, NEW mode, NEW selection, start_session(k, scope, mode, selection)
      PROVE  SessionInv'
  BY <1>1, <1>2, StartStep DEF start_session
<1>3. ASSUME NEW k \in Key, NEW n \in Slots(session[k]), reveal_question(k, n)
      PROVE  SessionInv'
  BY <1>1, <1>3, RevealStep DEF reveal_question
<1>4. ASSUME NEW k \in Key, NEW n \in Slots(session[k]), NEW right \in BOOLEAN, answer_question(k, n, right)
      PROVE  SessionInv'
  <2>1. UNCHANGED <<day, bank>> /\ clock' = clock + 1
    BY <1>4 DEF answer_question
  <2> QED BY <1>1, <1>4, <2>1, AnswerStep
<1>5. ASSUME NEW k \in Key, abandon_session(k)
      PROVE  SessionInv'
  BY <1>1, <1>5, AbandonStep DEF abandon_session
<1>6. CASE /\ session' = session /\ reward' = reward /\ clock' = clock
           /\ day' \in {day, day + 1} /\ bank' \in {bank} \union Banks
  <2>1. bank' \subseteq Revision
    <3>1. Banks \subseteq SUBSET Revision
      BY PracticeAssumption
    <3> QED BY <1>6, <3>1 DEF SessionInv
  <2>2. clock' \in Nat /\ day' \in Nat
    BY <1>6 DEF SessionInv
  <2>3. DOMAIN session' = Key /\ \A k \in Key : IsSession(session'[k]) /\ InOrder(session'[k])
    BY <1>6 DEF SessionInv
  <2> QED BY <2>1, <2>2, <2>3 DEF SessionInv
<1> QED BY <1>2, <1>3, <1>4, <1>5, <1>6, Requests, Zenon

LEMMA SessionStart == PracticeInit => SessionInv
<1> SUFFICES ASSUME PracticeInit
             PROVE  SessionInv
  OBVIOUS
<1>1. DOMAIN <<>> = 1..0
  OBVIOUS
<1>2. IsSession(NoSession) /\ InOrder(NoSession)
  BY <1>1 DEF IsSession, InOrder, NoSession, Slots
<1> QED BY <1>2, PracticeAssumption DEF PracticeInit, SessionInv

\* The positions of a session with a question open include a first one.
LEMMA FirstOpen ==
    ASSUME NEW S, S \subseteq Nat, S # {}
    PROVE  \E x \in S : \A y \in S : x <= y
<1>1. PICK x \in S : \A y \in S : ~(<<y, x>> \in OpToRel(<, Nat))
  BY NatLessThanWellFounded, WFMin, Zenon
<1>2. ASSUME NEW y \in S
      PROVE  x <= y
  <2>1. ~(<<y, x>> \in OpToRel(<, Nat))
    BY <1>1
  <2>2. ~(y < x)
    BY <2>1 DEF OpToRel
  <2> QED BY <2>2
<1> QED BY <1>2

\* Whatever requests come in, an open session has exactly one question to show and a session is
\* over exactly when all of it is answered (session_view, views.py:117-123; answer_question).
THEOREM PageAlwaysShowsNext == PracticeSpec => []PageShowsNext
<1>1. ASSUME SessionInv, NEW k \in Key, Open(session[k])
      PROVE  Cardinality(Shown(session[k])) = 1
  <2> DEFINE s == session[k]
             S == {n \in Slots(s) : s.items[n].at = 0}
  <2>1. ~Done(s) /\ IsSession(s)
    BY <1>1 DEF SessionInv, InOrder, Open
  <2>2. S # {} /\ S \subseteq Nat
    BY <2>1 DEF Done, IsSession
  <2>3. PICK x \in S : \A y \in S : x <= y
    BY <2>2, FirstOpen
  <2>4. \A i \in 1..x - 1 : i \in Slots(s) /\ i \notin S
    BY <2>1, <2>3 DEF IsSession
  <2>5. x \in Shown(s)
    BY <2>3, <2>4 DEF Shown
  <2>6. \A y \in Shown(s) : y = x
    <3>1. ASSUME NEW y \in Shown(s), y # x
          PROVE  FALSE
      <4>1. y \in S /\ x <= y /\ x \in Nat /\ y \in Nat /\ 1 <= x
        BY <2>1, <2>3, <3>1 DEF Shown, IsSession
      <4>2. x \in 1..y - 1
        BY <3>1, <4>1
      <4> QED BY <2>3, <4>2 DEF Shown
    <3> QED BY <3>1
  <2>7. Shown(s) = {x}
    BY <2>5, <2>6
  <2> QED BY <2>7, FS_Singleton
<1>2. SessionInv => PageShowsNext
  BY <1>1 DEF PageShowsNext, SessionInv, InOrder
<1> QED BY <1>2, SessionStart, SessionStep, PTL DEF PracticeSpec

\* The first answer is the one recorded, and a session that is over stays as it is
\* (ensure_current, abandon_session and the one-row rewards of services.py).
THEOREM AnswersAreFinal == PracticeSpec => PracticeIsFinal
<1> DEFINE Kept(k) ==
             LET s == session[k] IN
             s # NoSession =>
                 /\ ~Open(s) => session'[k] = s
                 /\ session'[k].key = s.key /\ Slots(session'[k]) = Slots(s)
                 /\ \A n \in Slots(s) :
                       /\ session'[k].items[n].revision = s.items[n].revision
                       /\ s.items[n].at # 0 => session'[k].items[n] = s.items[n]
                       /\ session'[k].items[n].at # 0 => \A i \in 1..n - 1 : session'[k].items[i].at # 0
<1>1. ASSUME SessionInv, [PracticeNext]_practiceVars
      PROVE  reward \subseteq reward' /\ \A k \in Key : Kept(k)
  <2>1. SessionInv'
    BY <1>1, SessionStep
  <2>2. reward \subseteq reward'
    BY <1>1 DEF PracticeNext, practiceVars, NewContent, NextDay, mark_studied, start_session, reveal_question,
         answer_question, abandon_session
  <2>3. ASSUME NEW k \in Key, session'[k] = session[k]
        PROVE  Kept(k)
    BY <1>1, <2>3 DEF SessionInv, InOrder
  <2>4. ASSUME NEW k \in Key, Open(session[k]), GoesOn(session[k], session'[k])
        PROVE  Kept(k)
    <3>1. Slots(session'[k]) = Slots(session[k])
      BY <2>4 DEF GoesOn
    <3>2. \A n \in Slots(session[k]) :
            session'[k].items[n].at # 0 => \A i \in 1..n - 1 : session'[k].items[i].at # 0
      BY <2>1, <3>1 DEF SessionInv, InOrder
    <3> QED BY <2>4, <3>2 DEF GoesOn
  <2>5. ASSUME NEW k \in Key, session[k] = NoSession
        PROVE  Kept(k)
    BY <2>5
  <2>6. ASSUME NEW k \in Key, Only(k),
               (session[k] = NoSession) \/ (Open(session[k]) /\ GoesOn(session[k], session'[k])),
               NEW j \in Key
        PROVE  Kept(j)
    <3>1. CASE j = k
      BY <2>4, <2>5, <2>6, <3>1
    <3>2. CASE j # k
      BY <2>3, <2>6, <3>2 DEF Only
    <3> QED BY <3>1, <3>2
  <2> HIDE DEF Kept
  <2>7. CASE session' = session
    BY <2>2, <2>3, <2>7
  <2>8. ASSUME NEW k \in Key, NEW scope, NEW mode, NEW selection, start_session(k, scope, mode, selection)
        PROVE  \A j \in Key : Kept(j)
    BY <1>1, <2>6, <2>8, StartStep
  <2>9. ASSUME NEW k \in Key, NEW n \in Slots(session[k]), reveal_question(k, n)
        PROVE  \A j \in Key : Kept(j)
    BY <1>1, <2>6, <2>9, RevealStep
  <2>10. ASSUME NEW k \in Key, NEW n \in Slots(session[k]), NEW right \in BOOLEAN, answer_question(k, n, right)
        PROVE  \A j \in Key : Kept(j)
    BY <1>1, <2>6, <2>10, AnswerStep
  <2>11. ASSUME NEW k \in Key, abandon_session(k)
        PROVE  \A j \in Key : Kept(j)
    BY <1>1, <2>6, <2>11, AbandonStep
  <2> QED BY <1>1, <2>2, <2>7, <2>8, <2>9, <2>10, <2>11, Requests, Zenon
<1> QED BY <1>1, SessionStart, SessionStep, PTL DEF PracticeSpec, PracticeIsFinal

----------------------------------------------------------------------------
(* The rewards.                                                            *)

\* No answer is of a day to come; the days of the rewards are then as the property says.
RewardInv == SessionInv /\ (\A a \in Answers : a.item.day \in Nat /\ a.item.day <= day) /\ RewardedOncePerDay

LEMMA AnswersAre ==
    ASSUME NEW a
    PROVE  /\ a \in Answers <=>
                \E k \in Key : \E n \in Slots(session[k]) :
                    session[k].items[n].at # 0 /\ a = [mode |-> session[k].mode, item |-> session[k].items[n]]
           /\ a \in Answers' <=>
                \E k \in Key : \E n \in Slots(session'[k]) :
                    session'[k].items[n].at # 0 /\ a = [mode |-> session'[k].mode, item |-> session'[k].items[n]]
BY DEF Answers, Slots

\* An answer adds itself to what has been answered.
LEMMA AnswerAdds ==
    ASSUME SessionInv, NEW k \in Key, NEW n \in Slots(session[k]), NEW right \in BOOLEAN, answer_question(k, n, right)
    PROVE  Answers' = Answers \union {[mode |-> session[k].mode, item |-> session'[k].items[n]]}
<1> DEFINE s == session[k]
           t == session'[k]
           new == [mode |-> s.mode, item |-> t.items[n]]
<1>1. /\ Only(k) /\ GoesOn(s, t) /\ s.items[n].at = 0 /\ t.items[n].at # 0
      /\ \A i \in Slots(s) \ {n} : t.items[i] = s.items[i]
  <2>1. clock + 1 # 0
    BY DEF SessionInv
  <2> QED BY <2>1, AnswerStep
<1>2. t.mode = s.mode /\ Slots(t) = Slots(s)
  BY <1>1 DEF GoesOn
<1>3. ASSUME NEW a \in Answers'
      PROVE  a \in Answers \/ a = new
  <2>0. PICK j \in Key : \E i \in Slots(session'[j]) :
          session'[j].items[i].at # 0 /\ a = [mode |-> session'[j].mode, item |-> session'[j].items[i]]
    BY <1>3, AnswersAre
  <2>1. PICK i \in Slots(session'[j]) :
          session'[j].items[i].at # 0 /\ a = [mode |-> session'[j].mode, item |-> session'[j].items[i]]
    BY <2>0
  <2>2. CASE j # k
    <3>1. session'[j] = session[j]
      BY <1>1, <2>2 DEF Only
    <3> QED BY <2>1, <3>1, AnswersAre
  <2>3. CASE j = k /\ i # n
    <3>1. i \in Slots(s) /\ t.items[i] = s.items[i]
      BY <1>1, <1>2, <2>3
    <3> QED BY <1>2, <2>1, <2>3, <3>1, AnswersAre
  <2>4. CASE j = k /\ i = n
    BY <1>2, <2>1, <2>4
  <2> QED BY <2>2, <2>3, <2>4
<1>4. new \in Answers'
  BY <1>1, <1>2, AnswersAre
<1>5. ASSUME NEW a \in Answers
      PROVE  a \in Answers'
  <2>0. PICK j \in Key : \E i \in Slots(session[j]) :
          session[j].items[i].at # 0 /\ a = [mode |-> session[j].mode, item |-> session[j].items[i]]
    BY <1>5, AnswersAre
  <2>1. PICK i \in Slots(session[j]) :
          session[j].items[i].at # 0 /\ a = [mode |-> session[j].mode, item |-> session[j].items[i]]
    BY <2>0
  <2>2. CASE j # k
    <3>1. session'[j] = session[j]
      BY <1>1, <2>2 DEF Only
    <3> QED BY <2>1, <3>1, AnswersAre
  <2>3. CASE j = k
    <3>1. i # n
      BY <1>1, <2>1, <2>3
    <3>2. i \in Slots(t) /\ t.items[i] = s.items[i]
      BY <1>1, <1>2, <2>3, <3>1
    <3> QED BY <1>2, <2>1, <2>3, <3>2, AnswersAre
  <2> QED BY <2>2, <2>3
<1> QED BY <1>3, <1>4, <1>5

\* No other request does.
LEMMA AnswersStay ==
    ASSUME SessionInv, NEW k \in Key, Only(k),
           \/ /\ GoesOn(session[k], session'[k])
              /\ \A i \in Slots(session[k]) : session'[k].items[i].at = session[k].items[i].at
           \/ session[k] = NoSession /\ \A i \in Slots(session'[k]) : session'[k].items[i].at = 0
    PROVE  Answers' = Answers
<1>1. ASSUME NEW a
      PROVE  (\E n \in Slots(session[k]) :
                 session[k].items[n].at # 0 /\ a = [mode |-> session[k].mode, item |-> session[k].items[n]])
             <=> (\E n \in Slots(session'[k]) :
                 session'[k].items[n].at # 0 /\ a = [mode |-> session'[k].mode, item |-> session'[k].items[n]])
  <2>1. CASE /\ GoesOn(session[k], session'[k])
             /\ \A i \in Slots(session[k]) : session'[k].items[i].at = session[k].items[i].at
    BY <2>1 DEF GoesOn
  <2>2. CASE session[k] = NoSession /\ \A i \in Slots(session'[k]) : session'[k].items[i].at = 0
    BY <2>2 DEF NoSession, Slots
  <2> QED BY <2>1, <2>2
<1>2. ASSUME NEW a
      PROVE  a \in Answers' <=> a \in Answers
  BY <1>1, AnswersAre DEF Only
<1> QED BY <1>2

\* An answer is rewarded if it is the question's first of the day.
LEMMA RewardKept ==
    ASSUME RewardInv, NEW a, a.item.day = day, Answers' = Answers \union {a}, day' = day,
           reward' = IF RewardedToday(a.item.revision) THEN reward ELSE reward \union {Reward(a.item.revision)}
    PROVE  (\A b \in Answers' : b.item.day \in Nat /\ b.item.day <= day') /\ RewardedOncePerDay'
<1> DEFINE Q(b) == QuestionOf[b.item.revision]
<1>0. /\ day \in Nat
      /\ \A b \in Answers : b.item.day \in Nat /\ b.item.day <= day
      /\ \A e, f \in reward : e.question = f.question /\ e.day = f.day => e = f
      /\ {<<e.question, e.day>> : e \in reward} = {<<Q(b), b.item.day>> : b \in Answers}
      /\ \A e \in reward : e.points = 2 <=> \A b \in AnswersTo(e.question) : e.day <= b.item.day
  BY DEF RewardInv, SessionInv, RewardedOncePerDay
<1>1. \A e \in reward : \E b \in Answers : Q(b) = e.question /\ b.item.day = e.day
  <2>1. \A e \in reward : <<e.question, e.day>> \in {<<Q(b), b.item.day>> : b \in Answers}
    BY <1>0
  <2> QED BY <2>1
<1>2. \A b \in Answers : \E e \in reward : Q(b) = e.question /\ b.item.day = e.day
  <2>1. \A b \in Answers : <<Q(b), b.item.day>> \in {<<e.question, e.day>> : e \in reward}
    BY <1>0
  <2> QED BY <2>1
<1>3. \A q : AnswersTo(q)' = AnswersTo(q) \union (IF Q(a) = q THEN {a} ELSE {})
  BY DEF AnswersTo
<1>4. RewardedToday(a.item.revision) <=> \E b \in Answers : Q(b) = Q(a) /\ b.item.day = day
  BY DEF RewardedToday, AnswersTo
<1>5. \A e \in reward : e.day \in Nat /\ e.day <= day
  BY <1>0, <1>1
<1>6. \A e \in reward : e.points = 2 <=> \A b \in AnswersTo(e.question)' : e.day <= b.item.day
  BY <1>0, <1>3, <1>5
<1>7. reward' = reward \/ reward' = reward \union {Reward(a.item.revision)}
  OBVIOUS
<1>8. /\ Reward(a.item.revision).question = Q(a) /\ Reward(a.item.revision).day = day
      /\ Reward(a.item.revision).points = 2 <=> AnswersTo(Q(a)) = {}
  BY DEF Reward
<1> HIDE DEF Q
<1>9. CASE RewardedToday(a.item.revision)
  <2>1. reward' = reward /\ \E e \in reward : Q(a) = e.question /\ a.item.day = e.day
    BY <1>2, <1>4, <1>9
  <2>2. {<<e.question, e.day>> : e \in reward'} = {<<Q(b), b.item.day>> : b \in Answers'}
    BY <1>0, <2>1
  <2>3. RewardedOncePerDay'
    BY <1>0, <1>6, <2>1, <2>2 DEF RewardedOncePerDay, Q
  <2> QED BY <1>0, <2>3
<1>10. CASE ~RewardedToday(a.item.revision)
  <2> DEFINE new == Reward(a.item.revision)
  <2>1. reward' = reward \union {new} /\ new.question = Q(a) /\ new.day = day
        /\ (new.points = 2 <=> AnswersTo(Q(a)) = {})
    BY <1>8, <1>10
  <2> HIDE DEF new
  <2>2. ASSUME NEW e \in reward, e.question = Q(a), e.day = day
        PROVE  FALSE
    BY <1>1, <1>4, <1>10, <2>2
  <2>3. \A e, f \in reward' : e.question = f.question /\ e.day = f.day => e = f
    BY <1>0, <2>1, <2>2
  <2>4. {<<e.question, e.day>> : e \in reward'} = {<<Q(b), b.item.day>> : b \in Answers'}
    <3>1. {<<e.question, e.day>> : e \in reward'} = {<<e.question, e.day>> : e \in reward} \union {<<Q(a), day>>}
      BY <2>1
    <3>2. {<<Q(b), b.item.day>> : b \in Answers'} = {<<Q(b), b.item.day>> : b \in Answers} \union {<<Q(a), day>>}
      OBVIOUS
    <3> QED BY <1>0, <3>1, <3>2
  <2>5. new.points = 2 <=> \A b \in AnswersTo(Q(a))' : day <= b.item.day
    <3>1. AnswersTo(Q(a))' = AnswersTo(Q(a)) \union {a}
      BY <1>3
    <3>2. \A b \in AnswersTo(Q(a)) : b.item.day \in Nat /\ b.item.day < day
      <4>1. \A b \in AnswersTo(Q(a)) : b \in Answers /\ Q(b) = Q(a)
        BY DEF AnswersTo, Q
      <4> QED BY <1>0, <1>4, <1>10, <4>1
    <3> QED BY <1>0, <2>1, <3>1, <3>2
  <2>6. \A e \in reward' : e.points = 2 <=> \A b \in AnswersTo(e.question)' : e.day <= b.item.day
    BY <1>6, <2>1, <2>5
  <2>7. RewardedOncePerDay'
    BY <2>3, <2>4, <2>6 DEF RewardedOncePerDay, Q
  <2> QED BY <1>0, <2>7
<1> QED BY <1>9, <1>10

\* A step without an answer leaves the rewards as they are.
LEMMA RewardStays ==
    ASSUME RewardInv, Answers' = Answers, reward' = reward, day' \in {day, day + 1}
    PROVE  (\A b \in Answers' : b.item.day \in Nat /\ b.item.day <= day') /\ RewardedOncePerDay'
BY DEF RewardInv, SessionInv, RewardedOncePerDay, AnswersTo

LEMMA RewardStep == RewardInv /\ [PracticeNext]_practiceVars => RewardInv'
<1> SUFFICES ASSUME RewardInv, [PracticeNext]_practiceVars
             PROVE  RewardInv'
  OBVIOUS
<1>0. SessionInv /\ SessionInv'
  BY SessionStep DEF RewardInv
<1>1. ASSUME Answers' = Answers, reward' = reward, day' \in {day, day + 1}
      PROVE  RewardInv'
  BY <1>0, <1>1, RewardStays DEF RewardInv
<1>2. ASSUME NEW k \in Key, NEW scope, NEW mode, NEW selection, start_session(k, scope, mode, selection)
      PROVE  RewardInv'
  <2>1. Answers' = Answers
    BY <1>0, <1>2, StartStep, AnswersStay
  <2> QED BY <1>1, <1>2, <2>1 DEF start_session
<1>3. ASSUME NEW k \in Key, NEW n \in Slots(session[k]), reveal_question(k, n)
      PROVE  RewardInv'
  <2>1. Answers' = Answers
    BY <1>0, <1>3, RevealStep, AnswersStay
  <2> QED BY <1>1, <1>3, <2>1 DEF reveal_question
<1>4. ASSUME NEW k \in Key, NEW n \in Slots(session[k]), NEW right \in BOOLEAN, answer_question(k, n, right)
      PROVE  RewardInv'
  <2> DEFINE a == [mode |-> session[k].mode, item |-> session'[k].items[n]]
             r == session[k].items[n].revision
  <2>1. Answers' = Answers \union {a}
    BY <1>0, <1>4, AnswerAdds
  <2>2. session'[k].items[n].day = day /\ session'[k].items[n].revision = r
    BY <1>0, <1>4, AnswerStep DEF GoesOn
  <2>3. a.item.day = day /\ a.item.revision = r
    BY <2>2
  <2>4. reward' = (IF RewardedToday(r) THEN reward ELSE reward \union {Reward(r)}) /\ day' = day
    BY <1>4 DEF answer_question
  <2> HIDE DEF a, r
  <2> QED BY <1>0, <2>1, <2>3, <2>4, RewardKept DEF RewardInv
<1>5. ASSUME NEW k \in Key, abandon_session(k)
      PROVE  RewardInv'
  <2>1. Answers' = Answers
    BY <1>0, <1>5, AbandonStep, AnswersStay
  <2> QED BY <1>1, <1>5, <2>1 DEF abandon_session
<1>6. CASE /\ session' = session /\ reward' = reward /\ clock' = clock
           /\ day' \in {day, day + 1} /\ bank' \in {bank} \union Banks
  <2>1. Answers' = Answers
    BY <1>6 DEF Answers, Slots
  <2> QED BY <1>1, <1>6, <2>1
<1> QED BY <1>2, <1>3, <1>4, <1>5, <1>6, Requests, Zenon

LEMMA RewardStart == PracticeInit => RewardInv
<1> SUFFICES ASSUME PracticeInit
             PROVE  RewardInv
  OBVIOUS
<1>1. Answers = {} /\ reward = {}
  BY DEF PracticeInit, Answers, NoSession, Slots
<1> QED BY <1>1, SessionStart DEF RewardInv, RewardedOncePerDay

\* Every question that is answered is rewarded once on that day, whatever sessions it comes up in
\* (answer_question, services.py).
THEOREM RewardedOnce == PracticeSpec => []RewardedOncePerDay
BY RewardStart, RewardStep, PTL DEF PracticeSpec, RewardInv

----------------------------------------------------------------------------
(* Personal bests.                                                         *)

\* The sessions of the kind of s that were completed before it.
Before(table, s) ==
    {t \in {table[k] : k \in Key} :
        /\ t.completed # 0 /\ t.mode = s.mode /\ t.key = s.key /\ Len(t.items) = Len(s.items)
        /\ t.completed < s.completed}

Beats(table, s) == s.key # {} /\ Before(table, s) # {} /\ \A t \in Before(table, s) : Score(t) < Score(s)

\* The flag of a completed session keeps its meaning, since nothing completes in the past.
BestInv ==
    \A k \in Key : session[k].completed # 0 =>
        /\ session[k].completed \in Nat /\ session[k].completed <= clock
        /\ session[k].best <=> Beats(session, session[k])

LEMMA ScoreType == ASSUME NEW s, IsSession(s) PROVE Score(s) \in Nat
<1>1. PICK c \in Nat : Slots(s) = 1..c
  BY DEF IsSession
<1>2. IsFiniteSet(Slots(s))
  BY <1>1, FS_Interval
<1>3. IsFiniteSet({n \in Slots(s) : s.items[n].verdict = "right"})
  BY <1>2, FS_Subset
<1> QED BY <1>3, FS_CardinalityType DEF Score

\* Whatever changes one session that was not completed, or completes it now, keeps all flags true.
LEMMA FlagStep ==
    ASSUME SessionInv, SessionInv', BestInv, NEW k \in Key, Only(k), session[k].completed = 0,
           clock' \in {clock, clock + 1},
           session'[k].completed # 0 =>
               clock' = clock + 1 /\ session'[k].completed = clock + 1 /\ session'[k].best = IsBest(session'[k])
    PROVE  BestInv'
<1> DEFINE t == session'[k]
<1>1. clock \in Nat /\ \A j \in Key : IsSession(session[j]) /\ IsSession(session'[j])
  BY DEF SessionInv
<1>2. \A j \in Key \ {k} : session'[j] = session[j]
  BY DEF Only
<1>3. ASSUME NEW j \in Key \ {k}, session[j].completed # 0
      PROVE  Before(session', session[j]) = Before(session, session[j])
  <2>1. session[j].completed \in Nat /\ session[j].completed <= clock
    BY <1>3 DEF BestInv
  <2>2. ~(t.completed # 0 /\ t.completed < session[j].completed)
    BY <1>1, <2>1
  <2> HIDE DEF t
  <2>3. ASSUME NEW u, u.completed # 0, u.completed < session[j].completed
        PROVE  u \in {session'[i] : i \in Key} <=> u \in {session[i] : i \in Key}
    <3>1. u # t /\ u # session[k]
      BY <2>2, <2>3
    <3> QED BY <1>2, <3>1 DEF t
  <2> QED BY <2>3 DEF Before
<1>4. ASSUME t.completed # 0
      PROVE  Before(session', t) = Earlier(t)
  <2>1. t.completed = clock + 1
    BY <1>4
  <2>2. ASSUME NEW j \in Key \ {k}, session[j].completed # 0 PROVE session[j].completed < t.completed
    <3>1. session[j].completed \in Nat /\ session[j].completed <= clock
      BY <2>2 DEF BestInv
    <3> QED BY <1>1, <2>1, <3>1
  <2>3. ~(t.completed < t.completed)
    BY <1>1, <2>1
  <2> HIDE DEF t
  <2>4. ASSUME NEW u, u.completed # 0
        PROVE  u \in {session'[i] : i \in Key} /\ u.completed < t.completed <=> u \in {session[i] : i \in Key}
    <3>1. u # session[k]
      BY <2>4
    <3>2. u \in {session'[i] : i \in Key} /\ u.completed < t.completed => u \in {session[i] : i \in Key}
      BY <1>2, <2>3 DEF t
    <3>3. u \in {session[i] : i \in Key} => u \in {session'[i] : i \in Key} /\ u.completed < t.completed
      BY <1>2, <2>2, <2>4, <3>1
    <3> QED BY <3>2, <3>3
  <2> QED BY <2>4 DEF Before, Earlier
<1>5. ASSUME NEW j \in Key \ {k}, session'[j].completed # 0
      PROVE  /\ session'[j].completed \in Nat /\ session'[j].completed <= clock'
             /\ session'[j].best <=> Beats(session', session'[j])
  <2>1. session'[j] = session[j] /\ session[j].completed # 0
    BY <1>2, <1>5
  <2>2. /\ session[j].completed \in Nat /\ session[j].completed <= clock
        /\ session[j].best <=> Beats(session, session[j])
    BY <2>1 DEF BestInv
  <2>3. Beats(session', session[j]) <=> Beats(session, session[j])
    BY <1>3, <2>1 DEF Beats
  <2>4. session[j].completed <= clock'
    BY <1>1, <2>2
  <2> QED BY <2>1, <2>2, <2>3, <2>4
<1>6. ASSUME t.completed # 0
      PROVE  t.completed \in Nat /\ t.completed <= clock' /\ (t.best <=> Beats(session', t))
  <2>1. t.best = IsBest(t) /\ t.completed = clock + 1 /\ clock' = clock + 1
    BY <1>6
  <2>2. Score(t) \in Nat /\ \A u \in Earlier(t) : Score(u) \in Nat
    BY <1>1, ScoreType DEF Earlier
  <2>3. \A u \in Earlier(t) : Score(t) > Score(u) <=> Score(u) < Score(t)
    BY <2>2
  <2>4. Before(session', t) = Earlier(t)
    BY <1>4, <1>6
  <2> HIDE DEF t
  <2>5. IsBest(t) <=> Beats(session', t)
    BY <2>3, <2>4 DEF IsBest, Beats
  <2> QED BY <1>1, <2>1, <2>5
<1> QED BY <1>5, <1>6 DEF BestInv

LEMMA BestStep == SessionInv /\ BestInv /\ [PracticeNext]_practiceVars => BestInv'
<1> SUFFICES ASSUME SessionInv, BestInv, [PracticeNext]_practiceVars
             PROVE  BestInv'
  OBVIOUS
<1>1. SessionInv'
  BY SessionStep
<1>2. ASSUME NEW k \in Key, NEW scope, NEW mode, NEW selection, start_session(k, scope, mode, selection)
      PROVE  BestInv'
  <2>1. session[k].completed = 0 /\ clock' = clock
    BY <1>2 DEF start_session, NoSession
  <2> QED BY <1>1, <1>2, <2>1, StartStep, FlagStep
<1>3. ASSUME NEW k \in Key, NEW n \in Slots(session[k]), reveal_question(k, n)
      PROVE  BestInv'
  <2>1. session[k].items[n].at = 0 /\ clock' = clock
    BY <1>3 DEF reveal_question, Answerable
  <2>2. /\ Only(k) /\ session[k].completed = 0 /\ InOrder(session'[k])
        /\ session'[k].items[n].at = 0 /\ n \in Slots(session'[k])
    BY <1>3, <2>1, RevealStep DEF Open, GoesOn
  <2>3. session'[k].completed = 0
    BY <2>2 DEF InOrder, Done
  <2> QED BY <1>1, <2>1, <2>2, <2>3, FlagStep
<1>4. ASSUME NEW k \in Key, NEW n \in Slots(session[k]), NEW right \in BOOLEAN, answer_question(k, n, right)
      PROVE  BestInv'
  <2>1. clock' = clock + 1
    BY <1>4 DEF answer_question
  <2>2. /\ Only(k) /\ session[k].completed = 0
        /\ session'[k].completed # 0 => session'[k].completed = clock + 1 /\ session'[k].best = IsBest(session'[k])
    BY <1>4, AnswerStep DEF Open
  <2> QED BY <1>1, <2>1, <2>2, FlagStep
<1>5. ASSUME NEW k \in Key, abandon_session(k)
      PROVE  BestInv'
  <2>1. /\ Only(k) /\ Open(session[k]) /\ InOrder(session'[k]) /\ GoesOn(session[k], session'[k])
        /\ session'[k].items = session[k].items /\ clock' = clock
    BY <1>5, AbandonStep DEF abandon_session
  <2>2. ~Done(session[k])
    BY <2>1 DEF SessionInv, InOrder, Open
  <2>3. ~Done(session'[k])
    BY <2>1, <2>2 DEF Done, GoesOn
  <2>4. session'[k].completed = 0 /\ session[k].completed = 0
    BY <2>1, <2>3 DEF InOrder, Open
  <2> QED BY <1>1, <2>1, <2>4, FlagStep
<1>6. CASE /\ session' = session /\ reward' = reward /\ clock' = clock
           /\ day' \in {day, day + 1} /\ bank' \in {bank} \union Banks
  BY <1>6 DEF BestInv
<1> QED BY <1>2, <1>3, <1>4, <1>5, <1>6, Requests, Zenon

LEMMA BestStart == PracticeInit => BestInv
BY DEF PracticeInit, BestInv, NoSession

\* The flag set when a session is completed (answer_question, services.py) and the ranking of the
\* progress page (personal_bests) agree, however sessions overlap and in whatever order they end.
THEOREM BestsAlwaysAgree == PracticeSpec => []BestsAgree
<1>1. ASSUME SessionInv, BestInv PROVE BestsAgree
  <2> SUFFICES ASSUME NEW k \in Key, session[k].completed # 0
               PROVE  LET s == session[k]
                          before == {t \in Earlier(s) : t.completed < s.completed} IN
                      /\ s.best => before # {} /\ s.key # {} /\ \A t \in before : Score(t) < Score(s)
                      /\ Ranked(s) => (s.best <=> before # {})
    BY DEF BestsAgree
  <2> DEFINE s == session[k]
             before == {t \in Earlier(s) : t.completed < s.completed}
  <2>1. before = Before(session, s)
    BY DEF Earlier, Before
  <2>2. s.best <=> Beats(session, s)
    BY <1>1 DEF BestInv
  <2>3. s.best => before # {} /\ s.key # {} /\ \A t \in before : Score(t) < Score(s)
    BY <2>1, <2>2 DEF Beats
  <2>4. ASSUME Ranked(s), before # {} PROVE Beats(session, s)
    <3>1. ASSUME NEW t \in before PROVE Score(t) < Score(s)
      <4>1. PICK j \in Key : t = session[j]
        BY DEF Earlier
      <4>2. t.completed # 0 /\ t.key = s.key /\ Len(t.items) = Len(s.items) /\ t.completed < s.completed
        BY DEF Earlier
      <4>3. t.completed \in Nat /\ s.completed \in Nat
        BY <1>1, <4>1, <4>2 DEF BestInv
      <4>4. ~(s.completed <= t.completed)
        BY <4>2, <4>3
      <4> QED BY <2>4, <4>1, <4>2, <4>4 DEF Ranked
    <3>2. s.key # {}
      BY <2>4 DEF Ranked
    <3> QED BY <2>1, <2>4, <3>1, <3>2 DEF Beats
  <2> HIDE DEF s, before
  <2> QED BY <2>2, <2>3, <2>4 DEF s, before
<1> QED BY <1>1, SessionStart, SessionStep, BestStart, BestStep, PTL DEF PracticeSpec

----------------------------------------------------------------------------
(* The review schedule.                                                    *)

\* A recursive function on the naturals is what its definition says: up to any n there is
\* one function that satisfies the equation, and Span is made of these.
LEMMA SpanIs ==
    \A n \in Nat : Span[n] = IF n <= 1 THEN 0 ELSE Span[n - 1] + INTERVALS[n - 1]
<1> DEFINE Next(g, n) == IF n <= 1 THEN 0 ELSE g[n - 1] + INTERVALS[n - 1]
           UpTo(g, n) == g = [m \in 0..n |-> g[m]] /\ \A m \in 0..n : g[m] = Next(g, m)
           G(n) == CHOOSE g : UpTo(g, n)
           F == [n \in Nat |-> G(n)[n]]
<1>1. \A n \in Nat : \E g : UpTo(g, n)
  <2> DEFINE T == {n \in Nat : ~\E g : UpTo(g, n)}
  <2>1. SUFFICES ASSUME T # {} PROVE FALSE
    OBVIOUS
  <2>2. PICK x \in T : \A y \in T : x <= y
    <3>1. T \subseteq Nat
      OBVIOUS
    <3> HIDE DEF T
    <3> QED BY <2>1, <3>1, FirstOpen
  <2>3. CASE x = 0
    <3> DEFINE h == [m \in 0..0 |-> 0]
    <3>1. UpTo(h, 0)
      OBVIOUS
    <3> QED BY <2>3, <3>1
  <2>4. CASE x # 0
    <3>1. x - 1 \in Nat /\ x - 1 \notin T
      BY <2>2, <2>4
    <3>2. PICK g : UpTo(g, x - 1)
      BY <3>1
    <3> DEFINE h == [m \in 0..x |-> IF m < x THEN g[m] ELSE Next(g, x)]
    <3>3. \A m \in 0..x : h[m] = Next(h, m)
      <4>1. SUFFICES ASSUME NEW m \in 0..x PROVE h[m] = Next(h, m)
        OBVIOUS
      <4>2. Next(h, m) = Next(g, m)
        OBVIOUS
      <4>3. CASE m = x
        BY <4>2, <4>3
      <4>4. CASE m < x
        <5>1. m \in 0..x - 1
          BY <4>4
        <5>2. g[m] = Next(g, m)
          BY <3>2, <5>1
        <5>3. h[m] = g[m]
          BY <4>4
        <5> QED BY <4>2, <5>2, <5>3
      <4> QED BY <4>3, <4>4
    <3>4. UpTo(h, x)
      BY <3>3
    <3> QED BY <2>2, <3>4
  <2> QED BY <2>3, <2>4
<1>2. ASSUME NEW n \in Nat, NEW p \in Nat, n <= p, NEW g, NEW h, UpTo(g, n), UpTo(h, p)
      PROVE  \A m \in 0..n : g[m] = h[m]
  <2> DEFINE T == {m \in 0..n : g[m] # h[m]}
  <2>1. SUFFICES ASSUME T # {} PROVE FALSE
    OBVIOUS
  <2>2. PICK x \in T : \A y \in T : x <= y
    <3>1. T \subseteq Nat
      OBVIOUS
    <3> HIDE DEF T
    <3> QED BY <2>1, <3>1, FirstOpen
  <2>3. x \in 0..n /\ x \in 0..p
    BY <1>2
  <2>3a. g[x] = Next(g, x) /\ h[x] = Next(h, x)
    <3> HIDE DEF Next
    <3> QED BY <1>2, <2>3
  <2>4. x > 1 => g[x - 1] = h[x - 1]
    <3>1. x > 1 => x - 1 \in 0..n /\ x - 1 \notin T
      BY <2>2
    <3> QED BY <3>1
  <2> QED BY <2>3, <2>3a, <2>4
<1>3. \A n \in Nat : UpTo(G(n), n)
  BY <1>1
<1> HIDE DEF G
<1>4. \A n \in Nat : F[n] = Next(F, n)
  <2>1. SUFFICES ASSUME NEW n \in Nat PROVE F[n] = Next(F, n)
    OBVIOUS
  <2>2. F[n] = Next(G(n), n)
    <3>1. n \in 0..n
      OBVIOUS
    <3> QED BY <1>3, <3>1
  <2>3. ASSUME n > 1 PROVE G(n)[n - 1] = F[n - 1]
    <3>1. n - 1 \in Nat /\ n - 1 <= n /\ n - 1 \in 0..n - 1
      BY <2>3
    <3>2. UpTo(G(n - 1), n - 1) /\ UpTo(G(n), n)
      BY <1>3, <3>1
    <3> HIDE DEF UpTo
    <3>3. G(n - 1)[n - 1] = G(n)[n - 1]
      BY <1>2, <3>1, <3>2
    <3> QED BY <3>1, <3>3
  <2> QED BY <2>2, <2>3
<1>5. F = [n \in Nat |-> Next(F, n)]
  <2>1. F = [n \in Nat |-> F[n]]
    OBVIOUS
  <2> HIDE DEF F
  <2> QED BY <1>4, <2>1
<1>6. Span = [n \in Nat |-> Next(Span, n)]
  <2> HIDE DEF F
  <2> QED BY <1>5 DEF Span
<1> QED BY <1>6

ReviewRow == [successes : 0..Len(INTERVALS), evidence : Nat, due : Nat, last : Nat]

Failing(a) == a.item.verdict \in {"wrong", "forgotten"}

\* What a row of the schedule owes to the evidence ev, on day d.
Earned(row, ev, d) ==
    /\ row.last # 0 <=> ev # {}
    /\ row.last # 0 => /\ row.evidence <= row.last /\ row.last <= d
                       /\ row.due = row.evidence + INTERVALS[IF row.successes = 0 THEN 1 ELSE row.successes]
    /\ row.successes > 0 =>
          \E a \in ev : /\ \A f \in ev : Failing(f) => f.item.at < a.item.at
                        /\ a.item.day + Span[row.successes] <= row.evidence
    /\ \A f \in ev : Failing(f) => f.item.day <= row.evidence

ScheduleInv ==
    /\ day # 0
    /\ \A a \in Answers : a.item.at \in Nat /\ a.item.at <= clock
    /\ review \in [Revision -> [Mode -> ReviewRow]]
    /\ \A r \in Revision, mode \in Mode : Earned(review[r][mode], Evidence(r, mode), day)

LEMMA IntervalType ==
    /\ Len(INTERVALS) \in Nat \ {0} /\ INTERVALS[1] = 1
    /\ \A n \in 1..Len(INTERVALS) : INTERVALS[n] \in Nat
<1>1. INTERVALS \in Seq(Nat \ {0}) /\ INTERVALS # <<>> /\ INTERVALS[1] = 1
  BY PracticeAssumption
<1>2. Len(INTERVALS) \in Nat /\ Len(INTERVALS) # 0
  BY <1>1
<1>3. \A n \in 1..Len(INTERVALS) : INTERVALS[n] \in Nat \ {0}
  BY <1>1
<1> QED BY <1>1, <1>2, <1>3

\* An interval takes n successes to the next one.
LEMMA SpanSteps ==
    /\ Span[1] = 0
    /\ \A n \in Nat \ {0} : Span[n + 1] = Span[n] + INTERVALS[n]
<1>1. Span[1] = 0
  BY SpanIs
<1>2. ASSUME NEW n \in Nat \ {0} PROVE Span[n + 1] = Span[n] + INTERVALS[n]
  <2>1. n + 1 \in Nat /\ ~(n + 1 <= 1) /\ (n + 1) - 1 = n
    OBVIOUS
  <2> QED BY <2>1, SpanIs
<1> QED BY <1>1, <1>2

LEMMA SpanType == \A n \in 1..Len(INTERVALS) : Span[n] \in Nat
<1> DEFINE T == {n \in 1..Len(INTERVALS) : Span[n] \notin Nat}
<1>1. SUFFICES ASSUME T # {} PROVE FALSE
  OBVIOUS
<1>2. PICK x \in T : \A y \in T : x <= y
  <2>1. T \subseteq Nat
    OBVIOUS
  <2> HIDE DEF T
  <2> QED BY <1>1, <2>1, FirstOpen
<1>3. x # 1
  BY <1>2, SpanSteps
<1>4. x - 1 \in 1..Len(INTERVALS) /\ x - 1 \notin T /\ (x - 1) + 1 = x
  BY <1>2, <1>3, IntervalType
<1>5. Span[x - 1] \in Nat /\ INTERVALS[x - 1] \in Nat
  BY <1>4, IntervalType
<1>6. Span[x] = Span[x - 1] + INTERVALS[x - 1]
  <2>1. x - 1 \in Nat \ {0}
    BY <1>2, <1>3, IntervalType
  <2> QED BY <1>4, <2>1, SpanSteps
<1> QED BY <1>2, <1>5, <1>6

LEMMA RowFields ==
    ASSUME NEW row \in ReviewRow
    PROVE  /\ row.successes \in 0..Len(INTERVALS) /\ row.evidence \in Nat /\ row.due \in Nat /\ row.last \in Nat
           /\ [row EXCEPT !.last = day].successes = row.successes /\ [row EXCEPT !.last = day].evidence = row.evidence
           /\ [row EXCEPT !.last = day].due = row.due /\ [row EXCEPT !.last = day].last = day
           /\ day \in Nat => [row EXCEPT !.last = day] \in ReviewRow
BY DEF ReviewRow

\* One more answer, today and after all others, keeps what the schedule owes.
LEMMA RecordedReview ==
    ASSUME day \in Nat \ {0}, NEW row \in ReviewRow, NEW ev, Earned(row, ev, day), NEW right \in BOOLEAN,
           \A b \in ev : b.item.at \in Nat /\ b.item.day \in Nat /\ b.item.day <= day,
           NEW a, a.item.day = day, a.item.at \in Nat, \A b \in ev : b.item.at < a.item.at, Failing(a) <=> ~right
    PROVE  record_review(row, right) \in ReviewRow /\ Earned(record_review(row, right), ev \union {a}, day)
<1> DEFINE new == record_review(row, right)
           ev2 == ev \union {a}
<1>0. /\ row.successes \in 0..Len(INTERVALS) /\ row.evidence \in Nat /\ row.due \in Nat /\ row.last \in Nat
      /\ Len(INTERVALS) \in Nat \ {0} /\ INTERVALS[1] = 1 /\ ev2 # {}
  BY RowFields, IntervalType
\* A failure, or the first answer of all, starts the schedule.
<1>1. CASE row.last = 0 \/ ~right
  <2>1. new = Restarted(right)
    BY <1>1 DEF record_review
  <2>2. /\ new.successes = (IF right THEN 1 ELSE 0) /\ new.evidence = day /\ new.due = day + 1 /\ new.last = day
        /\ new \in ReviewRow
    BY <1>0, <2>1 DEF Restarted, ReviewRow
  <2> HIDE DEF new
  <2>3. new.due = new.evidence + INTERVALS[IF new.successes = 0 THEN 1 ELSE new.successes]
    BY <1>0, <2>2
  <2>4. ASSUME new.successes > 0
        PROVE  \E b \in ev2 : /\ \A f \in ev2 : Failing(f) => f.item.at < b.item.at
                              /\ b.item.day + Span[new.successes] <= new.evidence
    <3>1. right /\ new.successes = 1
      BY <2>2, <2>4
    <3>2. \A f \in ev2 : Failing(f) => f.item.at < a.item.at
      BY <3>1
    <3>3. a.item.day + Span[new.successes] <= new.evidence
      BY <2>2, <3>1, SpanSteps
    <3> QED BY <3>2, <3>3
  <2>5. \A f \in ev2 : Failing(f) => f.item.day <= new.evidence
    BY <2>2
  <2> QED BY <1>0, <2>2, <2>3, <2>4, <2>5 DEF Earned, new
\* A success on the day the question is due, or later, is a step.
<1>2. CASE row.last # 0 /\ right /\ Kind(row) = "review" /\ day > row.evidence
  <2> DEFINE n == Smaller(row.successes + 1, Len(INTERVALS))
  <2>1. new = Stepped(row) /\ row.due <= day
    BY <1>0, <1>2 DEF record_review, Kind
  <2>2. n \in 1..Len(INTERVALS) /\ INTERVALS[n] \in Nat
    <3>1. n \in 1..Len(INTERVALS)
      BY <1>0 DEF Smaller
    <3> QED BY <3>1, IntervalType
  <2>2a. (n = row.successes + 1) \/ (n = row.successes /\ row.successes > 0)
    BY <1>0 DEF Smaller
  <2>3. /\ new.successes = n /\ new.evidence = day /\ new.due = day + INTERVALS[n] /\ new.last = day
        /\ new \in ReviewRow
    BY <2>1, <2>2 DEF Stepped, ReviewRow
  <2>4. /\ row.due = row.evidence + INTERVALS[IF row.successes = 0 THEN 1 ELSE row.successes]
        /\ row.successes > 0 =>
              \E b \in ev : /\ \A f \in ev : Failing(f) => f.item.at < b.item.at
                            /\ b.item.day + Span[row.successes] <= row.evidence
    BY <1>2 DEF Earned
  <2> HIDE DEF new, n
  <2>5. \E b \in ev2 : /\ \A f \in ev2 : Failing(f) => f.item.at < b.item.at
                       /\ b.item.day + Span[n] <= day
    <3>1. CASE row.successes = 0
      <4>1. n = 1 /\ a.item.day + Span[n] <= day
        BY <2>2a, <3>1, SpanSteps
      <4>2. \A f \in ev2 : Failing(f) => f.item.at < a.item.at
        BY <1>2
      <4> QED BY <4>1, <4>2
    <3>2. CASE row.successes # 0
      <4>1. row.successes \in 1..Len(INTERVALS)
        BY <1>0, <3>2
      <4>2. PICK b \in ev : /\ \A f \in ev : Failing(f) => f.item.at < b.item.at
                            /\ b.item.day + Span[row.successes] <= row.evidence
        BY <1>0, <2>4, <3>2
      <4>3. \A f \in ev2 : Failing(f) => f.item.at < b.item.at
        BY <1>2, <4>2
      <4>4. Span[row.successes] \in Nat /\ b.item.day \in Nat /\ INTERVALS[row.successes] \in Nat
        BY <4>1, SpanType, IntervalType
      <4>5. CASE n = row.successes
        BY <1>0, <1>2, <4>2, <4>3, <4>4, <4>5
      <4>6. CASE n = row.successes + 1
        <5>0. row.successes \in Nat \ {0}
          BY <1>0, <3>2
        <5>1. Span[n] = Span[row.successes] + INTERVALS[row.successes]
          BY <4>6, <5>0, SpanSteps
        <5>2. row.evidence + INTERVALS[row.successes] <= day
          BY <2>1, <2>4, <3>2
        <5>3. b.item.day + Span[n] <= day
          BY <1>0, <4>2, <4>4, <5>1, <5>2
        <5> QED BY <4>3, <5>3
      <4> QED BY <2>2a, <4>5, <4>6
    <3> QED BY <3>1, <3>2
  <2>6. \A f \in ev2 : Failing(f) => f.item.day <= new.evidence
    BY <2>3
  <2>7. new.successes # 0 /\ new.last # 0
    BY <2>2, <2>3
  <2> QED BY <1>0, <2>3, <2>5, <2>6, <2>7 DEF Earned, new
\* Otherwise a success is noted and moves nothing.
<1>3. CASE row.last # 0 /\ right /\ ~(Kind(row) = "review" /\ day > row.evidence)
  <2>1. new = [row EXCEPT !.last = day]
    BY <1>3 DEF record_review
  <2>2. /\ new.successes = row.successes /\ new.evidence = row.evidence /\ new.due = row.due /\ new.last = day
        /\ new \in ReviewRow
    BY <2>1, RowFields
  <2> HIDE DEF new
  <2>3. new.evidence <= new.last /\ new.due = new.evidence + INTERVALS[IF new.successes = 0 THEN 1 ELSE new.successes]
    BY <1>0, <1>3, <2>2 DEF Earned
  <2>4. \A f \in ev2 : Failing(f) => f \in ev
    BY <1>3
  <2>5. new.successes > 0 =>
           \E b \in ev2 : /\ \A f \in ev2 : Failing(f) => f.item.at < b.item.at
                          /\ b.item.day + Span[new.successes] <= new.evidence
    BY <2>2, <2>4 DEF Earned
  <2>6. \A f \in ev2 : Failing(f) => f.item.day <= new.evidence
    BY <2>2, <2>4 DEF Earned
  <2> QED BY <1>0, <2>2, <2>3, <2>5, <2>6 DEF Earned, new
<1> QED BY <1>1, <1>2, <1>3

\* A later day takes nothing from a schedule.
LEMMA ScheduleStays ==
    ASSUME RewardInv, ScheduleInv, Answers' = Answers, review' = review, clock' = clock, day' \in {day, day + 1}
    PROVE  ScheduleInv'
<1>1. day \in Nat /\ day' \in Nat /\ day <= day' /\ day' # 0
  BY DEF RewardInv, SessionInv, ScheduleInv
<1>2. ASSUME NEW r \in Revision, NEW mode \in Mode
      PROVE  Earned(review'[r][mode], Evidence(r, mode)', day')
  <2>1. Earned(review[r][mode], Evidence(r, mode), day) /\ review[r][mode] \in ReviewRow
    BY DEF ScheduleInv
  <2>2. Evidence(r, mode)' = Evidence(r, mode) /\ review'[r][mode] = review[r][mode]
    BY DEF Evidence
  <2>3. review[r][mode].last \in Nat
    BY <2>1, RowFields
  <2>4. review[r][mode].last <= day => review[r][mode].last <= day'
    BY <1>1, <2>3
  <2> QED BY <2>1, <2>2, <2>4 DEF Earned
<1> QED BY <1>1, <1>2 DEF ScheduleInv

LEMMA ScheduleAnswers ==
    ASSUME RewardInv, ScheduleInv, NEW k \in Key, NEW n \in Slots(session[k]), NEW right \in BOOLEAN,
           answer_question(k, n, right)
    PROVE  ScheduleInv'
<1> DEFINE a == [mode |-> session[k].mode, item |-> session'[k].items[n]]
           r == session[k].items[n].revision
           m == session[k].mode
<1>0. SessionInv /\ clock \in Nat /\ day \in Nat \ {0}
  BY DEF RewardInv, SessionInv, ScheduleInv
<1>1. Answers' = Answers \union {a}
  BY <1>0, AnswerAdds
<1>2. /\ a.mode = m /\ a.item.revision = r /\ a.item.day = day /\ a.item.at = clock + 1
      /\ a.item.verdict = Verdict(m, right)
      /\ a.item.kind = IF IsCurrent(r, m) THEN Kind(review[r][m]) ELSE "historical"
  BY <1>0, AnswerStep DEF GoesOn
<1>3. /\ review' = IF IsCurrent(r, m) THEN [review EXCEPT ![r][m] = record_review(review[r][m], right)] ELSE review
      /\ clock' = clock + 1 /\ day' = day
  BY DEF answer_question
<1> HIDE DEF a, r, m
<1>4. Failing(a) <=> ~right
  BY <1>2 DEF Failing, Verdict
<1>5. \A b \in Answers : b.item.at \in Nat /\ b.item.at < a.item.at /\ b.item.day \in Nat /\ b.item.day <= day
  BY <1>0, <1>2 DEF RewardInv, ScheduleInv
<1>6. \A b \in Answers' : b.item.at \in Nat /\ b.item.at <= clock'
  BY <1>0, <1>1, <1>2, <1>3 DEF ScheduleInv
<1>7. \A q, mode : Evidence(q, mode)' =
          Evidence(q, mode) \union IF mode = m /\ q = r /\ a.item.kind # "historical" THEN {a} ELSE {}
  BY <1>1, <1>2 DEF Evidence
<1>8. Kind(review[r][m]) # "historical"
  BY DEF Kind
<1>9. ASSUME NEW q \in Revision, NEW mode \in Mode
      PROVE  review'[q][mode] \in ReviewRow /\ Earned(review'[q][mode], Evidence(q, mode)', day')
  <2>1. review[q][mode] \in ReviewRow /\ Earned(review[q][mode], Evidence(q, mode), day)
    BY DEF ScheduleInv
  <2>2. CASE IsCurrent(r, m) /\ q = r /\ mode = m
    <3>1. review'[q][mode] = record_review(review[r][m], right)
      BY <1>3, <2>2 DEF ScheduleInv
    <3>2. Evidence(q, mode)' = Evidence(r, m) \union {a}
      BY <1>2, <1>7, <1>8, <2>2
    <3>3. \A b \in Evidence(r, m) : b \in Answers
      BY DEF Evidence
    <3>4. /\ record_review(review[r][m], right) \in ReviewRow
          /\ Earned(record_review(review[r][m], right), Evidence(r, m) \union {a}, day)
      BY <1>0, <1>2, <1>4, <1>5, <2>1, <2>2, <3>3, RecordedReview
    <3> QED BY <1>3, <3>1, <3>2, <3>4
  <2>3. CASE ~(IsCurrent(r, m) /\ q = r /\ mode = m)
    <3>1. review'[q][mode] = review[q][mode]
      BY <1>3, <2>3 DEF ScheduleInv
    <3>2. Evidence(q, mode)' = Evidence(q, mode)
      BY <1>2, <1>7, <2>3
    <3> QED BY <1>3, <2>1, <3>1, <3>2
  <2> QED BY <2>2, <2>3
<1>10. review' \in [Revision -> [Mode -> ReviewRow]]
  <2>1. \A q \in Revision : review'[q] = [mode \in Mode |-> review'[q][mode]]
    BY <1>3 DEF ScheduleInv
  <2>2. review' = [q \in Revision |-> review'[q]]
    BY <1>3 DEF ScheduleInv
  <2> QED BY <1>9, <2>1, <2>2
<1> QED BY <1>0, <1>3, <1>6, <1>9, <1>10 DEF ScheduleInv

LEMMA ScheduleStep == RewardInv /\ ScheduleInv /\ [PracticeNext]_practiceVars => ScheduleInv'
<1> SUFFICES ASSUME RewardInv, ScheduleInv, [PracticeNext]_practiceVars
             PROVE  ScheduleInv'
  OBVIOUS
<1>0. SessionInv
  BY DEF RewardInv
<1>1. ASSUME NEW k \in Key, NEW scope, NEW mode, NEW selection, start_session(k, scope, mode, selection)
      PROVE  ScheduleInv'
  <2>1. Answers' = Answers
    BY <1>0, <1>1, StartStep, AnswersStay
  <2> QED BY <1>1, <2>1, ScheduleStays DEF start_session
<1>2. ASSUME NEW k \in Key, NEW n \in Slots(session[k]), reveal_question(k, n)
      PROVE  ScheduleInv'
  <2>1. Answers' = Answers
    BY <1>0, <1>2, RevealStep, AnswersStay
  <2> QED BY <1>2, <2>1, ScheduleStays DEF reveal_question
<1>3. ASSUME NEW k \in Key, abandon_session(k)
      PROVE  ScheduleInv'
  <2>1. Answers' = Answers
    BY <1>0, <1>3, AbandonStep, AnswersStay
  <2> QED BY <1>3, <2>1, ScheduleStays DEF abandon_session
<1>4. ASSUME UNCHANGED <<session, review, clock>>, day' \in {day, day + 1}
      PROVE  ScheduleInv'
  <2>1. Answers' = Answers
    BY <1>4 DEF Answers, Slots
  <2> QED BY <1>4, <2>1, ScheduleStays
<1>5. CASE NewContent \/ NextDay \/ (\E t \in Topic, mark \in BOOLEAN : mark_studied(t, mark)) \/ UNCHANGED practiceVars
  BY <1>4, <1>5 DEF NewContent, NextDay, mark_studied, practiceVars
<1>6. CASE \E k \in Key :
          \/ \E scope \in Scope, offer \in Offer : start_session(k, scope, offer[1], offer[2])
          \/ \E n \in Slots(session[k]) :
                reveal_question(k, n) \/ \E right \in BOOLEAN : answer_question(k, n, right)
          \/ abandon_session(k)
  BY <1>1, <1>2, <1>3, <1>6, ScheduleAnswers
<1> QED BY <1>5, <1>6 DEF PracticeNext

LEMMA ScheduleStart == PracticeInit => ScheduleInv
<1> SUFFICES ASSUME PracticeInit
             PROVE  ScheduleInv
  OBVIOUS
<1>1. Answers = {} /\ day = 1
  BY DEF PracticeInit, Answers, NoSession, Slots
<1>2. NoReview \in ReviewRow /\ NoReview.last = 0 /\ NoReview.successes = 0
  BY IntervalType DEF NoReview, ReviewRow
<1>3. review \in [Revision -> [Mode -> ReviewRow]]
  BY <1>2 DEF PracticeInit
<1>4. \A r, mode : Evidence(r, mode) = {}
  BY <1>1 DEF Evidence
<1>5. \A r \in Revision, mode \in Mode : review[r][mode] = NoReview
  BY DEF PracticeInit
<1> QED BY <1>1, <1>2, <1>3, <1>4, <1>5 DEF ScheduleInv, Earned

\* Whatever is answered, repeated, answered early or in sessions with old revisions, a question's
\* schedule (record_review, reviews.py) rests on as many successes as it says, spread over the
\* intervals between them and all after the last failure.
THEOREM SchedulesAreEarned == PracticeSpec => []ScheduleIsEarned
<1>1. ASSUME ScheduleInv PROVE ScheduleIsEarned
  <2> SUFFICES ASSUME NEW r \in Revision, NEW mode \in Mode
               PROVE  LET row == review[r][mode] IN
                      /\ row.last # 0 <=> Evidence(r, mode) # {}
                      /\ row.last # 0 => /\ row.evidence <= row.last /\ row.last <= day
                                         /\ row.due = row.evidence + INTERVALS[IF row.successes = 0 THEN 1 ELSE row.successes]
                      /\ row.successes > 0 =>
                            /\ \E a \in SinceFailure(r, mode) : a.item.day + Span[row.successes] <= row.evidence
                            /\ \A f \in Failures(r, mode) : f.item.day <= row.evidence
                      /\ \A f \in Failures(r, mode) : f.item.day <= row.evidence
    BY DEF ScheduleIsEarned
  <2>1. Earned(review[r][mode], Evidence(r, mode), day)
    BY <1>1 DEF ScheduleInv
  <2>2. \A f : f \in Failures(r, mode) <=> f \in Evidence(r, mode) /\ Failing(f)
    BY DEF Failures, Failing
  <2>3. \A a : a \in SinceFailure(r, mode) <=>
           a \in Evidence(r, mode) /\ \A f \in Evidence(r, mode) : Failing(f) => f.item.at < a.item.at
    BY <2>2 DEF SinceFailure
  <2> QED BY <2>1, <2>2, <2>3 DEF Earned
<1> QED BY <1>1, RewardStart, RewardStep, ScheduleStart, ScheduleStep, PTL DEF PracticeSpec
=============================================================================
