-------------------------- MODULE LiveStudentPage --------------------------
(***************************************************************************)
(* A student's page (static/live-quiz.js) in a live quiz, over a network   *)
(* that loses and delays: the poll loop that connects, renders the state   *)
(* and loads the question's answer bank and clock; the heartbeat; the      *)
(* answer form, whose requests may arrive after the page gave them up.     *)
(*                                                                         *)
(* pollBusy admits one poll at a time, so the poll loop has one step in    *)
(* progress; heartbeats and answers run beside it.  A request is executed  *)
(* by the server in one step and heard of by the page in a later one; it   *)
(* may be lost before the first or between the two.  The teacher's         *)
(* requests are those of LiveHostPage, already sorted out.                 *)
(***************************************************************************)
EXTENDS LiveQuiz

CONSTANTS
    me,             \* the student at the page
    MaxAnswers      \* bound: answers in flight at once

ASSUME StudentPageAssumption == me \in Student /\ \E c \in Connection : Owner[c] = me

VARIABLES
    page,           \* the page's script: see NewPage
    conn,           \* its connection key
    answers,        \* answers on their way to the server
    reply,          \* what the awaited answer was told
    meant           \* history: the question the recorded text was typed for

studentVars == <<vars, page, conn, answers, reply, meant>>

Blank == [phase |-> "none", version |-> -1, position |-> 0, revealing |-> FALSE,
          prompt |-> FALSE, response |-> "none"]

NewPage ==
    [current |-> Blank,         \* the state rendered last
     step |-> "idle",           \* where poll() stands
     data |-> Blank,            \* the state read and not yet rendered
     connected |-> FALSE, stopped |-> FALSE,
     bank |-> 0,                \* bankPosition
     finalized |-> [q \in Question |-> "none"],
     typed |-> 0,               \* the question the text in the box was typed for, 0: empty
     busy |-> 0]                \* answerBusy: the question whose answer is awaited, 0: none

Mine(c) == Owner[c] = me

PageInit ==
    /\ Init
    /\ page = NewPage
    /\ conn = CHOOSE c \in Connection : Mine(c)
    /\ answers = {} /\ reply = "none"
    /\ meant = [q \in Question |-> 0]

-----------------------------------------------------------------------------
(* Mistakes for the mutation runs, as in LiveQuiz.                         *)

Prompted_Always == phase = "running" /\ opened_at[position] <= now
KeepsText_NextQuestion(data) == page.typed
Outcome_AsGraded(entry) == entry.how
AfterSuggestions_Loaded(q) == q

-----------------------------------------------------------------------------
(* The state view, as read by this student.                                *)

\* The prompt is revealed only once the student's persisted clock has begun.
Prompted ==
    /\ phase = "running" /\ opened_at[position] <= now
    /\ me \in Roster /\ timer_position[me] = position

Snapshot ==
    [phase |-> phase, version |-> version, position |-> position,
     revealing |-> phase = "running" /\ opened_at[position] > now,
     prompt |-> Prompted,
     response |-> IF phase = "running" /\ me \in Roster THEN response[me][position].status
                  ELSE "none"]

SignedIn == account[me] = "ready"
CanView == SignedIn /\ (Open \/ (phase = "cancelled" /\ me \in joined) \/ me \in Roster)

-----------------------------------------------------------------------------
(* What the page shows.                                                    *)

Over(state) == state.phase \in {"finished", "cancelled"}
OnScreen == page.current.phase = "running" /\ ~page.current.revealing

Feedback ==
    IF page.current.response # "none" THEN page.current.response
    ELSE page.finalized[page.current.position]

FormShown ==
    /\ OnScreen /\ Feedback = "none"
    /\ page.current.prompt /\ page.bank = page.current.position

\* render(): another question empties the box and forgets the bank.
KeepsText(data) == IF data.position = page.current.position THEN page.typed ELSE 0
KeepsBank(data) == IF data.position = page.current.position THEN page.bank ELSE 0

Rendered(data) ==
    [page EXCEPT !.current = data, !.typed = KeepsText(data), !.bank = KeepsBank(data),
                 !.data = Blank]

\* loadBank() has something to load.
WantsBank(p) ==
    /\ p.current.phase = "running" /\ ~p.current.revealing
    /\ p.current.response = "none" /\ p.finalized[p.current.position] = "none"
    /\ p.bank # p.current.position

-----------------------------------------------------------------------------
(* poll().                                                                 *)

Continue(step) == page' = [page EXCEPT !.step = step, !.data = Blank]
Fatal == page' = [page EXCEPT !.stopped = TRUE, !.step = "idle", !.data = Blank]
Idle == UNCHANGED <<vars, conn, answers, reply, meant>>

Fetch ==
    /\ ~page.stopped
    /\ \/ page.step = "idle" /\ ~Over(page.current)
       \/ page.step = "refetch"
    /\ IF CanView THEN page' = [page EXCEPT !.step = "state", !.data = Snapshot] ELSE Fatal
    /\ Idle

Arrive ==
    /\ ~page.stopped /\ page.step = "state"
    /\ IF ~page.connected /\ ~Over(page.data)
       THEN Continue("connect")
       ELSE LET p == Rendered(page.data)
            IN  page' = [p EXCEPT !.step = IF WantsBank(p) THEN "bank" ELSE "idle"]
    /\ Idle

Connect ==
    /\ ~page.stopped /\ page.step = "connect"
    /\ \/ Join(conn) /\ Continue("joined")
       \/ /\ ~(SignedIn /\ Open /\ conn \notin ended)
          /\ IF CanView THEN Continue("idle") ELSE Fatal
          /\ UNCHANGED vars
    /\ UNCHANGED <<conn, answers, reply, meant>>

Joined ==
    /\ ~page.stopped /\ page.step = "joined"
    /\ page' = [page EXCEPT !.connected = TRUE, !.step = "refetch"]
    /\ Idle

\* bankPosition changes only once the clock is granted.
AfterSuggestions(q) == page.bank

\* suggestions/: not found for whoever is not a player, a conflict when it is too late
\* or too early.
Bank ==
    LET q == page.current.position IN
    /\ ~page.stopped /\ page.step = "bank"
    /\ IF ~SignedIn \/ me \notin Roster THEN Fatal
       ELSE IF phase = "running" /\ position = q /\ opened_at[q] <= now
       THEN page' = [page EXCEPT !.step = "clock", !.bank = AfterSuggestions(q)]
       ELSE Continue("idle")
    /\ Idle

\* ready/ starts the clock, or finds it started; a conflict is swallowed.
Clock ==
    LET q == page.current.position
        granted == SignedIn /\ me \in Roster /\ Accepting(q) /\ Connected(me)
    IN
    /\ ~page.stopped /\ page.step = "clock"
    /\ IF granted /\ NeedsClock(me, q) THEN Ready(me, q) ELSE UNCHANGED vars
    /\ IF granted THEN Continue("clocked")
       ELSE IF SignedIn /\ me \in Roster THEN Continue("idle") ELSE Fatal
    /\ UNCHANGED <<conn, answers, reply, meant>>

Clocked ==
    /\ ~page.stopped /\ page.step = "clocked"
    /\ page' = [page EXCEPT !.current.prompt = TRUE, !.bank = page.current.position,
                            !.step = "idle"]
    /\ Idle

\* A lost request or reply, a time-out, a 5xx: poll() starts over.
Fail ==
    /\ ~page.stopped /\ page.step # "idle"
    /\ Continue("idle")
    /\ Idle

-----------------------------------------------------------------------------
(* The heartbeat.                                                          *)

Beat ==
    /\ page.connected /\ ~page.stopped
    /\ page.current.phase \in {"waiting", "running"}
    /\ \/ Heartbeat(conn) /\ UNCHANGED page
       \/ ~SignedIn /\ Fatal /\ UNCHANGED vars
    /\ UNCHANGED <<conn, answers, reply, meant>>

-----------------------------------------------------------------------------
(* The answer form.  It stays on a stopped page.                           *)

Type ==
    /\ FormShown
    /\ page' = [page EXCEPT !.typed = page.current.position]
    /\ Idle

Submit(how) ==
    LET q == page.current.position IN
    /\ FormShown /\ page.busy = 0
    /\ Cardinality(answers) < MaxAnswers
    /\ how = "skipped" \/ page.typed # 0
    /\ page' = [page EXCEPT !.busy = q]
    /\ answers' = answers \union
          {[position |-> q, how |-> how, awaited |-> TRUE,
            typed |-> IF how = "skipped" THEN q ELSE page.typed]}
    /\ UNCHANGED <<vars, conn, reply, meant>>

\* A question answered before is told the recorded outcome, not a new one.
Outcome(entry) ==
    IF Answered(me, entry.position) THEN response[me][entry.position].status ELSE entry.how

\* The server takes an answer that reached it, perhaps long after it was sent.
Take(entry) ==
    LET q == entry.position
        playing == SignedIn /\ me \in Roster
        final == Accepting(q) /\ (Answered(me, q) \/ Connected(me))
    IN
    /\ entry \in answers
    /\ answers' = answers \ {entry}
    /\ IF playing /\ final /\ ~Answered(me, q)
       THEN Answer(me, q, entry.how) /\ meant' = [meant EXCEPT ![q] = entry.typed]
       ELSE UNCHANGED <<vars, meant>>
    /\ reply' = IF ~entry.awaited THEN reply
                ELSE IF ~playing THEN "fatal"
                ELSE IF final THEN Outcome(entry) ELSE "conflict"
    /\ UNCHANGED <<page, conn>>

\* The reply is heard; an outcome is shown only if its question still is.
Hear ==
    LET shown == ~page.stopped /\ OnScreen /\ page.current.position = page.busy IN
    /\ page.busy # 0 /\ reply # "none"
    /\ reply' = "none"
    /\ page' = IF reply = "fatal" THEN [page EXCEPT !.stopped = TRUE, !.step = "idle", !.busy = 0]
               ELSE IF reply # "conflict" /\ shown
               THEN [page EXCEPT !.finalized[page.busy] = reply, !.busy = 0]
               ELSE [page EXCEPT !.busy = 0]
    /\ UNCHANGED <<vars, conn, answers, meant>>

GiveUp(entry) == [entry EXCEPT !.awaited = FALSE]
Abandoned == {GiveUp(entry) : entry \in answers}

Timeout ==
    /\ page.busy # 0
    /\ page' = [page EXCEPT !.busy = 0] /\ reply' = "none" /\ answers' = Abandoned
    /\ UNCHANGED <<vars, conn, meant>>

Lose(entry) ==
    /\ entry \in answers
    /\ answers' = answers \ {entry}
    /\ UNCHANGED <<vars, page, conn, reply, meant>>

-----------------------------------------------------------------------------
(* Leaving and coming back.                                                *)

\* The leave/ request, or the beacon of a closing page: it may not arrive.
TellLeaving == UNCHANGED vars \/ (page.connected /\ Leave(conn))

LeaveQuiz ==
    /\ page.current.phase \in {"waiting", "running"} /\ ~page.stopped
    /\ TellLeaving
    /\ page' = [NewPage EXCEPT !.stopped = TRUE]
    /\ answers' = Abandoned /\ reply' = "none"
    /\ UNCHANGED <<conn, meant>>

\* A page load draws a new connection key.
Fresh(c) == Mine(c) /\ c # conn /\ last_seen[c] = None

Reload ==
    /\ \E c \in Connection : Fresh(c)
    /\ conn' = CHOOSE c \in Connection : Fresh(c)
    /\ TellLeaving
    /\ page' = NewPage
    /\ answers' = Abandoned /\ reply' = "none"
    /\ UNCHANGED meant

-----------------------------------------------------------------------------
(* Everybody else.                                                         *)

Teacher ==
    \E action \in {"start", "cancel", "next", "end"} :
        /\ \E k \in Key : ~KeyUsed(k)
        /\ Transition([key |-> CHOOSE k \in Key : ~KeyUsed(k), action |-> action,
                       version |-> version, position |-> position])

Around ==
    /\ \/ Teacher
       \/ Bar(me) \/ Unbar(me) \/ Delete(me)
       \/ Tick
       \/ \E c \in Connection : ~Mine(c) /\ (Join(c) \/ Heartbeat(c))
    /\ UNCHANGED <<page, conn, answers, reply, meant>>

Script ==
    \/ Fetch \/ Arrive \/ Connect \/ Joined \/ Bank \/ Clock \/ Clocked \/ Fail
    \/ Beat
    \/ Type \/ (\E how \in Outcomes : Submit(how))
    \/ (\E entry \in answers : Take(entry) \/ Lose(entry)) \/ Hear \/ Timeout
    \/ LeaveQuiz \/ Reload

StudentNext == Script \/ Around

StudentSpec == PageInit /\ [][StudentNext]_studentVars

\* The browser's timers keep poll() and the heartbeat going, and a request repeated for
\* ever is not lost for ever.
ScriptFairness ==
    /\ WF_studentVars(Fetch) /\ SF_studentVars(Arrive) /\ SF_studentVars(Connect)
    /\ SF_studentVars(Joined) /\ SF_studentVars(Bank) /\ SF_studentVars(Clock)
    /\ SF_studentVars(Clocked) /\ SF_studentVars(Beat)

FairStudentSpec == StudentSpec /\ ScriptFairness

-----------------------------------------------------------------------------
(* Properties.                                                             *)

Here == account[me] # "deleted"

\* The outcome the page shows for a question is the one on record, although the answer
\* may have been sent twice, timed out and changed, or overtaken by the teacher's Next.
FeedbackIsTrue ==
    Here /\ OnScreen /\ Feedback # "none" =>
        Feedback = response[me][page.current.position].status

\* What was typed for one question is never recorded as the answer to another.
AnswersAsMeant == \A q \in Question : meant[q] \in {0, q}

\* The page shows no prompt before the server has started the student's clock for it
\* (live_views.py:136).
PromptNeedsClock ==
    Here /\ OnScreen /\ page.current.prompt => timer_position[me] >= page.current.position

\* A player whose page stays open is asked: once a question is open, the page comes to
\* show its form or its outcome, unless the question passes or the page stops.
PlayerIsAsked ==
    \A q \in Question :
        (Accepting(q) /\ me \in Roster) ~>
            \/ ~Accepting(q) \/ page.stopped
            \/ page.current.position = q /\ OnScreen /\ (FormShown \/ Feedback # "none")

\* "connections recover through the same polling/heartbeat flow"
\* (docs/TEACHER_TOOLS_PHASE4.md:81): the page's script gives up only on a student who
\* may not sign in or view the quiz.
PagesRecover ==
    [][~page.stopped /\ page'.stopped /\ page'.current.phase # "none" =>
          ~CanView \/ reply = "fatal" ]_studentVars
=============================================================================
