------------------------- MODULE LiveStudentPageProofs -------------------------
(***************************************************************************)
(* Proofs about the student's page of a live quiz: for any number of       *)
(* questions, page loads and answers under way, and whatever is lost,      *)
(* delayed or overtaken, what the page shows is what the server recorded,  *)
(* and no answer is recorded for a question it was not typed for.          *)
(***************************************************************************)
EXTENDS LiveStudentPage, LiveQuizProofs

(***************************************************************************)
(* The inductive invariant.                                                *)
(***************************************************************************)

Recorded == {"correct", "incorrect", "skipped", "unanswered"}
State == [phase : {"none", "waiting", "running", "finished", "cancelled"}, version : Int,
          position : 0..QuestionCount, revealing : BOOLEAN, prompt : BOOLEAN,
          response : Recorded \union {"none"}]
ScriptState == [current : State, step : {"idle", "state", "refetch", "connect", "joined", "bank", "clock", "clocked"},
         data : State, connected : BOOLEAN, stopped : BOOLEAN, bank : 0..QuestionCount,
         finalized : [Question -> Recorded \union {"none"}], typed : 0..QuestionCount,
         busy : 0..QuestionCount]
Entry == [position : Question, how : Outcomes, awaited : BOOLEAN, typed : Question]

\* Whatever the page holds has the form its script gives it.
PageTypes ==
    /\ page \in ScriptState
    /\ conn \in Connection /\ Owner[conn] = me
    /\ answers \subseteq Entry
    /\ reply \in Recorded \union {"none", "conflict", "fatal"}
    /\ meant \in [Question -> 0..QuestionCount]

\* A running state is one of some question.
Placed(state) == state.phase = "running" => state.position \in Question

\* The box holds what was typed for the question on the screen, and each answer under way
\* what was typed for its own; the awaited one is the form's.
FormOK ==
    /\ Placed(page.current) /\ Placed(page.data)
    /\ page.typed \in {0, page.current.position}
    /\ \A entry \in answers :
          /\ entry.typed = entry.position
          /\ entry.awaited => entry.position = page.busy
    /\ \A e, f \in answers : e.awaited /\ f.awaited => e = f
    /\ reply # "none" => page.busy \in Question /\ \A entry \in answers : ~entry.awaited

\* A state, a reply and a remembered outcome say nothing the server does not: row holds
\* the student's outcomes by now, clock the question their clock was started for.
TrueState(state, row, clock) ==
    state.phase = "running" =>
        /\ state.response \in {"none", row[state.position].status}
        /\ state.prompt => clock >= state.position

TruePage(p, told, row, clock) ==
    /\ TrueState(p.current, row, clock)
    /\ TrueState(p.data, row, clock)
    /\ \A q \in Question : p.finalized[q] \in {"none", row[q].status}
    /\ p.step = "clocked" => clock >= p.current.position
    /\ told \in Recorded => told = row[p.busy].status

StudentInv ==
    /\ PageTypes
    /\ FormOK
    /\ AnswersAsMeant
    /\ Here => TruePage(page, reply, response[me], timer_position[me])

(***************************************************************************)
(* The page's requests are requests to the server: each step of the page   *)
(* and of everybody else is a step of LiveQuiz or leaves it alone.         *)
(***************************************************************************)

LEMMA MeIsStudent == me \in Student
BY StudentPageAssumption

LEMMA ServerStep ==
    ASSUME TypeOK, IInv, Numbered, PageTypes, [StudentNext]_studentVars
    PROVE  [Next]_vars
<1> USE MeIsStudent
<1>1. conn \in Connection
    BY DEF PageTypes
<1>2. \A q : Accepting(q) => q \in Question
    BY DEF Accepting, IInv, Shape
<1>3. ASSUME NEW entry \in answers, Take(entry) PROVE [Next]_vars
    <2>1. entry.position \in Question /\ entry.how \in Outcomes
        BY DEF PageTypes, Entry
    <2>2. QED BY <1>3, <2>1 DEF Take, Next
<1>4. CASE Clock
    BY <1>2, <1>4 DEF Clock, Next
<1>5. CASE Teacher
    <2>1. PICK action \in {"start", "cancel", "next", "end"} :
            /\ \E k \in Key : ~KeyUsed(k)
            /\ Transition([key |-> CHOOSE k \in Key : ~KeyUsed(k), action |-> action,
                           version |-> version, position |-> position])
        BY <1>5 DEF Teacher
    <2> DEFINE key == CHOOSE k \in Key : ~KeyUsed(k)
    <2>2. key \in Key
        BY <2>1
    <2>3. version \in 0..QuestionCount + 1 /\ position \in 0..QuestionCount
        BY Numbers, LiveQuizAssumption DEF Numbered, TypeOK, GameTypes
    <2> HIDE DEF key
    <2>4. [key |-> key, action |-> action, version |-> version, position |-> position] \in Request
        BY <2>2, <2>3 DEF Request
    <2>5. QED BY <2>1, <2>4 DEF key, Next
<1>6. CASE Around
    <2>1. CASE Teacher
        BY <1>5, <2>1
    <2>2. CASE ~Teacher
        BY <1>6, <2>2 DEF Around, Next
    <2>3. QED BY <2>1, <2>2
<1>7. CASE TellLeaving
    BY <1>1, <1>7 DEF TellLeaving, Next
<1>8. CASE UNCHANGED vars
    BY <1>8
<1>9. CASE Script
    <2>1. CASE Connect \/ Beat
        BY <1>1, <2>1 DEF Connect, Beat, Next
    <2>2. CASE Fetch \/ Arrive \/ Joined \/ Bank \/ Clocked \/ Fail \/ Type \/ Hear \/ Timeout
        BY <2>2 DEF Fetch, Arrive, Joined, Bank, Clocked, Fail, Type, Hear, Timeout, Idle
    <2>3. CASE LeaveQuiz \/ Reload
        BY <1>7, <2>3 DEF LeaveQuiz, Reload
    <2>4. CASE \E how \in Outcomes : Submit(how)
        BY <2>4 DEF Submit
    <2>5. CASE \E entry \in answers : Lose(entry)
        BY <2>5 DEF Lose
    <2>6. QED BY <1>3, <1>4, <1>9, <2>1, <2>2, <2>3, <2>4, <2>5 DEF Script
<1>10. QED BY <1>6, <1>8, <1>9 DEF StudentNext, studentVars

(***************************************************************************)
(* What was true of the page stays true while the server moves on.         *)
(***************************************************************************)

Row == [Question -> Score]

LEMMA StateStaysTrue ==
    ASSUME NEW state \in State, Placed(state), NEW row \in Row, NEW later \in Row,
           NEW clock \in Nat, NEW after \in Nat, TrueState(state, row, clock), after >= clock,
           \A q \in Question : row[q].status # "none" => later[q].status = row[q].status
    PROVE  TrueState(state, later, after)
<1> SUFFICES ASSUME state.phase = "running"
             PROVE  /\ state.response \in {"none", later[state.position].status}
                    /\ state.prompt => after >= state.position
    BY DEF TrueState
<1>1. state.position \in Question /\ state.position \in Nat
    BY LiveQuizAssumption DEF Placed, Question
<1>2. state.response # "none" => later[state.position].status = state.response
    BY <1>1 DEF TrueState
<1>3. state.prompt => after >= state.position
    BY <1>1 DEF TrueState
<1>4. QED BY <1>2, <1>3

LEMMA PageStaysTrue ==
    ASSUME TypeOK, IInv, [Next]_vars, TypeOK', PageTypes, FormOK,
           Here => TruePage(page, reply, response[me], timer_position[me]), Here'
    PROVE  TruePage(page, reply, response'[me], timer_position'[me])
<1> DEFINE row == response[me]
           later == response'[me]
           clock == timer_position[me]
           after == timer_position'[me]
<1>1. Here /\ \A q \in Question : row[q].status # "none" => later[q].status = row[q].status
    BY MeIsStudent, OutcomesStand DEF Here, Answered
<1>2. after >= clock /\ clock \in Nat /\ after \in Nat
    BY MeIsStudent, ClockStep, LiveQuizAssumption DEF Here, TypeOK, PlayerTypes
<1>3. row \in Row /\ later \in Row
    BY MeIsStudent DEF Row, TypeOK, ResponseTypes
<1>4. /\ page.current \in State /\ page.data \in State /\ page.finalized \in [Question -> Recorded \union {"none"}]
      /\ page.current.position \in Nat
    BY LiveQuizAssumption DEF PageTypes, ScriptState, State
<1>5. TruePage(page, reply, row, clock)
    BY <1>1
<1> HIDE DEF row, later, clock, after
<1>6. TrueState(page.current, later, after) /\ TrueState(page.data, later, after)
    BY <1>1, <1>2, <1>3, <1>4, <1>5, StateStaysTrue DEF TruePage, FormOK
<1>7. \A q \in Question : page.finalized[q] \in {"none", later[q].status}
    BY <1>1, <1>5 DEF TruePage
<1>8. page.step = "clocked" => after >= page.current.position
    BY <1>2, <1>4, <1>5 DEF TruePage
<1>9. reply \in Recorded => reply = later[page.busy].status
    <2> SUFFICES ASSUME reply \in Recorded PROVE reply = later[page.busy].status
        OBVIOUS
    <2>1. page.busy \in Question /\ reply = row[page.busy].status /\ reply # "none"
        BY <1>5 DEF TruePage, FormOK, Recorded
    <2>2. QED BY <1>1, <2>1
<1>10. QED BY <1>6, <1>7, <1>8, <1>9 DEF TruePage, later, after

\* What the page knew before the step, of the server after it.
Informed ==
    /\ TypeOK /\ IInv /\ TypeOK' /\ IInv'
    /\ PageTypes /\ FormOK /\ AnswersAsMeant
    /\ Here' => Here /\ TruePage(page, reply, response'[me], timer_position'[me])

\* A step of poll() moves the script on, with a state that is blank or true.
LEMMA PollStep ==
    ASSUME Informed, UNCHANGED <<conn, answers, reply, meant>>,
           page' \in ScriptState,
           page'.current = page.current, page'.finalized = page.finalized,
           page'.typed = page.typed, page'.busy = page.busy,
           Placed(page'.data),
           Here' => TrueState(page'.data, response'[me], timer_position'[me]),
           Here' /\ page'.step = "clocked" => timer_position'[me] >= page.current.position
    PROVE  StudentInv'
<1>1. PageTypes'
    BY DEF Informed, PageTypes
<1>2. FormOK'
    BY DEF Informed, FormOK
<1>3. AnswersAsMeant'
    BY DEF Informed, AnswersAsMeant
<1>4. Here' => TruePage(page', reply', response'[me], timer_position'[me])
    BY DEF Informed, TruePage
<1>5. QED BY <1>1, <1>2, <1>3, <1>4 DEF StudentInv

LEMMA BlankState ==
    /\ Blank \in State /\ Placed(Blank)
    /\ \A row, clock : TrueState(Blank, row, clock)
BY LiveQuizAssumption DEF Blank, State, Placed, TrueState

LEMMA FreshPage ==
    /\ NewPage \in ScriptState
    /\ \A row, clock : TruePage(NewPage, "none", row, clock)
BY BlankState, LiveQuizAssumption DEF NewPage, ScriptState, TruePage, Recorded

LEMMA SnapshotIsTrue ==
    ASSUME TypeOK, IInv
    PROVE  /\ Snapshot \in State /\ Placed(Snapshot)
           /\ TrueState(Snapshot, response[me], timer_position[me])
<1> USE MeIsStudent
<1>1. phase = "running" => position \in Question
    BY DEF IInv, Shape
<1>2. version \in Int /\ position \in 0..QuestionCount
    BY DEF TypeOK, GameTypes
<1>3. phase = "running" => response[me][position].status \in Recorded \union {"none"}
    BY <1>1 DEF TypeOK, ResponseTypes, Score, Recorded
<1>4. Snapshot \in State
    <2>1. Prompted \in BOOLEAN /\ (phase = "running" /\ opened_at[position] > now) \in BOOLEAN
        BY DEF Prompted
    <2>2. QED BY <1>2, <1>3, <2>1 DEF Snapshot, State, TypeOK, GameTypes
<1>5. Placed(Snapshot)
    BY <1>1 DEF Snapshot, Placed
<1>6. TrueState(Snapshot, response[me], timer_position[me])
    BY <1>2, LiveQuizAssumption DEF Snapshot, TrueState, Prompted
<1>7. QED BY <1>4, <1>5, <1>6

(***************************************************************************)
(* The steps of poll().                                                    *)
(***************************************************************************)

LEMMA ContinueStep ==
    ASSUME Informed, UNCHANGED <<conn, answers, reply, meant>>,
           Fatal \/ \E step \in {"idle", "connect", "joined"} : Continue(step)
    PROVE  StudentInv'
<1>1. page' \in ScriptState
    BY BlankState DEF Fatal, Continue, Informed, PageTypes, ScriptState
<1>2. /\ page'.current = page.current /\ page'.finalized = page.finalized
      /\ page'.typed = page.typed /\ page'.busy = page.busy
      /\ page'.data = Blank /\ page'.step # "clocked"
    BY DEF Fatal, Continue, Informed, PageTypes, ScriptState
<1>3. QED BY <1>1, <1>2, BlankState, PollStep

LEMMA FetchStep ==
    ASSUME Informed, Fetch
    PROVE  StudentInv'
<1>1. UNCHANGED <<vars, conn, answers, reply, meant>>
    BY DEF Fetch, Idle
<1>2. CASE ~CanView
    BY <1>1, <1>2, ContinueStep DEF Fetch
<1>3. CASE CanView
    <2> DEFINE read == Snapshot
    <2>1. read \in State /\ Placed(read) /\ TrueState(read, response[me], timer_position[me])
        BY SnapshotIsTrue DEF Informed
    <2>2. response' = response /\ timer_position' = timer_position
        BY <1>1 DEF vars, timerVars
    <2>3. page' = [page EXCEPT !.step = "state", !.data = read]
        BY <1>3 DEF Fetch
    <2> HIDE DEF read
    <2>4. page' \in ScriptState
        BY <2>1, <2>3 DEF Informed, PageTypes, ScriptState
    <2>5. /\ page'.current = page.current /\ page'.finalized = page.finalized
          /\ page'.typed = page.typed /\ page'.busy = page.busy
          /\ page'.data = read /\ page'.step # "clocked"
        BY <2>3 DEF Informed, PageTypes, ScriptState
    <2>6. QED BY <1>1, <2>1, <2>2, <2>4, <2>5, PollStep
<1>4. QED BY <1>2, <1>3

\* render() shows the state read, with a box for its question only.
LEMMA ArriveStep ==
    ASSUME Informed, Arrive
    PROVE  StudentInv'
<1>1. UNCHANGED <<vars, conn, answers, reply, meant>>
    BY DEF Arrive, Idle
<1>2. CASE ~page.connected /\ ~Over(page.data)
    BY <1>1, <1>2, ContinueStep DEF Arrive
<1>3. CASE ~(~page.connected /\ ~Over(page.data))
    <2> DEFINE step == IF WantsBank(Rendered(page.data)) THEN "bank" ELSE "idle"
               typed == KeepsText(page.data)
               bank == KeepsBank(page.data)
    <2>1. page' = [page EXCEPT !.current = page.data, !.typed = typed, !.bank = bank,
                               !.data = Blank, !.step = step]
        BY <1>3 DEF Arrive, Rendered, Informed, PageTypes, ScriptState
    <2>2. step \in {"bank", "idle"} /\ page \in ScriptState
        BY DEF Informed, PageTypes
    <2>3. typed \in 0..QuestionCount /\ bank \in 0..QuestionCount
        BY <2>2, LiveQuizAssumption DEF KeepsText, KeepsBank, ScriptState
    <2>4. typed \in {0, page.data.position}
        BY DEF KeepsText, Informed, FormOK
    <2> HIDE DEF step, typed, bank
    <2>5. page' \in ScriptState
        BY <2>1, <2>2, <2>3, BlankState DEF ScriptState
    <2>6. /\ page'.current = page.data /\ page'.data = Blank /\ page'.typed = typed
          /\ page'.finalized = page.finalized /\ page'.busy = page.busy /\ page'.step # "clocked"
        BY <2>1, <2>2 DEF ScriptState
    <2>7. PageTypes'
        BY <1>1, <2>5 DEF Informed, PageTypes
    <2>8. FormOK'
        BY <1>1, <2>4, <2>6, BlankState DEF Informed, FormOK
    <2>9. AnswersAsMeant'
        BY <1>1 DEF Informed, AnswersAsMeant
    <2>10. Here' => TruePage(page', reply', response'[me], timer_position'[me])
        BY <1>1, <2>6, BlankState DEF Informed, TruePage
    <2>11. QED BY <2>7, <2>8, <2>9, <2>10 DEF StudentInv
<1>4. QED BY <1>2, <1>3

LEMMA ConnectStep ==
    ASSUME Informed, Connect
    PROVE  StudentInv'
<1>1. UNCHANGED <<conn, answers, reply, meant>>
    BY DEF Connect
<1>2. Fatal \/ \E step \in {"idle", "connect", "joined"} : Continue(step)
    BY DEF Connect
<1>3. QED BY <1>1, <1>2, ContinueStep

LEMMA JoinedStep ==
    ASSUME Informed, Joined
    PROVE  StudentInv'
<1>1. UNCHANGED <<vars, conn, answers, reply, meant>>
    BY DEF Joined, Idle
<1>2. page' = [page EXCEPT !.connected = TRUE, !.step = "refetch"] /\ page \in ScriptState
    BY DEF Joined, Informed, PageTypes
<1>3. page' \in ScriptState
    BY <1>2 DEF ScriptState
<1>4. /\ page'.current = page.current /\ page'.finalized = page.finalized
      /\ page'.typed = page.typed /\ page'.busy = page.busy
      /\ page'.data = page.data /\ page'.step # "clocked"
    BY <1>2 DEF ScriptState
<1>5. Placed(page.data) /\ (Here' => TrueState(page.data, response'[me], timer_position'[me]))
    BY DEF Informed, FormOK, TruePage
<1>6. QED BY <1>1, <1>3, <1>4, <1>5, PollStep

LEMMA BankStep ==
    ASSUME Informed, Bank
    PROVE  StudentInv'
<1>1. UNCHANGED <<vars, conn, answers, reply, meant>>
    BY DEF Bank, Idle
<1>2. CASE Fatal \/ Continue("idle")
    BY <1>1, <1>2, ContinueStep
<1>3. CASE page' = [page EXCEPT !.step = "clock", !.bank = AfterSuggestions(page.current.position)]
    <2>1. page \in ScriptState /\ page' = [page EXCEPT !.step = "clock", !.bank = page.bank]
        BY <1>3 DEF AfterSuggestions, Informed, PageTypes
    <2>2. page' \in ScriptState
        BY <2>1 DEF ScriptState
    <2>3. /\ page'.current = page.current /\ page'.finalized = page.finalized
          /\ page'.typed = page.typed /\ page'.busy = page.busy
          /\ page'.data = page.data /\ page'.step # "clocked"
        BY <2>1 DEF ScriptState
    <2>4. Placed(page.data) /\ (Here' => TrueState(page.data, response'[me], timer_position'[me]))
        BY DEF Informed, FormOK, TruePage
    <2>5. QED BY <1>1, <2>2, <2>3, <2>4, PollStep
<1>4. QED BY <1>2, <1>3 DEF Bank

\* The script goes on to show the prompt only with the student's clock started.
LEMMA ClockActionStep ==
    ASSUME Informed, Clock
    PROVE  StudentInv'
<1> DEFINE q == page.current.position
           granted == SignedIn /\ me \in Roster /\ Accepting(q) /\ Connected(me)
<1>1. UNCHANGED <<conn, answers, reply, meant>>
    BY DEF Clock
<1>2. CASE ~granted
    <2>1. Continue("idle") \/ Fatal
        BY <1>2 DEF Clock
    <2>2. QED BY <1>1, <2>1, ContinueStep
<1>3. CASE granted
    <2>1. page' = [page EXCEPT !.step = "clocked", !.data = Blank] /\ page \in ScriptState
        BY <1>3 DEF Clock, Continue, Informed, PageTypes
    <2>2. page' \in ScriptState
        BY <2>1, BlankState DEF ScriptState
    <2>3. /\ page'.current = page.current /\ page'.finalized = page.finalized
          /\ page'.typed = page.typed /\ page'.busy = page.busy /\ page'.data = Blank
        BY <2>1 DEF ScriptState
    <2>4. timer_position'[me] = q
        <3>1. CASE NeedsClock(me, q)
            BY <1>3, <3>1, MeIsStudent DEF Clock, Ready, Informed, TypeOK, PlayerTypes
        <3>2. CASE ~NeedsClock(me, q)
            BY <1>3, <3>2 DEF Clock, NeedsClock, vars, timerVars
        <3>3. QED BY <3>1, <3>2
    <2>5. q \in Nat
        BY LiveQuizAssumption DEF Informed, PageTypes, ScriptState, State
    <2>6. timer_position'[me] >= page.current.position
        BY <2>4, <2>5
    <2>7. QED BY <1>1, <2>2, <2>3, <2>6, BlankState, PollStep
<1>4. QED BY <1>2, <1>3

LEMMA ClockedStep ==
    ASSUME Informed, Clocked
    PROVE  StudentInv'
<1> DEFINE shown == [page.current EXCEPT !.prompt = TRUE]
<1>1. UNCHANGED <<vars, conn, answers, reply, meant>> /\ page.step = "clocked"
    BY DEF Clocked, Idle
<1>2. page \in ScriptState /\ page.current \in State
    BY DEF Informed, PageTypes, ScriptState
<1>3. /\ shown \in State /\ shown.position = page.current.position
      /\ shown.phase = page.current.phase /\ shown.response = page.current.response
    BY <1>2 DEF State
<1>4. page' = [page EXCEPT !.current = shown, !.bank = page.current.position, !.step = "idle"]
    BY DEF Clocked
<1>5. page.current.position \in 0..QuestionCount
    BY <1>2 DEF State
<1> HIDE DEF shown
<1>6. page' \in ScriptState
    BY <1>2, <1>3, <1>4, <1>5 DEF ScriptState
<1>7. /\ page'.current = shown /\ page'.finalized = page.finalized /\ page'.data = page.data
      /\ page'.typed = page.typed /\ page'.busy = page.busy /\ page'.step = "idle"
    BY <1>2, <1>4 DEF ScriptState
<1>8. PageTypes'
    BY <1>1, <1>6 DEF Informed, PageTypes
<1>9. FormOK'
    BY <1>1, <1>3, <1>7 DEF Informed, FormOK, Placed
<1>10. AnswersAsMeant'
    BY <1>1 DEF Informed, AnswersAsMeant
<1>11. Here' => TruePage(page', reply', response'[me], timer_position'[me])
    BY <1>1, <1>3, <1>7 DEF Informed, TruePage, TrueState
<1>12. QED BY <1>8, <1>9, <1>10, <1>11 DEF StudentInv

(***************************************************************************)
(* The heartbeat, everybody else, and a page that does nothing.            *)
(***************************************************************************)

LEMMA PageRests ==
    ASSUME Informed, UNCHANGED <<page, conn, answers, reply, meant>>
    PROVE  StudentInv'
<1>1. PageTypes' /\ FormOK' /\ AnswersAsMeant'
    BY DEF Informed, PageTypes, FormOK, AnswersAsMeant
<1>2. Here' => TruePage(page', reply', response'[me], timer_position'[me])
    BY DEF Informed
<1>3. QED BY <1>1, <1>2 DEF StudentInv

LEMMA BeatStep ==
    ASSUME Informed, Beat
    PROVE  StudentInv'
BY PageRests, ContinueStep DEF Beat

(***************************************************************************)
(* The answer form.                                                        *)
(***************************************************************************)

LEMMA TypeStep ==
    ASSUME Informed, Type
    PROVE  StudentInv'
<1>1. UNCHANGED <<vars, conn, answers, reply, meant>>
    BY DEF Type, Idle
<1>2. page \in ScriptState /\ page' = [page EXCEPT !.typed = page.current.position]
    BY DEF Type, Informed, PageTypes
<1>3. page.current.position \in 0..QuestionCount
    BY <1>2 DEF ScriptState, State
<1>4. page' \in ScriptState
    BY <1>2, <1>3 DEF ScriptState
<1>5. /\ page'.current = page.current /\ page'.data = page.data /\ page'.step = page.step
      /\ page'.finalized = page.finalized /\ page'.busy = page.busy
      /\ page'.typed = page.current.position
    BY <1>2 DEF ScriptState
<1>6. PageTypes' /\ AnswersAsMeant'
    BY <1>1, <1>4 DEF Informed, PageTypes, AnswersAsMeant
<1>7. FormOK'
    BY <1>1, <1>5 DEF Informed, FormOK
<1>8. Here' => TruePage(page', reply', response'[me], timer_position'[me])
    BY <1>1, <1>5 DEF Informed, TruePage
<1>9. QED BY <1>6, <1>7, <1>8 DEF StudentInv

LEMMA SubmitStep ==
    ASSUME Informed, NEW how \in Outcomes, Submit(how)
    PROVE  StudentInv'
<1> DEFINE q == page.current.position
           entry == [position |-> q, how |-> how, awaited |-> TRUE,
                     typed |-> IF how = "skipped" THEN q ELSE page.typed]
<1>1. /\ UNCHANGED <<vars, conn, reply, meant>> /\ page.busy = 0
      /\ page' = [page EXCEPT !.busy = q] /\ answers' = answers \union {entry}
    BY DEF Submit
<1>2. page \in ScriptState /\ q \in Question
    BY DEF Submit, FormShown, OnScreen, Informed, PageTypes, FormOK, Placed
<1>3. q \in 0..QuestionCount /\ 0 \notin Question
    BY <1>2, LiveQuizAssumption DEF Question
<1>4. entry.position = q /\ entry.typed = q /\ entry \in Entry
    BY <1>2 DEF Submit, Informed, FormOK, Entry
<1> HIDE DEF q, entry
<1>5. page' \in ScriptState
    BY <1>1, <1>2, <1>3 DEF ScriptState
<1>6. /\ page'.current = page.current /\ page'.data = page.data /\ page'.step = page.step
      /\ page'.finalized = page.finalized /\ page'.typed = page.typed /\ page'.busy = q
    BY <1>1, <1>2 DEF ScriptState
<1>7. reply = "none" /\ \A e \in answers : ~e.awaited
    BY <1>1, <1>3 DEF Informed, FormOK, PageTypes, Entry
<1>8. PageTypes' /\ AnswersAsMeant'
    BY <1>1, <1>4, <1>5 DEF Informed, PageTypes, AnswersAsMeant
<1>9. FormOK'
    BY <1>1, <1>4, <1>6, <1>7 DEF Informed, FormOK
<1>10. Here' => TruePage(page', reply', response'[me], timer_position'[me])
    BY <1>1, <1>6, <1>7 DEF Informed, TruePage, Recorded
<1>11. QED BY <1>8, <1>9, <1>10 DEF StudentInv

\* The server records an answer for the question it was typed for and says what is on record.
LEMMA TakeStep ==
    ASSUME Informed, NEW entry \in answers, Take(entry)
    PROVE  StudentInv'
<1> DEFINE q == entry.position
           playing == SignedIn /\ me \in Roster
           final == Accepting(q) /\ (Answered(me, q) \/ Connected(me))
           told == IF ~playing THEN "fatal" ELSE IF final THEN Outcome(entry) ELSE "conflict"
<1> USE MeIsStudent
<1>1. /\ entry \in Entry /\ q \in Question /\ entry.typed = q
      /\ entry.awaited => q = page.busy
    BY DEF Informed, PageTypes, FormOK, Entry
<1>2. UNCHANGED <<page, conn>> /\ answers' = answers \ {entry}
      /\ reply' = IF ~entry.awaited THEN reply ELSE told
    BY DEF Take
<1>3. Outcome(entry) \in Recorded
    <2>1. CASE Answered(me, q)
        BY <1>1, <2>1 DEF Outcome, Answered, Informed, TypeOK, ResponseTypes, Score, Recorded
    <2>2. CASE ~Answered(me, q)
        BY <1>1, <2>2, LiveQuizAssumption DEF Outcome, Entry, Recorded
    <2>3. QED BY <2>1, <2>2
<1>4. told \in Recorded => /\ playing /\ final /\ told = Outcome(entry)
    BY DEF Recorded
<1>5. playing /\ final => response'[me][q].status = Outcome(entry)
    <2> SUFFICES ASSUME playing, final PROVE response'[me][q].status = Outcome(entry)
        OBVIOUS
    <2>1. CASE Answered(me, q)
        <3>1. response' = response
            BY <2>1 DEF Take, vars
        <3>2. QED BY <2>1, <3>1 DEF Outcome
    <2>2. CASE ~Answered(me, q)
        <3>1. Answer(me, q, entry.how)
            BY <2>2 DEF Take
        <3>2. response'[me][q].status = entry.how
            BY <1>1, <3>1 DEF Answer, Informed, TypeOK, ResponseTypes
        <3>3. QED BY <2>2, <3>2 DEF Outcome
    <2>3. QED BY <2>1, <2>2
<1>6. meant' = meant \/ meant' = [meant EXCEPT ![q] = q]
    BY <1>1 DEF Take
<1>7. told \in Recorded \union {"conflict", "fatal"}
    BY <1>3
<1>8. q \in 0..QuestionCount
    BY <1>1, LiveQuizAssumption DEF Question
<1> HIDE DEF q, playing, final, told
<1>9. PageTypes'
    BY <1>2, <1>6, <1>7, <1>8 DEF Informed, PageTypes
<1>10. FormOK'
    BY <1>1, <1>2 DEF Informed, FormOK
<1>11. AnswersAsMeant'
    BY <1>1, <1>6 DEF Informed, AnswersAsMeant, PageTypes
<1>12. Here' => TruePage(page', reply', response'[me], timer_position'[me])
    <2>1. entry.awaited /\ told \in Recorded => told = response'[me][page.busy].status
        BY <1>1, <1>4, <1>5
    <2>2. QED BY <1>2, <2>1 DEF Informed, TruePage
<1>13. QED BY <1>9, <1>10, <1>11, <1>12 DEF StudentInv

LEMMA HearStep ==
    ASSUME Informed, Hear
    PROVE  StudentInv'
<1> DEFINE shown == ~page.stopped /\ OnScreen /\ page.current.position = page.busy
           kept == [page.finalized EXCEPT ![page.busy] = reply]
<1>1. UNCHANGED <<vars, conn, answers, meant>> /\ reply' = "none" /\ reply # "none"
    BY DEF Hear
<1>2. /\ page \in ScriptState /\ page.busy \in Question /\ 0 \in 0..QuestionCount
      /\ \A e \in answers : e.awaited => e.position = page.busy
    BY <1>1, LiveQuizAssumption DEF Informed, PageTypes, FormOK
<1>3. PICK finalized \in {page.finalized, kept}, stopped \in BOOLEAN, step \in {page.step, "idle"} :
        /\ page' = [page EXCEPT !.finalized = finalized, !.stopped = stopped, !.step = step,
                                !.busy = 0]
        /\ finalized # page.finalized => reply \in Recorded
    <2>1. CASE reply = "fatal"
        <3>1. page' = [page EXCEPT !.finalized = page.finalized, !.stopped = TRUE, !.step = "idle",
                                   !.busy = 0]
            BY <1>2, <2>1 DEF Hear, ScriptState
        <3>2. QED BY <3>1
    <2>2. CASE reply # "fatal" /\ reply # "conflict" /\ shown
        <3>1. page' = [page EXCEPT !.finalized = kept, !.stopped = page.stopped,
                                   !.step = page.step, !.busy = 0]
            BY <1>2, <2>2 DEF Hear, ScriptState
        <3>2. reply \in Recorded /\ page.stopped \in BOOLEAN
            BY <1>1, <1>2, <2>2 DEF Informed, PageTypes, ScriptState
        <3>3. QED BY <3>1, <3>2
    <2>3. CASE reply # "fatal" /\ ~(reply # "conflict" /\ shown)
        <3>1. page' = [page EXCEPT !.finalized = page.finalized, !.stopped = page.stopped,
                                   !.step = page.step, !.busy = 0]
            BY <1>2, <2>3 DEF Hear, ScriptState
        <3>2. page.stopped \in BOOLEAN
            BY <1>2 DEF ScriptState
        <3>3. QED BY <3>1, <3>2
    <2>4. QED BY <2>1, <2>2, <2>3
<1>4. finalized \in [Question -> Recorded \union {"none"}]
    BY <1>2, <1>3 DEF ScriptState
<1>5. page' \in ScriptState
    BY <1>2, <1>3, <1>4 DEF ScriptState
<1>6. /\ page'.current = page.current /\ page'.data = page.data /\ page'.step = step
      /\ page'.finalized = finalized /\ page'.typed = page.typed /\ page'.busy = 0
    BY <1>2, <1>3 DEF ScriptState
<1>7. PageTypes' /\ AnswersAsMeant'
    BY <1>1, <1>5 DEF Informed, PageTypes, AnswersAsMeant
<1>8. \A e \in answers : ~e.awaited
    BY <1>1 DEF Informed, FormOK
<1>9. FormOK'
    BY <1>1, <1>6, <1>8 DEF Informed, FormOK
<1>10. Here' => TruePage(page', reply', response'[me], timer_position'[me])
    <2> SUFFICES ASSUME Here' PROVE TruePage(page', reply', response'[me], timer_position'[me])
        OBVIOUS
    <2>1. \A p \in Question : finalized[p] \in {"none", response'[me][p].status}
        BY <1>2, <1>3 DEF Informed, TruePage, ScriptState
    <2>2. QED BY <1>1, <1>6, <2>1 DEF Informed, TruePage, Recorded
<1>11. QED BY <1>7, <1>9, <1>10 DEF StudentInv

\* Answers the page no longer waits for, and answers that are lost.
LEMMA AbandonedAnswers ==
    ASSUME PageTypes, FormOK
    PROVE  /\ Abandoned \subseteq Entry
           /\ \A e \in Abandoned : e.typed = e.position /\ ~e.awaited
<1>1. ASSUME NEW entry \in answers
      PROVE  /\ GiveUp(entry) \in Entry /\ ~GiveUp(entry).awaited
             /\ GiveUp(entry).typed = GiveUp(entry).position
    BY <1>1 DEF PageTypes, FormOK, Entry, GiveUp
<1>2. QED BY <1>1 DEF Abandoned

LEMMA TimeoutStep ==
    ASSUME Informed, Timeout
    PROVE  StudentInv'
<1>1. /\ UNCHANGED <<vars, conn, meant>> /\ reply' = "none" /\ answers' = Abandoned
      /\ page' = [page EXCEPT !.busy = 0] /\ page \in ScriptState
    BY DEF Timeout, Informed, PageTypes
<1>2. 0 \in 0..QuestionCount
    BY LiveQuizAssumption
<1>3. page' \in ScriptState
    BY <1>1, <1>2 DEF ScriptState
<1>4. /\ page'.current = page.current /\ page'.data = page.data /\ page'.step = page.step
      /\ page'.finalized = page.finalized /\ page'.typed = page.typed
    BY <1>1 DEF ScriptState
<1>5. PageTypes' /\ AnswersAsMeant'
    BY <1>1, <1>3, AbandonedAnswers DEF Informed, PageTypes, AnswersAsMeant
<1>6. FormOK'
    BY <1>1, <1>4, AbandonedAnswers DEF Informed, FormOK
<1>7. Here' => TruePage(page', reply', response'[me], timer_position'[me])
    BY <1>1, <1>4 DEF Informed, TruePage, Recorded
<1>8. QED BY <1>5, <1>6, <1>7 DEF StudentInv

LEMMA LoseStep ==
    ASSUME Informed, NEW entry \in answers, Lose(entry)
    PROVE  StudentInv'
<1>1. UNCHANGED <<page, conn, reply, meant>> /\ answers' \subseteq answers
    BY DEF Lose
<1>2. PageTypes' /\ FormOK' /\ AnswersAsMeant'
    BY <1>1 DEF Informed, PageTypes, FormOK, AnswersAsMeant
<1>3. Here' => TruePage(page', reply', response'[me], timer_position'[me])
    BY <1>1 DEF Informed
<1>4. QED BY <1>2, <1>3 DEF StudentInv

LEMMA LeaveOrReloadStep ==
    ASSUME Informed, LeaveQuiz \/ Reload
    PROVE  StudentInv'
<1>1. /\ UNCHANGED meant /\ reply' = "none" /\ answers' = Abandoned
      /\ page' \in {NewPage, [NewPage EXCEPT !.stopped = TRUE]}
    BY DEF LeaveQuiz, Reload
<1>2. conn' \in Connection /\ Owner[conn'] = me
    <2>1. CASE LeaveQuiz
        BY <2>1 DEF LeaveQuiz, Informed, PageTypes
    <2>2. CASE Reload
        BY <2>2 DEF Reload, Fresh, Mine
    <2>3. QED BY <2>1, <2>2
<1>3. /\ page' \in ScriptState /\ page'.current = Blank /\ page'.data = Blank
      /\ page'.step = "idle" /\ page'.typed = 0
      /\ \A q \in Question : page'.finalized[q] = "none"
    <2>1. CASE page' = NewPage
        BY <2>1, FreshPage DEF NewPage
    <2>2. CASE page' = [NewPage EXCEPT !.stopped = TRUE]
        <3>1. page' \in ScriptState
            BY <2>2, FreshPage DEF ScriptState
        <3>2. /\ page'.current = NewPage.current /\ page'.data = NewPage.data
              /\ page'.step = NewPage.step /\ page'.typed = NewPage.typed
              /\ page'.finalized = NewPage.finalized
            BY <2>2, FreshPage DEF ScriptState
        <3>3. QED BY <3>1, <3>2 DEF NewPage
    <2>3. QED BY <1>1, <2>1, <2>2
<1>4. PageTypes'
    BY <1>1, <1>2, <1>3, AbandonedAnswers DEF Informed, PageTypes
<1>5. FormOK'
    BY <1>1, <1>3, BlankState, AbandonedAnswers DEF Informed, FormOK
<1>6. AnswersAsMeant'
    BY <1>1 DEF Informed, AnswersAsMeant
<1>7. TruePage(page', reply', response'[me], timer_position'[me])
    BY <1>1, <1>3, BlankState DEF TruePage, Recorded
<1>8. QED BY <1>4, <1>5, <1>6, <1>7 DEF StudentInv

(***************************************************************************)
(* The invariant, and what it says of the page.                            *)
(***************************************************************************)

LEMMA InitStudentInv == PageInit => StudentInv
<1> SUFFICES ASSUME PageInit PROVE StudentInv
    OBVIOUS
<1>1. /\ page = NewPage /\ answers = {} /\ reply = "none"
      /\ conn \in Connection /\ Owner[conn] = me /\ meant = [q \in Question |-> 0]
    BY StudentPageAssumption DEF PageInit, Mine
<1>2. 0 \in 0..QuestionCount
    BY LiveQuizAssumption
<1>3. PageTypes /\ AnswersAsMeant
    BY <1>1, <1>2, FreshPage DEF PageTypes, AnswersAsMeant
<1>4. FormOK
    BY <1>1, BlankState DEF FormOK, NewPage
<1>5. TruePage(page, reply, response[me], timer_position[me])
    BY <1>1, FreshPage
<1>6. QED BY <1>3, <1>4, <1>5 DEF StudentInv

LEMMA NextStudentInv ==
    TypeOK /\ IInv /\ Numbered /\ StudentInv /\ [StudentNext]_studentVars =>
        TypeOK' /\ IInv' /\ Numbered' /\ StudentInv'
<1> SUFFICES ASSUME TypeOK, IInv, Numbered, StudentInv, [StudentNext]_studentVars
             PROVE  TypeOK' /\ IInv' /\ Numbered' /\ StudentInv'
    OBVIOUS
<1>1. [Next]_vars
    BY ServerStep DEF StudentInv
<1>2. TypeOK' /\ IInv' /\ Numbered'
    BY <1>1, NextTypeOK, NextIInv, NextNumbered
<1>3. Here' => Here
    BY <1>1, MeIsStudent, OutcomesStand DEF Here
<1>4. Here' => TruePage(page, reply, response'[me], timer_position'[me])
    BY <1>1, <1>2, PageStaysTrue DEF StudentInv
<1>5. Informed
    BY <1>2, <1>3, <1>4 DEF Informed, StudentInv
<1>6. CASE Fail
    <2>1. Continue("idle") /\ UNCHANGED <<conn, answers, reply, meant>>
        BY <1>6 DEF Fail, Idle
    <2>2. QED BY <1>2, <1>5, <2>1, ContinueStep
<1>7. CASE Around \/ UNCHANGED studentVars
    <2>1. UNCHANGED <<page, conn, answers, reply, meant>>
        BY <1>7 DEF Around, studentVars
    <2>2. QED BY <1>2, <1>5, <2>1, PageRests
<1>8. CASE Script
    <2>1. CASE Fetch \/ Arrive \/ Connect \/ Joined \/ Bank \/ Clock \/ Clocked
        BY <1>2, <1>5, <2>1, FetchStep, ArriveStep, ConnectStep, JoinedStep, BankStep, ClockActionStep,
           ClockedStep
    <2>2. CASE Beat \/ Type \/ Hear \/ Timeout \/ LeaveQuiz \/ Reload
        BY <1>2, <1>5, <2>2, BeatStep, TypeStep, HearStep, TimeoutStep, LeaveOrReloadStep
    <2>3. CASE \E how \in Outcomes : Submit(how)
        BY <1>2, <1>5, <2>3, SubmitStep
    <2>4. CASE \E entry \in answers : Take(entry) \/ Lose(entry)
        BY <1>2, <1>5, <2>4, TakeStep, LoseStep
    <2>5. QED BY <1>6, <1>8, <2>1, <2>2, <2>3, <2>4 DEF Script
<1>9. QED BY <1>2, <1>7, <1>8 DEF StudentNext

\* The page's script, its form and what it shows stay in step with the server.
THEOREM StudentInvariance == StudentSpec => [](TypeOK /\ StudentInv)
<1>1. PageInit => TypeOK /\ IInv /\ Numbered /\ StudentInv
    BY InitTypeOK, InitIInv, InitNumbered, InitStudentInv DEF PageInit
<1>2. QED BY <1>1, NextStudentInv, PTL DEF StudentSpec

\* The outcome on the screen is the outcome on record, for every number of questions,
\* reloads, repeated and late answers.
THEOREM ShowsTheRecord == StudentSpec => []FeedbackIsTrue
<1>1. TypeOK /\ StudentInv => FeedbackIsTrue
    <2> SUFFICES ASSUME StudentInv, Here, OnScreen, Feedback # "none"
                 PROVE  Feedback = response[me][page.current.position].status
        BY DEF FeedbackIsTrue
    <2>1. page.current.phase = "running" /\ page.current.position \in Question
        BY DEF OnScreen, StudentInv, FormOK, Placed
    <2>2. TruePage(page, reply, response[me], timer_position[me])
        BY DEF StudentInv
    <2>3. QED BY <2>1, <2>2 DEF TruePage, TrueState, Feedback
<1>2. QED BY <1>1, StudentInvariance, PTL

\* No answer is recorded for another question than it was typed for.
THEOREM RecordsWhatWasMeant == StudentSpec => []AnswersAsMeant
<1>1. StudentInv => AnswersAsMeant
    BY DEF StudentInv
<1>2. QED BY <1>1, StudentInvariance, PTL

\* The page shows no prompt before the server has started the student's clock for it.
THEOREM PromptAfterClock == StudentSpec => []PromptNeedsClock
<1>1. TypeOK /\ StudentInv => PromptNeedsClock
    <2> SUFFICES ASSUME StudentInv, Here, OnScreen, page.current.prompt
                 PROVE  timer_position[me] >= page.current.position
        BY DEF PromptNeedsClock
    <2>1. page.current.phase = "running"
        BY DEF OnScreen
    <2>2. TruePage(page, reply, response[me], timer_position[me])
        BY DEF StudentInv
    <2>3. QED BY <2>1, <2>2 DEF TruePage, TrueState
<1>2. QED BY <1>1, StudentInvariance, PTL

\* Whatever the page and its network do is a behaviour of the server alone, so all that
\* LiveQuizProofs shows of a quiz holds of one that is played through pages.
THEOREM PageIsAClient == StudentSpec => Spec
<1>1. PageInit => Init /\ TypeOK /\ IInv /\ Numbered /\ StudentInv
    BY InitTypeOK, InitIInv, InitNumbered, InitStudentInv DEF PageInit
<1>2. TypeOK /\ IInv /\ Numbered /\ StudentInv /\ [StudentNext]_studentVars => [Next]_vars
    BY ServerStep DEF StudentInv
<1>3. QED BY <1>1, <1>2, NextStudentInv, PTL DEF StudentSpec, Spec
=============================================================================
