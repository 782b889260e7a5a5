-------------------------- MODULE LiveHostPageProofs --------------------------
(***************************************************************************)
(* Proofs about the host's page of a live quiz: for any number of          *)
(* questions, request keys, pages and requests under way, and whatever is  *)
(* lost, delayed or repeated, a request that was applied is not refused to *)
(* its sender, and no quiz ends at a question the host was not asked about.*)
(***************************************************************************)
EXTENDS LiveHostPage, LiveQuizProofs

(***************************************************************************)
(* The inductive invariant.  What the page has read and what it has sent   *)
(* is compared with the game as it is: the same version means the same     *)
(* game, so a request of that version can still be applied.                *)
(***************************************************************************)

Action == {"start", "cancel", "next", "end"}
View == [phase : {"none", "waiting", "running", "finished", "cancelled"}, version : Int,
         position : Int, revealing : BOOLEAN, present : BOOLEAN, stage : {"idle", "game", "read"}]
HostRequest == [key : Key, action : Action, version : Int, position : Int]
Sent == [request : HostRequest, button : Action, awaited : BOOLEAN]

\* Whatever the page holds has the form its script gives it.
HostTypes ==
    /\ current \in View /\ poll \in View
    /\ pending \in HostRequest \union {NoPending}
    /\ busy \in BOOLEAN
    /\ reply \in {"none", "ok", "conflict", "invalid"}
    /\ dialog \in {"none", "end", "cancel"}
    /\ wire \subseteq Sent

\* The game as far as the host's requests depend on it.
Game == [phase |-> phase, version |-> version, position |-> position, ready |-> MayAdvance]
Games == [phase : {"waiting", "running", "finished", "cancelled"}, version : Nat,
          position : Nat, ready : BOOLEAN]

\* What was read is of some question, and of the game as it is if its version is.
Seen(view, game) ==
    /\ view.phase = "waiting" => view.position = 0
    /\ view.phase = "running" => view.position \in Question
    /\ view.version <= game.version
    /\ view.version = game.version => view.phase = game.phase /\ view.position = game.position

\* A question shown as revealed takes answers, and so may be advanced from.
Revealed(view, game) ==
    view.version = game.version /\ view.phase = "running" /\ ~view.revealing => game.ready

\* A request whose version is the game's can be applied.
Applicable(request, game) ==
    /\ request.version <= game.version
    /\ request.version = game.version =>
          /\ request.position = game.position
          /\ request.action \in {"start", "cancel"} => game.phase = "waiting"
          /\ request.action \in {"next", "end"} => game.ready

\* An end or a cancellation was confirmed at its question.
Confirmed(request, questions) ==
    request.action \in {"end", "cancel"} => <<request.action, request.position>> \in questions

\* A request that was not applied and never will be.
Refused(request, log, game) ==
    /\ request \notin log
    /\ (\E t \in log : t.key = request.key) \/ request.version < game.version

\* The page awaits one answer, to the request it keeps unless a poll has settled it.
Awaiting ==
    /\ \A e \in wire : e.awaited => busy /\ pending \in {NoPending, e.request}
    /\ \A e, f \in wire : e.awaited /\ f.awaited => e = f
    /\ reply # "none" => busy /\ \A e \in wire : ~e.awaited

\* The confirmation on the screen is about the question on the screen.
Asking ==
    /\ dialog # "none" => <<dialog, current.position>> \in asked
    /\ dialog = "end" => current.phase = "running"
    /\ dialog = "cancel" => current.phase = "waiting"

\* All that the page has read and sent agrees with the game and its log of transitions.
Agrees(game, log) ==
    /\ Seen(current, game) /\ Revealed(current, game)
    /\ Seen(poll, game) /\ (poll.stage = "read" => Revealed(poll, game))
    /\ pending # NoPending => Applicable(pending, game)
    /\ \A e \in wire : Applicable(e.request, game)
    /\ reply = "conflict" => pending = NoPending \/ Refused(pending, log, game)

Confirming ==
    /\ Asking
    /\ pending # NoPending => Confirmed(pending, asked)
    /\ \A e \in wire : Confirmed(e.request, asked)
    /\ ConfirmedBeforeEnding

HostInv == HostTypes /\ Awaiting /\ Confirming /\ Agrees(Game, transitions)

(***************************************************************************)
(* The page's requests are requests to the server.                         *)
(***************************************************************************)

LEMMA ExecuteServerStep ==
    ASSUME TypeOK, Numbered, NEW r \in HostRequest, Transition(r)
    PROVE  Next
<1>1. r.version = version /\ r.position = position
    BY DEF Transition, UpToDate
<1>2. version \in 0..QuestionCount + 1 /\ position \in 0..QuestionCount
    BY Numbers, LiveQuizAssumption DEF Numbered, TypeOK, GameTypes
<1>3. r \in Request
    BY <1>1, <1>2 DEF HostRequest, Request, Action
<1>4. QED BY <1>3 DEF Next

LEMMA HostServerStep ==
    ASSUME TypeOK, Numbered, HostTypes, [HostNext]_hostVars
    PROVE  [Next]_vars
<1>1. ASSUME UNCHANGED vars PROVE [Next]_vars
    BY <1>1
<1>2. ASSUME NEW entry \in wire, Execute(entry) PROVE [Next]_vars
    <2>1. entry.request \in HostRequest
        BY DEF HostTypes, Sent
    <2>2. QED BY <1>2, <2>1, ExecuteServerStep DEF Execute
<1>3. CASE Students
    BY <1>3 DEF Students, Next
<1>4. CASE PollGame \/ PollRest \/ PollDeliver \/ PollFail
    BY <1>4 DEF PollGame, PollRest, PollDeliver, PollFail
<1>5. CASE ClickStart \/ ClickNext \/ DialogYes \/ DialogNo
    BY <1>5 DEF ClickStart, ClickNext, DialogYes, DialogNo, Control
<1>6. CASE (\E action \in {"end", "cancel"} : OpenDialog(action)) \/ Receive \/ Timeout \/ Reload
    BY <1>6 DEF OpenDialog, Receive, Timeout, Reload
<1>7. CASE \E entry \in wire : Lose(entry)
    BY <1>7 DEF Lose
<1>8. CASE UNCHANGED hostVars
    BY <1>8 DEF hostVars
<1>9. QED BY <1>2, <1>3, <1>4, <1>5, <1>6, <1>7, <1>8 DEF HostNext

(***************************************************************************)
(* The game moves on, and what was in agreement with it stays so.          *)
(***************************************************************************)

Moved(game, later) ==
    /\ game.version <= later.version
    /\ game.version = later.version =>
          /\ later.phase = game.phase /\ later.position = game.position
          /\ game.ready => later.ready

\* The log gains keys it did not have, at the present version.
Logged(log, later, game) ==
    /\ log \subseteq later
    /\ \A t \in later \ log : t.version = game.version /\ \A s \in log : s.key # t.key

LEMMA GameType == TypeOK => Game \in Games
<1> SUFFICES ASSUME TypeOK PROVE Game \in Games
    OBVIOUS
<1>1. phase \in {"waiting", "running", "finished", "cancelled"} /\ version \in Nat
      /\ position \in Nat
    BY Numbers DEF TypeOK, GameTypes
<1>2. MayAdvance \in BOOLEAN
    BY DEF MayAdvance
<1>3. QED BY <1>1, <1>2 DEF Game, Games

LEMMA GameMoves ==
    ASSUME TypeOK, IInv, [Next]_vars
    PROVE  Moved(Game, Game') /\ Logged(transitions, transitions', Game)
<1> USE Numbers
<1>1. version \in Nat /\ now \in Nat
    BY DEF TypeOK, GameTypes
<1>2. ASSUME UNCHANGED <<gameVars, opened_at>>, now' \in Nat, now' >= now
      PROVE  Moved(Game, Game') /\ Logged(transitions, transitions', Game)
    <2>1. MayAdvance => MayAdvance'
        BY <1>1, <1>2 DEF MayAdvance, gameVars, IInv, Shape
    <2>2. QED BY <1>1, <1>2, <2>1 DEF Moved, Logged, Game, gameVars
<1>3. ASSUME NEW r \in Request, Transition(r)
      PROVE  Moved(Game, Game') /\ Logged(transitions, transitions', Game)
    BY <1>1, <1>3 DEF Transition, Moved, Logged, Game, UpToDate, KeyUsed
<1>4. CASE Tick
    BY <1>1, <1>2, <1>4, LiveQuizAssumption DEF Tick, questionVars
<1>5. QED
    BY <1>1, <1>2, <1>3, <1>4
       DEF Next, vars, questionVars, Join, Heartbeat, Leave, Ready, Answer, Bar, Unbar, Delete

LEMMA StillAgrees ==
    ASSUME HostTypes, NEW game \in Games, NEW later \in Games, NEW log, NEW more,
           Agrees(game, log), Moved(game, later), Logged(log, more, game)
    PROVE  Agrees(later, more)
<1> /\ game.version \in Nat /\ later.version \in Nat
    /\ game.position \in Nat /\ later.position \in Nat
    BY DEF Games
<1>1. ASSUME NEW view \in View, Seen(view, game)
      PROVE  /\ Seen(view, later)
             /\ Revealed(view, game) => Revealed(view, later)
    BY <1>1 DEF Seen, Revealed, Moved, View
<1>2. ASSUME NEW request \in HostRequest, Applicable(request, game)
      PROVE  Applicable(request, later)
    BY <1>2 DEF Applicable, Moved, HostRequest
<1>3. ASSUME NEW request \in HostRequest, Refused(request, log, game)
      PROVE  Refused(request, more, later)
    <2>1. request \notin more
        BY <1>3 DEF Refused, Logged, HostRequest
    <2>2. (\E t \in more : t.key = request.key) \/ request.version < later.version
        BY <1>3 DEF Refused, Logged, Moved, HostRequest
    <2>3. QED BY <2>1, <2>2 DEF Refused
<1>4. /\ current \in View /\ poll \in View /\ pending \in HostRequest \union {NoPending}
      /\ \A e \in wire : e.request \in HostRequest
    BY DEF HostTypes, Sent
<1>5. QED BY <1>1, <1>2, <1>3, <1>4 DEF Agrees

\* What the page knew before the step, of the game after it.
Informed ==
    /\ TypeOK /\ IInv /\ TypeOK' /\ IInv'
    /\ HostTypes /\ Awaiting /\ Confirming
    /\ Agrees(Game', transitions')
    /\ Game \in Games /\ Game' \in Games

LEMMA SameGame == UNCHANGED vars => Game' = Game /\ transitions' = transitions
BY DEF vars, gameVars, questionVars, Game, MayAdvance

(***************************************************************************)
(* Polling.                                                                *)
(***************************************************************************)

LEMMA NothingSeen ==
    ASSUME NEW game \in Games
    PROVE  /\ Nothing \in View /\ Seen(Nothing, game) /\ Revealed(Nothing, game)
           /\ Nothing.stage # "read"
<1>1. game.version \in Nat
    BY DEF Games
<1>2. QED BY <1>1 DEF Nothing, View, Seen, Revealed

\* Only what the poll has read changes.
LEMMA PollStep ==
    ASSUME Informed, UNCHANGED <<current, pending, busy, reply, dialog, wire, asked, transitions>>,
           poll' \in View, Seen(poll', Game'), poll'.stage = "read" => Revealed(poll', Game')
    PROVE  HostInv'
<1>1. HostTypes'
    BY DEF Informed, HostTypes
<1>2. Awaiting' /\ Confirming'
    BY DEF Informed, Awaiting, Confirming, Asking, ConfirmedBeforeEnding
<1>3. Agrees(Game, transitions)'
    BY DEF Informed, Agrees
<1>4. QED BY <1>1, <1>2, <1>3 DEF HostInv

LEMMA PollGameStep ==
    ASSUME Informed, PollGame
    PROVE  HostInv'
<1>1. UNCHANGED <<vars, current, pending, busy, reply, dialog, wire, asked>>
    BY DEF PollGame
<1>2. poll' = [Nothing EXCEPT !.phase = phase, !.version = version, !.position = position,
                              !.stage = "game"]
    BY DEF PollGame
<1>3. /\ poll'.phase = phase /\ poll'.version = version /\ poll'.position = position
      /\ poll'.stage = "game"
    BY <1>2 DEF Nothing
<1>4. poll' \in View
    <2>1. /\ phase \in {"waiting", "running", "finished", "cancelled"}
          /\ version \in Int /\ position \in Int
        BY Numbers DEF Informed, TypeOK, GameTypes
    <2>2. Nothing \in View
        BY NothingSeen DEF Informed
    <2>3. QED BY <1>2, <2>1, <2>2 DEF View
<1>5. Seen(poll', Game')
    <2>1. /\ phase = "waiting" => position = 0
          /\ phase = "running" => position \in Question
          /\ version \in Nat
        BY DEF Informed, IInv, Shape, TypeOK, GameTypes
    <2>2. Seen(poll', Game)
        BY <1>3, <2>1 DEF Seen, Game
    <2>3. QED BY <1>1, <2>2, SameGame
<1>6. QED BY <1>1, <1>3, <1>4, <1>5, SameGame, PollStep

LEMMA PollRestStep ==
    ASSUME Informed, PollRest
    PROVE  HostInv'
<1>1. UNCHANGED <<vars, current, pending, busy, reply, dialog, wire, asked>>
    BY DEF PollRest
<1> DEFINE hidden == poll.phase = "running" /\ opened_at[poll.position] > now
           there == poll.phase = "waiting" /\ Players # {}
<1>2. poll' = [poll EXCEPT !.stage = "read", !.revealing = hidden, !.present = there]
    BY DEF PollRest
<1>3. hidden \in BOOLEAN /\ there \in BOOLEAN /\ poll \in View
    BY DEF Informed, HostTypes
<1>4. Seen(poll, Game)
    BY <1>1, SameGame DEF Informed, Agrees
<1>5. poll.version = version /\ poll.phase = "running" /\ ~hidden => MayAdvance
    <2>1. position \in Question => opened_at[position] \in Int /\ now \in Int
        BY Numbers DEF Informed
    <2>2. QED BY <1>4, <2>1 DEF Seen, Game, MayAdvance
<1> HIDE DEF hidden, there
<1>6. /\ poll' \in View /\ poll'.phase = poll.phase /\ poll'.version = poll.version
      /\ poll'.position = poll.position /\ poll'.revealing = hidden
    BY <1>2, <1>3 DEF View
<1>7. Seen(poll', Game) /\ Revealed(poll', Game)
    BY <1>4, <1>5, <1>6 DEF Seen, Revealed, Game
<1>8. QED BY <1>1, <1>6, <1>7, SameGame, PollStep

LEMMA PollFailStep ==
    ASSUME Informed, PollFail
    PROVE  HostInv'
<1>1. UNCHANGED <<vars, current, pending, busy, reply, dialog, wire, asked>> /\ poll' = Nothing
    BY DEF PollFail, Abandoned
<1>2. QED BY <1>1, SameGame, NothingSeen, PollStep DEF Informed

\* render() keeps a confirmation only while its question is on the screen.
LEMMA PollDeliverStep ==
    ASSUME Informed, PollDeliver
    PROVE  HostInv'
<1>1. UNCHANGED <<vars, busy, reply, wire, asked>> /\ poll' = Nothing /\ poll.stage = "read"
    BY DEF PollDeliver
<1>2. CASE ~Accepts(poll)
    <2>1. UNCHANGED <<current, pending, dialog>>
        BY <1>2 DEF PollDeliver
    <2>2. QED BY <1>1, <2>1, SameGame, NothingSeen, PollStep DEF Informed
<1>3. CASE Accepts(poll)
    <2>1. /\ current' = [poll EXCEPT !.stage = "idle"]
          /\ pending' \in {pending, NoPending}
          /\ dialog' = IF KeepsDialog(poll) THEN dialog ELSE "none"
        BY <1>3 DEF PollDeliver
    <2>2. poll \in View /\ current \in View
        BY DEF Informed, HostTypes
    <2>3. /\ current' \in View /\ current'.phase = poll.phase /\ current'.version = poll.version
          /\ current'.position = poll.position /\ current'.revealing = poll.revealing
        BY <2>1, <2>2 DEF View
    <2>4. Game' = Game /\ transitions' = transitions
        BY <1>1, SameGame
    <2>5. HostTypes'
        BY <1>1, <2>1, <2>3, NothingSeen DEF Informed, HostTypes
    <2>6. Awaiting'
        BY <1>1, <2>1 DEF Informed, Awaiting
    <2>7. Asking'
        <3>1. CASE dialog' = "none"
            BY <3>1 DEF Asking
        <3>2. CASE dialog' # "none"
            <4>1. dialog' = dialog /\ KeepsDialog(poll)
                BY <2>1, <3>2
            <4>2. /\ current'.position = current.position /\ current'.phase \in {"waiting", "running"}
                  /\ <<dialog, current.position>> \in asked
                  /\ dialog = "end" => current.phase = "running"
                  /\ dialog = "cancel" => current.phase = "waiting"
                BY <2>3, <3>2, <4>1 DEF KeepsDialog, Informed, Confirming, Asking
            <4>3. /\ current'.phase = "waiting" => current'.position = 0
                  /\ current'.phase = "running" => current'.position \in Question
                  /\ current.phase = "waiting" => current.position = 0
                  /\ current.phase = "running" => current.position \in Question
                  /\ 0 \notin Question
                BY <2>3, LiveQuizAssumption DEF Informed, Agrees, Seen, Question
            <4>4. QED BY <1>1, <4>1, <4>2, <4>3 DEF Asking
        <3>3. QED BY <3>1, <3>2
    <2>8. Confirming'
        BY <1>1, <2>1, <2>4, <2>7 DEF Informed, Confirming, ConfirmedBeforeEnding
    <2>9. Seen(current', Game') /\ Revealed(current', Game')
        BY <1>1, <2>3 DEF Informed, Agrees, Seen, Revealed
    <2>10. Agrees(Game, transitions)'
        BY <1>1, <2>1, <2>9, NothingSeen DEF Informed, Agrees
    <2>11. QED BY <2>5, <2>6, <2>8, <2>10 DEF HostInv
<1>4. QED BY <1>2, <1>3

(***************************************************************************)
(* Controls.                                                               *)
(***************************************************************************)

\* A request made from the state on the screen, or kept from before.
LEMMA ControlStep ==
    ASSUME Informed, NEW action \in Action, Control(action),
           action \in {"end", "cancel"} => <<action, current.position>> \in asked,
           action \in {"start", "cancel"} => current.phase = "waiting",
           action \in {"next", "end"} => current.phase = "running" /\ ~current.revealing
    PROVE  HostInv'
<1> DEFINE request == Values(action)
           entry == [request |-> request, button |-> action, awaited |-> TRUE]
<1>1. /\ UNCHANGED <<vars, current, poll, dialog, asked>> /\ ~busy /\ current # Nothing
      /\ pending' = request /\ wire' = wire \union {entry} /\ busy' = TRUE /\ reply' = "none"
    BY DEF Control
<1>2. /\ request \in HostRequest /\ Confirmed(request, asked) /\ Applicable(request, Game')
    <2>1. CASE pending # NoPending
        BY <2>1 DEF Values, Informed, HostTypes, Confirming, Agrees
    <2>2. CASE pending = NoPending
        <3> DEFINE key == CHOOSE k \in Key : Unknown(k)
        <3>1. key \in Key
            BY <2>2 DEF Control
        <3>2. request = [key |-> key, action |-> action, version |-> current.version,
                         position |-> current.position]
            BY <2>2 DEF Values
        <3> HIDE DEF key, request
        <3>3. request \in HostRequest
            BY <3>1, <3>2 DEF HostRequest, Informed, HostTypes, View
        <3>4. Confirmed(request, asked)
            BY <3>2 DEF Confirmed
        <3>5. Applicable(request, Game')
            BY <3>2 DEF Applicable, Informed, Agrees, Seen, Revealed, Action
        <3>6. QED BY <3>3, <3>4, <3>5
    <2>3. QED BY <2>1, <2>2
<1>3. Game' = Game /\ transitions' = transitions
    BY <1>1, SameGame
<1>4. /\ entry \in Sent /\ entry.request = request /\ entry.awaited
    BY <1>2 DEF Sent
<1> HIDE DEF request, entry
<1>5. HostTypes'
    BY <1>1, <1>2, <1>4 DEF Informed, HostTypes
<1>6. Awaiting'
    BY <1>1, <1>4 DEF Informed, Awaiting
<1>7. Confirming'
    BY <1>1, <1>2, <1>3, <1>4 DEF Informed, Confirming, Asking, ConfirmedBeforeEnding
<1>8. Agrees(Game, transitions)'
    BY <1>1, <1>2, <1>4 DEF Informed, Agrees
<1>9. QED BY <1>5, <1>6, <1>7, <1>8 DEF HostInv

LEMMA ClickStep ==
    ASSUME Informed, ClickStart \/ ClickNext
    PROVE  HostInv'
BY ControlStep DEF ClickStart, ClickNext, Action

LEMMA DialogYesStep ==
    ASSUME Informed, DialogYes
    PROVE  HostInv'
<1>1. dialog \in {"end", "cancel"}
    BY DEF DialogYes, Informed, HostTypes
<1>2. QED BY <1>1, ControlStep DEF DialogYes, Informed, Confirming, Asking, Action

\* The dialog and the record of what it asked.
LEMMA DialogStep ==
    ASSUME Informed, DialogNo \/ \E action \in {"end", "cancel"} : OpenDialog(action)
    PROVE  HostInv'
<1>1. /\ UNCHANGED <<vars, current, poll, pending, busy, reply, wire>>
      /\ dialog' \in {"none", "end", "cancel"} /\ asked \subseteq asked'
      /\ dialog' # "none" =>
            /\ <<dialog', current.position>> \in asked'
            /\ dialog' = "end" => current.phase = "running"
            /\ dialog' = "cancel" => current.phase = "waiting"
    BY DEF DialogNo, OpenDialog
<1>2. Game' = Game /\ transitions' = transitions
    BY <1>1, SameGame
<1>3. HostTypes' /\ Awaiting'
    BY <1>1 DEF Informed, HostTypes, Awaiting
<1>4. Confirming'
    BY <1>1, <1>2 DEF Informed, Confirming, Asking, Confirmed, ConfirmedBeforeEnding
<1>5. Agrees(Game, transitions)'
    BY <1>1 DEF Informed, Agrees
<1>6. QED BY <1>3, <1>4, <1>5 DEF HostInv

\* Nothing but a known key or an old version is a conflict, and neither will be applied.
LEMMA ConflictRefuses ==
    ASSUME TypeOK, NEW r \in HostRequest, Applicable(r, Game), Verdict(r) = "conflict"
    PROVE  Refused(r, transitions, Game)
<1>1. version \in Nat
    BY DEF TypeOK, GameTypes
<1>2. CASE KeyUsed(r.key)
    BY <1>2 DEF Verdict, Refused, KeyUsed
<1>3. CASE ~KeyUsed(r.key)
    <2>1. r \notin transitions
        BY <1>3 DEF KeyUsed
    <2>2. r.version # version
        BY <1>3 DEF Verdict, UpToDate, Applicable, Game, HostRequest, Action
    <2>3. QED BY <1>1, <2>1, <2>2 DEF Refused, Applicable, Game, HostRequest
<1>4. QED BY <1>2, <1>3

LEMMA ExecuteStep ==
    ASSUME Informed, Agrees(Game, transitions), Moved(Game, Game'),
           Logged(transitions, transitions', Game), NEW entry \in wire, Execute(entry)
    PROVE  HostInv'
<1> DEFINE r == entry.request
<1>1. /\ UNCHANGED <<current, poll, pending, busy, dialog, asked>> /\ wire' = wire \ {entry}
      /\ reply' = IF entry.awaited THEN Verdict(r) ELSE reply
    BY DEF Execute, ReplyTo
<1>2. r \in HostRequest /\ Applicable(r, Game) /\ Confirmed(r, asked)
    BY DEF Informed, HostTypes, Sent, Agrees, Confirming
<1>3. transitions' = transitions \/ transitions' = transitions \union {r}
    BY DEF Execute, Transition, vars, gameVars
<1>4. Verdict(r) \in {"ok", "conflict", "invalid"}
    BY DEF Verdict
<1>5. Verdict(r) = "conflict" => /\ UNCHANGED vars
                                 /\ Refused(r, transitions, Game)
    BY <1>2, ConflictRefuses DEF Execute, Informed
<1> HIDE DEF r
<1>6. HostTypes'
    BY <1>1, <1>4 DEF Informed, HostTypes
<1>7. Awaiting'
    BY <1>1 DEF Informed, Awaiting, r
<1>8. Confirming'
    BY <1>1, <1>2, <1>3 DEF Informed, Confirming, Asking, Confirmed, ConfirmedBeforeEnding
<1>9. Agrees(Game, transitions)'
    <2>1. reply' = "conflict" => pending' = NoPending \/ Refused(pending', transitions', Game')
        <3>1. CASE ~entry.awaited
            BY <1>1, <3>1 DEF Informed, Agrees
        <3>2. CASE entry.awaited
            BY <1>1, <1>5, <3>2, SameGame DEF Informed, Awaiting, r
        <3>3. QED BY <3>1, <3>2
    <2>2. QED BY <1>1, <2>1 DEF Informed, Agrees
<1>10. QED BY <1>6, <1>7, <1>8, <1>9 DEF HostInv

(***************************************************************************)
(* Replies, losses and reloads.                                            *)
(***************************************************************************)

LEMMA ReceiveStep ==
    ASSUME Informed, Receive
    PROVE  HostInv'
<1>1. /\ UNCHANGED <<vars, current, poll, wire, asked>> /\ busy' = FALSE /\ reply' = "none"
      /\ pending' \in {pending, NoPending} /\ dialog' \in {dialog, "none"} /\ reply # "none"
    BY DEF Receive, AfterReply
<1>2. Game' = Game /\ transitions' = transitions
    BY <1>1, SameGame
<1>3. HostTypes' /\ Awaiting'
    BY <1>1 DEF Informed, HostTypes, Awaiting
<1>4. Confirming'
    BY <1>1, <1>2 DEF Informed, Confirming, Asking, ConfirmedBeforeEnding
<1>5. Agrees(Game, transitions)'
    BY <1>1 DEF Informed, Agrees
<1>6. QED BY <1>3, <1>4, <1>5 DEF HostInv

\* Requests the page no longer waits for.
LEMMA AbandonedRequests ==
    ASSUME NEW entry \in Sent
    PROVE  /\ GiveUp(entry) \in Sent /\ ~GiveUp(entry).awaited
           /\ GiveUp(entry).request = entry.request
BY DEF GiveUp, Sent

LEMMA AbandonStep ==
    ASSUME Informed, Timeout \/ Reload
    PROVE  HostInv'
<1>1. /\ UNCHANGED <<vars, asked>> /\ busy' = FALSE /\ reply' = "none"
      /\ wire' = {GiveUp(entry) : entry \in wire}
      /\ UNCHANGED <<current, dialog>> \/ (current' = Nothing /\ dialog' = "none")
      /\ poll' \in {poll, Nothing} /\ pending' \in {pending, NoPending}
    BY DEF Timeout, Reload
<1>2. Game' = Game /\ transitions' = transitions
    BY <1>1, SameGame
<1>3. wire' \subseteq Sent /\ \A e \in wire' : ~e.awaited /\ \E f \in wire : e.request = f.request
    BY <1>1, AbandonedRequests DEF Informed, HostTypes
<1>4. HostTypes'
    BY <1>1, <1>3, NothingSeen DEF Informed, HostTypes
<1>5. Awaiting'
    BY <1>1, <1>3 DEF Awaiting
<1>6. Confirming'
    BY <1>1, <1>2, <1>3 DEF Informed, Confirming, Asking, ConfirmedBeforeEnding
<1>7. Agrees(Game, transitions)'
    BY <1>1, <1>3, NothingSeen DEF Informed, Agrees
<1>8. QED BY <1>4, <1>5, <1>6, <1>7 DEF HostInv

LEMMA RestStep ==
    ASSUME Informed, (\E entry \in wire : Lose(entry)) \/ Students \/ UNCHANGED hostVars
    PROVE  HostInv'
<1>1. /\ UNCHANGED <<current, poll, pending, busy, reply, dialog, asked>> /\ wire' \subseteq wire
      /\ transitions' = transitions
    <2>1. ASSUME NEW entry \in wire, Lose(entry)
          PROVE  /\ UNCHANGED <<vars, current, poll, pending, busy, reply, dialog, asked>>
                 /\ wire' \subseteq wire
        BY <2>1 DEF Lose
    <2>2. ASSUME Students PROVE UNCHANGED <<pageVars, transitions>>
        BY <2>2 DEF Students, Tick, Join, Heartbeat, Leave, gameVars
    <2>3. QED BY <2>1, <2>2 DEF hostVars, pageVars, vars, gameVars
<1>2. HostTypes' /\ Awaiting' /\ Confirming'
    BY <1>1 DEF Informed, HostTypes, Awaiting, Confirming, Asking, ConfirmedBeforeEnding
<1>3. Agrees(Game, transitions)'
    BY <1>1 DEF Informed, Agrees
<1>4. QED BY <1>2, <1>3 DEF HostInv

(***************************************************************************)
(* The invariant, and what it says of the host's requests.                 *)
(***************************************************************************)

LEMMA InitHostInv == HostInit /\ TypeOK => HostInv
<1> SUFFICES ASSUME HostInit, TypeOK PROVE HostInv
    OBVIOUS
<1>1. /\ current = Nothing /\ poll = Nothing /\ pending = NoPending /\ busy = FALSE
      /\ reply = "none" /\ dialog = "none" /\ wire = {} /\ transitions = {}
    BY DEF HostInit, Init
<1>2. Nothing \in View /\ Seen(Nothing, Game) /\ Revealed(Nothing, Game) /\ Nothing.stage # "read"
    BY GameType, NothingSeen
<1>3. HostTypes
    BY <1>1, <1>2 DEF HostTypes
<1>4. Awaiting /\ Confirming
    BY <1>1 DEF Awaiting, Confirming, Asking, ConfirmedBeforeEnding
<1>5. Agrees(Game, transitions)
    BY <1>1, <1>2 DEF Agrees
<1>6. QED BY <1>3, <1>4, <1>5 DEF HostInv

LEMMA NextHostInv ==
    TypeOK /\ IInv /\ Numbered /\ HostInv /\ [HostNext]_hostVars =>
        TypeOK' /\ IInv' /\ Numbered' /\ HostInv'
<1> SUFFICES ASSUME TypeOK, IInv, Numbered, HostInv, [HostNext]_hostVars
             PROVE  TypeOK' /\ IInv' /\ Numbered' /\ HostInv'
    OBVIOUS
<1>1. [Next]_vars
    BY HostServerStep DEF HostInv
<1>2. TypeOK' /\ IInv' /\ Numbered'
    BY <1>1, NextTypeOK, NextIInv, NextNumbered
<1>3. Game \in Games /\ Game' \in Games
    <2>1. Game \in Games
        BY GameType
    <2>2. /\ phase' \in {"waiting", "running", "finished", "cancelled"}
          /\ version' \in Nat /\ position' \in Nat
        BY <1>2, LiveQuizAssumption DEF TypeOK, GameTypes
    <2>3. MayAdvance' \in BOOLEAN
        BY DEF MayAdvance
    <2>4. Game' \in Games
        BY <2>2, <2>3 DEF Game, Games
    <2>5. QED BY <2>1, <2>4
<1>4. Moved(Game, Game') /\ Logged(transitions, transitions', Game)
    BY <1>1, GameMoves
<1>5. Agrees(Game', transitions')
    BY <1>3, <1>4, StillAgrees DEF HostInv
<1>6. Informed
    BY <1>2, <1>3, <1>5 DEF Informed, HostInv
<1>7. HostInv'
    <2>1. CASE PollGame \/ PollRest \/ PollDeliver \/ PollFail
        BY <1>6, <2>1, PollGameStep, PollRestStep, PollDeliverStep, PollFailStep
    <2>2. CASE ClickStart \/ ClickNext \/ DialogYes
        BY <1>6, <2>2, ClickStep, DialogYesStep
    <2>3. CASE DialogNo \/ \E action \in {"end", "cancel"} : OpenDialog(action)
        BY <1>6, <2>3, DialogStep
    <2>4. ASSUME NEW entry \in wire, Execute(entry) PROVE HostInv'
        BY <1>4, <1>6, <2>4, ExecuteStep DEF HostInv
    <2>5. CASE Receive \/ Timeout \/ Reload
        BY <1>6, <2>5, ReceiveStep, AbandonStep
    <2>6. CASE (\E entry \in wire : Lose(entry)) \/ Students \/ UNCHANGED hostVars
        BY <1>6, <2>6, RestStep
    <2>7. QED BY <2>1, <2>2, <2>3, <2>4, <2>5, <2>6 DEF HostNext
<1>8. QED BY <1>2, <1>7

\* What the page has read and sent agrees with the game, whatever is lost or repeated.
THEOREM HostInvariance == HostSpec => [](TypeOK /\ IInv /\ HostInv)
<1>1. HostInit => TypeOK /\ IInv /\ Numbered /\ HostInv
    BY InitTypeOK, InitIInv, InitNumbered, InitHostInv DEF HostInit
<1>2. QED BY <1>1, NextHostInv, PTL DEF HostSpec

\* A request that was applied is never refused to the host who repeats it.
THEOREM AppliedIsNotRefused == HostSpec => []ConflictMeansNotApplied
<1>1. HostInv => ConflictMeansNotApplied
    BY DEF HostInv, Agrees, Refused, ConflictMeansNotApplied
<1>2. QED BY <1>1, HostInvariance, PTL

\* The quiz is ended or cancelled only at a question the host was asked about.
THEOREM EndsAsConfirmed == HostSpec => []ConfirmedBeforeEnding
<1>1. HostInv => ConfirmedBeforeEnding
    BY DEF HostInv, Confirming
<1>2. QED BY <1>1, HostInvariance, PTL

\* Whatever the page and its network do is a behaviour of the server alone, so all that
\* LiveQuizProofs shows of a quiz holds of one that is driven through this page.
THEOREM HostIsAClient == HostSpec => Spec
<1>1. HostInit => Init /\ TypeOK /\ IInv /\ Numbered /\ HostInv
    BY InitTypeOK, InitIInv, InitNumbered, InitHostInv DEF HostInit
<1>2. TypeOK /\ IInv /\ Numbered /\ HostInv /\ [HostNext]_hostVars => [Next]_vars
    BY HostServerStep DEF HostInv
<1>3. QED BY <1>1, <1>2, NextHostInv, PTL DEF HostSpec, Spec
=============================================================================
