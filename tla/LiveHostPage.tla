---------------------------- MODULE LiveHostPage ----------------------------
(***************************************************************************)
(* The host's page (static/live-quiz.js) driving a live quiz over a        *)
(* network that loses, delays and repeats: the poll loop, the Start, Next, *)
(* End and Cancel controls, and the request that control() keeps to resend *)
(* when it does not know what became of it.                                *)
(*                                                                         *)
(* A request the page gave up on (AbortSignal.timeout) may still reach the *)
(* server.  The host may reload the page at any moment.  Students come and *)
(* go; their clocks and answers do not reach the host's controls and are   *)
(* left to LiveQuiz.                                                       *)
(***************************************************************************)
EXTENDS LiveQuiz

CONSTANT MaxWire        \* bound: control requests in flight at once

VARIABLES
    current,    \* the state rendered last
    poll,       \* the poll in flight: what it has read so far
    pending,    \* pendingControl: the request to resend, or Nothing
    busy,       \* actionBusy: a control request is awaited
    reply,      \* the verdict on its way back to the page
    dialog,     \* confirmation: "end" or "cancel" while its question is shown
    wire,       \* control requests on their way to the server
    asked       \* history: the confirmations shown, each with the position it was about

pageVars == <<current, poll, pending, busy, reply, dialog, wire, asked>>
hostVars == <<vars, pageVars>>

Nothing == [phase |-> "none", version |-> -1, position |-> -1, revealing |-> FALSE,
            present |-> FALSE, stage |-> "idle"]
NoPending == [key |-> "none", action |-> "none", version |-> -1, position |-> -1]

HostInit ==
    /\ Init
    /\ current = Nothing /\ poll = Nothing
    /\ pending = NoPending
    /\ busy = FALSE /\ reply = "none" /\ dialog = "none"
    /\ wire = {}
    /\ asked = {}

-----------------------------------------------------------------------------
(* Mistakes for the mutation runs, as in LiveQuiz.                         *)

KeepsDialog_AnyPosition(data) == data.phase \in {"waiting", "running"}
Abandoned_StaysBusy == [poll EXCEPT !.stage = "failed"]
ReplyTo_NoReplay(r) == IF UpToDate(r) THEN Verdict(r) ELSE "conflict"

-----------------------------------------------------------------------------
(* Polling.  The state view reads the game row first, the rest later.      *)

PollGame ==
    /\ poll.stage = "idle"
    /\ current.phase \notin {"finished", "cancelled"}
    /\ poll' = [Nothing EXCEPT !.phase = phase, !.version = version, !.position = position,
                               !.stage = "game"]
    /\ UNCHANGED <<vars, current, pending, busy, reply, dialog, wire, asked>>

PollRest ==
    /\ poll.stage = "game"
    /\ poll' = [poll EXCEPT
          !.stage = "read",
          !.revealing = poll.phase = "running" /\ opened_at[poll.position] > now,
          !.present = poll.phase = "waiting" /\ Players # {}]
    /\ UNCHANGED <<vars, current, pending, busy, reply, dialog, wire, asked>>

\* acceptState: nothing older than what is shown.
Accepts(data) == data.version >= current.version

\* render(): a newer version settles the pending request, another question or the end
\* of the quiz closes the confirmation.
KeepsDialog(data) ==
    /\ data.position = current.position
    /\ data.phase \in {"waiting", "running"}

PollDeliver ==
    /\ poll.stage = "read"
    /\ poll' = Nothing
    /\ IF Accepts(poll)
       THEN /\ current' = [poll EXCEPT !.stage = "idle"]
            /\ pending' = IF poll.version > pending.version THEN NoPending ELSE pending
            /\ dialog' = IF KeepsDialog(poll) THEN dialog ELSE "none"
       ELSE UNCHANGED <<current, pending, dialog>>
    /\ UNCHANGED <<vars, busy, reply, wire, asked>>

\* finally: whatever failed, the next poll is scheduled.
Abandoned == Nothing

PollFail ==
    /\ poll.stage \in {"game", "read"}
    /\ poll' = Abandoned
    /\ UNCHANGED <<vars, current, pending, busy, reply, dialog, wire, asked>>

-----------------------------------------------------------------------------
(* Controls.                                                               *)

\* crypto.randomUUID() draws a key nobody remembers; which one makes no difference.
Unknown(k) == ~KeyUsed(k) /\ \A entry \in wire : entry.request.key # k

\* control(action): resend what is pending, else ask for the action just clicked.
Values(action) ==
    IF pending # NoPending THEN pending
    ELSE [key |-> CHOOSE k \in Key : Unknown(k), action |-> action,
          version |-> current.version, position |-> current.position]

Control(action) ==
    /\ ~busy /\ current # Nothing
    /\ Cardinality(wire) < MaxWire
    /\ pending # NoPending \/ \E k \in Key : Unknown(k)
    /\ pending' = Values(action)
    /\ wire' = wire \union {[request |-> Values(action), button |-> action, awaited |-> TRUE]}
    /\ busy' = TRUE /\ reply' = "none"
    /\ UNCHANGED <<vars, current, poll, dialog, asked>>

ClickStart == current.phase = "waiting" /\ current.present /\ Control("start")
ClickNext == current.phase = "running" /\ ~current.revealing /\ Control("next")

OpenDialog(action) ==
    /\ ~busy /\ ~current.revealing
    /\ \/ action = "end" /\ current.phase = "running" /\ current.position < QuestionCount
       \/ action = "cancel" /\ current.phase = "waiting"
    /\ dialog' = action
    /\ asked' = asked \union {<<action, current.position>>}
    /\ UNCHANGED <<vars, current, poll, pending, busy, reply, wire>>

DialogNo ==
    /\ dialog # "none"
    /\ dialog' = "none"
    /\ UNCHANGED <<vars, current, poll, pending, busy, reply, wire, asked>>

DialogYes == dialog # "none" /\ ~current.revealing /\ Control(dialog)

\* What the server answers: Verdict, the replay of a known key included.
ReplyTo(r) == Verdict(r)

\* The server executes a request that reached it, at once or long after it was sent.
Execute(entry) ==
    /\ entry \in wire
    /\ IF Verdict(entry.request) = "ok" /\ ~KeyUsed(entry.request.key)
       THEN Transition(entry.request) ELSE UNCHANGED vars
    /\ wire' = wire \ {entry}
    /\ reply' = IF entry.awaited THEN ReplyTo(entry.request) ELSE reply
    /\ UNCHANGED <<current, poll, pending, busy, dialog, asked>>

GiveUp(entry) == [entry EXCEPT !.awaited = FALSE]

\* Success and conflict settle the request; after a 400 it stays pending.
AfterReply(r) == IF r \in {"ok", "conflict"} THEN NoPending ELSE pending

Receive ==
    /\ busy /\ reply # "none"
    /\ busy' = FALSE /\ reply' = "none"
    /\ pending' = AfterReply(reply)
    /\ dialog' = IF reply = "ok" THEN "none" ELSE dialog
    /\ UNCHANGED <<vars, current, poll, wire, asked>>

\* Eight seconds, a dropped connection or a 5xx: the request stays pending.
Timeout ==
    /\ busy
    /\ busy' = FALSE /\ reply' = "none"
    /\ wire' = {GiveUp(entry) : entry \in wire}
    /\ UNCHANGED <<vars, current, poll, pending, dialog, asked>>

Lose(entry) ==
    /\ entry \in wire
    /\ wire' = wire \ {entry}
    /\ UNCHANGED <<vars, current, poll, pending, busy, reply, dialog, asked>>

Reload ==
    /\ current' = Nothing /\ poll' = Nothing
    /\ pending' = NoPending
    /\ busy' = FALSE /\ reply' = "none" /\ dialog' = "none"
    /\ wire' = {GiveUp(entry) : entry \in wire}
    /\ UNCHANGED <<vars, asked>>

Students ==
    /\ Tick \/ \E c \in Connection : Join(c) \/ Heartbeat(c) \/ Leave(c)
    /\ UNCHANGED <<pageVars, asked>>

HostNext ==
    \/ PollGame \/ PollRest \/ PollDeliver \/ PollFail
    \/ ClickStart \/ ClickNext \/ DialogYes \/ DialogNo
    \/ \E action \in {"end", "cancel"} : OpenDialog(action)
    \/ \E entry \in wire : Execute(entry) \/ Lose(entry)
    \/ Receive \/ Timeout \/ Reload
    \/ Students

HostSpec == HostInit /\ [][HostNext]_hostVars

\* The browser's timers keep polling (setTimeout), and a poll that is repeated for ever
\* is not lost for ever: the network answers again and again.
PollFairness ==
    /\ WF_hostVars(PollGame)
    /\ SF_hostVars(PollRest)
    /\ SF_hostVars(PollDeliver)

FairHostSpec == HostSpec /\ PollFairness

-----------------------------------------------------------------------------
(* Properties.                                                             *)

\* A request that was applied is never refused as a conflict: the host who retries
\* after a lost reply is not told that the quiz moved on without them (live.py:138-143).
ConflictMeansNotApplied ==
    reply = "conflict" /\ pending # NoPending => pending \notin transitions

\* The quiz is ended or cancelled only at a question about which the confirmation was
\* shown, although it may move on while the question is on the screen (live-quiz.js:45-48).
ConfirmedBeforeEnding ==
    \A t \in transitions : t.action \in {"end", "cancel"} => <<t.action, t.position>> \in asked

\* The page catches up: whatever was lost, reloaded or given up, again and again it
\* shows the present state of the quiz.
PageCatchesUp == []<>(current.version = version)

\* Confirming "Cancel this waiting room? No game results will be scored."
\* (live-quiz.js:187) does not start the quiz.
CancelNeverStarts ==
    [][\A entry \in wire \ wire' : entry.button = "cancel" =>
          ~(phase = "waiting" /\ phase' = "running") ]_hostVars
=============================================================================
