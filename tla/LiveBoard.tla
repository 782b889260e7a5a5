----------------------------- MODULE LiveBoard -----------------------------
(***************************************************************************)
(* What a live quiz promises about answers, without clocks, connections or *)
(* requests: one cell per player and question, filled once, by an answer   *)
(* while the question is the one asked or by the question's closing, which *)
(* fills every cell of the column that is still empty.                     *)
(***************************************************************************)
EXTENDS Integers

CONSTANTS Player, Last

VARIABLES
    stage,      \* "lobby", "play" or "over"
    asked,      \* the question on the board, 0 in the lobby
    players,    \* who takes part
    board       \* the cells: "none" or how the question ended for the player

boardVars == <<stage, asked, players, board>>

Column == 1..Last
Empty == [p \in Player |-> [q \in Column |-> "none"]]

Init ==
    /\ stage = "lobby" /\ asked = 0 /\ players = {}
    /\ board = Empty

\* The quiz starts with at least one player.
Begin ==
    /\ stage = "lobby"
    /\ stage' = "play" /\ asked' = 1
    /\ players' \in (SUBSET Player) \ {{}}
    /\ UNCHANGED board

Abandon ==
    /\ stage = "lobby"
    /\ stage' = "over"
    /\ UNCHANGED <<asked, players, board>>

Admit(p) ==
    /\ stage = "play" /\ p \notin players
    /\ players' = players \union {p}
    /\ UNCHANGED <<stage, asked, board>>

\* A player answers the question on the board, once.
Record(p, how) ==
    /\ stage = "play" /\ p \in players
    /\ board[p][asked] = "none"
    /\ board' = [board EXCEPT ![p][asked] = how]
    /\ UNCHANGED <<stage, asked, players>>

\* The question closes for every player; the next one is asked or the quiz is over.
Close ==
    /\ stage = "play"
    /\ board' = [p \in Player |-> IF p \in players /\ board[p][asked] = "none"
                                   THEN [board[p] EXCEPT ![asked] = "unanswered"]
                                   ELSE board[p]]
    /\ \/ stage' = "over" /\ UNCHANGED asked
       \/ stage' = "play" /\ asked < Last /\ asked' = asked + 1
    /\ UNCHANGED players

\* A deleted account takes its row with it.
Remove(p) ==
    /\ players' = players \ {p}
    /\ board' = [board EXCEPT ![p] = Empty[p]]
    /\ UNCHANGED <<stage, asked>>

Next ==
    \/ Begin \/ Abandon \/ Close
    \/ \E p \in Player :
          \/ Admit(p) \/ Remove(p)
          \/ \E how \in {"correct", "incorrect", "skipped"} : Record(p, how)

Spec == Init /\ [][Next]_boardVars
=============================================================================
