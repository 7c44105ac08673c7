---------------------------- MODULE MCMessageBus ----------------------------
(* Small instances of MessageBus for TLC.                                    *)
EXTENDS MessageBus, TLC

CONSTANTS u, h, r, r2, a, b, c1

OneChat == {c1}
TheKeys == (Registered \cup {"bus"}) \X OneChat
TheKeyOf == [t \in Turns |-> <<PoolOf(t), c1>>]
TheChat == [t \in Turns |-> c1]

\* Telegram and Matrix bots in one process.  A task result, which both bots
\* submit, an answer of another agent, a heartbeat, a message and a broadcast meet
\* in one chat.
TwoBots == <<"tg", "mx">>
SixTurns == {r, r2, a, h, u, b}
SixOrigins ==
  (r :> "task_result") @@ (r2 :> "task_result") @@ (a :> "interagent")
    @@ (h :> "heartbeat") @@ (u :> "user") @@ (b :> "webhook_cron")
SixTargets == [t \in SixTurns |-> "tg"]
SecondBot == [t \in SixTurns |-> IF t = r2 THEN r ELSE NoTurn]

\* Two bots, a user's message and a task result.
UserAndResult == {u, r}
UserAndResultOrigins == (u :> "user") @@ (r :> "task_result")
ByTelegram == [t \in UserAndResult |-> "tg"]
NoFanOut == [t \in UserAndResult |-> NoTurn]
=============================================================================
