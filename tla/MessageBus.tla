----------------------------- MODULE MessageBus -----------------------------
(***************************************************************************)
(* The message bus (bus/bus.py), the envelopes its adapters make, the      *)
(* transports that deliver them, and the bots that share it                *)
(* (messenger/multi.py), on top of the lock pool.                          *)
(*                                                                         *)
(* A turn is a message of a user, a heartbeat, a webhook wake, or an       *)
(* envelope submitted to the bus.  Task results and questions and the      *)
(* answers of other agents are injected into their session under its lock  *)
(* and delivered before the lock is released; all other envelopes are      *)
(* delivered without a lock.                                               *)
(***************************************************************************)
EXTENDS LockPool

CONSTANTS
  Transports,   \* the transports of the process, as they were registered
  Chats,
  ChatOf,       \* the chat (and topic) of a turn
  OriginOf,     \* what a turn is
  TransportOf,  \* of a user or wake: its bot; of an envelope: its target
  After         \* MultiBotAdapter awaits the bots one after the other: the
                \* submission of the same result by the previous bot

\* Origins whose envelopes are injected under the lock.
Injected == {"task_result", "task_question", "interagent"}

\* Turns that hold the lock themselves and may then submit what they produced.
OwnTurns == {"user", "heartbeat", "wake"}

Broadcasts == {"cron_all", "webhook_cron"}

\* A cancelled task, a failed inter-agent request, a background result, a cron
\* job with a chat.
Notices == {"task_notice", "interagent_error", "background", "cron"}

Origins == Injected \cup OwnTurns \cup Broadcasts \cup Notices

\* Envelopes whose adapter leaves Envelope.transport at its default.
Defaulted ==
  {"task_result", "task_question", "task_notice", "background", "heartbeat", "wake"}

Registered == {Transports[i] : i \in 1..Len(Transports)}

\* The pool a turn locks in.  The pool that MultiBotAdapter hands to its bots
\* is empty, hence false, and `lock_pool or LockPool()` gives each bot a pool of
\* its own; the bus, and through it the heartbeat, keep the shared one.
PoolOf(t) ==
  IF OriginOf[t] \in {"user", "wake"} /\ Len(Transports) > 1
  THEN TransportOf[t]
  ELSE "bus"

ASSUME BusAssumption ==
  /\ Transports \in Seq({"tg", "mx"})
  /\ Len(Transports) > 0
  /\ \A i, j \in 1..Len(Transports) : Transports[i] = Transports[j] => i = j
  /\ ChatOf \in [Turns -> Chats]
  /\ OriginOf \in [Turns -> Origins]
  /\ TransportOf \in [Turns -> {"tg", "mx"}]
  /\ \A t \in Turns :
       /\ OriginOf[t] \in Defaulted => TransportOf[t] = "tg"
       /\ OriginOf[t] \in {"user", "interagent", "interagent_error"}
            => TransportOf[t] \in Registered
       /\ OriginOf[t] = "wake" => Transports[1] = "tg"
  /\ After \in [Turns -> Turns \cup {NoTurn}]
  /\ Keys = (Registered \cup {"bus"}) \X Chats
  /\ KeyOf = [t \in Turns |-> <<PoolOf(t), ChatOf[t]>>]

VARIABLES
  phase,   \* how far a turn is
  at,      \* which leg of its route is being delivered
  handed   \* the transports that had a handler for it and ran it

busVars == <<vars, phase, at, handed>>

Phases ==
  {"new", "queued", "working", "delivering", "delivered", "ended", "cancelled"}

Over == {"delivered", "ended", "cancelled"}

BusTypeOK ==
  /\ TypeOK
  /\ phase \in [Turns -> Phases]
  /\ at \in [Turns -> 1..Len(Transports)]
  /\ handed \in [Turns -> SUBSET Registered]

BusInit ==
  /\ Init
  /\ phase = [t \in Turns |-> "new"]
  /\ at = [t \in Turns |-> 1]
  /\ handed = [t \in Turns |-> {}]

-----------------------------------------------------------------------------
(* Routing: _deliver and the handler tables of the two transports.         *)

Broadcast(t) == OriginOf[t] \in Broadcasts

\* Whom _deliver asks, one after the other: every transport for a broadcast, the
\* target if it is registered, else the first of the others, for a broadcast.
Route(t) ==
  IF Broadcast(t) THEN Transports
  ELSE IF TransportOf[t] \in Registered THEN <<TransportOf[t]>>
  ELSE <<Transports[1]>>

Recipients(t) == {Route(t)[i] : i \in 1..Len(Route(t))}

\* Both transports have a handler for every unicast origin, and broadcast
\* nothing but the results of cron jobs and webhooks.
HasHandler(t) ==
  \/ OriginOf[t] \in {"cron", "cron_all", "webhook_cron"}
  \/ ~Broadcast(t) /\ TransportOf[t] \in Registered

-----------------------------------------------------------------------------
(* The steps of a turn.                                                    *)

TakesLock(t) == OriginOf[t] \in Injected \cup OwnTurns

\* The second bot is given a task result when the first is through with it.
Due(t) == After[t] # NoTurn => phase[After[t]] = "delivered"

\* get() and `async with lock`, with no await between them.
TakeLock(t) ==
  /\ phase[t] = "new"
  /\ TakesLock(t)
  /\ Due(t)
  /\ Enter(t)
  /\ phase' = [phase EXCEPT ![t] = IF stage'[t] = "inside" THEN "working" ELSE "queued"]
  /\ UNCHANGED <<at, handed>>

GrantLock(t) ==
  /\ Wake(t)
  /\ phase' = [phase EXCEPT ![t] = "working"]
  /\ UNCHANGED <<at, handed>>

\* LockMode.NONE.
SubmitUnlocked(t) ==
  /\ phase[t] = "new"
  /\ ~TakesLock(t)
  /\ Due(t)
  /\ phase' = [phase EXCEPT ![t] = "delivering"]
  /\ UNCHANGED <<vars, at, handed>>

\* Mutant of Answer: the lock is released before the answer is delivered.
AnswerAndLeave(t) ==
  /\ phase[t] = "working"
  /\ OriginOf[t] \in Injected
  /\ phase' = [phase EXCEPT ![t] = "delivering"]
  /\ Leave(t)
  /\ UNCHANGED <<at, handed>>

\* inject_prompt returned, or failed and an error text stands for the answer.
Answer(t) ==
  /\ phase[t] = "working"
  /\ OriginOf[t] \in Injected
  /\ phase' = [phase EXCEPT ![t] = "delivering"]
  /\ UNCHANGED <<vars, at, handed>>

\* The body of a turn of its own ended.  A heartbeat without an alert and a turn
\* that failed leave nothing to submit; a user has been answered.
EndTurn(t) ==
  /\ phase[t] = "working"
  /\ OriginOf[t] \in OwnTurns
  /\ Leave(t)
  /\ \/ phase' = [phase EXCEPT ![t] = "ended"]
     \/ /\ OriginOf[t] # "user"
        /\ phase' = [phase EXCEPT ![t] = "delivering"]
  /\ UNCHANGED <<at, handed>>

\* An envelope that was injected keeps the lock until it is delivered.
Release(t) == IF Inside(t) THEN Leave(t) ELSE UNCHANGED vars

\* Mutant of DeliverLeg: an error of one transport leaves the loop.
DeliverLegOrStop(t) ==
  /\ phase[t] = "delivering"
  /\ handed' = [handed EXCEPT ![t] = @ \cup IF HasHandler(t) THEN {Route(t)[at[t]]} ELSE {}]
  /\ \/ /\ at[t] < Len(Route(t))
        /\ at' = [at EXCEPT ![t] = @ + 1]
        /\ UNCHANGED <<vars, phase>>
     \/ /\ phase' = [phase EXCEPT ![t] = "delivered"]
        /\ Release(t)
        /\ UNCHANGED at

\* One transport's deliver() or deliver_broadcast() returned or raised: either
\* way the next one is tried, and the envelope is done with after the last.
DeliverLeg(t) ==
  /\ phase[t] = "delivering"
  /\ handed' = [handed EXCEPT ![t] = @ \cup IF HasHandler(t) THEN {Route(t)[at[t]]} ELSE {}]
  /\ IF at[t] < Len(Route(t))
     THEN /\ at' = [at EXCEPT ![t] = @ + 1]
          /\ UNCHANGED <<vars, phase>>
     ELSE /\ phase' = [phase EXCEPT ![t] = "delivered"]
          /\ Release(t)
          /\ UNCHANGED at

\* Mutant of Cancel: the cancellation is swallowed with the other errors of a
\* delivery, and the lock stays with the envelope.
CancelKeepsLock(t) ==
  /\ OriginOf[t] # "user"
  /\ \/ phase[t] = "queued" /\ Abandon(t)
     \/ phase[t] \in {"working", "delivering"} /\ UNCHANGED vars
  /\ phase' = [phase EXCEPT ![t] = "cancelled"]
  /\ UNCHANGED <<at, handed>>

\* CancelledError is no Exception: it goes through every handler of the bus and
\* releases the lock on its way.
Cancel(t) ==
  /\ OriginOf[t] # "user"
  /\ \/ phase[t] = "queued" /\ Abandon(t)
     \/ phase[t] \in {"working", "delivering"} /\ Release(t)
  /\ phase' = [phase EXCEPT ![t] = "cancelled"]
  /\ UNCHANGED <<at, handed>>

BusNext ==
  \E t \in Turns :
    \/ TakeLock(t)
    \/ GrantLock(t)
    \/ SubmitUnlocked(t)
    \/ Answer(t)
    \/ EndTurn(t)
    \/ DeliverLeg(t)
    \/ Cancel(t)

BusSpec == BusInit /\ [][BusNext]_busVars

\* The event loop runs what is ready, CLI calls and deliveries return (they have
\* timeouts), and the loop over the bots goes on.  Nothing makes a message, a
\* result or a cancellation happen.
BusFairness ==
  \A t \in Turns :
    /\ WF_busVars(GrantLock(t))
    /\ WF_busVars(Answer(t))
    /\ WF_busVars(EndTurn(t))
    /\ WF_busVars(DeliverLeg(t))
    /\ After[t] # NoTurn => WF_busVars(TakeLock(t) \/ SubmitUnlocked(t))

FairBusSpec == BusSpec /\ BusFairness

-----------------------------------------------------------------------------
(* Properties.                                                             *)

\* A turn that runs in the session, or whose answer is still being delivered
\* under the lock.
Busy(t) ==
  \/ phase[t] = "working"
  \/ phase[t] = "delivering" /\ OriginOf[t] \in Injected

\* A bot's own turn: it locks in the pool of its bot.
OwnOfBot(t) == OriginOf[t] \in {"user", "wake"}

\* Two turns work in one chat together, the delivery of an injected answer included,
\* only in a process of several bots, and then one of them is a message or a wake and
\* the other did not come by the same bot: results, answers of agents and heartbeats
\* exclude each other up to the delivery (submit() holds the lock around both), and
\* nothing else comes between them where there is one bot.
AnswerBeforeNextTurn ==
  \A t, u \in Turns :
    Busy(t) /\ Busy(u) /\ ChatOf[t] = ChatOf[u] /\ t # u =>
      /\ Len(Transports) > 1
      /\ OwnOfBot(t) \/ OwnOfBot(u)
      /\ OwnOfBot(t) /\ OwnOfBot(u) => TransportOf[t] # TransportOf[u]

\* Every transport of the route that can deliver the envelope was given it,
\* whatever the transports before it raised.
FailureIsolated ==
  \A t \in Turns :
    phase[t] = "delivered" /\ HasHandler(t) => handed[t] = Recipients(t)

\* One turn at a time works in a chat, whichever bot it came by: "All bots share
\* a single MessageBus and LockPool" (messenger/multi.py:35).
OneTurnPerChat ==
  \A t, u \in Turns : Busy(t) /\ Busy(u) /\ ChatOf[t] = ChatOf[u] => t = u

\* What was submitted or queued comes to an end, and the second bot gets its
\* turn when the first is done: no lock is lost on any path.
EverySubmissionEnds ==
  \A t \in Turns :
    (phase[t] # "new" \/ (After[t] # NoTurn /\ phase[After[t]] = "delivered"))
      ~> phase[t] \in Over
=============================================================================
