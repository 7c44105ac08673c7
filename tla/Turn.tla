-------------------------------- MODULE Turn --------------------------------
(***************************************************************************)
(* One conversation turn, from the session lock to the answer: the flags   *)
(* of the process registry (cli/process_registry.py), the flow of          *)
(* orchestrator/flows.py with its one retry on a fresh session, the CLI    *)
(* service with the retries of its own (cli/service.py), the subprocesses  *)
(* (cli/executor.py), and the in-flight record that survives a crash       *)
(* (infra/inflight.py).  A turn is a message of the user or a result that  *)
(* the bus injects into the session.                                       *)
(*                                                                         *)
(* /stop, /interrupt and the commands that bypass the queue run beside the *)
(* turns, whatever lock these hold.                                        *)
(***************************************************************************)
EXTENDS Integers, FiniteSets

CONSTANTS
  Chats,      \* chat ids
  Keys,       \* sessions, (chat_id, topic_id)
  Turns,      \* messages and injected results, each for one session
  ChatOf,     \* the chat of a session
  KeyOf,      \* the session of a turn
  Topicless,  \* sessions without a topic: there /stop means the whole chat
  Injected,   \* the turns that the bus injects
  Streamed,   \* the messages that are answered with streaming
  Groups,     \* chats with a negative id, which are not told of a crash
  MaxOrders,  \* bound: /stop and /interrupt given
  MaxCrashes, \* bound: crashes of the bot
  NoTurn

ASSUME TurnAssumption ==
  /\ ChatOf \in [Keys -> Chats]
  /\ KeyOf \in [Turns -> Keys]
  /\ Topicless \subseteq Keys
  /\ Injected \subseteq Turns
  /\ Streamed \subseteq Turns \ Injected
  /\ Groups \subseteq Chats
  /\ MaxOrders \in Nat /\ MaxCrashes \in Nat
  /\ NoTurn \notin Turns

VARIABLES
  holder,       \* the turn inside the lock of a session
  pc,           \* how far a turn is
  stream,       \* whether the attempt of a turn at the CLI streams
  proc,         \* the process of its attempt
  answer,       \* what that process came back with
  attempts,     \* processes started for a turn
  retried,      \* the turns that were given a fresh session
  reply,        \* what the user was told at the end
  registered,   \* the turns whose process is in the registry
  aborted,      \* _aborted: chats
  abortedTopics,\* _aborted_topics: sessions
  interrupted,  \* _interrupted: chats
  record,       \* the in-flight file: the turn recorded for a chat
  up,           \* the bot is "up", "down", or "starting" again
  announced,    \* the turns whose interruption was announced after a crash
  unheard,      \* history: the turns of which the announcement did not get through
  orders,       \* /stop and /interrupt given so far
  crashes,      \* crashes so far
  stopped,      \* history: how the process of a turn was stopped, if it was
  early,        \* history: turns of a chat stopped while they had no process
  asked,        \* history: turns during which the user gave an order
  stale,        \* history: turns that began under an old interrupt
  shared        \* history: turns that ran beside another turn of their chat

flags == <<aborted, abortedTopics, interrupted>>
attempt == <<stream, proc, answer, attempts>>
host == <<up, announced, unheard, crashes>>
history == <<stopped, early, asked, stale, shared>>
vars == <<holder, pc, attempt, retried, reply, registered, flags, record, host,
          orders, history>>

Chat(t) == ChatOf[KeyOf[t]]
Beside(t) == {u \in Turns \ {t} : Chat(u) = Chat(t)}

Phases == {"waiting", "preparing", "starting", "running", "exited",
           "recovering", "answering", "done", "dropped", "lost"}
InFlight == {"starting", "running", "exited", "recovering"}
\* What the process came back with: something that is told as it is (an answer, an
\* error, a timeout), a transient error of Codex before any text, a rejected
\* session, SIGKILL, or a stream without a result.
Answers == {"none", "final", "transient", "invalid", "killed", "broken"}

\* _CODEX_TRANSIENT_STREAM_MAX_ATTEMPTS.
MaxStreamAttempts == 2

\* Two streams and a plain call, each for two sessions: the three retries, of the
\* stream, by the fallback and on a fresh session, do not multiply further.
MaxAttempts == 2 * (MaxStreamAttempts + 1)

TypeInv ==
  /\ holder \in [Keys -> Turns \cup {NoTurn}]
  /\ pc \in [Turns -> Phases]
  /\ stream \in [Turns -> 0..MaxStreamAttempts]
  /\ proc \in [Turns -> {"none", "live", "dying"}]
  /\ answer \in [Turns -> Answers]
  /\ attempts \in [Turns -> 0..MaxAttempts]
  /\ retried \subseteq Turns
  /\ reply \in [Turns -> {"none", "silent", "text"}]
  /\ registered \subseteq Turns
  /\ aborted \subseteq Chats
  /\ abortedTopics \subseteq Keys
  /\ interrupted \subseteq Chats
  /\ record \in [Chats -> Turns \cup {NoTurn}]
  /\ up \in {"up", "down", "starting"}
  /\ announced \subseteq Turns
  /\ unheard \subseteq Turns
  /\ orders \in 0..MaxOrders
  /\ crashes \in 0..MaxCrashes
  /\ stopped \in [Turns -> {"no", "topic", "chat", "lifted"}]
  /\ early \subseteq Turns
  /\ asked \subseteq Turns
  /\ stale \subseteq Turns
  /\ shared \subseteq Turns

Init ==
  /\ holder = [k \in Keys |-> NoTurn]
  /\ pc = [t \in Turns |-> "waiting"]
  /\ stream = [t \in Turns |-> 0]
  /\ proc = [t \in Turns |-> "none"]
  /\ answer = [t \in Turns |-> "none"]
  /\ attempts = [t \in Turns |-> 0]
  /\ retried = {}
  /\ reply = [t \in Turns |-> "none"]
  /\ registered = {}
  /\ aborted = {} /\ abortedTopics = {} /\ interrupted = {}
  /\ record = [c \in Chats |-> NoTurn]
  /\ up = "up" /\ announced = {} /\ unheard = {}
  /\ orders = 0 /\ crashes = 0
  /\ stopped = [t \in Turns |-> "no"]
  /\ early = {} /\ asked = {} /\ stale = {} /\ shared = {}

-----------------------------------------------------------------------------
(* The process registry.                                                   *)

AbortSeen(t) == Chat(t) \in aborted \/ KeyOf[t] \in abortedTopics
Flagged(t) == AbortSeen(t) \/ Chat(t) \in interrupted

Live(T) == {t \in T \cap registered : proc[t] = "live"}

\* The turns with a message or a result being worked on.
Busy == {t \in Turns : pc[t] \in InFlight \cup {"preparing"}}

Terminate(T) == proc' = [t \in Turns |-> IF t \in T THEN "dying" ELSE proc[t]]

\* kill_all: the flag of the chat is raised in any case, every entry goes.
KillAll(c) ==
  LET ofChat == {t \in Turns : Chat(t) = c} IN
  /\ aborted' = aborted \cup {c}
  /\ registered' = registered \ ofChat
  /\ Terminate(Live(ofChat))
  /\ stopped' = [t \in Turns |-> IF t \in Live(ofChat) THEN "chat" ELSE stopped[t]]
  /\ early' = early \cup {t \in ofChat \cap Busy :
                            pc[t] \in {"preparing", "starting", "recovering"}}
  /\ UNCHANGED abortedTopics

\* Mutant of KillTopic: the entries go, and the flag is not raised.
KillTopicUnflagged(k) ==
  LET targets == Live({t \in Turns : KeyOf[t] = k}) IN
  /\ registered' = registered \ targets
  /\ Terminate(targets)
  /\ stopped' = [t \in Turns |-> IF t \in targets THEN "topic" ELSE stopped[t]]
  /\ UNCHANGED <<aborted, abortedTopics, early>>

\* kill_by_chat_topic: without a live process nothing is flagged.
KillTopic(k) ==
  LET targets == Live({t \in Turns : KeyOf[t] = k}) IN
  /\ abortedTopics' = IF targets = {} THEN abortedTopics ELSE abortedTopics \cup {k}
  /\ registered' = registered \ targets
  /\ Terminate(targets)
  /\ stopped' = [t \in Turns |-> IF t \in targets THEN "topic" ELSE stopped[t]]
  /\ UNCHANGED <<aborted, early>>

\* Mutant of Forget: a stop of the whole chat is remembered.
ForgetTopicOnly(k) ==
  /\ abortedTopics' = abortedTopics \ {k}
  /\ stopped' = [t \in Turns |->
       IF stopped[t] = "topic" /\ KeyOf[t] = k THEN "lifted" ELSE stopped[t]]
  /\ UNCHANGED aborted

\* _handle_message_impl forgets the stops of the chat and of the session.
Forget(k) ==
  /\ aborted' = aborted \ {ChatOf[k]}
  /\ abortedTopics' = abortedTopics \ {k}
  /\ stopped' = [t \in Turns |->
       IF \/ stopped[t] = "chat" /\ Chat(t) = ChatOf[k]
          \/ stopped[t] = "topic" /\ KeyOf[t] = k
       THEN "lifted" ELSE stopped[t]]

-----------------------------------------------------------------------------
(* The flow of a turn.                                                     *)

\* A message gets the lock of its session; its handler begins.
Receive(t) ==
  LET k == KeyOf[t] IN
  /\ up = "up" /\ pc[t] = "waiting" /\ t \notin Injected
  /\ holder[k] = NoTurn
  /\ holder' = [holder EXCEPT ![k] = t]
  /\ pc' = [pc EXCEPT ![t] = "preparing"]
  /\ Forget(k)
  /\ stale' = IF Chat(t) \in interrupted THEN stale \cup {t} ELSE stale
  /\ UNCHANGED <<attempt, retried, reply, registered, interrupted, record, host,
                 orders, early, asked, shared>>

\* An injected result gets the lock.  It looks at no flag, forgets none and is
\* not recorded.
Inject(t) ==
  LET k == KeyOf[t] IN
  /\ up = "up" /\ pc[t] = "waiting" /\ t \in Injected
  /\ holder[k] = NoTurn
  /\ holder' = [holder EXCEPT ![k] = t]
  /\ pc' = [pc EXCEPT ![t] = "starting"]
  /\ UNCHANGED <<attempt, retried, reply, registered, flags, record, host, orders,
                 history>>

\* The flow is over and its record goes; the answer is still to be sent.
EndFlow(t, told) ==
  /\ pc' = [pc EXCEPT ![t] = "answering"]
  /\ reply' = [reply EXCEPT ![t] = told]

\* The policy, a missing key or an error while preparing ends the turn early.
Refuse(t) ==
  /\ up = "up" /\ pc[t] = "preparing"
  /\ EndFlow(t, "text")
  /\ UNCHANGED <<holder, attempt, retried, registered, flags, record, host, orders,
                 history>>

\* The session is resolved and the turn recorded as in flight.
Begin(t) ==
  LET others == {u \in Beside(t) \ Injected : pc[u] \in InFlight} IN
  /\ up = "up" /\ pc[t] = "preparing"
  /\ pc' = [pc EXCEPT ![t] = "starting"]
  /\ stream' = [stream EXCEPT ![t] = IF t \in Streamed THEN 1 ELSE 0]
  /\ record' = [record EXCEPT ![Chat(t)] = t]
  /\ shared' = IF others = {} THEN shared ELSE shared \cup others \cup {t}
  /\ UNCHANGED <<holder, proc, answer, attempts, retried, reply, registered, flags,
                 host, orders, stopped, early, asked, stale>>

\* The CLI process is created and registered.
Spawn(t) ==
  /\ up = "up" /\ pc[t] = "starting"
  /\ pc' = [pc EXCEPT ![t] = "running"]
  /\ proc' = [proc EXCEPT ![t] = "live"]
  /\ answer' = [answer EXCEPT ![t] = "none"]
  /\ attempts' = [attempts EXCEPT ![t] = @ + 1]
  /\ registered' = registered \cup {t}
  /\ UNCHANGED <<holder, stream, retried, reply, flags, record, host, orders, history>>

\* Mutant of Completed: the record stays when a session was retried.
CompletedUnlessRetried(t) ==
  [record EXCEPT ![Chat(t)] = IF t \in Injected \cup retried THEN @ ELSE NoTurn]

\* complete() drops the record of the chat, whichever turn wrote it.
Completed(t) == [record EXCEPT ![Chat(t)] = IF t \in Injected THEN @ ELSE NoTurn]

\* It cannot be created: a streaming attempt falls back to a plain one, a
\* plain one ends the turn with an error.
SpawnFails(t) ==
  /\ up = "up" /\ pc[t] = "starting"
  /\ \/ /\ stream[t] > 0
        /\ IF AbortSeen(t)
           THEN EndFlow(t, "silent") /\ record' = Completed(t)
                /\ interrupted' = interrupted \ {Chat(t)} /\ UNCHANGED stream
           ELSE stream' = [stream EXCEPT ![t] = 0] /\ UNCHANGED <<pc, reply, record, interrupted>>
     \/ /\ stream[t] = 0
        /\ EndFlow(t, "text") /\ record' = Completed(t)
        /\ UNCHANGED <<stream, interrupted>>
  /\ UNCHANGED <<holder, proc, answer, attempts, retried, registered, aborted,
                 abortedTopics, host, orders, history>>

\* Mutant of Exit: the process is left alone when its time is over.
ExitUnkilled(t) ==
  /\ up = "up" /\ pc[t] = "running" /\ proc[t] \in {"live", "dying"}
  /\ answer' = [answer EXCEPT ![t] = "final"]
  /\ pc' = [pc EXCEPT ![t] = "exited"]
  /\ UNCHANGED <<holder, stream, proc, attempts, retried, reply, registered, flags,
                 record, host, orders, history>>

\* The process ends by itself, at its deadline, or because it was stopped; a
\* stopped one has two seconds to end before it is killed, and may still say
\* anything before it does, also that the session is rejected.
Exit(t) ==
  /\ up = "up" /\ pc[t] = "running" /\ proc[t] \in {"live", "dying"}
  /\ \E a \in Answers \ {"none"} :
       /\ a \in {"transient", "broken"} => stream[t] > 0
       /\ answer' = [answer EXCEPT ![t] = a]
  /\ proc' = [proc EXCEPT ![t] = "none"]
  /\ pc' = [pc EXCEPT ![t] = "exited"]
  /\ UNCHANGED <<holder, stream, attempts, retried, reply, registered, flags, record,
                 host, orders, history>>

\* The reader of a stream sees the flag at the next event and leaves.  The
\* process is unregistered, and not stopped by that.
StreamBreak(t) ==
  /\ up = "up" /\ pc[t] = "running" /\ proc[t] \in {"live", "dying"}
  /\ stream[t] > 0 /\ AbortSeen(t)
  /\ EndFlow(t, "silent")
  /\ registered' = registered \ {t}
  /\ interrupted' = interrupted \ {Chat(t)}
  /\ record' = Completed(t)
  /\ UNCHANGED <<holder, attempt, retried, aborted, abortedTopics, host, orders,
                 history>>

\* A stream that ended without a result is repeated without streaming, unless
\* the user has stopped it.
Fallback(t) ==
  /\ up = "up" /\ pc[t] = "exited" /\ answer[t] = "broken"
  /\ registered' = registered \ {t}
  /\ IF AbortSeen(t)
     THEN /\ EndFlow(t, "silent") /\ record' = Completed(t)
          /\ interrupted' = interrupted \ {Chat(t)}
          /\ UNCHANGED stream
     ELSE /\ pc' = [pc EXCEPT ![t] = "starting"]
          /\ stream' = [stream EXCEPT ![t] = 0]
          /\ UNCHANGED <<reply, record, interrupted>>
  /\ UNCHANGED <<holder, proc, answer, attempts, retried, aborted, abortedTopics,
                 host, orders, history>>

\* A transient error of Codex before any text: the stream is tried again.
RetryStream(t) ==
  /\ up = "up" /\ pc[t] = "exited" /\ answer[t] = "transient"
  /\ stream[t] \in 1..(MaxStreamAttempts - 1) /\ ~AbortSeen(t)
  /\ registered' = registered \ {t}
  /\ pc' = [pc EXCEPT ![t] = "starting"]
  /\ stream' = [stream EXCEPT ![t] = @ + 1]
  /\ UNCHANGED <<holder, proc, answer, attempts, retried, reply, flags, record, host,
                 orders, history>>

\* The one-shot gate of _maybe_recover_session.
NeedsRecovery(t) ==
  answer[t] \in {"killed", "invalid"} /\ t \notin retried /\ ~Flagged(t)

\* A killed process or a rejected session: the session is reset and the prompt
\* sent once more.  kill_by_chat_topic finds no process, the topic's flag goes.
Recover(t) ==
  /\ up = "up" /\ pc[t] = "exited" /\ t \notin Injected
  /\ NeedsRecovery(t)
  /\ registered' = registered \ {t}
  /\ abortedTopics' = abortedTopics \ {KeyOf[t]}
  /\ retried' = retried \cup {t}
  /\ pc' = [pc EXCEPT ![t] = "recovering"]
  /\ UNCHANGED <<holder, attempt, reply, aborted, interrupted, record, host, orders,
                 history>>

\* The fresh session is prepared, or that fails and the turn ends with an error.
\* Policy and flags are not looked at again.
Recovered(t) ==
  /\ up = "up" /\ pc[t] = "recovering"
  /\ \/ /\ pc' = [pc EXCEPT ![t] = "starting"]
        /\ stream' = [stream EXCEPT ![t] = IF t \in Streamed THEN 1 ELSE 0]
        /\ UNCHANGED <<reply, record>>
     \/ EndFlow(t, "text") /\ record' = Completed(t) /\ UNCHANGED stream
  /\ UNCHANGED <<holder, proc, answer, attempts, retried, registered, flags, host,
                 orders, history>>

\* The flow takes the answer.  A session rejected twice is told in any case;
\* otherwise a flag makes the turn end without a word and the interrupt is over.
Judge(t) ==
  /\ up = "up" /\ pc[t] = "exited" /\ t \notin Injected
  /\ answer[t] # "broken" /\ ~NeedsRecovery(t)
  /\ registered' = registered \ {t}
  /\ record' = Completed(t)
  /\ IF Flagged(t) /\ ~(answer[t] = "invalid" /\ t \in retried)
     THEN EndFlow(t, "silent") /\ interrupted' = interrupted \ {Chat(t)}
     ELSE EndFlow(t, "text") /\ UNCHANGED interrupted
  /\ UNCHANGED <<holder, attempt, retried, aborted, abortedTopics, host, orders,
                 history>>

\* The answer to an injected prompt is used as it is.
JudgeInjected(t) ==
  /\ up = "up" /\ pc[t] = "exited" /\ t \in Injected
  /\ registered' = registered \ {t}
  /\ EndFlow(t, "text")
  /\ UNCHANGED <<holder, attempt, retried, flags, record, host, orders, history>>

\* The answer is sent and the session lock released; nothing of the turn remains.
Answer(t) ==
  /\ up = "up" /\ pc[t] = "answering"
  /\ pc' = [pc EXCEPT ![t] = "done"]
  /\ holder' = [holder EXCEPT ![KeyOf[t]] = NoTurn]
  /\ stream' = [stream EXCEPT ![t] = 0]
  /\ answer' = [answer EXCEPT ![t] = "none"]
  /\ attempts' = [attempts EXCEPT ![t] = 0]
  /\ retried' = retried \ {t}
  /\ reply' = [reply EXCEPT ![t] = "none"]
  /\ asked' = asked \ {t} /\ stale' = stale \ {t} /\ shared' = shared \ {t}
  /\ UNCHANGED <<proc, registered, flags, record, host, orders, stopped, early>>

\* A process whose reader has left comes to its end.
Reap(t) ==
  /\ pc[t] # "running" /\ proc[t] # "none"
  /\ proc' = [proc EXCEPT ![t] = "none"]
  /\ UNCHANGED <<holder, pc, stream, answer, attempts, retried, reply, registered,
                 flags, record, host, orders, history>>

-----------------------------------------------------------------------------
(* What the user does beside the turns.                                    *)

Order == up = "up" /\ orders < MaxOrders /\ orders' = orders + 1

\* abort(): in a topic its processes, elsewhere everything of the chat.
Stop(k) ==
  /\ Order
  /\ IF k \in Topicless THEN KillAll(ChatOf[k]) ELSE KillTopic(k)
  /\ asked' = asked \cup {t \in Busy : IF k \in Topicless THEN Chat(t) = ChatOf[k]
                                                        ELSE KeyOf[t] = k}
  /\ UNCHANGED <<holder, pc, stream, answer, attempts, retried, reply, interrupted,
                 record, host, stale, shared>>

\* interrupt_all: nothing happens in a chat without registered processes.
Interrupt(c) ==
  /\ Order
  /\ \E t \in registered : Chat(t) = c
  /\ interrupted' = interrupted \cup {c}
  /\ asked' = asked \cup {t \in Busy : Chat(t) = c}
  /\ UNCHANGED <<holder, pc, attempt, retried, reply, registered, aborted,
                 abortedTopics, record, host, stopped, early, stale, shared>>

\* /status and the like go through handle_message without the session lock.
QuickCommand(k) ==
  /\ up = "up"
  /\ Forget(k)
  /\ UNCHANGED <<holder, pc, attempt, retried, reply, registered, interrupted, record,
                 host, orders, early, asked, stale, shared>>

-----------------------------------------------------------------------------
(* The bot is killed and started again.                                    *)

Crash ==
  /\ up # "down" /\ crashes < MaxCrashes
  /\ up' = "down" /\ crashes' = crashes + 1
  /\ pc' = [t \in Turns |-> CASE pc[t] \in InFlight -> "lost"
                             [] pc[t] = "preparing" -> "dropped"
                             [] pc[t] = "answering" -> "done"
                             [] OTHER -> pc[t]]
  /\ holder' = [k \in Keys |-> NoTurn]
  /\ proc' = [t \in Turns |-> "none"]
  /\ registered' = {}
  /\ stream' = [t \in Turns |-> 0]
  /\ answer' = [t \in Turns |-> "none"]
  /\ attempts' = [t \in Turns |-> 0]
  /\ aborted' = {} /\ abortedTopics' = {} /\ interrupted' = {}
  /\ reply' = [t \in Turns |-> "none"]
  /\ retried' = {} /\ asked' = {} /\ stale' = {}
  /\ UNCHANGED <<record, announced, unheard, orders, stopped, early, shared>>

\* RecoveryPlanner.plan: recorded turns of chats that are not groups.  A record older
\* than twice the timeout of a turn is dropped: here the bot is started before that.
ToAnnounce == {record[c] : c \in Chats \ Groups} \ {NoTurn}

\* The turns are announced, not repeated.  A notice that meets a network error is
\* skipped, and its record is dropped with the others.
Announce ==
  /\ up = "down"
  /\ up' = "starting"
  /\ \E skipped \in SUBSET ToAnnounce :
       /\ announced' = announced \cup (ToAnnounce \ skipped)
       /\ unheard' = unheard \cup skipped
  /\ UNCHANGED <<holder, pc, attempt, retried, reply, registered, flags, record,
                 crashes, orders, history>>

\* The file is removed and the bot begins to poll.
Open ==
  /\ up = "starting"
  /\ up' = "up"
  /\ record' = [c \in Chats |-> NoTurn]
  /\ UNCHANGED <<holder, pc, attempt, retried, reply, registered, flags, announced,
                 unheard, crashes, orders, history>>

Finished ==
  /\ up = "up" /\ \A t \in Turns : pc[t] \in {"done", "dropped", "lost"}
  /\ UNCHANGED vars

Step(t) ==
  \/ Receive(t) \/ Inject(t) \/ Refuse(t) \/ Begin(t) \/ Spawn(t) \/ SpawnFails(t)
  \/ Exit(t) \/ StreamBreak(t) \/ Fallback(t) \/ RetryStream(t) \/ Recover(t)
  \/ Recovered(t) \/ Judge(t) \/ JudgeInjected(t) \/ Answer(t)

Next ==
  \/ \E t \in Turns : Step(t) \/ Reap(t)
  \/ \E k \in Keys : Stop(k) \/ QuickCommand(k)
  \/ \E c \in Chats : Interrupt(c)
  \/ Crash \/ Announce \/ Open
  \/ Finished

Spec == Init /\ [][Next]_vars

-----------------------------------------------------------------------------
(* Properties.                                                             *)

\* A message whose process the user stopped (kill_all, kill_by_chat_topic) is
\* neither tried again nor answered, whatever the process still says, unless another
\* message or a quick command has made the registry forget the stop.  The one thing
\* told nevertheless is that the session was rejected a second time: the flow says so
\* before it looks at the flags (flows.py:415-420, 577, 666).
StoppedStaysStopped ==
  \A t \in Turns \ Injected :
    stopped[t] \in {"topic", "chat"} =>
      /\ pc[t] \notin {"recovering", "starting"}
      /\ reply[t] = "text" => answer[t] = "invalid" /\ t \in retried

\* An answer is thrown away (the flagged branch of normal and normal_streaming)
\* only if the user gave an order while the turn was running, or had interrupted
\* something before it that did not take notice.
DiscardExplained ==
  \A t \in Turns : reply[t] = "silent" => t \in asked \cup stale

Running(t) == proc[t] \in {"live", "dying"}

\* A process that nothing has signalled and the registry does not know (so that
\* no /stop finds it) exists only if the chat was stopped before the process was
\* started and its reader then left; and only the process of a stopped turn can
\* still work on a session when the next turn of that session has its own.
ProcessesWatched ==
  \A t \in Turns :
    /\ proc[t] = "live" => t \in registered \cup early
    /\ \A u \in Turns \ {t} :
         KeyOf[t] = KeyOf[u] /\ Running(t) /\ Running(u) =>
           \E w \in {t, u} : stopped[w] # "no" \/ w \in early

\* The in-flight record of a chat never names a turn that is over, and once the
\* bot polls again after a crash, the interruption of every message that was in
\* flight has been announced, unless its chat is a group, it shared the record with
\* another turn (begin() and complete() are keyed by chat, turns by session), or the
\* notice was sent and met a network error, which send_rich skips (sender.py:161-165)
\* before the file is cleared (startup.py:77): the turn was looked for, in any case.
LostIsAnnounced ==
  up = "up" =>
    /\ \A c \in Chats : record[c] # NoTurn => pc[record[c]] \in InFlight
    /\ \A t \in Turns \ (Injected \cup shared) :
         pc[t] = "lost" /\ Chat(t) \notin Groups => t \in announced \cup unheard

=============================================================================
