----------------------------- MODULE TurnProofs -----------------------------
(* What the registry, the flows and the in-flight record guarantee for any   *)
(* chats, sessions and turns, any orders of the user and any crashes.        *)
EXTENDS Turn, TLAPS

\* The turns that have the lock of their session.
Inside == InFlight \cup {"preparing", "answering"}

\* The processes an attempt may still cost before the session is given up: the
\* streams that are left and the plain call after them.
Left(t) == IF stream[t] = 0 THEN 1 ELSE MaxStreamAttempts + 2 - stream[t]
Cap(t) == IF t \in retried THEN 6 ELSE 3

\* A turn never starts more processes than the retries of two sessions cost.
Budgeted ==
  \A t \in Turns :
    /\ pc[t] = "starting" => attempts[t] + Left(t) <= Cap(t)
    /\ pc[t] \in {"running", "exited"} => attempts[t] + Left(t) <= Cap(t) + 1
    /\ pc[t] = "recovering" => t \in retried /\ attempts[t] <= 3
    /\ pc[t] \in {"waiting", "preparing"} =>
         attempts[t] = 0 /\ stream[t] = 0 /\ t \notin retried

\* What a turn may be doing while it is where it is.
Placed ==
  /\ \A t \in Turns :
       /\ pc[t] \in Inside => holder[KeyOf[t]] = t /\ up = "up"
       /\ t \in registered => pc[t] \in {"running", "exited"}
       /\ pc[t] \in {"waiting", "preparing", "starting", "exited", "recovering"} =>
            proc[t] = "none"
       /\ pc[t] \in {"waiting", "preparing"} => stopped[t] = "no"
       /\ reply[t] # "none" => pc[t] = "answering"
       /\ stream[t] > 0 => t \notin Injected
       /\ pc[t] = "exited" /\ answer[t] = "broken" => stream[t] > 0
       /\ pc[t] \in {"preparing", "recovering"} => t \notin Injected

\* The flag of a stop stands until the stopped turn is over or the stop forgotten.
StopsHold ==
  /\ \A t \in Turns : proc[t] = "dying" => stopped[t] # "no"
  /\ \A t \in Turns \ Injected : stopped[t] \in {"topic", "chat"} =>
       /\ pc[t] = "running" => proc[t] = "dying"
       /\ pc[t] \in {"running", "exited"} =>
            IF stopped[t] = "chat" THEN Chat(t) \in aborted
                                   ELSE KeyOf[t] \in abortedTopics
  /\ StoppedStaysStopped

\* A flag that a message can see was raised during it, or is an old interrupt.
Explained ==
  /\ \A t \in Turns \ Injected :
       pc[t] \in InFlight \cup {"preparing"} /\ Flagged(t) => t \in asked \cup stale
  /\ DiscardExplained

\* A flag that a message can see before it has a process, or although its process
\* is unharmed, was raised early.
Watched ==
  /\ \A t \in Turns \ Injected : AbortSeen(t) =>
       /\ pc[t] \in {"preparing", "starting", "recovering"} => t \in early
       /\ pc[t] = "running" /\ proc[t] = "live" => t \in early
  /\ \A t \in Turns : proc[t] = "live" => t \in registered \cup early
  /\ \A t \in Turns : Running(t) /\ pc[t] # "running" => stopped[t] # "no" \/ t \in early

\* The record of a chat is that of its message in flight, if it has one alone.
Recorded ==
  /\ \A c \in Chats : record[c] # NoTurn =>
       /\ Chat(record[c]) = c /\ record[c] \notin Injected
       /\ up = "up" => pc[record[c]] \in InFlight
  /\ \A t, u \in Turns \ Injected :
       t # u /\ Chat(t) = Chat(u) /\ pc[t] \in InFlight /\ pc[u] \in InFlight => t \in shared
  /\ \A t \in Turns \ (Injected \cup shared) :
       /\ pc[t] \in InFlight => record[Chat(t)] = t
       /\ pc[t] = "lost" /\ Chat(t) \notin Groups =>
            t \in announced \cup unheard \/ (up = "down" /\ record[Chat(t)] = t)

TurnInv ==
  /\ TypeInv /\ Budgeted /\ Placed /\ StopsHold /\ Explained /\ Watched /\ Recorded

\* The bot starts with every turn still to come.
LEMMA TurnInit ==
  ASSUME TurnAssumption, Init
  PROVE  TurnInv
BY DEF TurnAssumption, Init, TurnInv, TypeInv, Budgeted, Placed, StopsHold, Explained,
       Watched, Recorded, Inside, InFlight, Phases, Answers, MaxStreamAttempts,
       MaxAttempts, Flagged, AbortSeen, Running, StoppedStaysStopped, DiscardExplained,
       Left, Cap

\* A message gets its lock and the stops are forgotten.
LEMMA ReceiveKeeps ==
  ASSUME TurnAssumption, TurnInv, NEW t \in Turns, Receive(t)
  PROVE  TurnInv'
<1>1. TypeInv'
  BY DEF TurnInv, TypeInv, Phases, Answers, InFlight, MaxAttempts, Receive, Forget,
     Chat, attempt, host
<1>2. Budgeted'
  BY DEF TurnInv, TypeInv, Budgeted, Left, Cap, MaxStreamAttempts, Receive, Forget,
     Chat, attempt, host
<1>3. Placed'
  BY DEF TurnInv, TypeInv, Placed, Inside, InFlight, Receive, Forget, Chat, attempt,
     host
<1>4. StopsHold'
  BY DEF TurnInv, TypeInv, StopsHold, StoppedStaysStopped, Chat, Receive, Forget,
     attempt, host
<1>5. Explained'
  BY DEF TurnInv, TypeInv, Explained, DiscardExplained, InFlight, Flagged,
     AbortSeen, Chat, Receive, Forget, attempt, host
<1>6. Watched'
  BY DEF TurnInv, TypeInv, Watched, Running, AbortSeen, Chat, Receive, Forget,
     attempt, host
<1>7. Recorded'
  BY DEF TurnInv, TypeInv, Recorded, InFlight, Chat, Receive, Forget, attempt, host
<1> QED
  BY <1>1, <1>2, <1>3, <1>4, <1>5, <1>6, <1>7 DEF TurnInv

\* An injected result gets its lock.
LEMMA InjectKeeps ==
  ASSUME TurnAssumption, TurnInv, NEW t \in Turns, Inject(t)
  PROVE  TurnInv'
<1>1. TypeInv'
  BY DEF TurnInv, TypeInv, Phases, Answers, InFlight, MaxAttempts, Inject, flags,
     attempt, host, history
<1>2. Budgeted'
  BY DEF TurnInv, TypeInv, Budgeted, Left, Cap, MaxStreamAttempts, Inject, flags,
     attempt, host, history
<1>3. Placed'
  BY DEF TurnInv, TypeInv, Placed, Inside, InFlight, Inject, flags, attempt, host,
     history
<1>4. StopsHold'
  BY DEF TurnInv, TypeInv, StopsHold, StoppedStaysStopped, Chat, Inject, flags,
     attempt, host, history
<1>5. Explained'
  BY DEF TurnInv, TypeInv, Explained, DiscardExplained, InFlight, Flagged,
     AbortSeen, Chat, Inject, flags, attempt, host, history
<1>6. Watched'
  BY DEF TurnInv, TypeInv, Watched, Running, AbortSeen, Chat, Inject, flags,
     attempt, host, history
<1>7. Recorded'
  BY DEF TurnInv, TypeInv, Recorded, InFlight, Chat, Inject, flags, attempt, host,
     history
<1> QED
  BY <1>1, <1>2, <1>3, <1>4, <1>5, <1>6, <1>7 DEF TurnInv

\* A turn ends before it has a session.
LEMMA RefuseKeeps ==
  ASSUME TurnAssumption, TurnInv, NEW t \in Turns, Refuse(t)
  PROVE  TurnInv'
<1>1. TypeInv'
  BY DEF TurnInv, TypeInv, Phases, Answers, InFlight, MaxAttempts, Refuse, EndFlow,
     flags, attempt, host, history
<1>2. Budgeted'
  BY DEF TurnInv, TypeInv, Budgeted, Left, Cap, MaxStreamAttempts, Refuse, EndFlow,
     flags, attempt, host, history
<1>3. Placed'
  BY DEF TurnInv, TypeInv, Placed, Inside, InFlight, Refuse, EndFlow, flags,
     attempt, host, history
<1>4. StopsHold'
  BY DEF TurnInv, TypeInv, StopsHold, Placed, StoppedStaysStopped, Chat, Inside,
     InFlight, Refuse, EndFlow, flags, attempt, host, history
<1>5. Explained'
  BY DEF TurnInv, TypeInv, Explained, DiscardExplained, InFlight, Flagged,
     AbortSeen, Chat, Refuse, EndFlow, flags, attempt, host, history
<1>6. Watched'
  BY DEF TurnInv, TypeInv, Watched, Running, AbortSeen, Chat, Refuse, EndFlow,
     flags, attempt, host, history
<1>7. Recorded'
  BY DEF TurnInv, TypeInv, Recorded, InFlight, Chat, Refuse, EndFlow, flags,
     attempt, host, history
<1> QED
  BY <1>1, <1>2, <1>3, <1>4, <1>5, <1>6, <1>7 DEF TurnInv

\* The turn is recorded and goes to its first attempt.
LEMMA BeginKeeps ==
  ASSUME TurnAssumption, TurnInv, NEW t \in Turns, Begin(t)
  PROVE  TurnInv'
<1>1. TypeInv'
  BY DEF TurnInv, TypeInv, Budgeted, Phases, Answers, InFlight, MaxAttempts, Left,
     Cap, MaxStreamAttempts, Begin, Beside, Chat, flags, host
<1>2. Budgeted'
  BY DEF TurnInv, TypeInv, Budgeted, Left, Cap, MaxStreamAttempts, Begin, Beside,
     Chat, flags, host, InFlight
<1>3. Placed'
  BY DEF TurnInv, TypeInv, Placed, Inside, InFlight, Begin, Beside, Chat, flags,
     host
<1>4. StopsHold'
  BY DEF TurnInv, TypeInv, StopsHold, Placed, StoppedStaysStopped, Chat, Inside,
     InFlight, Begin, Beside, flags, host
<1>5. Explained'
  BY DEF TurnInv, TypeInv, Explained, DiscardExplained, InFlight, Flagged,
     AbortSeen, Chat, Begin, Beside, flags, host
<1>6. Watched'
  BY DEF TurnInv, TypeInv, Watched, Running, AbortSeen, Chat, Begin, Beside, flags,
     host, InFlight
<1>7. Recorded'
  BY DEF TurnInv, TypeInv, Recorded, Placed, InFlight, Chat, Inside, Begin, Beside,
     flags, host
<1> QED
  BY <1>1, <1>2, <1>3, <1>4, <1>5, <1>6, <1>7 DEF TurnInv

\* The process of an attempt is created and registered.
LEMMA SpawnKeeps ==
  ASSUME TurnAssumption, TurnInv, NEW t \in Turns, Spawn(t)
  PROVE  TurnInv'
<1>1. TypeInv'
  BY DEF TurnInv, TypeInv, Budgeted, Phases, Answers, InFlight, MaxAttempts, Left,
     Cap, MaxStreamAttempts, Spawn, flags, host, history
<1>2. Budgeted'
  BY DEF TurnInv, TypeInv, Budgeted, Left, Cap, MaxStreamAttempts, Spawn, flags,
     host, history
<1>3. Placed'
  BY DEF TurnInv, TypeInv, Placed, Inside, InFlight, Spawn, flags, host, history
<1>4. StopsHold'
  BY DEF TurnInv, TypeInv, StopsHold, StoppedStaysStopped, Chat, Spawn, flags, host,
     history
<1>5. Explained'
  BY DEF TurnInv, TypeInv, Explained, DiscardExplained, InFlight, Flagged,
     AbortSeen, Chat, Spawn, flags, host, history
<1>6. Watched'
  BY DEF TurnInv, TypeInv, Watched, Running, AbortSeen, Chat, Spawn, flags, host,
     history
<1>7. Recorded'
  BY DEF TurnInv, TypeInv, Recorded, InFlight, Chat, Spawn, flags, host, history
<1> QED
  BY <1>1, <1>2, <1>3, <1>4, <1>5, <1>6, <1>7 DEF TurnInv

\* The process cannot be created.
LEMMA SpawnFailsKeeps ==
  ASSUME TurnAssumption, TurnInv, NEW t \in Turns, SpawnFails(t)
  PROVE  TurnInv'
<1>1. TypeInv'
  <2>1. CASE UNCHANGED <<pc, reply, record>>
    BY <2>1 DEF TurnInv, TypeInv, MaxStreamAttempts, SpawnFails, Chat, host, history
  <2>2. CASE EndFlow(t, "silent") \/ EndFlow(t, "text")
    <3>1. record' \in [Chats -> Turns \cup {NoTurn}]
      BY DEF TurnInv, TypeInv, SpawnFails, Completed
    <3>2. /\ pc' \in [Turns -> Phases]
          /\ reply' \in [Turns -> {"none", "silent", "text"}]
      BY <2>2 DEF TurnInv, TypeInv, EndFlow, Phases
    <3>3. interrupted' \subseteq Chats /\ stream' \in [Turns -> 0..MaxStreamAttempts]
      BY DEF TurnInv, TypeInv, SpawnFails, MaxStreamAttempts
    <3> QED
      BY <3>1, <3>2, <3>3 DEF TurnInv, TypeInv, SpawnFails, host, history
  <2> QED
    BY <2>1, <2>2 DEF SpawnFails
<1>2. Budgeted'
  BY DEF TurnInv, TypeInv, Budgeted, Left, Cap, MaxStreamAttempts, SpawnFails,
     EndFlow, Completed, Chat, AbortSeen, host, history
<1>3. Placed'
  BY DEF TurnInv, TypeInv, Placed, Inside, InFlight, SpawnFails, EndFlow, Completed,
     Chat, AbortSeen, host, history
<1>4. StopsHold'
  BY DEF TurnInv, TypeInv, StopsHold, StoppedStaysStopped, Chat, SpawnFails,
     EndFlow, Completed, AbortSeen, host, history
<1>5. Explained'
  BY DEF TurnInv, TypeInv, Explained, Placed, DiscardExplained, InFlight, Flagged,
     AbortSeen, Chat, Inside, SpawnFails, EndFlow, Completed, host, history
<1>6. Watched'
  BY DEF TurnInv, TypeInv, Watched, Running, AbortSeen, Chat, SpawnFails, EndFlow,
     Completed, host, history
<1>7. Recorded'
  <2>1. CASE UNCHANGED <<pc, record>>
    BY <2>1 DEF TurnInv, Recorded, InFlight, Chat, SpawnFails, host, history
  <2>2. CASE pc' = [pc EXCEPT ![t] = "answering"] /\ record' = Completed(t)
    BY <2>2 DEF TurnInv, TypeInv, Recorded, InFlight, Completed, Chat, SpawnFails, host,
       history
  <2> QED
    BY <2>1, <2>2 DEF SpawnFails, EndFlow
<1> QED
  BY <1>1, <1>2, <1>3, <1>4, <1>5, <1>6, <1>7 DEF TurnInv

\* The process of an attempt ends.
LEMMA ExitKeeps ==
  ASSUME TurnAssumption, TurnInv, NEW t \in Turns, Exit(t)
  PROVE  TurnInv'
<1>1. TypeInv'
  BY DEF TurnInv, TypeInv, Phases, Answers, InFlight, MaxAttempts, Exit, flags,
     host, history
<1>2. Budgeted'
  BY DEF TurnInv, TypeInv, Budgeted, Left, Cap, MaxStreamAttempts, Exit, flags,
     host, history, Answers
<1>3. Placed'
  BY DEF TurnInv, TypeInv, Placed, Inside, InFlight, Exit, flags, host, history,
     Answers
<1>4. StopsHold'
  <2>1. /\ pc[t] = "running" /\ pc' = [pc EXCEPT ![t] = "exited"]
        /\ proc' = [proc EXCEPT ![t] = "none"]
        /\ \A u \in Turns \ {t} : answer'[u] = answer[u]
        /\ UNCHANGED <<reply, retried, stopped, aborted, abortedTopics>>
    BY DEF TurnInv, TypeInv, Exit, flags, history
  <2>2. reply[t] = "none"
    BY <2>1 DEF TurnInv, TypeInv, Placed
  <2> QED
    BY <2>1, <2>2 DEF TurnInv, TypeInv, StopsHold, StoppedStaysStopped, Chat
<1>5. Explained'
  BY DEF TurnInv, TypeInv, Explained, DiscardExplained, InFlight, Flagged,
     AbortSeen, Chat, Exit, flags, host, history, Answers
<1>6. Watched'
  BY DEF TurnInv, TypeInv, Watched, Running, AbortSeen, Chat, Exit, flags, host,
     history, Answers
<1>7. Recorded'
  BY DEF TurnInv, TypeInv, Recorded, InFlight, Chat, Exit, flags, host, history,
     Answers
<1> QED
  BY <1>1, <1>2, <1>3, <1>4, <1>5, <1>6, <1>7 DEF TurnInv

\* The reader of a stream leaves because of a flag.
LEMMA StreamBreakKeeps ==
  ASSUME TurnAssumption, TurnInv, NEW t \in Turns, StreamBreak(t)
  PROVE  TurnInv'
<1>1. TypeInv'
  BY DEF TurnInv, TypeInv, Phases, Answers, InFlight, MaxAttempts, StreamBreak,
     EndFlow, Completed, Chat, AbortSeen, attempt, host, history
<1>2. Budgeted'
  BY DEF TurnInv, TypeInv, Budgeted, Left, Cap, MaxStreamAttempts, StreamBreak,
     EndFlow, Completed, Chat, AbortSeen, attempt, host, history
<1>3. Placed'
  BY DEF TurnInv, TypeInv, Placed, Inside, InFlight, StreamBreak, EndFlow,
     Completed, Chat, AbortSeen, attempt, host, history
<1>4. StopsHold'
  BY DEF TurnInv, TypeInv, StopsHold, StoppedStaysStopped, Chat, StreamBreak,
     EndFlow, Completed, AbortSeen, attempt, host, history
<1>5. Explained'
  BY DEF TurnInv, TypeInv, Explained, Placed, DiscardExplained, InFlight, Flagged,
     AbortSeen, Chat, Inside, StreamBreak, EndFlow, Completed, attempt, host,
     history
<1>6. Watched'
  BY DEF TurnInv, TypeInv, Watched, Placed, StopsHold, Running, AbortSeen, Chat,
     Inside, InFlight, StoppedStaysStopped, StreamBreak, EndFlow, Completed,
     attempt, host, history
<1>7. Recorded'
  BY DEF TurnInv, TypeInv, Recorded, InFlight, Chat, StreamBreak, EndFlow,
     Completed, AbortSeen, attempt, host, history
<1> QED
  BY <1>1, <1>2, <1>3, <1>4, <1>5, <1>6, <1>7 DEF TurnInv

\* A stream without a result is repeated without streaming.
LEMMA FallbackKeeps ==
  ASSUME TurnAssumption, TurnInv, NEW t \in Turns, Fallback(t)
  PROVE  TurnInv'
<1>1. TypeInv'
  BY DEF TurnInv, TypeInv, Budgeted, Phases, Answers, InFlight, MaxAttempts, Left,
     Cap, MaxStreamAttempts, Fallback, EndFlow, Completed, Chat, AbortSeen, host,
     history
<1>2. Budgeted'
  BY DEF TurnInv, TypeInv, Budgeted, Placed, Left, Cap, MaxStreamAttempts, Inside,
     InFlight, Fallback, EndFlow, Completed, Chat, AbortSeen, host, history
<1>3. Placed'
  BY DEF TurnInv, TypeInv, Placed, Inside, InFlight, Fallback, EndFlow, Completed,
     Chat, AbortSeen, host, history
<1>4. StopsHold'
  BY DEF TurnInv, TypeInv, StopsHold, StoppedStaysStopped, Chat, Fallback, EndFlow,
     Completed, AbortSeen, host, history
<1>5. Explained'
  BY DEF TurnInv, TypeInv, Explained, Placed, DiscardExplained, InFlight, Flagged,
     AbortSeen, Chat, Inside, Fallback, EndFlow, Completed, host, history
<1>6. Watched'
  BY DEF TurnInv, TypeInv, Watched, Placed, StopsHold, Running, AbortSeen, Chat,
     Inside, InFlight, StoppedStaysStopped, Fallback, EndFlow, Completed, host,
     history
<1>7. Recorded'
  BY DEF TurnInv, TypeInv, Recorded, InFlight, Chat, Fallback, EndFlow, Completed,
     AbortSeen, host, history
<1> QED
  BY <1>1, <1>2, <1>3, <1>4, <1>5, <1>6, <1>7 DEF TurnInv

\* A stream is repeated after a transient error.
LEMMA RetryStreamKeeps ==
  ASSUME TurnAssumption, TurnInv, NEW t \in Turns, RetryStream(t)
  PROVE  TurnInv'
<1>1. TypeInv'
  BY DEF TurnInv, TypeInv, Phases, Answers, InFlight, MaxAttempts, RetryStream,
     AbortSeen, Chat, flags, host, history, MaxStreamAttempts
<1>2. Budgeted'
  BY DEF TurnInv, TypeInv, Budgeted, Left, Cap, MaxStreamAttempts, RetryStream,
     AbortSeen, Chat, flags, host, history
<1>3. Placed'
  BY DEF TurnInv, TypeInv, Placed, Inside, InFlight, RetryStream, AbortSeen, Chat,
     flags, host, history, MaxStreamAttempts
<1>4. StopsHold'
  BY DEF TurnInv, TypeInv, StopsHold, StoppedStaysStopped, Chat, RetryStream,
     AbortSeen, flags, host, history, MaxStreamAttempts
<1>5. Explained'
  BY DEF TurnInv, TypeInv, Explained, DiscardExplained, InFlight, Flagged,
     AbortSeen, Chat, RetryStream, flags, host, history, MaxStreamAttempts
<1>6. Watched'
  BY DEF TurnInv, TypeInv, Watched, Placed, StopsHold, Running, AbortSeen, Chat,
     Inside, InFlight, StoppedStaysStopped, RetryStream, flags, host, history,
     MaxStreamAttempts
<1>7. Recorded'
  BY DEF TurnInv, TypeInv, Recorded, InFlight, Chat, RetryStream, AbortSeen, flags,
     host, history, MaxStreamAttempts
<1> QED
  BY <1>1, <1>2, <1>3, <1>4, <1>5, <1>6, <1>7 DEF TurnInv

\* The session is reset for a second try.
LEMMA RecoverKeeps ==
  ASSUME TurnAssumption, TurnInv, NEW t \in Turns, Recover(t)
  PROVE  TurnInv'
<1>1. TypeInv'
  BY DEF TurnInv, TypeInv, Phases, Answers, InFlight, MaxAttempts, Recover,
     NeedsRecovery, Flagged, AbortSeen, Chat, attempt, host, history
<1>2. Budgeted'
  BY DEF TurnInv, TypeInv, Budgeted, Left, Cap, MaxStreamAttempts, Recover,
     NeedsRecovery, Flagged, AbortSeen, Chat, attempt, host, history
<1>3. Placed'
  BY DEF TurnInv, TypeInv, Placed, Inside, InFlight, Recover, NeedsRecovery,
     Flagged, AbortSeen, Chat, attempt, host, history
<1>4. StopsHold'
  BY DEF TurnInv, TypeInv, StopsHold, StoppedStaysStopped, Chat, Recover,
     NeedsRecovery, Flagged, AbortSeen, attempt, host, history
<1>5. Explained'
  BY DEF TurnInv, TypeInv, Explained, DiscardExplained, InFlight, Flagged,
     AbortSeen, Chat, Recover, NeedsRecovery, attempt, host, history
<1>6. Watched'
  BY DEF TurnInv, TypeInv, Watched, Placed, StopsHold, Running, AbortSeen, Chat,
     Inside, InFlight, StoppedStaysStopped, Recover, NeedsRecovery, Flagged,
     attempt, host, history
<1>7. Recorded'
  BY DEF TurnInv, TypeInv, Recorded, InFlight, Chat, Recover, NeedsRecovery,
     Flagged, AbortSeen, attempt, host, history
<1> QED
  BY <1>1, <1>2, <1>3, <1>4, <1>5, <1>6, <1>7 DEF TurnInv

\* The fresh session is prepared, or not.
LEMMA RecoveredKeeps ==
  ASSUME TurnAssumption, TurnInv, NEW t \in Turns, Recovered(t)
  PROVE  TurnInv'
<1>1. TypeInv'
  BY DEF TurnInv, TypeInv, Budgeted, Phases, Answers, InFlight, MaxAttempts, Left,
     Cap, MaxStreamAttempts, Recovered, EndFlow, Completed, Chat, flags, host,
     history
<1>2. Budgeted'
  BY DEF TurnInv, TypeInv, Budgeted, Left, Cap, MaxStreamAttempts, Recovered,
     EndFlow, Completed, Chat, flags, host, history
<1>3. Placed'
  BY DEF TurnInv, TypeInv, Placed, Inside, InFlight, Recovered, EndFlow, Completed,
     Chat, flags, host, history
<1>4. StopsHold'
  BY DEF TurnInv, TypeInv, StopsHold, StoppedStaysStopped, Chat, Recovered, EndFlow,
     Completed, flags, host, history
<1>5. Explained'
  BY DEF TurnInv, TypeInv, Explained, DiscardExplained, InFlight, Flagged,
     AbortSeen, Chat, Recovered, EndFlow, Completed, flags, host, history
<1>6. Watched'
  BY DEF TurnInv, TypeInv, Watched, Running, AbortSeen, Chat, Recovered, EndFlow,
     Completed, flags, host, history
<1>7. Recorded'
  BY DEF TurnInv, TypeInv, Recorded, InFlight, Chat, Recovered, EndFlow, Completed,
     flags, host, history
<1> QED
  BY <1>1, <1>2, <1>3, <1>4, <1>5, <1>6, <1>7 DEF TurnInv

\* The flow takes the answer of a message.
LEMMA JudgeKeeps ==
  ASSUME TurnAssumption, TurnInv, NEW t \in Turns, Judge(t)
  PROVE  TurnInv'
<1>1. TypeInv'
  BY DEF TurnInv, TypeInv, Phases, Answers, InFlight, MaxAttempts, Judge, EndFlow,
     Completed, Chat, NeedsRecovery, Flagged, AbortSeen, attempt, host, history
<1>2. Budgeted'
  BY DEF TurnInv, TypeInv, Budgeted, Left, Cap, MaxStreamAttempts, Judge, EndFlow,
     Completed, Chat, NeedsRecovery, Flagged, AbortSeen, attempt, host, history
<1>3. Placed'
  BY DEF TurnInv, TypeInv, Placed, Inside, InFlight, Judge, EndFlow, Completed,
     Chat, NeedsRecovery, Flagged, AbortSeen, attempt, host, history
<1>4. StopsHold'
  BY DEF TurnInv, TypeInv, StopsHold, StoppedStaysStopped, Chat, Judge, EndFlow,
     Completed, NeedsRecovery, Flagged, AbortSeen, attempt, host, history
<1>5. Explained'
  BY DEF TurnInv, TypeInv, Explained, DiscardExplained, InFlight, Flagged,
     AbortSeen, Chat, Judge, EndFlow, Completed, NeedsRecovery, attempt, host,
     history
<1>6. Watched'
  BY DEF TurnInv, TypeInv, Watched, Placed, StopsHold, Running, AbortSeen, Chat,
     Inside, InFlight, StoppedStaysStopped, Judge, EndFlow, Completed,
     NeedsRecovery, Flagged, attempt, host, history
<1>7. Recorded'
  BY DEF TurnInv, TypeInv, Recorded, InFlight, Chat, Judge, EndFlow, Completed,
     NeedsRecovery, Flagged, AbortSeen, attempt, host, history
<1> QED
  BY <1>1, <1>2, <1>3, <1>4, <1>5, <1>6, <1>7 DEF TurnInv

\* The answer to an injected prompt is taken as it is.
LEMMA JudgeInjectedKeeps ==
  ASSUME TurnAssumption, TurnInv, NEW t \in Turns, JudgeInjected(t)
  PROVE  TurnInv'
<1>1. TypeInv'
  BY DEF TurnInv, TypeInv, Phases, Answers, InFlight, MaxAttempts, JudgeInjected,
     EndFlow, flags, attempt, host, history
<1>2. Budgeted'
  BY DEF TurnInv, TypeInv, Budgeted, Left, Cap, MaxStreamAttempts, JudgeInjected,
     EndFlow, flags, attempt, host, history
<1>3. Placed'
  BY DEF TurnInv, TypeInv, Placed, Inside, InFlight, JudgeInjected, EndFlow, flags,
     attempt, host, history
<1>4. StopsHold'
  BY DEF TurnInv, TypeInv, StopsHold, StoppedStaysStopped, Chat, JudgeInjected,
     EndFlow, flags, attempt, host, history
<1>5. Explained'
  BY DEF TurnInv, TypeInv, Explained, DiscardExplained, InFlight, Flagged,
     AbortSeen, Chat, JudgeInjected, EndFlow, flags, attempt, host, history
<1>6. Watched'
  BY DEF TurnInv, TypeInv, Watched, Placed, StopsHold, Running, AbortSeen, Chat,
     Inside, InFlight, StoppedStaysStopped, JudgeInjected, EndFlow, flags, attempt,
     host, history
<1>7. Recorded'
  BY DEF TurnInv, TypeInv, Recorded, InFlight, Chat, JudgeInjected, EndFlow, flags,
     attempt, host, history
<1> QED
  BY <1>1, <1>2, <1>3, <1>4, <1>5, <1>6, <1>7 DEF TurnInv

\* The answer is sent and the lock released.
LEMMA AnswerKeeps ==
  ASSUME TurnAssumption, TurnInv, NEW t \in Turns, Answer(t)
  PROVE  TurnInv'
<1>1. TypeInv'
  BY DEF TurnInv, TypeInv, Budgeted, Phases, Answers, InFlight, MaxAttempts, Left,
     Cap, MaxStreamAttempts, Answer, flags, host
<1>2. Budgeted'
  BY DEF TurnInv, TypeInv, Budgeted, Left, Cap, MaxStreamAttempts, Answer, flags,
     host
<1>3. Placed'
  BY DEF TurnInv, TypeInv, Placed, Inside, InFlight, Answer, flags, host
<1>4. StopsHold'
  BY DEF TurnInv, TypeInv, StopsHold, StoppedStaysStopped, Chat, Answer, flags, host
<1>5. Explained'
  BY DEF TurnInv, TypeInv, Explained, DiscardExplained, InFlight, Flagged,
     AbortSeen, Chat, Answer, flags, host
<1>6. Watched'
  BY DEF TurnInv, TypeInv, Watched, Running, AbortSeen, Chat, Answer, flags, host
<1>7. Recorded'
  BY DEF TurnInv, TypeInv, Recorded, InFlight, Chat, Answer, flags, host
<1> QED
  BY <1>1, <1>2, <1>3, <1>4, <1>5, <1>6, <1>7 DEF TurnInv

\* A process without a reader ends.
LEMMA ReapKeeps ==
  ASSUME TurnAssumption, TurnInv, NEW t \in Turns, Reap(t)
  PROVE  TurnInv'
<1>1. TypeInv'
  BY DEF TurnInv, TypeInv, Phases, Answers, InFlight, MaxAttempts, Reap, flags,
     host, history
<1>2. Budgeted'
  BY DEF TurnInv, TypeInv, Budgeted, Left, Cap, MaxStreamAttempts, Reap, flags,
     host, history
<1>3. Placed'
  BY DEF TurnInv, TypeInv, Placed, Inside, InFlight, Reap, flags, host, history
<1>4. StopsHold'
  BY DEF TurnInv, TypeInv, StopsHold, StoppedStaysStopped, Chat, Reap, flags, host,
     history
<1>5. Explained'
  BY DEF TurnInv, TypeInv, Explained, DiscardExplained, InFlight, Flagged,
     AbortSeen, Chat, Reap, flags, host, history
<1>6. Watched'
  BY DEF TurnInv, TypeInv, Watched, Running, AbortSeen, Chat, Reap, flags, host,
     history
<1>7. Recorded'
  BY DEF TurnInv, TypeInv, Recorded, InFlight, Chat, Reap, flags, host, history
<1> QED
  BY <1>1, <1>2, <1>3, <1>4, <1>5, <1>6, <1>7 DEF TurnInv

\* /stop in a topic, or in the whole chat.
LEMMA StopKeeps ==
  ASSUME TurnAssumption, TurnInv, NEW k \in Keys, Stop(k)
  PROVE  TurnInv'
<1>1. TypeInv'
  BY DEF TurnInv, TypeInv, Phases, Answers, InFlight, MaxAttempts, Stop, KillAll,
     Terminate, Live, Busy, Chat, KillTopic, Order, host
<1>2. Budgeted'
  BY DEF TurnInv, TypeInv, Budgeted, Left, Cap, MaxStreamAttempts, Stop, KillAll,
     Terminate, Live, Busy, InFlight, Chat, KillTopic, Order, host
<1>3. Placed'
  BY DEF TurnInv, TypeInv, Placed, Inside, InFlight, Stop, KillAll, Terminate, Live,
     Busy, Chat, KillTopic, Order, host
<1>4. StopsHold'
  BY DEF TurnInv, TypeInv, StopsHold, Placed, StoppedStaysStopped, Chat, Inside,
     InFlight, Stop, KillAll, Terminate, Live, Busy, KillTopic, Order, host
<1>5. Explained'
  BY DEF TurnInv, TypeInv, Explained, DiscardExplained, InFlight, Flagged,
     AbortSeen, Chat, Stop, KillAll, Terminate, Live, Busy, KillTopic, Order, host
<1>6. Watched'
  BY DEF TurnInv, TypeInv, Watched, Placed, StopsHold, Running, AbortSeen, Chat,
     Inside, InFlight, StoppedStaysStopped, Stop, KillAll, Terminate, Live, Busy,
     KillTopic, Order, host
<1>7. Recorded'
  BY DEF TurnInv, TypeInv, Recorded, InFlight, Chat, Stop, KillAll, Terminate, Live,
     Busy, KillTopic, Order, host
<1> QED
  BY <1>1, <1>2, <1>3, <1>4, <1>5, <1>6, <1>7 DEF TurnInv

\* /interrupt.
LEMMA InterruptKeeps ==
  ASSUME TurnAssumption, TurnInv, NEW c \in Chats, Interrupt(c)
  PROVE  TurnInv'
<1>1. TypeInv'
  BY DEF TurnInv, TypeInv, Phases, Answers, InFlight, MaxAttempts, Interrupt, Busy,
     Order, Chat, attempt, host
<1>2. Budgeted'
  BY DEF TurnInv, TypeInv, Budgeted, Left, Cap, MaxStreamAttempts, Interrupt, Busy,
     InFlight, Order, Chat, attempt, host
<1>3. Placed'
  BY DEF TurnInv, TypeInv, Placed, Inside, InFlight, Interrupt, Busy, Order, Chat,
     attempt, host
<1>4. StopsHold'
  BY DEF TurnInv, TypeInv, StopsHold, StoppedStaysStopped, Chat, Interrupt, Busy,
     InFlight, Order, attempt, host
<1>5. Explained'
  BY DEF TurnInv, TypeInv, Explained, DiscardExplained, InFlight, Flagged,
     AbortSeen, Chat, Interrupt, Busy, Order, attempt, host
<1>6. Watched'
  BY DEF TurnInv, TypeInv, Watched, Running, AbortSeen, Chat, Interrupt, Busy,
     InFlight, Order, attempt, host
<1>7. Recorded'
  BY DEF TurnInv, TypeInv, Recorded, InFlight, Chat, Interrupt, Busy, Order,
     attempt, host
<1> QED
  BY <1>1, <1>2, <1>3, <1>4, <1>5, <1>6, <1>7 DEF TurnInv

\* A command that bypasses the queue.
LEMMA QuickCommandKeeps ==
  ASSUME TurnAssumption, TurnInv, NEW k \in Keys, QuickCommand(k)
  PROVE  TurnInv'
<1>1. TypeInv'
  BY DEF TurnInv, TypeInv, Phases, Answers, InFlight, MaxAttempts, QuickCommand,
     Forget, Chat, attempt, host
<1>2. Budgeted'
  BY DEF TurnInv, TypeInv, Budgeted, Left, Cap, MaxStreamAttempts, QuickCommand,
     Forget, Chat, attempt, host
<1>3. Placed'
  BY DEF TurnInv, TypeInv, Placed, Inside, InFlight, QuickCommand, Forget, Chat,
     attempt, host
<1>4. StopsHold'
  BY DEF TurnInv, TypeInv, StopsHold, StoppedStaysStopped, Chat, QuickCommand,
     Forget, attempt, host
<1>5. Explained'
  BY DEF TurnInv, TypeInv, Explained, DiscardExplained, InFlight, Flagged,
     AbortSeen, Chat, QuickCommand, Forget, attempt, host
<1>6. Watched'
  BY DEF TurnInv, TypeInv, Watched, Running, AbortSeen, Chat, QuickCommand, Forget,
     attempt, host
<1>7. Recorded'
  BY DEF TurnInv, TypeInv, Recorded, InFlight, Chat, QuickCommand, Forget, attempt,
     host
<1> QED
  BY <1>1, <1>2, <1>3, <1>4, <1>5, <1>6, <1>7 DEF TurnInv

\* The bot dies.
LEMMA CrashKeeps ==
  ASSUME TurnAssumption, TurnInv, Crash
  PROVE  TurnInv'
<1>1. TypeInv'
  BY DEF TurnInv, TypeInv, Budgeted, Phases, Answers, InFlight, MaxAttempts, Left,
     Cap, MaxStreamAttempts, Crash
<1>2. Budgeted'
  BY DEF TurnInv, TypeInv, Budgeted, Left, Cap, MaxStreamAttempts, Crash, InFlight
<1>3. Placed'
  BY DEF TurnInv, TypeInv, Placed, Inside, InFlight, Crash
<1>4. StopsHold'
  BY DEF TurnInv, TypeInv, StopsHold, StoppedStaysStopped, Chat, Crash, InFlight
<1>5. Explained'
  BY DEF TurnInv, TypeInv, Explained, DiscardExplained, InFlight, Flagged,
     AbortSeen, Chat, Crash
<1>6. Watched'
  BY DEF TurnInv, TypeInv, Watched, Running, AbortSeen, Chat, Crash, InFlight
<1>7. Recorded'
  BY DEF TurnInv, TypeInv, Recorded, InFlight, Chat, Crash
<1> QED
  BY <1>1, <1>2, <1>3, <1>4, <1>5, <1>6, <1>7 DEF TurnInv

\* The interrupted turns are announced.
LEMMA AnnounceKeeps ==
  ASSUME TurnAssumption, TurnInv, Announce
  PROVE  TurnInv'
<1> DEFINE quiet == <<holder, pc, attempt, retried, reply, registered, flags, record,
                      crashes, orders, history>>
<1>0. /\ up = "down" /\ up' = "starting" /\ quiet' = quiet
      /\ announced' \subseteq announced \cup ToAnnounce
      /\ unheard' \subseteq unheard \cup ToAnnounce
      /\ announced \cup unheard \cup ToAnnounce \subseteq announced' \cup unheard'
  BY DEF Announce
<1>1. TypeInv'
  <2>1. ToAnnounce \subseteq Turns
    BY DEF ToAnnounce, TurnInv, TypeInv
  <2>2. announced' \subseteq Turns /\ unheard' \subseteq Turns
    BY <1>0, <2>1 DEF TurnInv, TypeInv
  <2> QED
    BY <1>0, <2>2 DEF TurnInv, TypeInv, flags, attempt, history
<1>2. Budgeted'
  BY <1>0 DEF TurnInv, Budgeted, Left, Cap, attempt
<1>3. Placed'
  BY <1>0 DEF TurnInv, Placed, Inside, InFlight, attempt, history
<1>4. StopsHold'
  BY <1>0 DEF TurnInv, StopsHold, StoppedStaysStopped, Chat, flags, attempt, history
<1>5. Explained'
  BY <1>0 DEF TurnInv, Explained, DiscardExplained, Flagged, AbortSeen, Chat, flags, history
<1>6. Watched'
  BY <1>0 DEF TurnInv, Watched, Running, AbortSeen, Chat, flags, attempt, history
<1>7. Recorded'
  <2>1. ASSUME NEW t \in Turns \ (Injected \cup shared), pc[t] = "lost", Chat(t) \notin Groups
        PROVE  t \in announced' \cup unheard'
    <3>1. Chat(t) \in Chats /\ t # NoTurn
      BY TurnAssumption DEF TurnAssumption, Chat
    <3>2. record[Chat(t)] = t => t \in ToAnnounce
      BY <2>1, <3>1 DEF ToAnnounce
    <3> QED
      BY <1>0, <2>1, <3>2 DEF TurnInv, Recorded
  <2> QED
    BY <1>0, <2>1 DEF TurnInv, Recorded, Chat, history
<1> QED
  BY <1>1, <1>2, <1>3, <1>4, <1>5, <1>6, <1>7 DEF TurnInv

\* The bot polls again.
LEMMA OpenKeeps ==
  ASSUME TurnAssumption, TurnInv, Open
  PROVE  TurnInv'
<1>1. TypeInv'
  BY DEF TurnInv, TypeInv, Phases, Answers, InFlight, MaxAttempts, Open, flags,
     attempt, history
<1>2. Budgeted'
  BY DEF TurnInv, TypeInv, Budgeted, Left, Cap, MaxStreamAttempts, Open, flags,
     attempt, history
<1>3. Placed'
  BY DEF TurnInv, TypeInv, Placed, Inside, InFlight, Open, flags, attempt, history
<1>4. StopsHold'
  BY DEF TurnInv, TypeInv, StopsHold, StoppedStaysStopped, Chat, Open, flags,
     attempt, history
<1>5. Explained'
  BY DEF TurnInv, TypeInv, Explained, DiscardExplained, InFlight, Flagged,
     AbortSeen, Chat, Open, flags, attempt, history
<1>6. Watched'
  BY DEF TurnInv, TypeInv, Watched, Running, AbortSeen, Chat, Open, flags, attempt,
     history
<1>7. Recorded'
  BY DEF TurnInv, TypeInv, Recorded, Placed, InFlight, Chat, Inside, Open, flags,
     attempt, history
<1> QED
  BY <1>1, <1>2, <1>3, <1>4, <1>5, <1>6, <1>7 DEF TurnInv

\* Nothing happens.
LEMMA StutterKeeps ==
  ASSUME TurnAssumption, TurnInv, UNCHANGED vars
  PROVE  TurnInv'
<1>1. TypeInv'
  BY DEF TurnInv, TypeInv, Phases, Answers, InFlight, MaxAttempts, vars, flags,
     attempt, host, history
<1>2. Budgeted'
  BY DEF TurnInv, TypeInv, Budgeted, Left, Cap, MaxStreamAttempts, vars, flags,
     attempt, host, history
<1>3. Placed'
  BY DEF TurnInv, TypeInv, Placed, Inside, InFlight, vars, flags, attempt, host,
     history
<1>4. StopsHold'
  BY DEF TurnInv, TypeInv, StopsHold, StoppedStaysStopped, Chat, vars, flags,
     attempt, host, history
<1>5. Explained'
  BY DEF TurnInv, TypeInv, Explained, DiscardExplained, InFlight, Flagged,
     AbortSeen, Chat, vars, flags, attempt, host, history
<1>6. Watched'
  BY DEF TurnInv, TypeInv, Watched, Running, AbortSeen, Chat, vars, flags, attempt,
     host, history
<1>7. Recorded'
  BY DEF TurnInv, TypeInv, Recorded, InFlight, Chat, vars, flags, attempt, host,
     history
<1> QED
  BY <1>1, <1>2, <1>3, <1>4, <1>5, <1>6, <1>7 DEF TurnInv

\* Every step, and every stutter, keeps the invariant.
LEMMA TurnStep ==
  ASSUME TurnAssumption, TurnInv, [Next]_vars
  PROVE  TurnInv'
<1>1. CASE UNCHANGED vars
  BY <1>1, StutterKeeps
<1>2. ASSUME NEW t \in Turns, Step(t)
      PROVE  TurnInv'
  BY <1>2, ReceiveKeeps, InjectKeeps, RefuseKeeps, BeginKeeps, SpawnKeeps,
     SpawnFailsKeeps, ExitKeeps, StreamBreakKeeps, FallbackKeeps, RetryStreamKeeps,
     RecoverKeeps, RecoveredKeeps, JudgeKeeps, JudgeInjectedKeeps, AnswerKeeps DEF Step
<1>3. ASSUME NEW t \in Turns, Reap(t)
      PROVE  TurnInv'
  BY <1>3, ReapKeeps
<1>4. ASSUME NEW k \in Keys, Stop(k) \/ QuickCommand(k)
      PROVE  TurnInv'
  BY <1>4, StopKeeps, QuickCommandKeeps
<1>5. ASSUME NEW c \in Chats, Interrupt(c)
      PROVE  TurnInv'
  BY <1>5, InterruptKeeps
<1>6. CASE Crash \/ Announce \/ Open
  BY <1>6, CrashKeeps, AnnounceKeeps, OpenKeeps
<1>7. CASE Finished
  BY <1>7, StutterKeeps DEF Finished
<1> QED
  BY <1>1, <1>2, <1>3, <1>4, <1>5, <1>6, <1>7 DEF Next

\* The inductive invariant of registry, flows and record holds always.
THEOREM TurnAlways == Spec => []TurnInv
<1>1. Init => TurnInv
  BY TurnAssumption, TurnInit
<1>2. TurnInv /\ [Next]_vars => TurnInv'
  BY TurnAssumption, TurnStep
<1> QED
  BY <1>1, <1>2, PTL DEF Spec

-----------------------------------------------------------------------------

\* The state of the turns, the registry and the record keeps its types; above all,
\* a turn starts no more than MaxAttempts processes.
THEOREM TurnTypeCorrect == Spec => []TypeInv
<1>1. TurnInv => TypeInv
  BY DEF TurnInv
<1> QED
  BY <1>1, TurnAlways, PTL

\* A stopped message is neither tried again nor answered while its stop is known,
\* whatever its process said; only a session rejected twice is told.
THEOREM StopsAreFinal == Spec => []StoppedStaysStopped
<1>1. TurnInv => StoppedStaysStopped
  BY DEF TurnInv, StopsHold
<1> QED
  BY <1>1, TurnAlways, PTL

\* No answer is thrown away without an order of the user.
THEOREM DiscardsAreExplained == Spec => []DiscardExplained
<1>1. TurnInv => DiscardExplained
  BY DEF TurnInv, Explained
<1> QED
  BY <1>1, TurnAlways, PTL

\* Only an early stop leaves a process that nobody watches, and two processes work
\* on a session only if one of them belongs to a stopped turn.
THEOREM ProcessesAreWatched == Spec => []ProcessesWatched
<1>1. TurnInv => ProcessesWatched
  <2> SUFFICES ASSUME TurnInv, NEW t \in Turns, NEW u \in Turns \ {t},
                      KeyOf[t] = KeyOf[u], Running(t), Running(u)
               PROVE  \E w \in {t, u} : stopped[w] # "no" \/ w \in early
    BY DEF TurnInv, Watched, ProcessesWatched
  <2>1. CASE pc[t] = "running" /\ pc[u] = "running"
    BY <2>1 DEF TurnInv, Placed, Inside, InFlight
  <2>2. CASE pc[t] # "running"
    BY <2>2 DEF TurnInv, Watched
  <2>3. CASE pc[u] # "running"
    BY <2>3 DEF TurnInv, Watched
  <2> QED
    BY <2>1, <2>2, <2>3
<1> QED
  BY <1>1, TurnAlways, PTL

\* The record names no turn that is over, and a lost turn is announced, or its notice
\* was sent and skipped by a network error.
THEOREM LostTurnsAreAnnounced == Spec => []LostIsAnnounced
<1>1. TurnInv => LostIsAnnounced
  BY DEF TurnInv, Recorded, LostIsAnnounced
<1> QED
  BY <1>1, TurnAlways, PTL
=============================================================================
